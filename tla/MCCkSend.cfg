\* A socket whose postDisconnect failed does nothing any more, and neither does
\* a pooled one after MaxEpoch connections.
SPECIFICATION Spec
CONSTANTS
  t1 = t1
  t2 = t2
  t3 = t3
  Threads <- Threads3
  Lens <- MCLens
  SendMax = 4
  BufNum = 2
  SizeMod = 32
  MaxNext = 5
  MaxEpoch = 2
  Accepted = TRUE
SYMMETRY Symmetric
CHECK_DEADLOCK FALSE
INVARIANTS
  TypeOK
  CountsUnsent
  OneSender
  NotStranded
  StreamIntact
  ToldInOrder
  SetWhileConnected
PROPERTIES
  CapOnlyWhenFullIfSettled
