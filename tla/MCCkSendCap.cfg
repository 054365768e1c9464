\* A socket whose postDisconnect failed does nothing any more, and neither does
\* a pooled one after MaxEpoch connections.
SPECIFICATION Spec
CONSTANTS
  t1 = t1
  t2 = t2
  t3 = t3
  Threads <- Threads2
  Lens <- MCLens
  SendMax = 3
  BufNum = 2
  SizeMod = 16
  MaxNext = 4
  MaxEpoch = 2
  Accepted = TRUE
CHECK_DEADLOCK FALSE
PROPERTIES
  CapOnlyWhenFull
