\* A crash ends the process.
SPECIFICATION RecvSpec
CONSTANTS
  a1 = a1
  c1 = c1
  w1 = w1
  w2 = w2
  u1 = u1
  None = None
  Sockets <- BothSockets
  Kind <- BothKinds
  Workers <- Workers2
  Callers <- Callers1
  AcceptNum = 2
  PromptHandlers = FALSE
  WaitInCallback = FALSE
  MaxChunk = 2
  RecvMax = 1
  MaxEpoch = 2
  MaxArrived = 2
CONSTRAINT Bounded
SYMMETRY Symmetric
CHECK_DEADLOCK FALSE
INVARIANTS
  RecvTypeOK
  StreamInOrder
  StillThere
  UnreadBounded
