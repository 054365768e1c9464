\* A crash ends the process.
SPECIFICATION RecvSpec
CONSTANTS
  a1 = a1
  c1 = c1
  w1 = w1
  w2 = w2
  u1 = u1
  None = None
  Sockets <- OneSocket
  Kind <- OneKind
  Workers <- Workers2
  Callers <- Callers1
  AcceptNum = 0
  PromptHandlers = TRUE
  WaitInCallback = FALSE
  MaxChunk = 2
  RecvMax = 1
  MaxEpoch = 2
  MaxArrived = 2
CONSTRAINT Bounded
SYMMETRY Symmetric
CHECK_DEADLOCK FALSE
INVARIANTS
  OwnBytes
