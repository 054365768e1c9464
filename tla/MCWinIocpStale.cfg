\* Where every accept is lost and every socket leaked, nothing is left to do.
SPECIFICATION ReuseSpec
CONSTANTS
  a1 = a1
  a2 = a2
  c1 = c1
  w1 = w1
  w2 = w2
  u1 = u1
  u2 = u2
  None = None
  Sockets <- OneOfEach
  Kind <- OneKind
  Workers <- Workers2
  Callers <- Callers2
  AcceptNum = 1
  PromptHandlers = FALSE
  WaitInCallback = TRUE
SYMMETRY SymmetricThreads
CHECK_DEADLOCK FALSE
INVARIANTS
  OneHolder
  PoolAtRest
  EnabledIsUp
  NeverDeaf
  OneReceive
  ReceiveAfterOpen
