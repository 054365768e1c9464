\* Where every accept is lost and every socket leaked, nothing is left to do.
SPECIFICATION Spec
CONSTANTS
  a1 = a1
  a2 = a2
  c1 = c1
  w1 = w1
  w2 = w2
  u1 = u1
  u2 = u2
  None = None
  Sockets <- ConnectSocket
  Kind <- ConnectKind
  Workers <- Workers2
  Callers <- Callers1
  AcceptNum = 0
  PromptHandlers = TRUE
  WaitInCallback = TRUE
CHECK_DEADLOCK FALSE
PROPERTIES
  DisconnectWaitReturns
