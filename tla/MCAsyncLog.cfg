SPECIFICATION Spec
CONSTANTS
  Sizes <- MCSizes
  Cap = 3
  DropAbove = 3
  MaxMsgs = 5
  Null = Null
INVARIANTS
  TypeOK
  BuffersSuffice
  NoLostWakeup
  InOrder
  Accounted
  SettledSurvive
PROPERTIES
  LogsInOrder
