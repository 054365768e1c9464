SPECIFICATION Spec
CONSTANTS
  Times = {1, 2, 3, 4, 5, 6}
  Names = {0, 1}
  NameOf <- LocalTime
  SecondsPerName = 2
  Lens = {2}
  MaxLen = 2
  RollSize = 2
  FlushInterval = 1
  CheckRollTimes = 1
  SecondsPerRoll = 3
  MaxAllowed = 9
CONSTRAINT Bounded
INVARIANTS
  TypeOK
  SizeBounded
  DayBounded
  FlushBounded
