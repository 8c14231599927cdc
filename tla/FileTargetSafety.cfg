CONSTANTS
  Hour = 2
  Day = 4
  Options <- ManyOptions
  NoWriter = NoWriter
  FirstTime = 4
  LastTime = 12
  MaxLate = 2
  MaxItems = 3
  MaxFaults = 1
SPECIFICATION Spec
INVARIANTS
  TypeOK
  QueueAscending
  BackOffIffNoWriter
  FileBudget
  BlindBounded
PROPERTIES
  NeverRemovesCurrent
  NotIntoThePast
  RetryRecovers
CHECK_DEADLOCK FALSE
