CONSTANTS
  Hour = 2
  Day = 4
  Options <- HourlyOptions
  NoWriter = NoWriter
  FirstTime = 4
  LastTime = 12
  MaxLate = 2
  MaxItems = 3
  MaxFaults = 1
SPECIFICATION Spec
INVARIANTS
  FailedOpenRetried
CHECK_DEADLOCK FALSE
