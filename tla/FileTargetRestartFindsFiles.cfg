CONSTANTS
  Hour = 2
  Day = 4
  Options <- HourlyOptions
  NoWriter = NoWriter
  FirstTime = 4
  LastTime = 12
  MaxLate = 2
  MaxItems = 3
  MaxFaults = 0
SPECIFICATION Spec
PROPERTIES
  RestartFindsFiles
CHECK_DEADLOCK FALSE
