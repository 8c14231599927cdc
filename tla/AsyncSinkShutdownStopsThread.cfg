CONSTANTS
  c1 = c1
  c2 = c2
  Callers <- OneCaller
  MaxLogs = 1
  MinQueueLength = 2
  QueueLengths = {2}
SPECIFICATION FairSpec
PROPERTY ShutdownStopsThread
CHECK_DEADLOCK FALSE
