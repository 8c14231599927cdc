CONSTANTS
  c1 = c1
  c2 = c2
  Callers <- OneCaller
  MaxLogs = 1
  MinQueueLength = 2
  QueueLengths = {2}
SPECIFICATION Spec
INVARIANT RunningSinkTakesLogs
CHECK_DEADLOCK FALSE
