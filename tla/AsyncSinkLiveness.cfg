CONSTANTS
  c1 = c1
  c2 = c2
  Callers <- TwoCallers
  MaxLogs = 2
  MinQueueLength = 2
  QueueLengths = {2}
SPECIFICATION FairSpec
PROPERTIES
  BatchDelivered
  AwakeWorkerDelivers
  InitializeReturnsUnlessMissed
  ShutdownReturnsUnlessParking
CHECK_DEADLOCK FALSE
