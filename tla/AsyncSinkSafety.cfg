CONSTANTS
  c1 = c1
  c2 = c2
  Callers <- TwoCallers
  MaxLogs = 3
  MinQueueLength = 2
  QueueLengths = {1, 3}
SPECIFICATION Spec
SYMMETRY CallerSymmetry
PROPERTY ImplementsBuffer
INVARIANTS
  TypeOK
  CallerOrder
  EveryLogAccounted
  MemoryBounded
  TargetUntilClosed
CHECK_DEADLOCK FALSE
