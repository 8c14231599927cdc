CONSTANTS
  t1 = t1
  t2 = t2
  s1 = s1
  s2 = s2
  NoSink = NoSink
  Threads <- TwoThreads
  Sinks <- TwoSinks
  Levels = 2
  Stamps = {1, 2, 4}
  Options <- TwoOptions
  MaxLogs = 1
SPECIFICATION Spec
SYMMETRY Symmetry
INVARIANTS
  TypeOK
  SinksDistinct
  AtMostOnce
  SameOrder
  FanOutComplete
  NullOnlyGlobal
  FlushHorizon
PROPERTIES
  ImplementsRouter
CHECK_DEADLOCK FALSE
