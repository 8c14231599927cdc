CONSTANTS
  t1 = t1
  t2 = t2
  builtin = builtin
  custom = custom
  s1 = s1
  s2 = s2
  n1 = n1
  n2 = n2
  NoSink = NoSink
  NoName = NoName
  Threads <- TwoThreads
  Upstreams <- TwoUpstreams
  Sinks <- TwoSinks
  Names <- TwoNames
  Fallible = {custom}
SPECIFICATION Spec
SYMMETRY Symmetry
INVARIANTS
  TypeOK
  MapsInverse
  LibraryAgrees
PROPERTY ImplementsRegistry
CHECK_DEADLOCK FALSE
