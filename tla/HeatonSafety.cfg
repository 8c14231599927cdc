CONSTANTS
  t1 = t1
  t2 = t2
  turbo = turbo
  absl = absl
  custom = custom
  user = user
  logs = logs
  errors = errors
  NoDir = NoDir
  NoSink = NoSink
  NoName = NoName
  Threads <- TwoThreads
  Libraries <- TwoLibraries
  Doubling = {absl}
  Users = {custom}
  Unnamed = {custom}
  UserSink = user
  Options <- AllOptions
  MaxSinks = 3
  Levels = 2
  Dirs = {logs, errors}
  MaxLogs = 2
  MaxFaults = 1
SPECIFICATION Spec
SYMMETRY Symmetry
INVARIANTS
  TypeOK
  InitializedOnce
  ReadyWhenOk
  DispatcherFirst
  CrashOnlyUnready
  EveryLogOnce
  DirectoriesFirst
CHECK_DEADLOCK FALSE
