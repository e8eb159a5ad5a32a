CONSTANTS
  Main = main
  Threads = {}
  Timers = {m}
  Fibers = {f, g}
  Windows = {v, w}
  Capacity = 1
  StartWithoutWindows = FALSE

SPECIFICATION Spec

INVARIANTS
  TypeOK
  NoLostWakeup
  ClearedAlone

PROPERTIES
  NothingRunsAfterClose
  ScheduledIsRun
  LastWindowCloses
  ShutdownReturns

CHECK_DEADLOCK FALSE
