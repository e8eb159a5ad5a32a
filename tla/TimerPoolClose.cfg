CONSTANTS
  s = s
  t = t
  Timers = {s, t}
  Kinds <- SlowKinds
  Infinite = 9
  Capacity = 1

SPECIFICATION Spec

PROPERTIES
  CloseReturns

CHECK_DEADLOCK FALSE
