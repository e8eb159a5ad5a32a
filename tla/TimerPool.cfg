CONSTANTS
  s = s
  t = t
  Timers = {s, t}
  Kinds <- MCKinds
  Infinite = 9
  Capacity = 1

SPECIFICATION Spec

INVARIANTS
  TypeOK
  OneLateFiring
  FiresAsOften
  KeepAliveIsKept

PROPERTIES
  RunsOut
  CloseReturns

CHECK_DEADLOCK FALSE
