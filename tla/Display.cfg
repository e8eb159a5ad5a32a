CONSTANTS
  e1 = e1
  e2 = e2
  e3 = e3
  w = w
  Events <- MCEvents
  Weight <- MCWeight
  Target <- MCTarget
  Null = Null
  Capacity = 1
  FrameWeight = 2
  Windows = {w}
  NoWindow = NoWindow
  First = w

SPECIFICATION Spec

INVARIANTS
  QuietIsCurrent

PROPERTIES
  ChangeIsDrawn

CHECK_DEADLOCK FALSE
