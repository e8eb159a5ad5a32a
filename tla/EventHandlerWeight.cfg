SPECIFICATION Spec
CONSTANTS
  e1 = e1
  e2 = e2
  e3 = e3
  Null = Null
  Events <- MCEvents
  Weight <- MCWeight
  Capacity = 1
  FrameWeight = 2
PROPERTIES WeightlessWait
CHECK_DEADLOCK FALSE
