SPECIFICATION Spec
CONSTANTS
  Size = 6
  None = None
  Nodes <- MCNodes
  Forests <- MCForests
INVARIANTS NearestIsFound
CHECK_DEADLOCK FALSE
