SPECIFICATION Spec
CONSTANTS
  Size = 6
  None = None
  Nodes <- MCNodes
  Forests <- MCForests
INVARIANTS AnswerIsCommon NearestUnlessSteep
PROPERTIES SearchEnds
CHECK_DEADLOCK FALSE
