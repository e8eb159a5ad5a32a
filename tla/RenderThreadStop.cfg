SPECIFICATION Spec
CONSTANTS
  Windows = {w1, w2}
  NoWindow = NoWindow
PROPERTIES StopJoins
CHECK_DEADLOCK FALSE
