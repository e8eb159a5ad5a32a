SPECIFICATION Spec
CONSTANTS
  Windows = {w1, w2, w3}
  NoWindow = NoWindow
INVARIANTS TypeOK NoLostRequest RoundRobin DrawnIsAlive
PROPERTIES RequestIsDrawn
CHECK_DEADLOCK FALSE
