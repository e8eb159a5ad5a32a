CONSTANTS
  Subscribers = {a, b, c, d}
  None = None
  Contracts <- SafeContracts
  MaxDepth = 3

SPECIFICATION Spec
SYMMETRY Symmetry

INVARIANTS
  TypeOK
  NoOverrun
  EverybodyIsCalledOnce
  EverybodyIsTold
  NoNextAfterEnd

CHECK_DEADLOCK FALSE
