SPECIFICATION MCSpec
CONSTANTS
  r = r
  a = a
  b = b
  c = c
  seen = seen
  unseen = unseen
  None = None
  Nodes = {r, a, b}
  Root = r
  Props = {seen}
  Values = {0, 1}
  Default = 0
  NodeOf <- MCNodeOf
  VisibleProps = {seen}
  Flagged = {b}
  Movable = {b}
  Owned = None
  OwnedBy = None
  Owner <- MCOwner
  Stack = {1, 2, 3, 4}
INVARIANTS TypeOK Agreement ReachableIsAlive OneParent Placed
PROPERTIES DrawsSnapshots OthersKeepTheirOrder
CHECK_DEADLOCK FALSE
