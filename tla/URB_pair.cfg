SPECIFICATION Spec
CONSTANTS
  p1 = p1
  p2 = p2
  p3 = p3
  Proc = {p1, p2}
  MsgCount <- OneAuthor2
  MaxInNetwork = 4
  MaxCrashes = 0
  Strong = FALSE
  NodeSize = 1
  SlotReuse = FALSE
INVARIANTS FifoOrder RelayComplete OwnAccounting
CHECK_DEADLOCK FALSE
