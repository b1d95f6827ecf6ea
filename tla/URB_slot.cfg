SPECIFICATION Spec
CONSTANTS
  p1 = p1
  p2 = p2
  p3 = p3
  Proc = {p1, p2}
  MsgCount <- OneAuthor5
  MaxInNetwork = 4
  MaxCrashes = 0
  Strong = TRUE
  NodeSize = 1
  SlotReuse = TRUE
INVARIANT OwnNotLost
CHECK_DEADLOCK FALSE
