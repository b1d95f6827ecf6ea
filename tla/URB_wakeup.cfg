SPECIFICATION FairSpec
CONSTANTS
  p1 = p1
  p2 = p2
  p3 = p3
  Proc = {p1, p2}
  MsgCount <- OneAuthor2
  MaxInNetwork = 4
  MaxCrashes = 0
  Strong = TRUE
  NodeSize = 1
  SlotReuse = FALSE
PROPERTY Validity
CHECK_DEADLOCK FALSE
