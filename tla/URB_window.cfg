SPECIFICATION FairSpec
CONSTANTS
  p1 = p1
  p2 = p2
  p3 = p3
  Proc = {p1, p2}
  MsgCount <- ThreeAndOne
  MaxInNetwork = 4
  MaxCrashes = 0
  Strong = TRUE
  NodeSize = 1
  SlotReuse = FALSE
INVARIANTS TypeOK NoCreation WindowBound OwnNotLost
PROPERTIES DeliveredOrStranded UniformAgreement ImplementsBroadcast
CHECK_DEADLOCK FALSE
