SPECIFICATION Spec
CONSTANTS
  p1 = p1
  p2 = p2
  p3 = p3
  Proc = {p1, p2, p3}
  MsgCount <- OneAuthor1
  MaxInNetwork = 8
  MaxCrashes = 1
  Strong = TRUE
  NodeSize = 1
  SlotReuse = FALSE
SYMMETRY Silent
INVARIANTS RelayComplete UniformQuorum AgreementWhenQuiet
CHECK_DEADLOCK FALSE
