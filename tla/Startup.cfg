SPECIFICATION Spec
CONSTANTS
  a = a
  b = b
  Proc = {a, b}
  MaxLines = 3
  MaxId = 4
SYMMETRY Symmetry
INVARIANTS Wired SameMajority
CHECK_DEADLOCK FALSE
