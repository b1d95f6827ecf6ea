SPECIFICATION Spec
CONSTANTS
  MaxSeq = 1
  StopAcksAfter = 1
  ForgetAfter = 2
  Strong = FALSE
  ServerFirst = TRUE
INVARIANT AckedIsDelivered
