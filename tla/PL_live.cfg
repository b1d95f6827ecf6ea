SPECIFICATION FairSpec
CONSTANTS
  MaxSeq = 1
  StopAcksAfter = 1
  ForgetAfter = 2
  Strong = FALSE
  ServerFirst = FALSE
PROPERTIES ImplementsLink EventuallyAcked AcksStop
