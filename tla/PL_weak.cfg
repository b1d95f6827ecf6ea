SPECIFICATION Spec
CONSTANTS
  MaxSeq = 2
  StopAcksAfter = 1
  ForgetAfter = 2
  Strong = FALSE
  ServerFirst = FALSE
INVARIANTS TypeOK AckedIsDelivered
PROPERTIES RedeliveryNeedsSilence RefinesLink
