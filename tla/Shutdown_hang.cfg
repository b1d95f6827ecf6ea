SPECIFICATION FairSpec
CONSTANTS
  MaxSends = 1
  MaxSignals = 1
  MaxVisits = 2
  MaxLines = 1
PROPERTY EndsOrFallsSilent
CHECK_DEADLOCK FALSE
