SPECIFICATION FairSpec
CONSTANTS
  MaxSends = 1
  MaxSignals = 2
  MaxVisits = 1
  MaxLines = 2
INVARIANTS TypeOK OutputComplete AbortOnlyInStartup OneLogger
PROPERTY IdleTerminates
CHECK_DEADLOCK FALSE
