SPECIFICATION FairSpec
CONSTANTS
  Handles <- EightHandles
  Budget = 4
  MaxFaults = 4
  MaxErrors = 1
  None = None
INVARIANTS
  TypeOK
  FatalNeedsFailures
PROPERTIES
  StreamRecovers
  CalmRetryHeals
CHECK_DEADLOCK FALSE
