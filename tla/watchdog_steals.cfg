SPECIFICATION Spec
CONSTANTS
  Handles <- EightHandles
  Budget = 4
  MaxFaults = 3
  MaxErrors = 0
  None = None
PROPERTY
  InUseLeftAlone
CHECK_DEADLOCK FALSE
