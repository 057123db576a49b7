SPECIFICATION Spec
CONSTANTS
  Devices = {1}
  Kinds <- SkippingKinds
  MaxCalls = 2
  MaxRolls = 0
  Buffer = 4
  NoCall = NoCall
INVARIANT
  FinishedOnceBothArrived
CHECK_DEADLOCK FALSE
