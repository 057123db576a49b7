SPECIFICATION Spec
CONSTANTS
  Seeds <- OneChannel
  Manual <- Vfo
  Callers = {c1}
  Interleave = 0
  Hangtime = 2
  Debounce = 1
  NoCall = NoCall
  MaxTemps = 1
  MaxOps = 2
INVARIANT RemovalIsFine
CHECK_DEADLOCK FALSE
