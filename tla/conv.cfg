SPECIFICATION FairSpec
CONSTANTS
  Seeds <- ScanList
  Manual <- Vfo
  Callers = {c1, c2}
  Interleave = 1
  Hangtime = 2
  Debounce = 1
  NoCall = NoCall
  MaxTemps = 2
  MaxOps = 3
INVARIANTS TypeOK CallNeedsDwell LockoutsPersist
PROPERTIES EveryChannelScanned DwellReleases
CHECK_DEADLOCK FALSE
