SPECIFICATION FairSpec
CONSTANTS
  Devices = {1, 2}
  Callers = {chain, api}
  MaxCalls = 2
  NoCall = NoCall
  NoGrant = NoGrant
  Tunable <- MCTunable
  Grants <- MCGrants
INVARIANTS
  TypeOK
  EndedOnce
  MirrorNamesLiveCall
PROPERTIES
  KeepsSessions
  ShutdownReportsEveryCall
CHECK_DEADLOCK FALSE
