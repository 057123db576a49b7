SPECIFICATION FairSpec
CONSTANTS
  Devices = {1, 2}
  Systems = {"meta", "drop"}
  Ids = {0, 1, 2, 9}
  Freqs = {1, 2, 3}
  Slots = {0}
  KeyIds = {0, 7}
  Radios = {9}
  Flaky = {2}
  CallTimeout = 1
  EncFollow = 1
  HoldWindow = 1
  FlushCap = 1
  NoCall = NoCall
  NoHold = NoHold
  Tunable <- MCTunable
  EncMode <- MCEncMode
  Keys <- MCKeys
  Directory <- MCDirectory
  Updates <- MCUpdates
  Syncs <- MCSyncs
  Announced <- MCAnnounced
INVARIANTS
  TypeOK
  OneCallPerTalkgroup
  CallInsideWindow
PROPERTIES
  EventsAccountForPool
  PreemptionIsLastResort
  MetadataWindowNeverExtended
  MetadataCallsReleased
  SilentCallsReaped
CHECK_DEADLOCK FALSE
