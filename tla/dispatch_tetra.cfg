SPECIFICATION FairSpec
CONSTANTS
  Devices = {1, 2}
  Systems = {"net"}
  Ids = {0, 5, 6, 8, 9}
  Freqs = {1, 2}
  Slots = {1}
  KeyIds = {0}
  Radios = {9}
  Flaky = {}
  CallTimeout = 0
  EncFollow = 1
  HoldWindow = 1
  FlushCap = 2
  NoCall = NoCall
  NoHold = NoHold
  Tunable <- MCTunable
  EncMode <- MCEncMode
  Keys <- MCKeys
  Directory <- MCDirectory
  Updates <- MCUpdates
  Syncs <- MCSyncs
  Announced <- MCAnnounced
INVARIANTS
  TetraStartsOnClearChannel
PROPERTIES
  HoldsResolved
CHECK_DEADLOCK FALSE
