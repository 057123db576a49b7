SPECIFICATION Spec
CONSTANTS
  Devices = {}
  Flaky = {}
  Systems = {"tet", "dmr"}
  Ids = {0, 4, 5, 8, 9}
  Freqs = {1}
  Slots = {0}
  KeyIds = {0}
  Editable = {5}
  RadiosCap = 2
  PendingCap = 1
  NoCall = NoCall
  AnySystem = AnySystem
  Absent = Absent
  Tunable <- MCTunable
  EncMode <- MCEncMode
  Keys <- MCKeys
  Directory <- MCDirectory
  Announced <- MCAnnounced
  Catalogued <- MCCatalogued
  HoldTargets <- MCHoldTargets
  AvoidTargets <- MCAvoidTargets
  Patches <- MCPatches
INVARIANTS
  TypeOK
  RadiosAreNotTalkgroups
PROPERTIES
  GatesDecideAsWanted
  EmergencyPassesGates
CHECK_DEADLOCK FALSE
