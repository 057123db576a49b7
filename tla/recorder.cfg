SPECIFICATION FairSpec
CONSTANTS
  Devices = {1}
  Kinds <- SomeKinds
  MaxCalls = 2
  MaxRolls = 1
  Buffer = 2
  NoCall = NoCall
INVARIANTS
  TypeOK
  FencedAudio
  OversAnnouncedOnce
PROPERTIES
  TailRecorded
  LiveCallsKeepRecording
  KeepsRecordings
  DrainingFinishes
CHECK_DEADLOCK FALSE
