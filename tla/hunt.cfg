SPECIFICATION FairSpec
CONSTANTS
  Order <- TwoSystems
  Candidates <- OneChannelEach
  Camps <- ConventionalOnly
  Watched <- TrunkedOnly
  Cached = FALSE
  MaxBackoff = 2
  Inbox = 1
  None = None
INVARIANT
  TypeOK
PROPERTIES
  EverySystemHunted
  HeldIsLeftAlone
  CampedUntilTraffic
  WatchedChannelIsLeft
CHECK_DEADLOCK FALSE
