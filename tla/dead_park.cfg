SPECIFICATION UnattendedSpec
CONSTANTS
  Order <- TwoSystems
  Candidates <- TwoCandidates
  Camps <- ConventionalOnly
  Watched <- TrunkedOnly
  Cached = TRUE
  MaxBackoff = 2
  Inbox = 1
  None = None
INVARIANT
  ParkedOnItsChannel
CHECK_DEADLOCK FALSE
