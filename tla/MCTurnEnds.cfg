SPECIFICATION FairSpec
CONSTANTS
  j1 = j1
  announcer = announcer
  other = other
  User = User
  None = None
  Jobs = {j1}
  Settlers = {announcer, other}
  Announcer = announcer
  Limits <- MCLimits
INVARIANTS
  AnnouncedOnce
PROPERTIES
  NoFalseFinish
  JobReported
  OwedSettles
CHECK_DEADLOCK FALSE
