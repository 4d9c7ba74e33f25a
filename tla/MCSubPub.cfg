SPECIFICATION FairSpec
CONSTANTS
  s1 = s1
  s2 = s2
  None = None
  Subs = {s1, s2}
  Indexes = {1, 2}
  Capacity = 1
  MaxMessages = 3
INVARIANTS
  NoSilentLoss
PROPERTIES
  FeedSpec
  DeliveredOrEnded
CHECK_DEADLOCK FALSE
