SPECIFICATION FairSpec
CONSTANTS
  Types = {"thinking", "text"}
  MaxGen = 2
  Text <- MCText
  MaxMessages = 1
INVARIANTS
  NothingLost
  SeqIsTextOrder
PROPERTY
  Delivered
CHECK_DEADLOCK FALSE
