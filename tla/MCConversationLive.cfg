SPECIFICATION FairSpec
CONSTANTS
  m1 = m1
  m2 = m2
  Msgs = {m1, m2}
  None = None
  MaxGen = 3
  Limits <- MCLive
PROPERTIES
  Answered
  QueueDrains
CHECK_DEADLOCK FALSE
