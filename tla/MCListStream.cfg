SPECIFICATION ListFairSpec
CONSTANTS
  w1 = w1
  k1 = k1
  a = a
  b = b
  c = c
  None = None
  Items <- MCItems
  Lists <- MCLists
  Writers = {w1}
  Browsers = {k1}
  HistoryLimit = 1
  Limits <- MCLimits
INVARIANTS
  ListIsItsHash
PROPERTIES
  PatchesChain
  CatchesUp
CHECK_DEADLOCK FALSE
