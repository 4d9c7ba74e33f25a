SPECIFICATION MCSpec
CONSTANTS
  u1 = u1
  l1 = l1
  Unified = {u1}
  Legacy = {l1}
  MaxRows = 3
  MaxBatch = 2
  Capacity = 1
INVARIANTS
  UnifiedNothingMissed
  LegacyNoRepeat
PROPERTIES
  UnifiedCatchesUp
CHECK_DEADLOCK FALSE
