SPECIFICATION FairSpec
CONSTANTS
  Kinds = {"cd", "cd_abs", "say", "say_end", "bash", "compact", "unknown"}
  Histories <- MCHistories
  MaxContext = 3
INVARIANTS
  RequestRepaired
  NotRunIsTrue
  SequentialOrder
  RunsInItsDirectory
PROPERTIES
  CancelledEnds
CHECK_DEADLOCK FALSE
