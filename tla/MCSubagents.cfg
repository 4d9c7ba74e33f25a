SPECIFICATION Spec
CONSTANTS
  k1 = k1
  Kids = {k1}
  User = User
  None = None
  Limits <- MCLimits
INVARIANTS
  StaysStopped
  ReportedWhenDue
CHECK_DEADLOCK FALSE
