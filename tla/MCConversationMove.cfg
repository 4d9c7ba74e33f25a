SPECIFICATION Spec
CONSTANTS
  m1 = m1
  m2 = m2
  Msgs = {m1, m2}
  None = None
  MaxGen = 5
  Limits <- MCMove
INVARIANTS
  NoticeKnown
SYMMETRY Symmetry
CHECK_DEADLOCK FALSE
