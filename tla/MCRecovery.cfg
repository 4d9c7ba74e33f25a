CONSTANTS
    p = p
    k = k
    Convs = {p, k}
    Top = {p}
    Readers = {}
    Limits <- MCLimits
SPECIFICATION FairSpec
INVARIANTS TurnNotForgotten  LateResumeHarmless CallsClosed
 
CHECK_DEADLOCK FALSE
