---------------------------- MODULE MCTurnEnds ----------------------------
EXTENDS TurnEnds

CONSTANTS j1, announcer, other

\* One job, two messages and one of each fault.
MCLimits == [e \in Events |-> IF e = "send" THEN 2 ELSE 1]

=============================================================================
