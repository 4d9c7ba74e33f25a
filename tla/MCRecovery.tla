---------------------------- MODULE MCRecovery ----------------------------
EXTENDS Recovery

CONSTANTS p, k

\* Enough for an upgrade whose resume is itself cut short by a second one.
MCLimits ==
    [e \in Events |-> CASE e = "boot" -> 3
                       [] e \in {"send", "mark", "upset"} -> 2
                       [] e = "call" -> 1]

=============================================================================
