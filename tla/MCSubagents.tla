----------------------------- MODULE MCSubagents -----------------------------
EXTENDS Subagents

CONSTANT k1

MCLimits == [e \in Events |-> IF e \in {"send", "delegate", "stop"} THEN 2 ELSE 1]
=============================================================================
