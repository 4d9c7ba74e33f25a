---------------------------- MODULE MCToolBatch ----------------------------
EXTENDS ToolBatch

\* Ids of the calls of assistant message r.
Uses(r) == {{}, {<<r, 1>>}, {<<r, 1>>, <<r, 2>>}}

Assistants(r) == {Message("assistant", t, u, {}, {}) : t \in {"none", "said"}, u \in Uses(r)}

\* User messages with or without text, and with results for any of the calls
\* so far: one with neither is empty.
Users(r) ==
    {Message("user", t, {}, s, {}) :
        t \in {"none", "said"}, s \in SUBSET ((1..(r-1)) \X (1..2))}

Rows(r) == Assistants(r) \cup Users(r)

\* Every history of at most three messages, however its results are placed.
MCHistories ==
    {<<>>} \cup {<<a>> : a \in Rows(1)} \cup {<<a, b>> : a \in Rows(1), b \in Rows(2)}
        \cup {<<a, b, c>> : a \in Rows(1), b \in Rows(2), c \in Rows(3)}

=============================================================================
