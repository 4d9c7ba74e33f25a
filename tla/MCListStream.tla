---------------------------- MODULE MCListStream ----------------------------
EXTENDS ListStream

CONSTANTS w1, k1, a, b, c

Item(id, title, pinned) ==
    [id |-> id, fields |-> IF pinned THEN [title |-> title, pin |-> 1] ELSE [title |-> title]]

\* From one of these to another, items are added, moved, changed and removed,
\* several at once, and optional fields come and go.
MCLists ==
    {<<>>,
     <<Item(a, 1, FALSE)>>,
     <<Item(b, 1, FALSE), Item(a, 2, TRUE)>>,
     <<Item(a, 2, FALSE), Item(c, 1, TRUE), Item(b, 2, FALSE)>>}

MCItems == {Item(id, title, pinned) : id \in {a, b, c}, title \in 1..2, pinned \in BOOLEAN}

MCLimits == [e \in Events |-> IF e = "commit" THEN 2 ELSE 1]

=============================================================================
