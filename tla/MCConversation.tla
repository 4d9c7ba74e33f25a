--------------------------- MODULE MCConversation ---------------------------
EXTENDS Conversation, TLC

Bounds(events) == [e \in Events |-> IF e \in events THEN 1 ELSE 0]

(* Tool calls, failed requests, cancellation and failed writes.            *)
MCFaults == Bounds({"round", "error", "stop", "fault", "flag"})
(* Nothing fails: what the fair specification promises.                    *)
MCLive == Bounds({"round", "stop"})
(* The working directory changes while loops are reset, fail or expire.    *)
MCMove == Bounds({"reset", "fault", "nudge", "expire", "move"})

Symmetry == Permutations(Msgs)
=============================================================================
