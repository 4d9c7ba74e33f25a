-------------------------- MODULE MCMessageStream --------------------------
EXTENDS MessageStream

(* Connections share the rows, the publications and the manager, which     *)
(* other requests move as well (Commit, Notify, Activate, Cleanup), and    *)
(* nothing else: one client at a time is enough, unified or legacy.        *)
Alone(c) == \A d \in Clients \ {c} : pc[d] = "away" /\ got[d] = {} /\ before[d] = 0

MCNext == Next /\ \A c \in Clients : pc'[c] = "away" \/ Alone(c)

(* Connecting, the only step this leaves out, is under no fairness.        *)
MCSpec == /\ Init /\ [][MCNext]_vars
          /\ \A b \in Batches : WF_vars(Notify(b))
          /\ \A c \in Clients : WF_vars(Handler(c))
=============================================================================
