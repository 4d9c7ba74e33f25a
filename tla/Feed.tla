-------------------------------- MODULE Feed --------------------------------
(***************************************************************************)
(* What a SubPub subscription promises its reader, without queues or       *)
(* mutexes: messages owed to it arrive in order and without holes; a       *)
(* subscription that has not been cut is never skipped; and the reader is  *)
(* told of an end only after a cut.                                        *)
(***************************************************************************)
EXTENDS Integers, Sequences

CONSTANTS Subs, Indexes, MaxMessages

VARIABLES joined, joinedAt, owed, delivered, cut, ended, published

feedVars == <<joined, joinedAt, owed, delivered, cut, ended, published>>

Init ==
  /\ joined = [s \in Subs |-> FALSE]
  /\ joinedAt = [s \in Subs |-> 0]
  /\ owed = [s \in Subs |-> <<>>]
  /\ delivered = [s \in Subs |-> <<>>]
  /\ cut = [s \in Subs |-> FALSE]
  /\ ended = [s \in Subs |-> FALSE]
  /\ published = 0

Join(s, i) ==
  /\ ~joined[s]
  /\ joined' = [joined EXCEPT ![s] = TRUE]
  /\ joinedAt' = [joinedAt EXCEPT ![s] = i]
  /\ UNCHANGED <<owed, delivered, cut, ended, published>>

(* A message with index i, or for everyone.  Those that asked for it and   *)
(* have not been cut are owed it; one that was cut may be.                 *)
Emit(toAll, i) ==
  LET asked == {s \in Subs : joined[s] /\ (toAll \/ joinedAt[s] < i)}
  IN  /\ published < MaxMessages
      /\ published' = published + 1
      /\ \E to \in SUBSET asked :
           /\ \A s \in asked : ~cut[s] => s \in to
           /\ owed' = [s \in Subs |-> IF s \in to
                                      THEN Append(owed[s], published + 1)
                                      ELSE owed[s]]
      /\ UNCHANGED <<joined, joinedAt, delivered, cut, ended>>

(* The next message owed is delivered; also to one that was cut, as long   *)
(* as its reader has not seen the end.                                     *)
Deliver(s) ==
  /\ ~ended[s]
  /\ Len(delivered[s]) < Len(owed[s])
  /\ delivered' = [delivered EXCEPT ![s] = Append(@, owed[s][Len(@) + 1])]
  /\ UNCHANGED <<joined, joinedAt, owed, cut, ended, published>>

Cut(s) ==
  /\ joined[s]
  /\ cut' = [cut EXCEPT ![s] = TRUE]
  /\ UNCHANGED <<joined, joinedAt, owed, delivered, ended, published>>

SeeEnd(s) ==
  /\ cut[s]
  /\ ended' = [ended EXCEPT ![s] = TRUE]
  /\ UNCHANGED <<joined, joinedAt, owed, delivered, cut, published>>

Next ==
  \/ \E s \in Subs, i \in Indexes : Join(s, i)
  \/ \E i \in Indexes : Emit(FALSE, i)
  \/ Emit(TRUE, 0)
  \/ \E s \in Subs : Deliver(s) \/ Cut(s) \/ SeeEnd(s)

Spec == Init /\ [][Next]_feedVars
=============================================================================
