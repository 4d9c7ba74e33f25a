--------------------------- MODULE RequestProofs ----------------------------
(***************************************************************************)
(* Proofs about what a request to the model holds.                         *)
(*                                                                         *)
(* ToolBatch: what the tool rounds of a run keep, for any history, any     *)
(* batch of calls and any moment of cancellation: a result that says a     *)
(* tool was not run is true, calls of a sequential tool keep their order,  *)
(* and every tool runs in the directory of the change_dir before it.  None *)
(* of this depends on the messages.  About these, whatever the history:    *)
(* every request is repaired.                                              *)
(*                                                                         *)
(* Compaction: what the records of a transcript leave in view, for any     *)
(* number of rows, records, collapses and tools.  The argument goes record *)
(* by record: a view that fits its rows (every item shows its row, items   *)
(* are in order, outputs follow their calls, nothing is left out but       *)
(* traces of compacting) still fits them when a record is applied to it,   *)
(* as long as the record hides only nudges and closed calls that compact.  *)
(* What the agent validated is of that kind, and stays so.                 *)
(***************************************************************************)
EXTENDS ToolBatch, Compaction, WellFoundedInduction, FiniteSetTheorems, TLAPS

(* The control state.                                                      *)
ControlOK ==
  /\ phase \in {"request", "response", "group", "barrier", "running", "done"}
  /\ calls \in Seq(Kinds)
  /\ first \in 1..(Len(calls) + 1) /\ last \in 1..(Len(calls) + 1)
  /\ run \in BOOLEAN /\ failed \in BOOLEAN /\ cancelled \in BOOLEAN
  /\ worker \in [DOMAIN calls -> {"none", "ready", "waiting", "done"}]
  /\ tool \in [DOMAIN calls -> {"none", "running", "returned"}]
  /\ out \in [DOMAIN calls -> {"none", "ok", "error", "end", "canceled"}]
  /\ result \in [DOMAIN calls -> {"none", "ok", "error", "end", "canceled", "abandoned"} \cup NotRun]

(* A group is under way; its calls.                                        *)
InBatch == phase \in {"barrier", "running"}
Group == first..(last - 1)

Untouched(i) == worker[i] = "none" /\ result[i] = "none"

(* Which calls have been reached: those before the group, the group, and   *)
(* none after it.                                                          *)
PlaceInv ==
  /\ phase = "group" => \A i \in DOMAIN calls : i >= first => Untouched(i)
  /\ InBatch => first < last /\ GroupEnds(last)
  /\ InBatch => \A i \in DOMAIN calls : i >= last => Untouched(i)
  /\ \A i \in DOMAIN calls : worker[i] \in {"ready", "waiting"} => InBatch /\ i \in Group
  /\ phase = "barrier" => \A i \in Group : worker[i] = "ready"

(* How the worker, the tool and the result of a call go together.          *)
WorkInv(i) ==
  /\ worker[i] \in {"none", "ready"} => tool[i] = "none"
  /\ worker[i] \in {"ready", "waiting"} => result[i] = "none"
  /\ tool[i] # "returned" => out[i] = "none"
  /\ result[i] \in {"ok", "end"} => out[i] = result[i]
  /\ IsCd(i) => out[i] # "end"
  /\ result[i] \in NotRun => tool[i] = "none"
  /\ ~cancelled /\ worker[i] = "done" => tool[i] # "running"

(* While a group runs, no tool of an earlier one does, and a call of a     *)
(* sequential tool that got past its start has its siblings behind it.     *)
OrderInv ==
  /\ InBatch => \A i \in DOMAIN calls : i < first => tool[i] # "running"
  /\ phase = "running" /\ ~run => \A i \in Group : tool[i] = "none"
  /\ phase = "running" /\ run =>
       \A i, k \in Group :
          i < k /\ IsSequential(i) /\ IsSequential(k) /\ worker[k] # "ready"
            => worker[i] = "done"

(* LastCd, of any batch of calls.                                          *)
LastIn(S) == IF S = {} THEN 0 ELSE CHOOSE i \in S : \A j \in S : j <= i
CdBefore(cs, k) == LastIn({i \in 1..(k-1) : cs[i] \in {"cd", "cd_abs"}})

(* The directory between groups, while a group runs, and for each tool.    *)
DirInv ==
  /\ phase = "group" /\ ~failed =>
       dir = CdBefore(calls, first) /\ \A i \in DOMAIN calls : IsCd(i) => tool[i] # "running"
  /\ InBatch /\ failed => calls[first] = "cd_abs"
  /\ InBatch => IF IsCd(first) /\ out[first] = "ok" THEN dir = first
                                                    ELSE ~failed => dir = CdBefore(calls, first)
  /\ \A i, k \in DOMAIN calls :
        tool[i] = "running" /\ tool[k] = "running" /\ IsCd(i) => i = k
  /\ \A k \in DOMAIN calls :
        tool[k] = "running" /\ calls[k] # "cd_abs" => dir = CdBefore(calls, k)

(* The inductive invariant.                                                *)
IInv ==
  /\ ControlOK /\ PlaceInv /\ (\A i \in DOMAIN calls : WorkInv(i))
  /\ OrderInv /\ SequentialOrder
  /\ DirInv

-----------------------------------------------------------------------------
(* Lemmas about groups.                                                    *)

(* A set of positions that is not empty has a last one.                    *)
LEMMA LastPosition ==
  ASSUME NEW n \in Nat, NEW S \in SUBSET (1..n), S # {}
  PROVE  \E m \in S : \A j \in S : j <= m
<1> DEFINE T == {n - j : j \in S}
<1>1. T \subseteq Nat /\ T # {}
  <2>1. \A j \in S : n - j \in Nat
    OBVIOUS
  <2> QED
    BY <2>1
<1>2. PICK x \in T : \A y \in T : ~(<<y, x>> \in OpToRel(<, Nat))
  BY <1>1, WFMin, NatLessThanWellFounded
<1>3. PICK m \in S : x = n - m
  OBVIOUS
<1>4. ASSUME NEW j \in S PROVE j <= m
  <2>1. n - j \in T /\ n - j \in Nat /\ x \in Nat
    BY <1>1
  <2>2. ~(n - j < x)
    BY <1>2, <2>1 DEF OpToRel
  <2> QED
    BY <2>1, <2>2, <1>3
<1> QED
  BY <1>4

(* The directory after a group: that of its change_dir, or the one before. *)
LEMMA GroupDirectory ==
  ASSUME ControlOK, first <= Len(calls), NEW e \in (first + 1)..(Len(calls) + 1), GroupEnds(e)
  PROVE  /\ IsCd(first) => e = first + 1 /\ CdBefore(calls, e) = first
         /\ ~IsCd(first) =>
              /\ \A i \in first..(e-1) : ~IsCd(i)
              /\ \A k \in first..e : CdBefore(calls, k) = CdBefore(calls, first)
<1>1. first \in Nat /\ e \in Nat /\ first >= 1 /\ first < e
  BY DEF ControlOK
<1>2. CASE IsCd(first)
  <2>1. e = first + 1
    BY <1>2 DEF GroupEnds
  <2> DEFINE before == {i \in 1..(e-1) : calls[i] \in {"cd", "cd_abs"}}
  <2>2. first \in before /\ \A j \in before : j <= first
    BY <1>1, <1>2, <2>1 DEF IsCd
  <2>3. \A m \in before : (\A j \in before : j <= m) => m = first
    BY <1>1, <2>2
  <2>4. CdBefore(calls, e) =
          IF before = {} THEN 0 ELSE CHOOSE i \in before : \A j \in before : j <= i
    BY DEF CdBefore, LastIn
  <2> HIDE DEF before
  <2>5. (CHOOSE i \in before : \A j \in before : j <= i) = first
    BY <2>2, <2>3
  <2> QED
    BY <1>2, <2>1, <2>2, <2>4, <2>5
<1>3. CASE ~IsCd(first)
  <2>1. \A i \in first..(e-1) : ~IsCd(i)
    BY <1>3 DEF GroupEnds
  <2>2. ASSUME NEW k \in first..e
        PROVE  CdBefore(calls, k) = CdBefore(calls, first)
    <3>1. {i \in 1..(k-1) : calls[i] \in {"cd", "cd_abs"}}
            = {i \in 1..(first-1) : calls[i] \in {"cd", "cd_abs"}}
      BY <1>1, <2>1 DEF IsCd
    <3> QED
      BY <3>1 DEF CdBefore
  <2> QED
    BY <1>3, <2>1, <2>2
<1> QED
  BY <1>2, <1>3

(* Where the calls of a group that is under way are, and what runs.        *)
LEMMA GroupFacts ==
  ASSUME IInv, InBatch
  PROVE  /\ first \in Nat /\ last \in Nat /\ 1 <= first /\ first < last
         /\ last <= Len(calls) + 1 /\ first \in Group /\ Group \subseteq DOMAIN calls
         /\ \A i \in DOMAIN calls : tool[i] = "running" => i \in Group
         /\ \A i \in DOMAIN calls : i >= last => worker[i] = "none" /\ tool[i] = "none"
         /\ \A i \in Group : IsCd(i) => i = first /\ last = first + 1
<1>1. ControlOK /\ PlaceInv /\ OrderInv /\ \A i \in DOMAIN calls : WorkInv(i)
  BY DEF IInv
<1>2. first \in Nat /\ last \in Nat /\ 1 <= first /\ first < last /\ last <= Len(calls) + 1
  BY <1>1 DEF ControlOK, PlaceInv
<1>3. DOMAIN calls = 1..Len(calls) /\ Len(calls) \in Nat
  BY <1>1 DEF ControlOK
<1>4. first \in Group /\ Group \subseteq DOMAIN calls
  BY <1>2, <1>3 DEF Group
<1>5. \A i \in DOMAIN calls : i >= last => worker[i] = "none" /\ tool[i] = "none"
  BY <1>1 DEF PlaceInv, Untouched, WorkInv
<1>6. \A i \in DOMAIN calls : tool[i] = "running" => i \in Group
  <2> SUFFICES ASSUME NEW i \in DOMAIN calls, tool[i] = "running" PROVE i \in Group
    OBVIOUS
  <2>1. ~(i < first) /\ ~(i >= last)
    BY <1>1, <1>5 DEF OrderInv
  <2> QED
    BY <1>2, <1>3, <2>1 DEF Group
<1>7. \A i \in Group : IsCd(i) => i = first /\ last = first + 1
  <2>1. GroupEnds(last) /\ first <= Len(calls) /\ last \in (first + 1)..(Len(calls) + 1)
    BY <1>1, <1>2, <1>3 DEF PlaceInv
  <2>2. CASE IsCd(first)
    BY <1>1, <1>2, <2>1, <2>2, GroupDirectory DEF Group
  <2>3. CASE ~IsCd(first)
    BY <1>1, <2>1, <2>3, GroupDirectory DEF Group
  <2> QED
    BY <2>2, <2>3
<1> QED
  BY <1>2, <1>4, <1>5, <1>6, <1>7

(* A released call of a sequential tool has every sibling behind it.       *)
LEMMA SiblingsDone ==
  ASSUME IInv, NEW k \in DOMAIN calls, Released(k), run,
         NEW i \in Group, i < k, IsSequential(i), IsSequential(k)
  PROVE  worker[i] = "done" /\ Predecessors(k) # {}
<1>1. ControlOK /\ PlaceInv /\ OrderInv /\ InBatch
  BY DEF IInv, Released, InBatch
<1>2. k \in Group /\ first \in Nat /\ last \in Nat /\ first >= 1
  BY <1>1, GroupFacts DEF PlaceInv, Released
<1>3. k \in Nat /\ i \in Nat /\ first <= i /\ k < last
  BY <1>2 DEF Group
<1> DEFINE S == {l \in first..(k-1) : IsSequential(l)}
<1>4. S \in SUBSET (1..k) /\ i \in S
  BY <1>2, <1>3
<1>5. PICK p \in S : \A j \in S : j <= p
  BY <1>3, <1>4, LastPosition
<1>6. p \in Predecessors(k)
  <2>1. \A l \in (p+1)..(k-1) : ~IsSequential(l)
    BY <1>2, <1>3, <1>5
  <2> QED
    BY <1>5, <2>1 DEF Predecessors
<1>7. worker[p] = "done"
  BY <1>6 DEF Released
<1>8. CASE i = p
  BY <1>6, <1>7, <1>8
<1>9. CASE i # p
  <2>1. i < p /\ p \in Group
    BY <1>2, <1>3, <1>4, <1>5, <1>9 DEF Group
  <2>2. phase = "running" /\ worker[p] # "ready" /\ IsSequential(p)
    BY <1>5, <1>7 DEF Released
  <2> QED
    BY <1>1, <1>6, <2>1, <2>2 DEF OrderInv
<1> QED
  BY <1>8, <1>9

(* A step outside the batch keeps the invariant.                           *)
LEMMA RoundStep ==
  ASSUME IInv, 
         \/ Request
         \/ FinalReply
         \/ EmitToolResponse
         \/ EmitFails
         \/ Cancel
  PROVE  IInv'
<1> USE DEF batch
<1>1. ControlOK /\ PlaceInv /\ (\A i \in DOMAIN calls : WorkInv(i))
      /\ OrderInv /\ SequentialOrder /\ DirInv
  BY DEF IInv
<1>2. CASE Request
  <2> USE <1>2 DEF Request
  <2>1. ControlOK'
    BY <1>1 DEF ControlOK
  <2>2. PlaceInv'
    BY <1>1 DEF PlaceInv, Untouched, InBatch, Group, GroupEnds, IsCd, ControlOK
  <2>3. \A i \in DOMAIN calls' : WorkInv(i)'
    BY <1>1 DEF WorkInv, IsCd, ControlOK
  <2>4. OrderInv' /\ SequentialOrder'
    BY <1>1 DEF OrderInv, SequentialOrder, InBatch, Group, IsSequential, ControlOK
  <2>5. DirInv'
    BY <1>1 DEF DirInv, InBatch, IsCd, ControlOK
  <2> QED
    BY <2>1, <2>2, <2>3, <2>4, <2>5 DEF IInv
<1>3. CASE FinalReply
  <2> USE <1>3 DEF FinalReply
  <2>1. ControlOK'
    BY <1>1 DEF ControlOK
  <2>2. PlaceInv'
    BY <1>1 DEF PlaceInv, Untouched, InBatch, Group, GroupEnds, IsCd, ControlOK
  <2>3. \A i \in DOMAIN calls' : WorkInv(i)'
    BY <1>1 DEF WorkInv, IsCd, ControlOK
  <2>4. OrderInv' /\ SequentialOrder'
    BY <1>1 DEF OrderInv, SequentialOrder, InBatch, Group, IsSequential, ControlOK
  <2>5. DirInv'
    BY <1>1 DEF DirInv, InBatch, IsCd, ControlOK
  <2> QED
    BY <2>1, <2>2, <2>3, <2>4, <2>5 DEF IInv
<1>4. CASE EmitToolResponse
  <2> USE <1>4 DEF EmitToolResponse
  <2>1. ControlOK'
    BY <1>1 DEF ControlOK
  <2>2. PlaceInv'
    BY <1>1 DEF PlaceInv, Untouched, InBatch, Group, GroupEnds, IsCd, ControlOK
  <2>3. \A i \in DOMAIN calls' : WorkInv(i)'
    BY <1>1 DEF WorkInv, IsCd, ControlOK
  <2>4. OrderInv' /\ SequentialOrder'
    BY <1>1 DEF OrderInv, SequentialOrder, InBatch, Group, IsSequential, ControlOK
  <2>5. DirInv'
    BY <1>1 DEF DirInv, InBatch, IsCd, ControlOK
  <2> QED
    BY <2>1, <2>2, <2>3, <2>4, <2>5 DEF IInv
<1>5. CASE EmitFails
  <2> USE <1>5 DEF EmitFails
  <2>1. ControlOK'
    BY <1>1 DEF ControlOK
  <2>2. PlaceInv'
    BY <1>1 DEF PlaceInv, Untouched, InBatch, Group, GroupEnds, IsCd, ControlOK
  <2>3. \A i \in DOMAIN calls' : WorkInv(i)'
    BY <1>1 DEF WorkInv, IsCd, ControlOK
  <2>4. OrderInv' /\ SequentialOrder'
    BY <1>1 DEF OrderInv, SequentialOrder, InBatch, Group, IsSequential, ControlOK
  <2>5. DirInv'
    BY <1>1 DEF DirInv, InBatch, IsCd, ControlOK
  <2> QED
    BY <2>1, <2>2, <2>3, <2>4, <2>5 DEF IInv
<1>6. CASE Cancel
  <2> USE <1>6 DEF Cancel
  <2>1. ControlOK'
    BY <1>1 DEF ControlOK
  <2>2. PlaceInv'
    BY <1>1 DEF PlaceInv, Untouched, InBatch, Group, GroupEnds, IsCd, ControlOK
  <2>3. \A i \in DOMAIN calls' : WorkInv(i)'
    BY <1>1 DEF WorkInv, IsCd, ControlOK
  <2>4. OrderInv' /\ SequentialOrder'
    BY <1>1 DEF OrderInv, SequentialOrder, InBatch, Group, IsSequential, ControlOK
  <2>5. DirInv'
    BY <1>1 DEF DirInv, InBatch, IsCd, ControlOK
  <2> QED
    BY <2>1, <2>2, <2>3, <2>4, <2>5 DEF IInv
<1> QED
  BY <1>2, <1>3, <1>4, <1>5, <1>6

(* The barrier opens, and the group may run unless it was cancelled.       *)
LEMMA ReleaseStep ==
  ASSUME IInv, Release
  PROVE  IInv'
<1> USE DEF batch, Release
<1>1. ControlOK /\ PlaceInv /\ (\A i \in DOMAIN calls : WorkInv(i))
      /\ OrderInv /\ SequentialOrder /\ DirInv
  BY DEF IInv
<1>2. /\ phase = "barrier" /\ phase' = "running"
      /\ \A i \in Group : worker[i] = "ready" /\ tool[i] = "none"
  BY <1>1, GroupFacts DEF PlaceInv, WorkInv, InBatch
<1>10. ControlOK'
  BY <1>1 DEF ControlOK
<1>11. PlaceInv'
  BY <1>1 DEF PlaceInv, Untouched, InBatch, Group, GroupEnds, IsCd, ControlOK
<1>12. \A i \in DOMAIN calls' : WorkInv(i)'
  BY <1>1 DEF WorkInv, IsCd, ControlOK
<1>13. OrderInv' /\ SequentialOrder'
  BY <1>1, <1>2 DEF OrderInv, SequentialOrder, InBatch, Group, IsSequential, ControlOK
<1>14. DirInv'
  BY <1>1 DEF DirInv, InBatch, IsCd, ControlOK
<1> QED
  BY <1>10, <1>11, <1>12, <1>13, <1>14 DEF IInv

(* A response starts a batch nothing of which has run.                     *)
LEMMA RespondStep ==
  ASSUME IInv, NEW cs \in Batches, Respond(cs)
  PROVE  IInv'
<1> USE DEF batch, Respond
<1>1. ControlOK /\ PlaceInv /\ (\A i \in DOMAIN calls : WorkInv(i))
      /\ OrderInv /\ SequentialOrder /\ DirInv
  BY DEF IInv
<1>2. cs \in Seq(Kinds)
  BY ToolBatchAssumption DEF Batches
<1>3. CASE cancelled
  <2>1. phase' = "done" /\ UNCHANGED <<batch, dir, cancelled>>
    BY <1>3
  <2>2. ControlOK' /\ PlaceInv' /\ OrderInv' /\ SequentialOrder'
    BY <1>1, <2>1 DEF ControlOK, PlaceInv, OrderInv, SequentialOrder, InBatch, Group,
       IsSequential
  <2>3. DirInv' /\ \A i \in DOMAIN calls' : WorkInv(i)'
    BY <1>1, <2>1 DEF DirInv, WorkInv, InBatch, IsCd
  <2> QED
    BY <2>2, <2>3 DEF IInv
<1>4. CASE ~cancelled
  <2>1. /\ phase' = "group" /\ calls' = cs /\ first' = 1 /\ last' = 1 /\ dir' = 0
        /\ run' = FALSE /\ failed' = FALSE /\ cancelled' = cancelled
        /\ worker' = [i \in DOMAIN cs |-> "none"] /\ tool' = [i \in DOMAIN cs |-> "none"]
        /\ out' = [i \in DOMAIN cs |-> "none"] /\ result' = [i \in DOMAIN cs |-> "none"]
    BY <1>4
  <2>2. ControlOK'
    <3>1. Len(cs) \in Nat /\ 1 \in 1..(Len(cs) + 1)
      BY <1>2
    <3>2. /\ worker' \in [DOMAIN cs -> {"none", "ready", "waiting", "done"}]
          /\ tool' \in [DOMAIN cs -> {"none", "running", "returned"}]
          /\ out' \in [DOMAIN cs -> {"none", "ok", "error", "end", "canceled"}]
          /\ result' \in [DOMAIN cs ->
               {"none", "ok", "error", "end", "canceled", "abandoned"} \cup NotRun]
      BY <2>1
    <3> QED
      BY <1>1, <1>2, <2>1, <3>1, <3>2 DEF ControlOK
  <2>3. PlaceInv' /\ OrderInv' /\ SequentialOrder'
    BY <2>1 DEF PlaceInv, OrderInv, SequentialOrder, Untouched, InBatch
  <2>4. \A i \in DOMAIN calls' : WorkInv(i)'
    BY <2>1 DEF WorkInv, NotRun
  <2>5. DirInv'
    <3>1. {i \in 1..(1-1) : cs[i] \in {"cd", "cd_abs"}} = {}
      OBVIOUS
    <3>2. CdBefore(cs, 1) = 0
      BY <3>1 DEF CdBefore, LastIn
    <3> QED
      BY <2>1, <3>2 DEF DirInv, InBatch
  <2> QED
    BY <2>2, <2>3, <2>4, <2>5 DEF IInv
<1> QED
  BY <1>3, <1>4

(* A group that is skipped was not touched, and stays so.                  *)
LEMMA SkipStep ==
  ASSUME IInv, SkipGroup
  PROVE  IInv'
<1> USE DEF batch, SkipGroup
<1>1. ControlOK /\ PlaceInv /\ (\A i \in DOMAIN calls : WorkInv(i))
      /\ OrderInv /\ SequentialOrder /\ DirInv
  BY DEF IInv
<1>2. /\ phase = "group" /\ first <= Len(calls) /\ Len(calls) \in Nat
      /\ first \in Nat /\ 1 <= first /\ DOMAIN calls = 1..Len(calls)
  BY <1>1 DEF ControlOK
<1>3. PICK e \in (first + 1)..(Len(calls) + 1) :
         /\ GroupEnds(e) /\ first' = e
         /\ result' = [i \in DOMAIN calls |-> IF i \in InGroup(e) THEN SkipReason ELSE result[i]]
  OBVIOUS
<1>4. SkipReason \in NotRun /\ SkipReason \notin {"ok", "end"}
  BY DEF SkipReason, NotRun
<1>5. \A i \in DOMAIN calls : i >= first => worker[i] = "none" /\ tool[i] = "none"
  BY <1>1, <1>2 DEF PlaceInv, Untouched, WorkInv
<1>6. ~failed' => ~failed /\ CdBefore(calls, e) = CdBefore(calls, first)
  <2>1. ~failed' => ~failed /\ ~IsCd(first)
    OBVIOUS
  <2>2. e \in first..e
    BY <1>2
  <2> QED
    BY <1>1, <1>2, <1>3, <2>1, <2>2, GroupDirectory
<1>10. ControlOK'
  BY <1>1, <1>2, <1>3, <1>4 DEF ControlOK
<1>11. PlaceInv'
  BY <1>1, <1>2, <1>3 DEF InGroup, PlaceInv, Untouched, InBatch, Group, GroupEnds, IsCd,
     ControlOK
<1>12. \A i \in DOMAIN calls' : WorkInv(i)'
  BY <1>1, <1>2, <1>3, <1>4, <1>5 DEF InGroup, WorkInv, IsCd, ControlOK
<1>13. OrderInv' /\ SequentialOrder'
  BY <1>1 DEF OrderInv, SequentialOrder, InBatch, Group, IsSequential, ControlOK
<1>14. DirInv'
  BY <1>1, <1>2, <1>3, <1>6 DEF DirInv, InBatch, IsCd, ControlOK
<1> QED
  BY <1>10, <1>11, <1>12, <1>13, <1>14 DEF IInv

(* A group starts only when no tool runs: nothing was cancelled, so none   *)
(* was given up.                                                           *)
LEMMA StartStep ==
  ASSUME IInv, StartGroup
  PROVE  IInv'
<1> USE DEF batch, StartGroup
<1>1. ControlOK /\ PlaceInv /\ (\A i \in DOMAIN calls : WorkInv(i))
      /\ OrderInv /\ SequentialOrder /\ DirInv
  BY DEF IInv
<1>2. /\ phase = "group" /\ first <= Len(calls) /\ Len(calls) \in Nat
      /\ first \in Nat /\ 1 <= first /\ DOMAIN calls = 1..Len(calls)
  BY <1>1 DEF ControlOK
<1>3. PICK e \in (first + 1)..(Len(calls) + 1) :
         /\ GroupEnds(e) /\ last' = e
         /\ worker' = [i \in DOMAIN calls |-> IF i \in InGroup(e) THEN "ready" ELSE worker[i]]
  OBVIOUS
<1>4. ~cancelled /\ (failed => calls[first] = "cd_abs")
  BY DEF SkipReason
<1>5. \A i \in DOMAIN calls : i >= first => worker[i] = "none" /\ result[i] = "none" /\ tool[i] = "none"
  BY <1>1, <1>2 DEF PlaceInv, Untouched, WorkInv
<1>6. \A i \in DOMAIN calls : worker[i] \in {"none", "done"} /\ tool[i] # "running"
  <2> SUFFICES ASSUME NEW i \in DOMAIN calls
               PROVE  worker[i] \in {"none", "done"} /\ tool[i] # "running"
    OBVIOUS
  <2>1. worker[i] \in {"none", "done"}
    BY <1>1, <1>2 DEF ControlOK, PlaceInv, InBatch
  <2> QED
    BY <1>1, <1>4, <2>1 DEF WorkInv
<1>7. out[first] = "none"
  BY <1>1, <1>2, <1>5 DEF WorkInv
<1>10. ControlOK'
  BY <1>1, <1>2, <1>3 DEF ControlOK
<1>11. PlaceInv'
  BY <1>1, <1>2, <1>3, <1>5, <1>6 DEF InGroup, PlaceInv, Untouched, InBatch, Group, GroupEnds,
     IsCd, ControlOK
<1>12. \A i \in DOMAIN calls' : WorkInv(i)'
  BY <1>1, <1>2, <1>3, <1>5 DEF InGroup, WorkInv, IsCd, ControlOK
<1>13. OrderInv' /\ SequentialOrder'
  BY <1>1, <1>2, <1>3, <1>5, <1>6 DEF OrderInv, SequentialOrder, InBatch, Group, IsSequential,
     ControlOK
<1>14. DirInv'
  BY <1>1, <1>2, <1>4, <1>6, <1>7 DEF DirInv, InBatch, IsCd, ControlOK
<1> QED
  BY <1>10, <1>11, <1>12, <1>13, <1>14 DEF IInv

(* A group that ends leaves the directory of its change_dir, unless that   *)
(* failed.                                                                 *)
LEMMA FinishStep ==
  ASSUME IInv, FinishGroup
  PROVE  IInv'
<1> USE DEF batch, FinishGroup
<1>1. ControlOK /\ PlaceInv /\ (\A i \in DOMAIN calls : WorkInv(i))
      /\ OrderInv /\ SequentialOrder /\ DirInv
  BY DEF IInv
<1>2. InBatch /\ phase = "running"
  BY DEF InBatch
<1>3. /\ first \in Nat /\ last \in Nat /\ 1 <= first /\ first < last
      /\ last <= Len(calls) + 1 /\ first \in Group /\ Group \subseteq DOMAIN calls
      /\ \A i \in DOMAIN calls : tool[i] = "running" => i \in Group
      /\ \A i \in DOMAIN calls : i >= last => worker[i] = "none" /\ tool[i] = "none"
      /\ \A i \in Group : IsCd(i) => i = first /\ last = first + 1
  BY <1>2, GroupFacts
<1>4. \A i \in Group : worker[i] = "done"
  BY DEF InGroup, Group
<1>5. /\ GroupEnds(last) /\ first <= Len(calls) /\ last \in (first + 1)..(Len(calls) + 1)
  BY <1>1, <1>2, <1>3 DEF PlaceInv, ControlOK
<1>6. ~failed' => /\ dir = CdBefore(calls, last)
                  /\ \A i \in DOMAIN calls : IsCd(i) => tool[i] # "running"
  <2> SUFFICES ASSUME ~failed'
               PROVE  /\ dir = CdBefore(calls, last)
                      /\ \A i \in DOMAIN calls : IsCd(i) => tool[i] # "running"
    OBVIOUS
  <2>1. CASE IsCd(first)
    <3>1. result[first] \in {"ok", "end"}
      BY <2>1 DEF IsError
    <3>2. out[first] = "ok" /\ tool[first] # "running"
      BY <1>1, <1>3, <2>1, <3>1 DEF WorkInv
    <3>3. dir = first /\ CdBefore(calls, last) = first
      BY <1>1, <1>2, <1>5, <2>1, <3>2, GroupDirectory DEF DirInv
    <3> QED
      BY <1>3, <3>2, <3>3
  <2>2. CASE ~IsCd(first)
    <3>1. CdBefore(calls, last) = CdBefore(calls, first)
      BY <1>1, <1>3, <1>5, <2>2, GroupDirectory
    <3>2. dir = CdBefore(calls, first)
      BY <1>1, <1>2, <2>2 DEF DirInv
    <3> QED
      BY <1>3, <2>2, <3>1, <3>2
  <2> QED
    BY <2>1, <2>2
<1>10. ControlOK'
  <2>1. failed' \in BOOLEAN
    BY <1>1 DEF ControlOK, IsError
  <2> QED
    BY <1>1, <1>3, <2>1 DEF ControlOK
<1>11. PlaceInv'
  BY <1>1, <1>2, <1>3, <1>4 DEF PlaceInv, Untouched, InBatch, Group, GroupEnds, IsCd, ControlOK
<1>12. \A i \in DOMAIN calls' : WorkInv(i)'
  BY <1>1 DEF WorkInv, IsCd, ControlOK
<1>13. OrderInv' /\ SequentialOrder'
  BY <1>1, <1>2 DEF OrderInv, SequentialOrder, InBatch, Group, IsSequential, ControlOK
<1>14. DirInv'
  BY <1>1, <1>2, <1>6 DEF DirInv, InBatch, IsCd, ControlOK
<1> QED
  BY <1>10, <1>11, <1>12, <1>13, <1>14 DEF IInv

(* A worker that does not run its tool says so.                            *)
LEMMA DeclineStep ==
  ASSUME IInv, NEW k \in DOMAIN calls, Decline(k)
  PROVE  IInv'
<1> USE DEF batch, Decline, Finish
<1>1. ControlOK /\ PlaceInv /\ (\A i \in DOMAIN calls : WorkInv(i))
      /\ OrderInv /\ SequentialOrder /\ DirInv
  BY DEF IInv
<1>2. /\ InBatch /\ phase = "running" /\ worker[k] = "ready" /\ k \in Group
      /\ tool[k] = "none" /\ result[k] = "none" /\ out[k] = "none"
  BY <1>1 DEF InBatch, Released, PlaceInv, WorkInv
<1>3. PICK r \in NotRun : result' = [result EXCEPT ![k] = r]
  BY DEF NotRun
<1>4. /\ worker' = [worker EXCEPT ![k] = "done"]
      /\ UNCHANGED <<phase, calls, first, last, run, failed, tool, out, dir, cancelled>>
  OBVIOUS
<1>5. Released(k)
  OBVIOUS
<1> HIDE DEF Decline, Finish
<1>10. ControlOK'
  BY <1>1, <1>3, <1>4 DEF ControlOK
<1>11. PlaceInv'
  BY <1>1, <1>2, <1>3, <1>4 DEF PlaceInv, Untouched, InBatch, Group, GroupEnds, IsCd, ControlOK
<1>12. \A i \in DOMAIN calls' : WorkInv(i)'
  BY <1>1, <1>2, <1>3, <1>4 DEF NotRun, WorkInv, IsCd, ControlOK
<1>13. OrderInv' /\ SequentialOrder'
  <2>1. SequentialOrder'
    BY <1>1, <1>4 DEF SequentialOrder, IsSequential
  <2>2. ASSUME run, NEW i \in Group, NEW l \in Group, i < l, IsSequential(i), IsSequential(l),
               worker'[l] # "ready"
        PROVE  worker'[i] = "done"
    <3>1. CASE l = k
      BY <1>1, <1>4, <1>5, <2>2, <3>1, SiblingsDone DEF ControlOK, Group
    <3>2. CASE l # k
      BY <1>1, <1>2, <1>4, <2>2, <3>2 DEF ControlOK, OrderInv, Group
    <3> QED
      BY <3>1, <3>2
  <2>3. OrderInv'
    BY <1>1, <1>2, <1>4, <2>2 DEF OrderInv, InBatch, Group, IsSequential
  <2> QED
    BY <2>1, <2>3
<1>14. DirInv'
  BY <1>1, <1>4 DEF DirInv, InBatch, IsCd, ControlOK
<1> QED
  BY <1>10, <1>11, <1>12, <1>13, <1>14 DEF IInv

(* A tool that starts is the only one of its kind that runs, after its     *)
(* siblings, and it finds the directory of the change_dir before it.       *)
LEMMA ExecuteStep ==
  ASSUME IInv, NEW k \in DOMAIN calls, Execute(k)
  PROVE  IInv'
<1> USE DEF batch, Execute
<1>1. ControlOK /\ PlaceInv /\ (\A i \in DOMAIN calls : WorkInv(i))
      /\ OrderInv /\ SequentialOrder /\ DirInv
  BY DEF IInv
<1>2. /\ InBatch /\ phase = "running" /\ worker[k] = "ready" /\ k \in Group
      /\ tool[k] = "none" /\ result[k] = "none" /\ out[k] = "none"
  BY <1>1 DEF InBatch, Released, PlaceInv, WorkInv
<1>3. /\ first \in Nat /\ last \in Nat /\ 1 <= first /\ first < last
      /\ last <= Len(calls) + 1 /\ first \in Group /\ Group \subseteq DOMAIN calls
      /\ \A i \in DOMAIN calls : tool[i] = "running" => i \in Group
      /\ \A i \in DOMAIN calls : i >= last => worker[i] = "none" /\ tool[i] = "none"
      /\ \A i \in Group : IsCd(i) => i = first /\ last = first + 1
  BY <1>2, GroupFacts
<1>4. /\ worker' = [worker EXCEPT ![k] = "waiting"] /\ tool' = [tool EXCEPT ![k] = "running"]
      /\ UNCHANGED <<phase, calls, first, last, run, failed, out, result, dir, cancelled>>
      /\ run /\ (Predecessors(k) = {} \/ ~cancelled) /\ Released(k)
  BY DEF MayExecute
<1>5. k \in Nat /\ first <= k /\ k < last
  BY <1>2, <1>3 DEF Group
<1>6. DOMAIN calls \subseteq Nat
  BY <1>1 DEF ControlOK
<1> HIDE DEF Execute
<1>10. ControlOK'
  BY <1>1, <1>4 DEF ControlOK
<1>11. PlaceInv'
  BY <1>1, <1>2, <1>4 DEF PlaceInv, Untouched, InBatch, Group, GroupEnds, IsCd, ControlOK
<1>12. \A i \in DOMAIN calls' : WorkInv(i)'
  <2>1. result[k] \notin NotRun
    BY <1>2 DEF NotRun
  <2> QED
    BY <1>1, <1>2, <1>4, <2>1 DEF WorkInv, IsCd, ControlOK
<1>13. OrderInv' /\ SequentialOrder'
  <2>1. ASSUME NEW i \in Group, NEW l \in Group, i < l, IsSequential(i), IsSequential(l),
               worker'[l] # "ready"
        PROVE  worker'[i] = "done"
    <3>1. CASE l = k
      BY <1>1, <1>3, <1>4, <2>1, <3>1, SiblingsDone DEF ControlOK, Group
    <3>2. CASE l # k
      BY <1>1, <1>2, <1>3, <1>4, <2>1, <3>2 DEF ControlOK, OrderInv
    <3> QED
      BY <3>1, <3>2
  <2>2. OrderInv'
    BY <1>1, <1>2, <1>3, <1>4, <1>5, <2>1 DEF OrderInv, InBatch, Group, IsSequential, ControlOK
  <2>3. ASSUME NEW i \in DOMAIN calls, i < k, IsSequential(i), IsSequential(k)
        PROVE  tool[i] # "running"
    <3>1. CASE i \in Group
      <4>1. worker[i] = "done" /\ ~cancelled
        BY <1>4, <2>3, <3>1, SiblingsDone
      <4> QED
        BY <1>1, <4>1 DEF WorkInv
    <3>2. CASE i \notin Group
      BY <1>3, <3>2
    <3> QED
      BY <3>1, <3>2
  <2>4. ASSUME NEW l \in DOMAIN calls, k < l, IsSequential(k), IsSequential(l)
        PROVE  tool[l] = "none"
    <3>1. CASE l \in Group
      <4>1. worker[l] = "ready"
        BY <1>1, <1>2, <1>4, <2>4, <3>1 DEF OrderInv
      <4> QED
        BY <1>1, <4>1 DEF WorkInv
    <3>2. CASE l \notin Group
      <4>1. l >= last
        BY <1>3, <1>5, <1>6, <2>4, <3>2 DEF Group
      <4> QED
        BY <1>3, <4>1
    <3> QED
      BY <3>1, <3>2
  <2>5. SequentialOrder'
    <3> SUFFICES ASSUME NEW i \in DOMAIN calls, NEW l \in DOMAIN calls, i < l,
                        IsSequential(i), IsSequential(l), tool'[l] # "none"
                 PROVE  tool'[i] # "running"
      BY <1>4 DEF SequentialOrder, IsSequential
    <3>1. CASE l = k
      BY <1>1, <1>4, <1>6, <2>3, <3>1 DEF ControlOK
    <3>2. CASE i = k
      BY <1>1, <1>4, <1>6, <2>4, <3>2 DEF ControlOK
    <3>3. CASE i # k /\ l # k
      BY <1>1, <1>4, <3>3 DEF ControlOK, SequentialOrder
    <3> QED
      BY <3>1, <3>2, <3>3
  <2> QED
    BY <2>2, <2>5
<1>14. DirInv'
  <2>1. \A i \in DOMAIN calls : tool'[i] = "running" => i \in Group
    BY <1>1, <1>2, <1>3, <1>4 DEF ControlOK
  <2>2. ASSUME calls[k] # "cd_abs" PROVE dir = CdBefore(calls, k)
    <3>1. CASE IsCd(k)
      BY <1>1, <1>2, <1>3, <2>2, <3>1 DEF DirInv
    <3>2. CASE ~IsCd(k)
      <4>1. ~IsCd(first)
        BY <1>2, <1>3, <1>5, <3>2
      <4>2. ~failed
        BY <1>1, <1>2, <4>1 DEF DirInv, IsCd
      <4>3. GroupEnds(last) /\ first <= Len(calls) /\ last \in (first + 1)..(Len(calls) + 1)
        BY <1>1, <1>2, <1>3 DEF PlaceInv, ControlOK
      <4>4. CdBefore(calls, k) = CdBefore(calls, first)
        BY <1>1, <1>5, <4>1, <4>3, GroupDirectory
      <4> QED
        BY <1>1, <1>2, <4>1, <4>2, <4>4 DEF DirInv
    <3> QED
      BY <3>1, <3>2
  <2>3. ASSUME NEW i \in DOMAIN calls, NEW l \in DOMAIN calls,
               tool'[i] = "running", tool'[l] = "running", IsCd(i)
        PROVE  i = l
    <3>1. i \in Group /\ l \in Group /\ last = first + 1
      BY <1>3, <2>1, <2>3
    <3> QED
      BY <1>3, <3>1 DEF Group
  <2>4. \A l \in DOMAIN calls :
           tool'[l] = "running" /\ calls[l] # "cd_abs" => dir = CdBefore(calls, l)
    BY <1>1, <1>4, <2>2 DEF DirInv, ControlOK
  <2> QED
    BY <1>1, <1>2, <1>4, <2>3, <2>4 DEF DirInv, InBatch, IsCd
<1> QED
  BY <1>10, <1>11, <1>12, <1>13, <1>14 DEF IInv

(* A worker takes the result of its tool.                                  *)
LEMMA TakeStep ==
  ASSUME IInv, NEW k \in DOMAIN calls, TakeResult(k)
  PROVE  IInv'
<1> USE DEF batch, TakeResult, Finish
<1>1. ControlOK /\ PlaceInv /\ (\A i \in DOMAIN calls : WorkInv(i))
      /\ OrderInv /\ SequentialOrder /\ DirInv
  BY DEF IInv
<1>2. InBatch /\ k \in Group /\ phase = "running"
  BY <1>1 DEF PlaceInv, InBatch, TakeResult
<1>3. PICK r \in {"none", "ok", "error", "end", "canceled", "abandoned"} :
         /\ result' = [result EXCEPT ![k] = r] /\ (r \in {"ok", "end"} => r = out[k])
  BY <1>1 DEF ControlOK
<1>4. /\ worker' = [worker EXCEPT ![k] = "done"] /\ worker[k] = "waiting"
      /\ UNCHANGED <<phase, calls, first, last, run, failed, tool, out, dir, cancelled>>
      /\ cancelled \/ tool[k] = "returned"
  OBVIOUS
<1> HIDE DEF TakeResult, Finish
<1>10. ControlOK'
  BY <1>1, <1>3, <1>4 DEF ControlOK
<1>11. PlaceInv'
  BY <1>1, <1>2, <1>3, <1>4 DEF PlaceInv, Untouched, InBatch, Group, GroupEnds, IsCd, ControlOK
<1>12. \A i \in DOMAIN calls' : WorkInv(i)'
  BY <1>1, <1>3, <1>4 DEF NotRun, WorkInv, IsCd, ControlOK
<1>13. OrderInv' /\ SequentialOrder'
  BY <1>1, <1>2, <1>4 DEF OrderInv, SequentialOrder, InBatch, Group, IsSequential, ControlOK
<1>14. DirInv'
  BY <1>1, <1>4 DEF DirInv, InBatch, IsCd, ControlOK
<1> QED
  BY <1>10, <1>11, <1>12, <1>13, <1>14 DEF IInv

(* A worker gives its tool up, which may still run.                        *)
LEMMA AbandonStep ==
  ASSUME IInv, NEW k \in DOMAIN calls, Abandon(k)
  PROVE  IInv'
<1> USE DEF batch, Abandon, Finish
<1>1. ControlOK /\ PlaceInv /\ (\A i \in DOMAIN calls : WorkInv(i))
      /\ OrderInv /\ SequentialOrder /\ DirInv
  BY DEF IInv
<1>2. InBatch /\ k \in Group /\ phase = "running"
  BY <1>1 DEF PlaceInv, InBatch, Abandon
<1>3. PICK r \in {"none", "ok", "error", "end", "canceled", "abandoned"} :
         /\ result' = [result EXCEPT ![k] = r] /\ (r \in {"ok", "end"} => r = out[k])
  BY <1>1 DEF ControlOK
<1>4. /\ worker' = [worker EXCEPT ![k] = "done"] /\ worker[k] = "waiting"
      /\ UNCHANGED <<phase, calls, first, last, run, failed, tool, out, dir, cancelled>>
      /\ cancelled \/ tool[k] = "returned"
  OBVIOUS
<1> HIDE DEF Abandon, Finish
<1>10. ControlOK'
  BY <1>1, <1>3, <1>4 DEF ControlOK
<1>11. PlaceInv'
  BY <1>1, <1>2, <1>3, <1>4 DEF PlaceInv, Untouched, InBatch, Group, GroupEnds, IsCd, ControlOK
<1>12. \A i \in DOMAIN calls' : WorkInv(i)'
  BY <1>1, <1>3, <1>4 DEF NotRun, WorkInv, IsCd, ControlOK
<1>13. OrderInv' /\ SequentialOrder'
  BY <1>1, <1>2, <1>4 DEF OrderInv, SequentialOrder, InBatch, Group, IsSequential, ControlOK
<1>14. DirInv'
  BY <1>1, <1>4 DEF DirInv, InBatch, IsCd, ControlOK
<1> QED
  BY <1>10, <1>11, <1>12, <1>13, <1>14 DEF IInv

(* A tool returns, in its group or long after: only a change_dir that runs *)
(* alone moves the directory.                                              *)
LEMMA ToolReturnsStep ==
  ASSUME IInv, NEW k \in DOMAIN calls, NEW r \in Outcomes(k), ToolReturns(k, r)
  PROVE  IInv'
<1> USE DEF batch, ToolReturns
<1>1. ControlOK /\ PlaceInv /\ (\A i \in DOMAIN calls : WorkInv(i))
      /\ OrderInv /\ SequentialOrder /\ DirInv
  BY DEF IInv
<1>2. /\ tool[k] = "running" /\ worker[k] \notin {"none", "ready"} /\ out[k] = "none"
      /\ result[k] \notin NotRun \cup {"ok", "end"}
  BY <1>1 DEF WorkInv
<1>3. r \in {"ok", "error", "end", "canceled"} /\ (IsCd(k) => r # "end")
  BY DEF Outcomes, IsCd
<1>4. /\ tool' = [tool EXCEPT ![k] = "returned"] /\ out' = [out EXCEPT ![k] = r]
      /\ dir' = IF IsCd(k) /\ r = "ok" THEN k ELSE dir
      /\ UNCHANGED <<phase, calls, first, last, run, failed, worker, result, cancelled>>
  OBVIOUS
<1>5. \A i \in DOMAIN calls : tool'[i] = "running" => i # k /\ tool[i] = "running"
  BY <1>1, <1>4 DEF ControlOK
<1> HIDE DEF ToolReturns
<1>10. ControlOK'
  BY <1>1, <1>3, <1>4 DEF ControlOK
<1>11. PlaceInv'
  BY <1>1, <1>2, <1>4 DEF PlaceInv, Untouched, InBatch, Group, GroupEnds, IsCd, ControlOK
<1>12. \A i \in DOMAIN calls' : WorkInv(i)'
  BY <1>1, <1>2, <1>3, <1>4 DEF WorkInv, IsCd, ControlOK
<1>13. OrderInv' /\ SequentialOrder'
  BY <1>1, <1>2, <1>4 DEF OrderInv, SequentialOrder, InBatch, Group, IsSequential, ControlOK
<1>14. DirInv'
  <2>1. \A i, l \in DOMAIN calls :
           tool'[i] = "running" /\ tool'[l] = "running" /\ IsCd(i) => i = l
    BY <1>1, <1>5 DEF DirInv
  <2>2. \A l \in DOMAIN calls :
           tool'[l] = "running" /\ calls[l] # "cd_abs" => dir' = CdBefore(calls, l)
    BY <1>1, <1>2, <1>4, <1>5 DEF DirInv
  <2>3. phase = "group" /\ ~failed => dir' = CdBefore(calls, first)
    BY <1>1, <1>2, <1>4 DEF DirInv
  <2>4. ASSUME InBatch
        PROVE  IF IsCd(first) /\ out'[first] = "ok" THEN dir' = first
                                                     ELSE ~failed => dir' = CdBefore(calls, first)
    <3>1. k \in Group /\ first \in DOMAIN calls /\ (IsCd(k) => k = first)
      BY <1>2, <2>4, GroupFacts
    <3>2. CASE IsCd(k)
      BY <1>1, <1>2, <1>4, <2>4, <3>1, <3>2 DEF DirInv, ControlOK
    <3>3. CASE ~IsCd(k)
      BY <1>1, <1>4, <2>4, <3>1, <3>3 DEF DirInv, ControlOK
    <3> QED
      BY <3>2, <3>3
  <2> QED
    BY <1>1, <1>4, <1>5, <2>1, <2>2, <2>3, <2>4 DEF DirInv, InBatch, IsCd
<1> QED
  BY <1>10, <1>11, <1>12, <1>13, <1>14 DEF IInv

-----------------------------------------------------------------------------
(* What insertMissingToolResults makes of a history.                       *)

(* Induction, over a set instead of a predicate.                           *)
LEMMA NatInductionOver ==
  ASSUME NEW P, 0 \in P, \A n \in Nat : n \in P => n + 1 \in P
  PROVE  Nat \subseteq P
<1> SUFFICES ASSUME NEW z \in Nat, z \notin P PROVE FALSE
  OBVIOUS
<1> DEFINE T == {n \in Nat : n \notin P}
<1>1. T \subseteq Nat /\ T # {}
  OBVIOUS
<1>2. \E R : IsWellFoundedOn(R, Nat) /\ \A k, n \in Nat : k < n => <<k, n>> \in R
  <2>1. \A k, n \in Nat : k < n => <<k, n>> \in OpToRel(<, Nat)
    BY Zenon DEF OpToRel
  <2> QED
    BY <2>1, NatLessThanWellFounded, Zenon
<1>3. PICK R : IsWellFoundedOn(R, Nat) /\ \A k, n \in Nat : k < n => <<k, n>> \in R
  BY <1>2
<1>4. PICK x \in T : \A y \in T : ~(<<y, x>> \in R)
  <2> HIDE DEF T
  <2>1. \E x \in T : \A y \in T : ~(<<y, x>> \in R)
    BY <1>1, <1>3, WFMin, Zenon
  <2> QED
    BY <2>1
<1>5. x \in Nat /\ x # 0 /\ x - 1 \in Nat /\ (x - 1) + 1 = x /\ x - 1 < x
  BY <1>4
<1>6. x - 1 \notin P
  BY <1>5
<1>7. <<x - 1, x>> \in R
  BY <1>3, <1>5
<1> QED
  BY <1>4, <1>5, <1>6, <1>7

(* The recursion of FlattenSeq over the first n pieces.                    *)
IsFlat(f, ss, n) == f = [i \in 1..n |-> IF i = 1 THEN ss[i] ELSE f[i - 1] \o ss[i]]

(* That recursion has a solution.                                          *)
LEMMA FlatExists ==
  ASSUME NEW ss
  PROVE  \A n \in Nat : \E f : IsFlat(f, ss, n)
<1> DEFINE P == {n \in Nat : \E f : IsFlat(f, ss, n)}
<1>1. 0 \in P
  <2> DEFINE f == [k \in 1..0 |-> <<>>]
             h == [k \in 1..0 |-> IF k = 1 THEN ss[k] ELSE f[k - 1] \o ss[k]]
  <2>1. 1..0 = {}
    OBVIOUS
  <2>2. f = h
    BY <2>1
  <2>3. IsFlat(f, ss, 0)
    BY <2>2, Zenon DEF IsFlat
  <2> HIDE DEF f
  <2> QED
    BY <2>3
<1>2. ASSUME NEW n \in Nat, n \in P PROVE n + 1 \in P
  <2>1. PICK f : IsFlat(f, ss, n)
    BY <1>2
  <2> DEFINE g == [k \in 1..(n + 1) |->
                     IF k = n + 1
                     THEN IF k = 1 THEN ss[k] ELSE f[n] \o ss[k]
                     ELSE f[k]]
             h == [k \in 1..(n + 1) |-> IF k = 1 THEN ss[k] ELSE g[k - 1] \o ss[k]]
  <2>2. ASSUME NEW k \in 1..(n + 1) PROVE g[k] = h[k]
    <3>1. CASE k = 1
      <4>1. CASE n + 1 = 1
        BY <3>1, <4>1
      <4>2. CASE n + 1 # 1
        <5>1. k \in 1..n
          BY <3>1, <4>2
        <5>2. f[k] = ss[k]
          BY <2>1, <3>1, <5>1 DEF IsFlat
        <5> QED
          BY <3>1, <4>2, <5>2
      <4> QED
        BY <4>1, <4>2
    <3>2. CASE k = n + 1 /\ k # 1
      <4>1. k - 1 = n /\ n \in 1..(n + 1) /\ n # n + 1
        BY <3>2
      <4>2. g[n] = f[n]
        BY <4>1
      <4> QED
        BY <3>2, <4>1, <4>2
    <3>3. CASE k # n + 1 /\ k # 1
      <4>1. k \in 1..n /\ k - 1 \in 1..(n + 1) /\ k - 1 # n + 1
        BY <3>3
      <4>2. g[k] = f[k] /\ g[k - 1] = f[k - 1]
        BY <3>3, <4>1
      <4>3. f[k] = f[k - 1] \o ss[k]
        BY <2>1, <3>3, <4>1 DEF IsFlat
      <4> QED
        BY <3>3, <4>2, <4>3
    <3> QED
      BY <3>1, <3>2, <3>3
  <2>3. g = h
    <3> HIDE DEF g
    <3>1. g = [k \in 1..(n + 1) |-> g[k]]
      BY DEF g
    <3> QED
      BY <2>2, <3>1
  <2>4. IsFlat(g, ss, n + 1)
    BY <2>3, Zenon DEF IsFlat
  <2> HIDE DEF g
  <2> QED
    BY <2>4
<1>3. Nat \subseteq P
  <2> HIDE DEF P
  <2> QED
    BY <1>1, <1>2, NatInductionOver
<1> QED
  BY <1>3

(* The prefixes of what FlattenSeq returns.                                *)
FlatPrefixes(f, A, ss) ==
  /\ f \in [0..Len(ss) -> Seq(A)]
  /\ f[0] = <<>>
  /\ \A i \in 1..Len(ss) : f[i] = f[i - 1] \o ss[i]
  /\ FlattenSeq(ss) = f[Len(ss)]

(* FlattenSeq goes from one prefix to the next.                            *)
LEMMA FlattenPrefixes ==
  ASSUME NEW A, NEW ss \in Seq(Seq(A))
  PROVE  \E f : FlatPrefixes(f, A, ss)
<1> DEFINE n == Len(ss)
<1>1. n \in Nat /\ \A i \in 1..n : ss[i] \in Seq(A)
  OBVIOUS
<1> DEFINE h == CHOOSE h : IsFlat(h, ss, n)
<1>2. IsFlat(h, ss, n)
  <2>1. \E f : IsFlat(f, ss, n)
    BY <1>1, FlatExists
  <2> QED
    BY <2>1, Zenon
<1>3. n # 0 => FlattenSeq(ss) = h[n]
  BY DEF FlattenSeq, IsFlat
<1>4. n = 0 => FlattenSeq(ss) = <<>>
  BY DEF FlattenSeq
<1> HIDE DEF h, n
<1>5. \A i \in 1..n : h[i] = IF i = 1 THEN ss[i] ELSE h[i - 1] \o ss[i]
  BY <1>2 DEF IsFlat
<1> DEFINE P == {i \in Nat : i \in 1..n => h[i] \in Seq(A)}
<1>6. 0 \in P
  OBVIOUS
<1>7. ASSUME NEW i \in Nat, i \in P PROVE i + 1 \in P
  <2>1. SUFFICES ASSUME i + 1 \in 1..n PROVE h[i + 1] \in Seq(A)
    OBVIOUS
  <2>2. ss[i + 1] \in Seq(A)
    BY <1>1, <2>1
  <2>3. CASE i = 0
    BY <1>5, <2>1, <2>2, <2>3
  <2>4. CASE i # 0
    <3>1. h[i] \in Seq(A) /\ (i + 1) - 1 = i /\ i + 1 # 1
      BY <1>1, <1>7, <2>1, <2>4
    <3>2. h[i + 1] = h[i] \o ss[i + 1]
      BY <1>5, <2>1, <3>1
    <3> QED
      BY <2>2, <3>1, <3>2
  <2> QED
    BY <2>3, <2>4
<1>8. Nat \subseteq P
  <2> HIDE DEF P
  <2> QED
    BY <1>6, <1>7, NatInductionOver
<1> DEFINE f == [i \in 0..n |-> IF i = 0 THEN <<>> ELSE h[i]]
<1>9. f \in [0..n -> Seq(A)]
  <2>1. ASSUME NEW i \in 0..n PROVE f[i] \in Seq(A)
    <3>1. i # 0 => h[i] \in Seq(A)
      BY <1>1, <1>8
    <3> QED
      BY <3>1
  <2> QED
    BY <2>1
<1>10. f[0] = <<>>
  BY <1>1
<1>11. ASSUME NEW i \in 1..n PROVE f[i] = f[i - 1] \o ss[i]
  <2>1. i \in 0..n /\ i # 0 /\ f[i] = h[i] /\ ss[i] \in Seq(A)
    BY <1>1
  <2>2. CASE i = 1
    <3>1. f[i - 1] = <<>>
      BY <1>10, <2>2
    <3>2. <<>> \o ss[i] = ss[i]
      BY <2>1
    <3> QED
      BY <1>5, <2>1, <2>2, <3>1, <3>2
  <2>3. CASE i # 1
    <3>1. i - 1 \in 0..n /\ i - 1 # 0
      BY <1>1, <2>3
    <3> QED
      BY <1>5, <2>1, <2>3, <3>1
  <2> QED
    BY <2>2, <2>3
<1>12. FlattenSeq(ss) = f[n]
  BY <1>1, <1>3, <1>4
<1> HIDE DEF f
<1>13. FlatPrefixes(f, A, ss)
  BY <1>9, <1>10, <1>11, <1>12 DEF FlatPrefixes, n
<1> QED
  BY <1>13

(* FlattenSeq of one piece more.                                           *)
LEMMA FlattenAppend ==
  ASSUME NEW A, NEW ss \in Seq(Seq(A)), NEW x \in Seq(A)
  PROVE  FlattenSeq(Append(ss, x)) = FlattenSeq(ss) \o x
<1> DEFINE tt == Append(ss, x)
           n == Len(ss)
<1>1. tt \in Seq(Seq(A)) /\ n \in Nat /\ Len(tt) = n + 1 /\ tt[n + 1] = x
      /\ \A i \in 1..n : tt[i] = ss[i]
  OBVIOUS
<1>2. PICK f : FlatPrefixes(f, A, ss)
  BY FlattenPrefixes
<1> HIDE DEF tt
<1>3. PICK g : FlatPrefixes(g, A, tt)
  BY <1>1, FlattenPrefixes
<1>4. /\ f[0] = <<>> /\ \A i \in 1..n : f[i] = f[i - 1] \o ss[i]
      /\ FlattenSeq(ss) = f[n]
  BY <1>2 DEF FlatPrefixes
<1>5. /\ g[0] = <<>> /\ \A i \in 1..(n + 1) : g[i] = g[i - 1] \o tt[i]
      /\ FlattenSeq(tt) = g[n + 1]
  BY <1>1, <1>3 DEF FlatPrefixes
<1> HIDE DEF n
<1> DEFINE P == {k \in Nat : k <= n => f[k] = g[k]}
<1>6. 0 \in P
  BY <1>4, <1>5
<1>7. ASSUME NEW k \in Nat, k \in P PROVE k + 1 \in P
  <2>1. SUFFICES ASSUME k + 1 <= n PROVE f[k + 1] = g[k + 1]
    OBVIOUS
  <2>2. k + 1 \in 1..n /\ k + 1 \in 1..(n + 1) /\ (k + 1) - 1 = k /\ k <= n
    BY <1>1, <2>1
  <2>3. f[k + 1] = f[k] \o ss[k + 1] /\ g[k + 1] = g[k] \o tt[k + 1]
    BY <1>4, <1>5, <2>2
  <2> QED
    BY <1>1, <1>7, <2>2, <2>3
<1>8. Nat \subseteq P
  <2> HIDE DEF P
  <2> QED
    BY <1>6, <1>7, NatInductionOver
<1>9. f[n] = g[n]
  BY <1>1, <1>8
<1>10. g[n + 1] = g[n] \o x
  <2>1. n + 1 \in 1..(n + 1) /\ (n + 1) - 1 = n
    BY <1>1
  <2> QED
    BY <1>1, <1>5, <2>1
<1> QED
  BY <1>4, <1>5, <1>9, <1>10 DEF tt

-----------------------------------------------------------------------------
(* The shape of a request, and what its last message still has to be       *)
(* answered.                                                               *)
Owed(o) == IF o = <<>> THEN {} ELSE o[Len(o)].calls

Shaped(o) ==
  \A i \in DOMAIN o :
    /\ o[i].calls # {} /\ i < Len(o) => o[i + 1].role = "user"
    /\ o[i].results \cap o[i].made = {}
    /\ o[i].results \cup o[i].made = IF o[i].role = "user" /\ i > 1 THEN o[i - 1].calls ELSE {}
    /\ Empty(o[i]) => o[i].role = "assistant" /\ i = Len(o)

NoneEmpty(o) == \A i \in DOMAIN o : ~Empty(o[i])

(* A request with that shape that owes nothing is acceptable, and says     *)
(* something in every message.                                             *)
LEMMA ShapedAcceptable ==
  ASSUME NEW o \in Seq(Sent), Shaped(o), Owed(o) = {}
  PROVE  Acceptable(o) /\ \A i \in DOMAIN o : Meaningful(o[i])
<1>0. \A i \in DOMAIN o : Meaningful(o[i])
  BY DEF Shaped, Meaningful
<1> SUFFICES ASSUME NEW i \in DOMAIN o
             PROVE  o[i].calls # {} => i < Len(o) /\ o[i + 1].role = "user"
  BY <1>0 DEF Acceptable, Shaped
<1>1. o # <<>> /\ (i = Len(o) \/ i < Len(o))
  OBVIOUS
<1> QED
  BY <1>1 DEF Owed, Shaped

(* A message with the right answers may follow.                            *)
LEMMA ShapedAppend ==
  ASSUME NEW o \in Seq(Sent), NEW m \in Sent, Shaped(o), NoneEmpty(o),
         Owed(o) # {} => m.role = "user",
         m.results \cap m.made = {},
         m.results \cup m.made = IF m.role = "user" THEN Owed(o) ELSE {},
         Empty(m) => m.role = "assistant"
  PROVE  /\ Append(o, m) \in Seq(Sent) /\ Shaped(Append(o, m))
         /\ Owed(Append(o, m)) = m.calls
         /\ ~Empty(m) => NoneEmpty(Append(o, m))
<1> DEFINE t == Append(o, m)
           n == Len(o)
<1>1. /\ t \in Seq(Sent) /\ n \in Nat /\ Len(t) = n + 1 /\ t[n + 1] = m
      /\ DOMAIN t = 1..(n + 1) /\ DOMAIN o = 1..n /\ t # <<>>
      /\ \A i \in 1..n : t[i] = o[i]
  OBVIOUS
<1>2. n = 0 <=> o = <<>>
  OBVIOUS
<1> HIDE DEF t
<1>3. Owed(t) = m.calls
  BY <1>1 DEF Owed
<1>4. Owed(o) = IF n = 0 THEN {} ELSE o[n].calls
  BY <1>2 DEF Owed
<1> HIDE DEF n
<1>5. ~Empty(m) => NoneEmpty(t)
  BY <1>1 DEF NoneEmpty
<1>6. ASSUME NEW i \in DOMAIN t
      PROVE  /\ t[i].calls # {} /\ i < Len(t) => t[i + 1].role = "user"
             /\ t[i].results \cap t[i].made = {}
             /\ t[i].results \cup t[i].made = IF t[i].role = "user" /\ i > 1 THEN t[i - 1].calls ELSE {}
             /\ Empty(t[i]) => t[i].role = "assistant" /\ i = Len(t)
  <2>1. CASE i = n + 1
    <3>1. t[i] = m /\ ~(i < Len(t)) /\ i = Len(t)
      BY <1>1, <2>1
    <3>2. i > 1 => i - 1 = n /\ n \in 1..n /\ n # 0
      BY <1>1, <2>1
    <3>3. i > 1 => t[i - 1].calls = Owed(o)
      BY <1>1, <1>4, <3>2
    <3>4. ~(i > 1) => Owed(o) = {}
      BY <1>1, <1>4, <2>1
    <3> QED
      BY <3>1, <3>3, <3>4
  <2>2. CASE i \in 1..n
    <3>1. t[i] = o[i] /\ i \in DOMAIN o /\ i < Len(t)
      BY <1>1, <2>2
    <3>2. i > 1 => i - 1 \in 1..n /\ t[i - 1] = o[i - 1]
      BY <1>1, <2>2
    <3>3. ~Empty(t[i])
      BY <3>1 DEF NoneEmpty
    <3>4. t[i].calls # {} => t[i + 1].role = "user"
      <4>1. CASE i = n
        <5>1. t[i + 1] = m /\ n # 0 /\ Owed(o) = t[i].calls
          BY <1>1, <1>4, <2>2, <3>1, <4>1
        <5> QED
          BY <5>1
      <4>2. CASE i # n
        <5>1. i + 1 \in 1..n /\ i < n /\ t[i + 1] = o[i + 1]
          BY <1>1, <2>2, <4>2
        <5> QED
          BY <3>1, <5>1 DEF Shaped, n
      <4> QED
        BY <4>1, <4>2
    <3>5. t[i].results \cap t[i].made = {}
      BY <3>1 DEF Shaped
    <3>6. t[i].results \cup t[i].made = IF t[i].role = "user" /\ i > 1 THEN t[i - 1].calls ELSE {}
      BY <3>1, <3>2 DEF Shaped
    <3> QED
      BY <3>3, <3>4, <3>5, <3>6
  <2> QED
    BY <1>1, <2>1, <2>2
<1>7. Shaped(t)
  BY <1>6 DEF Shaped
<1> QED
  BY <1>1, <1>3, <1>5, <1>7 DEF t

(* Append, entry by entry.                                                 *)
LEMMA AppendIs ==
  ASSUME NEW A, NEW s \in Seq(A), NEW x \in A
  PROVE  Append(s, x) = [i \in 1..(Len(s) + 1) |-> IF i = Len(s) + 1 THEN x ELSE s[i]]
<1> DEFINE t == Append(s, x)
           n == Len(s)
           u == [i \in 1..(n + 1) |-> IF i = n + 1 THEN x ELSE s[i]]
<1>1. /\ t \in Seq(A) /\ n \in Nat /\ Len(t) = n + 1 /\ t[n + 1] = x
      /\ DOMAIN t = 1..(n + 1) /\ \A i \in 1..n : t[i] = s[i]
  OBVIOUS
<1> HIDE DEF t, n
<1>2. t = [i \in 1..(n + 1) |-> t[i]]
  BY <1>1
<1>3. \A i \in 1..(n + 1) : t[i] = u[i]
  BY <1>1
<1>4. t = u
  BY <1>2, <1>3
<1> QED
  BY <1>4 DEF t, n

(* What is carried of one message.                                         *)
Carry(m) == IF Meaningful(m) THEN <<m>> ELSE <<>>

(* A stripped message is one of a request.                                 *)
LEMMA StrippedType ==
  ASSUME NEW m \in Sent
  PROVE  Stripped(m) \in Sent
<1>1. {} \in SUBSET CallIds
  OBVIOUS
<1>2. m.text \in {"none", "said", "made"}
  BY DEF Sent
<1>3. (IF m.text = "made" THEN "none" ELSE m.text) \in {"none", "said", "made"}
  BY <1>2
<1> QED
  BY <1>1, <1>3 DEF Stripped, Sent

(* Nothing carried, ...                                                    *)
LEMMA CarriedEmpty == Carried(<<>>) = <<>> /\ AsRecorded(<<>>) = <<>>
<1>1. DOMAIN <<>> = {} /\ Len(<<>>) = 0
  OBVIOUS
<1>2. AsRecorded(<<>>) = <<>>
  BY <1>1 DEF AsRecorded
<1>3. [i \in DOMAIN <<>> |-> IF Meaningful(<<>>[i]) THEN <<<<>>[i]>> ELSE <<>>] = <<>>
  BY <1>1
<1>4. FlattenSeq(<<>>) = <<>>
  BY <1>1 DEF FlattenSeq
<1> QED
  BY <1>2, <1>3, <1>4 DEF Carried

(* ... and of one message more.                                            *)
LEMMA CarriedAppend ==
  ASSUME NEW o \in Seq(Sent), NEW m \in Sent
  PROVE  Carried(Append(o, m)) = Carried(o) \o Carry(m)
<1> DEFINE t == Append(o, m)
           n == Len(o)
           co == [i \in DOMAIN o |-> Carry(o[i])]
           ct == [i \in DOMAIN t |-> Carry(t[i])]
<1>1. /\ t \in Seq(Sent) /\ n \in Nat /\ Len(t) = n + 1 /\ t[n + 1] = m
      /\ DOMAIN t = 1..(n + 1) /\ DOMAIN o = 1..n
      /\ \A i \in 1..n : t[i] = o[i]
  OBVIOUS
<1>2. \A x \in Sent : Carry(x) \in Seq(Sent)
  BY DEF Carry
<1>3. co \in Seq(Seq(Sent)) /\ Len(co) = n
  <2>1. \A i \in 1..n : co[i] \in Seq(Sent)
    BY <1>1, <1>2
  <2> QED
    BY <1>1, <2>1
<1>4. ct = Append(co, Carry(m))
  <2> HIDE DEF t
  <2>1. ct = [i \in 1..(n + 1) |-> IF i = n + 1 THEN Carry(m) ELSE co[i]]
    BY <1>1
  <2>2. Append(co, Carry(m)) = [i \in 1..(n + 1) |-> IF i = n + 1 THEN Carry(m) ELSE co[i]]
    BY <1>1, <1>3
  <2> QED
    BY <2>1, <2>2
<1>5. FlattenSeq(ct) = FlattenSeq(co) \o Carry(m)
  BY <1>2, <1>3, <1>4, FlattenAppend
<1>6. Carried(t) = FlattenSeq(ct) /\ Carried(o) = FlattenSeq(co)
  BY Zenon DEF Carried, Carry
<1> QED
  BY <1>5, <1>6

(* What is carried of a sequence of messages is one.                       *)
LEMMA CarriedType ==
  ASSUME NEW o \in Seq(Sent)
  PROVE  Carried(o) \in Seq(Sent)
<1> DEFINE co == [i \in DOMAIN o |-> Carry(o[i])]
<1>1. \A x \in Sent : Carry(x) \in Seq(Sent)
  BY DEF Carry
<1>2. co \in Seq(Seq(Sent)) /\ Len(co) = Len(o)
  <2>1. \A i \in 1..Len(o) : co[i] \in Seq(Sent)
    BY <1>1
  <2>2. DOMAIN o = 1..Len(o) /\ Len(o) \in Nat
    OBVIOUS
  <2> QED
    BY <2>1, <2>2
<1>3. Carried(o) = FlattenSeq(co)
  BY Zenon DEF Carried, Carry
<1> HIDE DEF co
<1>4. PICK f : FlatPrefixes(f, Sent, co)
  BY <1>2, FlattenPrefixes
<1>5. Len(co) \in 0..Len(co)
  BY <1>2
<1> QED
  BY <1>3, <1>4, <1>5 DEF FlatPrefixes

(* The same for a message of a request, stripped.                          *)
LEMMA StripAppend ==
  ASSUME NEW o \in Seq(Sent), NEW m \in Sent
  PROVE  /\ Carried(AsRecorded(Append(o, m))) = Carried(AsRecorded(o)) \o Carry(Stripped(m))
         /\ Carried(AsRecorded(o)) \in Seq(Sent)
<1> DEFINE t == Append(o, m)
           n == Len(o)
<1>1. /\ t \in Seq(Sent) /\ n \in Nat /\ Len(t) = n + 1 /\ t[n + 1] = m
      /\ DOMAIN t = 1..(n + 1) /\ DOMAIN o = 1..n
      /\ \A i \in 1..n : t[i] = o[i]
  OBVIOUS
<1>2. AsRecorded(o) \in Seq(Sent) /\ Len(AsRecorded(o)) = n
  <2>1. \A i \in 1..n : Stripped(o[i]) \in Sent
    BY StrippedType
  <2> QED
    BY <1>1, <2>1 DEF AsRecorded
<1>3. Stripped(m) \in Sent
  BY StrippedType
<1>4. AsRecorded(t) = Append(AsRecorded(o), Stripped(m))
  <2> HIDE DEF t
  <2>1. AsRecorded(t) = [i \in 1..(n + 1) |-> IF i = n + 1 THEN Stripped(m) ELSE AsRecorded(o)[i]]
    BY <1>1 DEF AsRecorded
  <2>2. Append(AsRecorded(o), Stripped(m))
          = [i \in 1..(n + 1) |-> IF i = n + 1 THEN Stripped(m) ELSE AsRecorded(o)[i]]
    BY <1>2, <1>3, AppendIs
  <2> QED
    BY <2>1, <2>2
<1>5. Carried(AsRecorded(t)) = Carried(AsRecorded(o)) \o Carry(Stripped(m))
  BY <1>2, <1>3, <1>4, CarriedAppend
<1>6. Carried(AsRecorded(o)) \in Seq(Sent)
  BY <1>2, CarriedType
<1> QED
  BY <1>5, <1>6

(* A message with another text, with other results, and with made-up ones. *)
WithText(m, x) == [m EXCEPT !.text = x]
WithResults(m, x) == [m EXCEPT !.results = x]
Given(m, x, y) == [m EXCEPT !.results = x, !.made = y]

(* The fields of a message.                                                *)
LEMMA MessageFields ==
  ASSUME NEW r, NEW t, NEW c, NEW s, NEW d
  PROVE  /\ Message(r, t, c, s, d).role = r /\ Message(r, t, c, s, d).text = t
         /\ Message(r, t, c, s, d).calls = c /\ Message(r, t, c, s, d).results = s
         /\ Message(r, t, c, s, d).made = d
         /\ Empty(Message(r, t, c, s, d)) <=> t = "none" /\ c = {} /\ s = {} /\ d = {}
<1>1. /\ Message(r, t, c, s, d).role = r /\ Message(r, t, c, s, d).text = t
      /\ Message(r, t, c, s, d).calls = c /\ Message(r, t, c, s, d).results = s
      /\ Message(r, t, c, s, d).made = d
  BY DEF Message
<1>2. Empty(Message(r, t, c, s, d)) <=> t = "none" /\ c = {} /\ s = {} /\ d = {}
  BY <1>1 DEF Empty
<1> QED
  BY <1>1, <1>2

(* A message with one field replaced.                                      *)
LEMMA MessageChanges ==
  ASSUME NEW r, NEW t, NEW c, NEW s, NEW d, NEW x
  PROVE  /\ WithText(Message(r, t, c, s, d), x) = Message(r, x, c, s, d)
         /\ WithResults(Message(r, t, c, s, d), x) = Message(r, t, c, x, d)
<1>1. WithText(Message(r, t, c, s, d), x) = Message(r, x, c, s, d)
  BY DEF Message, WithText
<1>2. WithResults(Message(r, t, c, s, d), x) = Message(r, t, c, x, d)
  BY DEF Message, WithResults
<1> QED
  BY <1>1, <1>2

(* A message with results and made-up results.                             *)
LEMMA MessageGiven ==
  ASSUME NEW r, NEW t, NEW c, NEW s, NEW d, NEW x, NEW y
  PROVE  Given(Message(r, t, c, s, d), x, y) = Message(r, t, c, x, y)
<1> DEFINE m == Message(r, t, c, s, d)
           a == [m EXCEPT !.results = x, !.made = y]
<1>1. m \in [role : {r}, text : {t}, calls : {c}, results : {s, x}, made : {d, y}]
  BY DEF Message
<1> HIDE DEF m
<1>2. /\ a \in [role : {r}, text : {t}, calls : {c}, results : {s, x}, made : {d, y}]
      /\ a.results = x /\ a.made = y
  BY <1>1
<1> HIDE DEF a
<1>3. a.role = r /\ a.text = t /\ a.calls = c
  BY <1>2
<1>4. a = Message(a.role, a.text, a.calls, a.results, a.made)
  BY <1>2 DEF Message
<1> QED
  BY <1>2, <1>3, <1>4, Zenon DEF Given, a, m

(* A stripped message.                                                     *)
LEMMA MessageStripped ==
  ASSUME NEW r, NEW t, NEW c, NEW s, NEW d
  PROVE  Stripped(Message(r, t, c, s, d)) = Message(r, IF t = "made" THEN "none" ELSE t, c, s, {})
<1> DEFINE m == Message(r, t, c, s, d)
           u == IF t = "made" THEN "none" ELSE t
           a == [m EXCEPT !.made = {}, !.text = IF @ = "made" THEN "none" ELSE @]
<1>1. m \in [role : {r}, text : {t, u}, calls : {c}, results : {s}, made : {d, {}}]
      /\ m.text = t
  BY DEF Message
<1> HIDE DEF m
<1>2. /\ a \in [role : {r}, text : {t, u}, calls : {c}, results : {s}, made : {d, {}}]
      /\ a.text = u /\ a.made = {}
  BY <1>1
<1> HIDE DEF a
<1>3. a.role = r /\ a.results = s /\ a.calls = c
  BY <1>2
<1>4. a = Message(a.role, a.text, a.calls, a.results, a.made)
  BY <1>2 DEF Message
<1>5. a = Message(r, u, c, s, {})
  BY <1>2, <1>3, <1>4, Zenon
<1> QED
  BY <1>5, Zenon DEF Stripped, a, m

(* Messages as recorded are messages of a request.                         *)
LEMMA RecordedFacts ==
  ASSUME NEW m \in Recorded
  PROVE  /\ m \in Sent
         /\ m = Message(m.role, m.text, m.calls, m.results, {})
         /\ m.text \in {"none", "said"} /\ m.role \in {"user", "assistant"}
         /\ m.calls \in SUBSET CallIds /\ m.results \in SUBSET CallIds
         /\ m.role = "user" => m.calls = {}
         /\ m.role = "assistant" => m.results = {}
<1>1. /\ m.made = {} /\ m.text \in {"none", "said"}
      /\ m.role \in {"user", "assistant"}
      /\ m.calls \in SUBSET CallIds /\ m.results \in SUBSET CallIds
  BY DEF Recorded
<1>2. m = [role |-> m.role, text |-> m.text, calls |-> m.calls, results |-> m.results, made |-> m.made]
  BY DEF Recorded
<1>3. m \in Sent
  BY <1>1, <1>2 DEF Sent
<1>4. (m.role = "user" => m.calls = {}) /\ (m.role = "assistant" => m.results = {})
  BY DEF Recorded
<1>5. m = Message(m.role, m.text, m.calls, m.results, {})
  BY <1>1, <1>2 DEF Message
<1> QED
  BY <1>1, <1>3, <1>4, <1>5

(* The results of message i that answer something.                         *)
Answers(ms, i) ==
  {c \in ms[i].results : i > 1 /\ ms[i - 1].role = "assistant" /\ c \in ms[i - 1].calls}

(* WithoutOrphans, entry by entry.                                         *)
LEMMA OrphanFacts ==
  ASSUME NEW ms \in Seq(Recorded), NEW i \in 1..Len(ms)
  PROVE  /\ WithoutOrphans(ms)[i]
               = Message(ms[i].role, ms[i].text, ms[i].calls,
                         ms[i].results \cap PrevCalls(ms, i), {})
         /\ DOMAIN WithoutOrphans(ms) = 1..Len(ms)
         /\ PrevCalls(ms, i) \in SUBSET CallIds
<1>1. DOMAIN ms = 1..Len(ms) /\ ms[i] \in Recorded
  OBVIOUS
<1>2. WithoutOrphans(ms) = [j \in DOMAIN ms |-> WithResults(ms[j], Answers(ms, j))]
  BY Zenon DEF WithoutOrphans, Answers, WithResults
<1>3. WithoutOrphans(ms)[i] = WithResults(ms[i], Answers(ms, i))
  BY <1>1, <1>2
<1>4. Answers(ms, i) = ms[i].results \cap PrevCalls(ms, i)
  BY DEF Answers, PrevCalls
<1>5. ms[i] = Message(ms[i].role, ms[i].text, ms[i].calls, ms[i].results, {})
  BY <1>1, RecordedFacts
<1>6. \A x : WithResults(ms[i], x) = Message(ms[i].role, ms[i].text, ms[i].calls, x, {})
  BY <1>5, MessageChanges
<1>7. PrevCalls(ms, i) \in SUBSET CallIds
  <2>1. CASE i > 1 /\ ms[i - 1].role = "assistant"
    <3>1. ms[i - 1] \in Recorded
      BY <2>1
    <3> QED
      BY <2>1, <3>1, RecordedFacts DEF PrevCalls
  <2>2. CASE ~(i > 1 /\ ms[i - 1].role = "assistant")
    BY <2>2 DEF PrevCalls
  <2> QED
    BY <2>1, <2>2
<1> QED
  BY <1>1, <1>2, <1>3, <1>4, <1>6, <1>7

(* The pieces of which the request is made.                                *)
Piece(ms, i) == IF ms[i].role = "assistant" THEN RepairAssistant(ms, i) ELSE RepairUser(ms, i)

(* What message i, counted from the first, finds to answer.                *)
Due(ms, i) == IF i <= Len(ms) /\ ms[i].role = "user" THEN PrevCalls(ms, i) ELSE {}

(* An assistant message, with its placeholder.                             *)
LEMMA PlaceholderFacts ==
  ASSUME NEW ms \in Seq(Recorded), NEW i \in 1..Len(ms), ms[i].role = "assistant"
  PROVE  /\ Placeholder(ms, i) \in Sent
         /\ Placeholder(ms, i).role = "assistant" /\ Placeholder(ms, i).calls = ms[i].calls
         /\ Placeholder(ms, i).results = {} /\ Placeholder(ms, i).made = {}
         /\ Empty(Placeholder(ms, i)) => i = Len(ms) /\ ms[i].calls = {}
         /\ Stripped(Placeholder(ms, i)) = WithoutOrphans(ms)[i]
<1> DEFINE m == ms[i]
           p == Placeholder(ms, i)
           t == m.text
           c == m.calls
<1>1. m \in Recorded /\ i <= Len(ms) /\ i \in Nat /\ Len(ms) \in Nat
  OBVIOUS
<1>2. /\ m \in Sent /\ t \in {"none", "said"} /\ c \in SUBSET CallIds
      /\ m = Message("assistant", t, c, {}, {})
  BY <1>1, RecordedFacts
<1>3. p = IF Empty(m) /\ i < Len(ms) THEN WithText(m, "made") ELSE m
  BY Zenon DEF Placeholder, WithText
<1>4. WithoutOrphans(ms)[i] = Message("assistant", t, c, {}, {})
  <2>1. WithoutOrphans(ms)[i] = Message(m.role, t, c, m.results \cap PrevCalls(ms, i), {})
    BY OrphanFacts
  <2>2. m.results = {}
    BY <1>1, RecordedFacts
  <2> QED
    BY <2>1, <2>2
<1> HIDE DEF m, p, t, c
<1>5. Empty(m) <=> t = "none" /\ c = {}
  BY <1>2, MessageFields
<1>6. CASE Empty(m) /\ i < Len(ms)
  <2>1. p = Message("assistant", "made", c, {}, {})
    BY <1>2, <1>3, <1>6, MessageChanges
  <2>2. /\ p.role = "assistant" /\ p.calls = c /\ p.results = {} /\ p.made = {}
        /\ ~Empty(p)
        /\ Stripped(p) = Message("assistant", "none", c, {}, {})
    BY <2>1, MessageFields, MessageStripped
  <2>3. p \in Sent
    BY <1>2, <2>1 DEF Sent, Message
  <2> QED
    BY <1>4, <1>5, <1>6, <2>2, <2>3 DEF m, p, t, c
<1>7. CASE ~(Empty(m) /\ i < Len(ms))
  <2>1. p = m
    BY <1>3, <1>7
  <2>2. /\ p.role = "assistant" /\ p.calls = c /\ p.results = {} /\ p.made = {}
        /\ Stripped(p) = Message("assistant", IF t = "made" THEN "none" ELSE t, c, {}, {})
    BY <1>2, <2>1, MessageFields, MessageStripped
  <2>3. Empty(p) => i = Len(ms) /\ c = {}
    BY <1>1, <1>5, <1>7, <2>1
  <2>4. t # "made"
    BY <1>2
  <2> QED
    BY <1>2, <1>4, <2>1, <2>2, <2>3, <2>4 DEF m, p, t, c
<1> QED
  BY <1>6, <1>7

(* A user message with its results put right.                              *)
Mended(ms, i) ==
  [ms[i] EXCEPT !.results = ms[i].results \cap PrevCalls(ms, i),
                !.made = PrevCalls(ms, i) \ (ms[i].results \cap PrevCalls(ms, i))]

(* What the repair of a user message makes of it, and of its results.      *)
LEMMA MendedFacts ==
  ASSUME NEW ms \in Seq(Recorded), NEW i \in 1..Len(ms), ms[i].role = "user"
  PROVE  /\ RepairUser(ms, i) = IF Empty(Mended(ms, i)) THEN <<>> ELSE <<Mended(ms, i)>>
         /\ Mended(ms, i) \in Sent
         /\ Mended(ms, i).role = "user" /\ Mended(ms, i).calls = {}
         /\ Mended(ms, i).results \cap Mended(ms, i).made = {}
         /\ Mended(ms, i).results \cup Mended(ms, i).made = PrevCalls(ms, i)
         /\ Stripped(Mended(ms, i)) = WithoutOrphans(ms)[i]
         /\ Empty(Mended(ms, i)) => PrevCalls(ms, i) = {} /\ Empty(WithoutOrphans(ms)[i])
<1> DEFINE m == ms[i]
           pc == PrevCalls(ms, i)
           k == m.results \cap pc
           u == Mended(ms, i)
<1>1. m \in Recorded
  OBVIOUS
<1>2. /\ m.text \in {"none", "said"} /\ k \in SUBSET CallIds /\ k \subseteq pc
      /\ m = Message("user", m.text, {}, m.results, {})
  BY <1>1, RecordedFacts
<1>3. pc \in SUBSET CallIds /\ WithoutOrphans(ms)[i] = Message("user", m.text, {}, k, {})
  <2>1. m.role = "user" /\ m.calls = {}
    BY <1>1, RecordedFacts
  <2>2. WithoutOrphans(ms)[i] = Message(m.role, m.text, m.calls, k, {})
    BY OrphanFacts
  <2> QED
    BY <2>1, <2>2, OrphanFacts
<1>4. RepairUser(ms, i) = IF Empty(u) THEN <<>> ELSE <<u>>
  BY DEF RepairUser, Mended
<1>5. u = Given(m, k, pc \ k)
  BY Zenon DEF Mended, Given
<1> HIDE DEF m, pc, u, k
<1>6. u = Message("user", m.text, {}, k, pc \ k)
  BY <1>2, <1>5, MessageGiven
<1>7. u \in Sent
  BY <1>2, <1>3, <1>6 DEF Sent, Message
<1>8. /\ u.role = "user" /\ u.calls = {} /\ u.results = k /\ u.made = pc \ k
      /\ Stripped(u) = Message("user", IF m.text = "made" THEN "none" ELSE m.text, {}, k, {})
      /\ Empty(u) <=> m.text = "none" /\ k = {} /\ pc \ k = {}
  BY <1>6, MessageFields, MessageStripped
<1>9. Empty(WithoutOrphans(ms)[i]) <=> m.text = "none" /\ k = {}
  BY <1>3, MessageFields
<1>10. m.text # "made"
  BY <1>2
<1>11. u.results \cap u.made = {} /\ u.results \cup u.made = pc
  BY <1>2, <1>8
<1>12. Stripped(u) = WithoutOrphans(ms)[i]
  BY <1>3, <1>8, <1>10
<1>13. Empty(u) => pc = {} /\ Empty(WithoutOrphans(ms)[i])
  BY <1>8, <1>9
<1> QED
  BY <1>4, <1>7, <1>8, <1>11, <1>12, <1>13 DEF pc, u, m

(* What the repair has made of the first i messages.                       *)
Mending(ms, i, o, w) ==
  /\ o \in Seq(Sent) /\ Shaped(o)
  /\ i < Len(ms) => NoneEmpty(o)
  /\ Owed(o) = Due(ms, i + 1)
  /\ Carried(AsRecorded(o)) = w

(* An assistant message is added, and what answers it if nothing else may. *)
LEMMA AssistantMended ==
  ASSUME NEW ms \in Seq(Recorded), NEW i \in 1..Len(ms), ms[i].role = "assistant",
         NEW o, NEW w, Mending(ms, i - 1, o, w)
  PROVE  Mending(ms, i, o \o Piece(ms, i), w \o Carry(WithoutOrphans(ms)[i]))
<1> DEFINE p == Placeholder(ms, i)
           c == ms[i].calls
           made == Message("user", "none", {}, {}, c)
           o1 == Append(o, p)
           w1 == w \o Carry(WithoutOrphans(ms)[i])
<1>1. i \in Nat /\ Len(ms) \in Nat /\ 1 <= i /\ i <= Len(ms) /\ (i - 1) + 1 = i /\ i - 1 < Len(ms)
      /\ ms[i] \in Recorded
  OBVIOUS
<1>2. /\ p \in Sent /\ p.role = "assistant" /\ p.calls = c /\ p.results = {} /\ p.made = {}
      /\ Empty(p) => i = Len(ms) /\ c = {}
      /\ Stripped(p) = WithoutOrphans(ms)[i]
  BY PlaceholderFacts
<1>3. c \in SUBSET CallIds
  BY <1>1, RecordedFacts
<1>4. /\ o \in Seq(Sent) /\ Shaped(o) /\ NoneEmpty(o) /\ Owed(o) = {}
      /\ Carried(AsRecorded(o)) = w /\ w \in Seq(Sent)
  <2>1. Due(ms, i) = {}
    BY DEF Due
  <2>2. o \in Seq(Sent) /\ Shaped(o) /\ NoneEmpty(o) /\ Owed(o) = {} /\ Carried(AsRecorded(o)) = w
    BY <1>1, <2>1 DEF Mending
  <2> QED
    BY <1>2, <2>2, StripAppend
<1>5. Piece(ms, i) = IF c # {} /\ (i = Len(ms) \/ ms[i + 1].role # "user") THEN <<p, made>> ELSE <<p>>
  BY Zenon DEF Piece, RepairAssistant
<1>6. Due(ms, i + 1) = IF i + 1 <= Len(ms) /\ ms[i + 1].role = "user" THEN c ELSE {}
  <2>1. (i + 1) - 1 = i /\ i + 1 > 1
    BY <1>1
  <2> QED
    BY <2>1 DEF Due, PrevCalls
<1>7. /\ o \o <<p>> = o1 /\ o \o <<p, made>> = Append(o1, made)
  BY <1>4
<1>8. made \in Sent /\ made.role = "user" /\ made.calls = {} /\ made.results = {} /\ made.made = c
      /\ (Empty(made) <=> c = {})
  <2>1. made \in Sent
    BY <1>3 DEF Message, Sent
  <2> QED
    BY <2>1, MessageFields
<1> HIDE DEF p, made
<1>9. /\ o1 \in Seq(Sent) /\ Shaped(o1) /\ Owed(o1) = c
      /\ ~Empty(p) => NoneEmpty(o1)
  BY <1>2, <1>4, ShapedAppend
<1>10. Carried(AsRecorded(o1)) = w1
  BY <1>2, <1>4, StripAppend
<1> HIDE DEF o1, w1, c
<1>11. CASE c # {} /\ (i = Len(ms) \/ ms[i + 1].role # "user")
  <2> DEFINE o2 == Append(o1, made)
  <2>1. NoneEmpty(o1)
    BY <1>2, <1>9, <1>11
  <2>2. /\ o2 \in Seq(Sent) /\ Shaped(o2) /\ Owed(o2) = {} /\ NoneEmpty(o2)
    BY <1>8, <1>9, <1>11, <2>1, ShapedAppend
  <2>3. Carry(Stripped(made)) = <<>>
    <3>1. Stripped(made) = Message("user", "none", {}, {}, {})
      BY MessageStripped DEF made
    <3> QED
      BY <3>1, MessageFields DEF Carry, Meaningful
  <2>4. Carried(AsRecorded(o2)) = w1
    <3>1. /\ Carried(AsRecorded(o2)) = Carried(AsRecorded(o1)) \o <<>> /\ Carried(AsRecorded(o1)) \in Seq(Sent)
      BY <1>8, <1>9, <2>3, StripAppend
    <3> QED
      BY <1>10, <3>1
  <2>5. Due(ms, i + 1) = {}
    BY <1>1, <1>6, <1>11
  <2>6. o \o Piece(ms, i) = o2
    BY <1>5, <1>7, <1>11
  <2> HIDE DEF o2
  <2> QED
    BY <2>2, <2>4, <2>5, <2>6 DEF Mending, w1
<1>12. CASE ~(c # {} /\ (i = Len(ms) \/ ms[i + 1].role # "user"))
  <2>1. o \o Piece(ms, i) = o1
    BY <1>5, <1>7, <1>12
  <2>2. Due(ms, i + 1) = c
    <3>1. CASE c = {}
      BY <1>6, <3>1
    <3>2. CASE c # {}
      <4>1. i + 1 <= Len(ms) /\ ms[i + 1].role = "user"
        BY <1>1, <1>12, <3>2
      <4> QED
        BY <1>6, <4>1
    <3> QED
      BY <3>1, <3>2
  <2>3. i < Len(ms) => NoneEmpty(o1)
    BY <1>1, <1>2, <1>9
  <2> QED
    BY <1>9, <1>10, <2>1, <2>2, <2>3 DEF Mending, w1
<1> QED
  BY <1>11, <1>12

(* A user message is added with its results put right, unless it is empty. *)
LEMMA UserMended ==
  ASSUME NEW ms \in Seq(Recorded), NEW i \in 1..Len(ms), ms[i].role = "user",
         NEW o, NEW w, Mending(ms, i - 1, o, w)
  PROVE  Mending(ms, i, o \o Piece(ms, i), w \o Carry(WithoutOrphans(ms)[i]))
<1> DEFINE u == Mended(ms, i)
           pc == PrevCalls(ms, i)
           v == WithoutOrphans(ms)[i]
<1>1. i \in Nat /\ Len(ms) \in Nat /\ 1 <= i /\ i <= Len(ms) /\ (i - 1) + 1 = i /\ i - 1 < Len(ms)
      /\ ms[i] \in Recorded
  OBVIOUS
<1>2. /\ RepairUser(ms, i) = IF Empty(u) THEN <<>> ELSE <<u>>
      /\ u \in Sent /\ u.role = "user" /\ u.calls = {}
      /\ u.results \cap u.made = {} /\ u.results \cup u.made = pc
      /\ Stripped(u) = v
      /\ Empty(u) => pc = {} /\ Empty(v)
  BY MendedFacts
<1>3. /\ o \in Seq(Sent) /\ Shaped(o) /\ NoneEmpty(o) /\ Owed(o) = pc
      /\ Carried(AsRecorded(o)) = w /\ w \in Seq(Sent)
  <2>1. Due(ms, i) = pc
    BY <1>1 DEF Due
  <2>2. o \in Seq(Sent) /\ Shaped(o) /\ NoneEmpty(o) /\ Owed(o) = pc /\ Carried(AsRecorded(o)) = w
    BY <1>1, <2>1 DEF Mending
  <2> QED
    BY <1>2, <2>2, StripAppend
<1>4. Piece(ms, i) = IF Empty(u) THEN <<>> ELSE <<u>>
  BY <1>2 DEF Piece
<1>5. Due(ms, i + 1) = {}
  <2>1. (i + 1) - 1 = i /\ ms[i].role # "assistant"
    BY <1>1
  <2> QED
    BY <2>1 DEF Due, PrevCalls
<1>6. v.role = "user"
  <2>1. v = Message(ms[i].role, ms[i].text, ms[i].calls, ms[i].results \cap pc, {})
    BY OrphanFacts
  <2> HIDE DEF v
  <2> QED
    BY <2>1, MessageFields
<1> HIDE DEF u, pc, v
<1>7. CASE Empty(u)
  <2>1. Carry(v) = <<>>
    BY <1>2, <1>6, <1>7 DEF Carry, Meaningful
  <2>2. o \o <<>> = o /\ w \o <<>> = w
    BY <1>3
  <2>3. Owed(o) = {}
    BY <1>2, <1>3, <1>7
  <2>4. o \o Piece(ms, i) = o /\ w \o Carry(v) = w
    BY <1>4, <1>7, <2>1, <2>2
  <2>5. Mending(ms, i, o, w)
    BY <1>3, <1>5, <2>3 DEF Mending
  <2> QED
    BY <2>4, <2>5 DEF v
<1>8. CASE ~Empty(u)
  <2> DEFINE o1 == Append(o, u)
  <2>1. /\ o1 \in Seq(Sent) /\ Shaped(o1) /\ Owed(o1) = {} /\ NoneEmpty(o1)
    BY <1>2, <1>3, <1>8, ShapedAppend
  <2>2. Carried(AsRecorded(o1)) = w \o Carry(v)
    BY <1>2, <1>3, StripAppend
  <2>3. o \o Piece(ms, i) = o1
    <3>1. o \o <<u>> = o1
      BY <1>2, <1>3
    <3> QED
      BY <1>4, <1>8, <3>1
  <2> HIDE DEF o1
  <2>4. Mending(ms, i, o1, w \o Carry(v))
    BY <1>5, <2>1, <2>2 DEF Mending
  <2> QED
    BY <2>3, <2>4 DEF v
<1> QED
  BY <1>7, <1>8

(* The repaired list is a request that a provider accepts, says what the   *)
(* history says, and has no empty message of the user.                     *)
LEMMA RepairedFacts ==
  ASSUME NEW ms \in Seq(Recorded)
  PROVE  /\ Repaired(ms) \in Seq(Sent)
         /\ Acceptable(Repaired(ms))
         /\ Carried(AsRecorded(Repaired(ms))) = Carried(WithoutOrphans(ms))
         /\ \A i \in DOMAIN Repaired(ms) : Meaningful(Repaired(ms)[i])
<1> DEFINE n == Len(ms)
           ps == [i \in DOMAIN ms |-> Piece(ms, i)]
           wo == WithoutOrphans(ms)
           cs == [i \in DOMAIN wo |-> Carry(wo[i])]
<1>1. n \in Nat /\ DOMAIN ms = 1..n /\ DOMAIN wo = 1..n
  BY DEF WithoutOrphans
<1>2. Repaired(ms) = FlattenSeq(ps)
  BY Zenon DEF Repaired, Piece
<1>3. Carried(wo) = FlattenSeq(cs)
  BY Zenon DEF Carried, Carry
<1>4. \A i \in 1..n : Piece(ms, i) \in Seq(Sent)
  <2> SUFFICES ASSUME NEW i \in 1..n PROVE Piece(ms, i) \in Seq(Sent)
    OBVIOUS
  <2>1. ms[i] \in Recorded
    OBVIOUS
  <2>2. CASE ms[i].role = "assistant"
    <3> DEFINE p == Placeholder(ms, i)
               made == Message("user", "none", {}, {}, ms[i].calls)
    <3>1. p \in Sent
      BY <2>2, PlaceholderFacts
    <3>2. made \in Sent
      <4>1. ms[i].calls \in SUBSET CallIds
        BY <2>1, RecordedFacts
      <4> QED
        BY <4>1 DEF Message, Sent
    <3>3. Piece(ms, i) \in {<<p>>, <<p, made>>}
      BY <2>2, Zenon DEF Piece, RepairAssistant
    <3> HIDE DEF p, made
    <3>4. <<p>> \in Seq(Sent) /\ <<p, made>> \in Seq(Sent)
      BY <3>1, <3>2
    <3> QED
      BY <3>3, <3>4
  <2>3. CASE ms[i].role = "user"
    <3>1. Piece(ms, i) = RepairUser(ms, i)
      BY <2>3 DEF Piece
    <3> DEFINE u == Mended(ms, i)
    <3>2. u \in Sent /\ Piece(ms, i) \in {<<>>, <<u>>}
      BY <2>3, <3>1, MendedFacts
    <3> HIDE DEF u
    <3>3. <<>> \in Seq(Sent) /\ <<u>> \in Seq(Sent)
      BY <3>2
    <3> QED
      BY <3>2, <3>3
  <2> QED
    BY <2>1, <2>2, <2>3, RecordedFacts
<1>5. ps \in Seq(Seq(Sent)) /\ Len(ps) = n /\ \A i \in 1..n : ps[i] = Piece(ms, i)
  BY <1>1, <1>4
<1>6. cs \in Seq(Seq(Sent)) /\ Len(cs) = n /\ \A i \in 1..n : cs[i] = Carry(WithoutOrphans(ms)[i])
  <2>1. ASSUME NEW i \in 1..n PROVE wo[i] \in Sent
    <3>1. ms[i] \in Recorded
      OBVIOUS
    <3>2. CASE ms[i].role = "assistant"
      BY <3>2, PlaceholderFacts, StrippedType
    <3>3. CASE ms[i].role = "user"
      BY <3>3, MendedFacts, StrippedType
    <3> QED
      BY <3>1, <3>2, <3>3, RecordedFacts
  <2>2. \A i \in 1..n : Carry(wo[i]) \in Seq(Sent)
    BY <2>1 DEF Carry
  <2> QED
    BY <1>1, <2>2
<1> HIDE DEF ps, cs
<1>7. PICK f : FlatPrefixes(f, Sent, ps)
  BY <1>5, FlattenPrefixes
<1>8. PICK h : FlatPrefixes(h, Sent, cs)
  BY <1>6, FlattenPrefixes
<1>9. /\ f[0] = <<>> /\ FlattenSeq(ps) = f[n]
      /\ \A i \in 1..n : f[i] = f[i - 1] \o Piece(ms, i)
  BY <1>5, <1>7 DEF FlatPrefixes
<1>10. /\ h[0] = <<>> /\ FlattenSeq(cs) = h[n]
       /\ \A i \in 1..n : h[i] = h[i - 1] \o Carry(WithoutOrphans(ms)[i])
  BY <1>6, <1>8 DEF FlatPrefixes
<1> DEFINE P == {i \in Nat : i <= n => Mending(ms, i, f[i], h[i])}
<1>11. 0 \in P
  <2>1. <<>> \in Seq(Sent) /\ Shaped(<<>>) /\ NoneEmpty(<<>>) /\ Owed(<<>>) = {}
    BY DEF Shaped, NoneEmpty, Owed
  <2>2. Due(ms, 0 + 1) = {}
    BY DEF Due, PrevCalls
  <2>3. Mending(ms, 0, <<>>, <<>>)
    BY <2>1, <2>2, CarriedEmpty DEF Mending
  <2> QED
    BY <1>9, <1>10, <2>3
<1>12. ASSUME NEW i \in Nat, i \in P PROVE i + 1 \in P
  <2>1. SUFFICES ASSUME i + 1 <= n PROVE Mending(ms, i + 1, f[i + 1], h[i + 1])
    OBVIOUS
  <2>2. i + 1 \in 1..n /\ (i + 1) - 1 = i /\ i <= n
    BY <1>1, <2>1
  <2>3. Mending(ms, i, f[i], h[i])
    BY <1>12, <2>2
  <2>4. /\ f[i + 1] = f[i] \o Piece(ms, i + 1)
        /\ h[i + 1] = h[i] \o Carry(WithoutOrphans(ms)[i + 1])
    BY <1>9, <1>10, <2>2
  <2>5. ms[i + 1] \in Recorded
    BY <2>2
  <2>6. CASE ms[i + 1].role = "assistant"
    BY <2>2, <2>3, <2>4, <2>6, AssistantMended
  <2>7. CASE ms[i + 1].role = "user"
    BY <2>2, <2>3, <2>4, <2>7, UserMended
  <2> QED
    BY <2>5, <2>6, <2>7, RecordedFacts
<1>13. Nat \subseteq P
  <2> HIDE DEF P
  <2> QED
    BY <1>11, <1>12, NatInductionOver
<1>14. Mending(ms, n, f[n], h[n])
  BY <1>1, <1>13
<1>15. Due(ms, n + 1) = {}
  BY <1>1 DEF Due
<1>16. f[n] \in Seq(Sent) /\ Shaped(f[n]) /\ Owed(f[n]) = {} /\ Carried(AsRecorded(f[n])) = h[n]
  BY <1>14, <1>15 DEF Mending
<1> QED
  BY <1>2, <1>3, <1>9, <1>10, <1>16, ShapedAcceptable

(* The history with the placeholders, when nothing else needs repair.      *)
Placeheld(ms) == [i \in DOMAIN ms |-> IF ms[i].role = "assistant" THEN Placeholder(ms, i) ELSE ms[i]]

(* Such a history is sent as it was recorded, with the placeholders.       *)
LEMMA PairedFacts ==
  ASSUME NEW ms \in Seq(Recorded), Paired(ms)
  PROVE  /\ Placeheld(ms) \in Seq(Sent)
         /\ Acceptable(Placeheld(ms))
         /\ AsRecorded(Placeheld(ms)) = ms
         /\ WithoutOrphans(ms) = ms
<1> DEFINE o == Placeheld(ms)
           n == Len(ms)
<1>1. n \in Nat /\ DOMAIN ms = 1..n /\ DOMAIN o = 1..n
  BY DEF Placeheld
<1>2. ASSUME NEW i \in 1..n
      PROVE  /\ o[i] \in Sent
             /\ o[i].role = ms[i].role /\ o[i].calls = ms[i].calls
             /\ o[i].results = ms[i].results /\ o[i].made = {}
             /\ o[i].results = IF ms[i].role = "user" THEN PrevCalls(ms, i) ELSE {}
             /\ Empty(o[i]) => ms[i].role = "user" \/ i = n
             /\ Stripped(o[i]) = ms[i] /\ WithoutOrphans(ms)[i] = ms[i]
             /\ o[i].calls # {} => i < n /\ ms[i + 1].role = "user"
  <2>1. /\ ms[i] \in Recorded /\ i \in DOMAIN ms
        /\ ms[i] = Message(ms[i].role, ms[i].text, ms[i].calls, ms[i].results, {})
        /\ ms[i] \in Sent /\ ms[i].text # "made" /\ ms[i].role \in {"user", "assistant"}
        /\ ms[i].role = "user" => ms[i].calls = {}
        /\ ms[i].role = "assistant" => ms[i].results = {}
    <3>1. ms[i] \in Recorded /\ i \in DOMAIN ms
      BY <1>1
    <3> QED
      BY <3>1, RecordedFacts
  <2>2. WithoutOrphans(ms)[i]
          = Message(ms[i].role, ms[i].text, ms[i].calls, ms[i].results \cap PrevCalls(ms, i), {})
    BY OrphanFacts
  <2>3. ms[i].results \cap PrevCalls(ms, i) = ms[i].results
    BY <2>1 DEF Paired
  <2>4. WithoutOrphans(ms)[i] = ms[i]
    BY <2>1, <2>2, <2>3
  <2>5. CASE ms[i].role = "assistant"
    <3>1. o[i] = Placeholder(ms, i)
      BY <1>1, <2>5 DEF Placeheld
    <3> HIDE DEF o
    <3>2. ms[i].calls # {} => i < n /\ ms[i + 1].role = "user"
      BY <2>1, <2>5 DEF Paired
    <3>3. /\ o[i] \in Sent /\ o[i].role = "assistant" /\ o[i].calls = ms[i].calls
          /\ o[i].results = {} /\ o[i].made = {}
          /\ Empty(o[i]) => i = n
          /\ Stripped(o[i]) = WithoutOrphans(ms)[i]
      BY <2>5, <3>1, PlaceholderFacts
    <3> QED
      BY <2>1, <2>4, <2>5, <3>2, <3>3
  <2>6. CASE ms[i].role = "user"
    <3>1. o[i] = ms[i]
      BY <1>1, <2>6 DEF Placeheld
    <3> HIDE DEF o
    <3>2. ms[i].results = PrevCalls(ms, i)
      BY <2>1, <2>6 DEF Paired
    <3>3. Stripped(ms[i]) = Message(ms[i].role, ms[i].text, ms[i].calls, ms[i].results, {})
      <4>1. (IF ms[i].text = "made" THEN "none" ELSE ms[i].text) = ms[i].text
        BY <2>1
      <4>2. \A r, t, c, s, d : Stripped(Message(r, t, c, s, d))
                                 = Message(r, IF t = "made" THEN "none" ELSE t, c, s, {})
        BY MessageStripped
      <4> QED
        BY <2>1, <4>1, <4>2
    <3>4. ms[i].made = {}
      BY <2>1 DEF Recorded
    <3> QED
      BY <2>1, <2>4, <2>6, <3>1, <3>2, <3>3, <3>4
  <2> QED
    BY <2>1, <2>5, <2>6
<1>3. o \in Seq(Sent) /\ Len(o) = n
  <2>1. \A i \in 1..n : o[i] \in Sent
    BY <1>2
  <2>2. o = [i \in 1..n |-> o[i]]
    BY <1>1 DEF Placeheld
  <2> HIDE DEF o
  <2> QED
    BY <1>1, <2>1, <2>2
<1> HIDE DEF o
<1>4. Acceptable(o)
  <2> SUFFICES ASSUME NEW i \in 1..n
               PROVE  /\ o[i].calls # {} => i < Len(o) /\ o[i + 1].role = "user"
                      /\ o[i].results \cap o[i].made = {}
                      /\ o[i].results \cup o[i].made
                           = IF o[i].role = "user" /\ i > 1 THEN o[i - 1].calls ELSE {}
                      /\ Empty(o[i]) => o[i].role = "user" \/ i = Len(o)
    BY <1>1 DEF Acceptable
  <2>1. o[i].calls # {} => i < Len(o) /\ o[i + 1].role = "user"
    <3> SUFFICES ASSUME o[i].calls # {}
                 PROVE  i < Len(o) /\ o[i + 1].role = "user"
      OBVIOUS
    <3>1. i < n /\ ms[i + 1].role = "user"
      BY <1>2
    <3>2. i + 1 \in 1..n
      BY <1>1, <3>1
    <3> QED
      BY <1>2, <1>3, <3>1, <3>2
  <2>2. PrevCalls(ms, i) = IF i > 1 THEN o[i - 1].calls ELSE {}
    <3>1. CASE i > 1
      <4>1. i - 1 \in 1..n
        BY <1>1, <3>1
      <4>2. o[i - 1].calls = ms[i - 1].calls
        BY <1>2, <4>1
      <4>3. ms[i - 1].role # "assistant" => ms[i - 1].calls = {}
        <5>1. ms[i - 1] \in Recorded
          BY <4>1
        <5> QED
          BY <5>1, RecordedFacts
      <4> QED
        BY <3>1, <4>2, <4>3 DEF PrevCalls
    <3>2. CASE ~(i > 1)
      BY <3>2 DEF PrevCalls
    <3> QED
      BY <3>1, <3>2
  <2> QED
    BY <1>2, <1>3, <2>1, <2>2
<1>5. AsRecorded(o) = ms
  <2>1. AsRecorded(o) = [i \in 1..n |-> Stripped(o[i])]
    BY <1>1 DEF AsRecorded
  <2>2. ms = [i \in 1..n |-> ms[i]]
    BY <1>1
  <2> QED
    BY <1>2, <2>1, <2>2
<1>6. WithoutOrphans(ms) = ms
  <2> DEFINE wo == WithoutOrphans(ms)
  <2>1. wo = [i \in 1..n |-> wo[i]]
    BY <1>1 DEF WithoutOrphans
  <2>2. ms = [i \in 1..n |-> ms[i]]
    BY <1>1
  <2>3. \A i \in 1..n : wo[i] = ms[i]
    BY <1>2
  <2> HIDE DEF wo
  <2>4. wo = ms
    BY <2>1, <2>2, <2>3
  <2> QED
    BY <2>4 DEF wo
<1> QED
  BY <1>3, <1>4, <1>5, <1>6 DEF o

(* insertMissingToolResults makes of any history a request whose calls and *)
(* results pair up and that says what the history says; it has an empty    *)
(* message of the user only if it is the history as it was recorded.       *)
LEMMA RepairWorks ==
  ASSUME NEW ms \in Seq(Recorded), NEW o, o = insertMissingToolResults(ms)
  PROVE  /\ o \in Seq(Sent) /\ Acceptable(o)
         /\ Carried(AsRecorded(o)) = Carried(WithoutOrphans(ms))
         /\ (\E i \in DOMAIN o : ~Meaningful(o[i])) => AsRecorded(o) = ms
<1>1. CASE Paired(ms)
  <2>1. o = Placeheld(ms)
    BY <1>1, Zenon DEF insertMissingToolResults, Placeheld
  <2> QED
    BY <1>1, <2>1, PairedFacts
<1>2. CASE ~Paired(ms)
  <2>1. o = Repaired(ms)
    BY <1>2 DEF insertMissingToolResults
  <2> QED
    BY <2>1, RepairedFacts
<1> QED
  BY <1>1, <1>2

-----------------------------------------------------------------------------
(* A run begins without a batch.                                           *)
LEMMA InitInv == Init => IInv
<1> SUFFICES ASSUME Init PROVE IInv
  OBVIOUS
<1>1. ControlOK
  <2>1. <<>> \in Seq(Kinds) /\ Len(<<>>) = 0 /\ DOMAIN <<>> = {}
    OBVIOUS
  <2>2. ASSUME NEW S PROVE <<>> \in [{} -> S]
    BY SMT
  <2>3. DOMAIN calls = {} /\ Len(calls) = 0 /\ calls \in Seq(Kinds)
    BY <2>1 DEF Init
  <2>4. /\ worker \in [{} -> {"none", "ready", "waiting", "done"}]
        /\ tool \in [{} -> {"none", "running", "returned"}]
        /\ out \in [{} -> {"none", "ok", "error", "end", "canceled"}]
        /\ result \in [{} -> {"none", "ok", "error", "end", "canceled", "abandoned"} \cup NotRun]
    BY <2>2 DEF Init
  <2>5. first \in 1..(0 + 1) /\ last \in 1..(0 + 1)
    BY DEF Init
  <2> QED
    BY <2>3, <2>4, <2>5 DEF Init, ControlOK
<1>2. PlaceInv /\ OrderInv /\ SequentialOrder /\ DirInv /\ \A i \in DOMAIN calls : WorkInv(i)
  BY DEF Init, PlaceInv, OrderInv, SequentialOrder, DirInv, InBatch
<1> QED
  BY <1>1, <1>2 DEF IInv

(* Every step keeps the invariant.                                         *)
LEMMA StepInv == IInv /\ [Next]_vars => IInv'
<1> SUFFICES ASSUME IInv, [Next]_vars PROVE IInv'
  OBVIOUS
<1>1. CASE UNCHANGED vars
  <2> USE <1>1 DEF vars, batch
  <2>1. ControlOK' /\ PlaceInv' /\ OrderInv' /\ SequentialOrder'
    BY DEF IInv, ControlOK, PlaceInv, OrderInv, SequentialOrder, Untouched, InBatch, Group,
       GroupEnds, IsCd, IsSequential
  <2>2. DirInv' /\ \A i \in DOMAIN calls' : WorkInv(i)'
    BY DEF IInv, DirInv, WorkInv, InBatch, IsCd
  <2> QED
    BY <2>1, <2>2 DEF IInv
<1>2. CASE Next
  <2>1. CASE Main \/ FinalReply \/ EmitFails \/ Cancel
    BY <2>1, RoundStep, SkipStep, StartStep, ReleaseStep, FinishStep DEF Main
  <2>2. CASE \E cs \in Batches : Respond(cs)
    BY <2>2, RespondStep
  <2>3. CASE \E i \in DOMAIN calls : WorkerStep(i) \/ \E o \in Outcomes(i) : ToolReturns(i, o)
    BY <2>3, DeclineStep, ExecuteStep, TakeStep, AbandonStep, ToolReturnsStep DEF WorkerStep
  <2> QED
    BY <1>2, <2>1, <2>2, <2>3 DEF Next
<1> QED
  BY <1>1, <1>2

(* The data: messages as recorded, requests, the directory.                *)
DataOK == messages \in Seq(Recorded) /\ request \in Seq(Sent) /\ dir \in 0..Len(calls)

(* A run begins with a history and no request.                             *)
LEMMA InitData == Init => DataOK /\ RequestRepaired
<1> SUFFICES ASSUME Init PROVE DataOK /\ RequestRepaired
  OBVIOUS
<1>1. messages \in Seq(Recorded)
  BY HistoriesAssumption DEF Init
<1>2. <<>> \in Seq(Sent) /\ Acceptable(<<>>) /\ Len(<<>>) = 0
  BY DEF Acceptable
<1> QED
  BY <1>1, <1>2 DEF Init, DataOK, RequestRepaired

(* A step that leaves the request alone and builds none leaves it repaired. *)
LEMMA SameRequest ==
  ASSUME RequestRepaired, request' = request,
         phase' # "response" \/ (phase' = phase /\ messages' = messages)
  PROVE  RequestRepaired'
<1>1. Acceptable(request)'
  BY DEF RequestRepaired
<1>2. ASSUME phase' = "response"
      PROVE  (/\ Carried(AsRecorded(request)) = Carried(WithoutOrphans(messages))
              /\ (\E i \in DOMAIN request : ~Meaningful(request[i])) => AsRecorded(request) = messages)'
  BY <1>2 DEF RequestRepaired
<1> QED
  BY <1>1, <1>2 DEF RequestRepaired

(* Every step keeps the data in shape and the request repaired.            *)
LEMMA StepData ==
  ASSUME IInv, DataOK, RequestRepaired, [Next]_vars
  PROVE  DataOK' /\ RequestRepaired'
<1>1. /\ messages \in Seq(Recorded) /\ request \in Seq(Sent) /\ dir \in 0..Len(calls)
      /\ calls \in Seq(Kinds) /\ DOMAIN result = DOMAIN calls
  BY DEF IInv, ControlOK, DataOK
<1> USE DEF batch
<1>2. CASE UNCHANGED vars
  BY <1>1, <1>2, SameRequest DEF vars, DataOK
<1>3. CASE Request
  <2>1. request' = insertMissingToolResults(messages) /\ messages' = messages /\ calls' = calls /\ dir' = dir
    BY <1>3 DEF Request
  <2>2. DataOK'
    BY <1>1, <2>1, RepairWorks DEF DataOK
  <2>3. /\ Acceptable(request')
        /\ Carried(AsRecorded(request')) = Carried(WithoutOrphans(messages'))
        /\ (\E i \in DOMAIN request' : ~Meaningful(request'[i])) => AsRecorded(request') = messages'
    BY <1>1, <2>1, RepairWorks
  <2> QED
    BY <2>2, <2>3 DEF RequestRepaired
<1>4. CASE SkipGroup \/ StartGroup \/ Release \/ FinishGroup \/ FinalReply \/ EmitFails \/ Cancel
  <2>1. /\ messages' = messages /\ request' = request /\ calls' = calls /\ dir' = dir
        /\ phase' # "response" \/ phase' = phase
    BY <1>4 DEF SkipGroup, StartGroup, Release, FinishGroup, FinalReply, EmitFails, Cancel
  <2> QED
    BY <1>1, <2>1, SameRequest DEF DataOK
<1>5. CASE EmitToolResponse
  <2> DEFINE rs == {<<Len(messages), i>> : i \in DOMAIN result}
             m == Message("user", "none", {}, rs, {})
  <2>1. /\ messages' = Append(messages, m) /\ request' = request /\ calls' = calls /\ dir' = dir
        /\ phase' # "response"
    BY <1>5 DEF EmitToolResponse
  <2>2. rs \in SUBSET CallIds
    BY <1>1 DEF CallIds
  <2> HIDE DEF rs
  <2>3. m \in Recorded
    BY <2>2 DEF Message, Recorded
  <2> HIDE DEF m
  <2>4. Append(messages, m) \in Seq(Recorded)
    BY <1>1, <2>3
  <2>5. request' = request /\ phase' # "response"
    BY <2>1
  <2>6. RequestRepaired'
    BY <2>5, SameRequest, Zenon
  <2> QED
    BY <1>1, <2>1, <2>4, <2>6 DEF DataOK
<1>6. CASE \E cs \in Batches : Respond(cs)
  <2>1. PICK cs \in Batches : Respond(cs)
    BY <1>6
  <2>2. cs \in Seq(Kinds) /\ DOMAIN cs \subseteq Nat
    BY DEF Batches
  <2>3. CASE cancelled
    <3>1. /\ messages' = messages /\ request' = request /\ calls' = calls /\ dir' = dir
          /\ phase' # "response"
      BY <2>1, <2>3 DEF Respond
    <3> QED
      BY <1>1, <3>1, SameRequest DEF DataOK
  <2>4. CASE ~cancelled
    <3> DEFINE us == {<<Len(messages) + 1, i>> : i \in DOMAIN cs}
               m == Message("assistant", "said", us, {}, {})
    <3>1. /\ messages' = Append(messages, m) /\ request' = request /\ calls' = cs /\ dir' = 0
          /\ phase' # "response"
      BY <2>1, <2>4 DEF Respond
    <3>2. us \in SUBSET CallIds
      BY <1>1, <2>2 DEF CallIds
    <3> HIDE DEF us
    <3>3. m \in Recorded
      BY <3>2 DEF Message, Recorded
    <3> HIDE DEF m
    <3>4. 0 \in 0..Len(cs)
      BY <2>2
    <3>5. Append(messages, m) \in Seq(Recorded)
      BY <1>1, <3>3
    <3>6. request' = request /\ phase' # "response"
      BY <3>1
    <3>7. RequestRepaired'
      BY <3>6, SameRequest, Zenon
    <3> QED
      BY <1>1, <3>1, <3>4, <3>5, <3>7 DEF DataOK
  <2> QED
    BY <2>3, <2>4
<1>7. CASE \E i \in DOMAIN calls : WorkerStep(i) \/ \E o \in Outcomes(i) : ToolReturns(i, o)
  <2>1. PICK i \in DOMAIN calls : WorkerStep(i) \/ \E o \in Outcomes(i) : ToolReturns(i, o)
    BY <1>7
  <2>2. /\ messages' = messages /\ request' = request /\ calls' = calls /\ phase' = phase
        /\ dir' \in {dir, i}
    BY <2>1 DEF WorkerStep, Decline, Execute, TakeResult, Abandon, ToolReturns
  <2>3. i \in 0..Len(calls)
    BY <1>1
  <2> QED
    BY <1>1, <2>2, <2>3, SameRequest DEF DataOK
<1> QED
  BY <1>2, <1>3, <1>4, <1>5, <1>6, <1>7 DEF Next, Main

(* The inductive invariant holds in every run.                             *)
THEOREM Invariance == Spec => []IInv
  BY InitInv, StepInv, PTL DEF Spec

(* A tool whose result says that it was not run never starts, whatever the *)
(* order in which workers, cancellation and change_dirs meet.              *)
THEOREM NotRunResults == Spec => []NotRunIsTrue
<1>1. IInv => NotRunIsTrue
  BY DEF IInv, WorkInv, NotRunIsTrue
<1> QED
  BY <1>1, Invariance, PTL

(* Calls of a sequential tool run one at a time and in order, also when    *)
(* the first of them ignores a cancellation and is given up.               *)
THEOREM SequentialCalls == Spec => []SequentialOrder
<1>1. IInv => SequentialOrder
  BY DEF IInv
<1> QED
  BY <1>1, Invariance, PTL

(* A tool runs from its start to its end in the directory of the           *)
(* change_dir before it in the response.                                   *)
THEOREM DirectoryOfCalls == Spec => []RunsInItsDirectory
<1>1. \A k : LastCd(k) = CdBefore(calls, k)
  BY DEF LastCd, CdBefore, LastIn, IsCd
<1>2. IInv => RunsInItsDirectory
  BY <1>1 DEF IInv, DirInv, RunsInItsDirectory
<1> QED
  BY <1>2, Invariance, PTL

(* The data keeps its shape in every run.                                  *)
THEOREM DataInvariance == Spec => [](DataOK /\ RequestRepaired)
<1>1. Init => DataOK /\ RequestRepaired
  BY InitData
<1>2. IInv /\ (DataOK /\ RequestRepaired) /\ [Next]_vars => (DataOK /\ RequestRepaired)'
  BY StepData
<1> QED
  BY <1>1, <1>2, Invariance, PTL DEF Spec

(* Every variable keeps its type, whatever the history of the run.         *)
THEOREM TypesHold == Spec => []TypeOK
<1>1. IInv /\ DataOK => TypeOK
  BY DEF IInv, ControlOK, DataOK, TypeOK
<1> QED
  BY <1>1, Invariance, DataInvariance, PTL

(* In every request calls and results pair up, and it tells the model what *)
(* the history says, for any history however its results are placed; an    *)
(* empty message of the user is in it only when it is the whole history as *)
(* it was recorded.                                                        *)
THEOREM RequestsRepaired == Spec => []RequestRepaired
  BY DataInvariance, PTL

-----------------------------------------------------------------------------
(* Compaction: sequences and recursions.                                   *)

(* One step of Kept.                                                       *)
KeptNext(sofar, items, places, i) ==
  IF i \in places THEN Append(sofar, items[i]) ELSE sofar

(* The recursion of Kept over its first n steps.                           *)
IsKept(f, items, places, n) ==
  f = [i \in 0..n |-> IF i = 0 THEN <<>> ELSE KeptNext(f[i - 1], items, places, i)]

(* That recursion has a solution.                                          *)
LEMMA KeptExists ==
  ASSUME NEW items, NEW places
  PROVE  \A n \in Nat : \E f : IsKept(f, items, places, n)
<1> DEFINE P == {n \in Nat : \E f : IsKept(f, items, places, n)}
<1>1. 0 \in P
  <2> DEFINE f == [i \in 0..0 |-> <<>>]
             h == [i \in 0..0 |-> IF i = 0 THEN <<>> ELSE KeptNext(f[i - 1], items, places, i)]
  <2>1. f = h
    <3>1. \A i \in 0..0 : i = 0
      OBVIOUS
    <3> QED
      BY <3>1
  <2>2. IsKept(f, items, places, 0)
    BY <2>1, Zenon DEF IsKept
  <2> HIDE DEF f
  <2> QED
    BY <2>2
<1>2. ASSUME NEW n \in Nat, n \in P PROVE n + 1 \in P
  <2>1. PICK f : IsKept(f, items, places, n)
    BY <1>2
  <2> DEFINE g == [i \in 0..(n + 1) |-> IF i = n + 1 THEN KeptNext(f[n], items, places, i) ELSE f[i]]
             h == [i \in 0..(n + 1) |-> IF i = 0 THEN <<>> ELSE KeptNext(g[i - 1], items, places, i)]
  <2>2. ASSUME NEW i \in 0..(n + 1) PROVE g[i] = h[i]
    <3>1. CASE i = 0
      <4>1. i \in 0..n /\ i # n + 1
        BY <3>1
      <4>2. f[i] = <<>>
        BY <2>1, <3>1, <4>1 DEF IsKept
      <4> QED
        BY <3>1, <4>1, <4>2
    <3>2. CASE i = n + 1
      <4>1. i - 1 = n /\ n \in 0..(n + 1) /\ n # n + 1 /\ i # 0
        BY <3>2
      <4>2. g[n] = f[n]
        BY <4>1
      <4> QED
        BY <3>2, <4>1, <4>2
    <3>3. CASE i # n + 1 /\ i # 0
      <4>1. i \in 0..n /\ i - 1 \in 0..(n + 1) /\ i - 1 # n + 1
        BY <3>3
      <4>2. g[i] = f[i] /\ g[i - 1] = f[i - 1]
        BY <3>3, <4>1
      <4>3. f[i] = KeptNext(f[i - 1], items, places, i)
        BY <2>1, <3>3, <4>1 DEF IsKept
      <4> QED
        BY <3>3, <4>2, <4>3
    <3> QED
      BY <3>1, <3>2, <3>3
  <2>3. g = h
    <3> HIDE DEF g
    <3>1. g = [i \in 0..(n + 1) |-> g[i]]
      BY DEF g
    <3> QED
      BY <2>2, <3>1
  <2>4. IsKept(g, items, places, n + 1)
    BY <2>3, Zenon DEF IsKept
  <2> HIDE DEF g
  <2> QED
    BY <2>4
<1>3. Nat \subseteq P
  <2> HIDE DEF P
  <2> QED
    BY <1>1, <1>2, NatInductionOver
<1> QED
  BY <1>3

(* What it passes through on the way.                                      *)
KeptPrefixes(f, items, places) ==
  /\ f[0] = <<>>
  /\ \A i \in 1..Len(items) : f[i] = KeptNext(f[i - 1], items, places, i)
  /\ Kept(items, places) = f[Len(items)]

(* It goes from one step to the next.                                      *)
LEMMA KeptPrefixesExist ==
  ASSUME NEW items, NEW places, Len(items) \in Nat
  PROVE  \E f : KeptPrefixes(f, items, places)
<1> DEFINE h == CHOOSE h : IsKept(h, items, places, Len(items))
<1>1. IsKept(h, items, places, Len(items))
  <2>1. \E f : IsKept(f, items, places, Len(items))
    BY KeptExists
  <2> QED
    BY <2>1, Zenon
<1>2. Kept(items, places) = h[Len(items)]
  BY Zenon DEF Kept, KeptNext, IsKept
<1> HIDE DEF h
<1>3. \A i \in 0..Len(items) : h[i] = IF i = 0 THEN <<>> ELSE KeptNext(h[i - 1], items, places, i)
  BY <1>1 DEF IsKept
<1>4. h[0] = <<>> /\ \A i \in 1..Len(items) : h[i] = KeptNext(h[i - 1], items, places, i)
  BY <1>3
<1> QED
  BY <1>2, <1>4 DEF KeptPrefixes

(* The recursion of compactedContext over its first n steps.               *)
IsViewing(f, rs, n) ==
  f = [i \in 0..n |-> IF i = 0 THEN {<<>>} ELSE Viewed(f[i - 1], i, rs[i])]

(* That recursion has a solution.                                          *)
LEMMA ViewingExists ==
  ASSUME NEW rs
  PROVE  \A n \in Nat : \E f : IsViewing(f, rs, n)
<1> DEFINE P == {n \in Nat : \E f : IsViewing(f, rs, n)}
<1>1. 0 \in P
  <2> DEFINE f == [i \in 0..0 |-> {<<>>}]
             h == [i \in 0..0 |-> IF i = 0 THEN {<<>>} ELSE Viewed(f[i - 1], i, rs[i])]
  <2>1. f = h
    <3>1. \A i \in 0..0 : i = 0
      OBVIOUS
    <3> QED
      BY <3>1
  <2>2. IsViewing(f, rs, 0)
    BY <2>1, Zenon DEF IsViewing
  <2> HIDE DEF f
  <2> QED
    BY <2>2
<1>2. ASSUME NEW n \in Nat, n \in P PROVE n + 1 \in P
  <2>1. PICK f : IsViewing(f, rs, n)
    BY <1>2
  <2> DEFINE g == [i \in 0..(n + 1) |-> IF i = n + 1 THEN Viewed(f[n], i, rs[i]) ELSE f[i]]
             h == [i \in 0..(n + 1) |-> IF i = 0 THEN {<<>>} ELSE Viewed(g[i - 1], i, rs[i])]
  <2>2. ASSUME NEW i \in 0..(n + 1) PROVE g[i] = h[i]
    <3>1. CASE i = 0
      <4>1. i \in 0..n /\ i # n + 1
        BY <3>1
      <4>2. f[i] = {<<>>}
        BY <2>1, <3>1, <4>1 DEF IsViewing
      <4> QED
        BY <3>1, <4>1, <4>2
    <3>2. CASE i = n + 1
      <4>1. i - 1 = n /\ n \in 0..(n + 1) /\ n # n + 1 /\ i # 0
        BY <3>2
      <4>2. g[n] = f[n]
        BY <4>1
      <4> QED
        BY <3>2, <4>1, <4>2
    <3>3. CASE i # n + 1 /\ i # 0
      <4>1. i \in 0..n /\ i - 1 \in 0..(n + 1) /\ i - 1 # n + 1
        BY <3>3
      <4>2. g[i] = f[i] /\ g[i - 1] = f[i - 1]
        BY <3>3, <4>1
      <4>3. f[i] = Viewed(f[i - 1], i, rs[i])
        BY <2>1, <3>3, <4>1 DEF IsViewing
      <4> QED
        BY <3>3, <4>2, <4>3
    <3> QED
      BY <3>1, <3>2, <3>3
  <2>3. g = h
    <3> HIDE DEF g
    <3>1. g = [i \in 0..(n + 1) |-> g[i]]
      BY DEF g
    <3> QED
      BY <2>2, <3>1
  <2>4. IsViewing(g, rs, n + 1)
    BY <2>3, Zenon DEF IsViewing
  <2> HIDE DEF g
  <2> QED
    BY <2>4
<1>3. Nat \subseteq P
  <2> HIDE DEF P
  <2> QED
    BY <1>1, <1>2, NatInductionOver
<1> QED
  BY <1>3

(* What it passes through on the way.                                      *)
ViewPrefixes(f, rs) ==
  /\ f[0] = {<<>>}
  /\ \A i \in 1..Len(rs) : f[i] = Viewed(f[i - 1], i, rs[i])
  /\ compactedContext(rs) = f[Len(rs)]

(* It goes from one step to the next.                                      *)
LEMMA ViewPrefixesExist ==
  ASSUME NEW rs, Len(rs) \in Nat
  PROVE  \E f : ViewPrefixes(f, rs)
<1> DEFINE h == CHOOSE h : IsViewing(h, rs, Len(rs))
<1>1. IsViewing(h, rs, Len(rs))
  <2>1. \E f : IsViewing(f, rs, Len(rs))
    BY ViewingExists
  <2> QED
    BY <2>1, Zenon
<1>2. compactedContext(rs) = h[Len(rs)]
  BY Zenon DEF compactedContext, IsViewing
<1> HIDE DEF h
<1>3. \A i \in 0..Len(rs) : h[i] = IF i = 0 THEN {<<>>} ELSE Viewed(h[i - 1], i, rs[i])
  BY <1>1 DEF IsViewing
<1>4. h[0] = {<<>>} /\ \A i \in 1..Len(rs) : h[i] = Viewed(h[i - 1], i, rs[i])
  BY <1>3
<1> QED
  BY <1>2, <1>4 DEF ViewPrefixes

(* The recursion of applyInPlaceCompaction over its first n steps.         *)
IsSquishing(f, items, c, n) ==
  f = [i \in 0..n |-> IF i = 0 THEN Trimmed(items, c.trims) ELSE Squished(f[i - 1], c.squishes[i])]

(* That recursion has a solution.                                          *)
LEMMA SquishingExists ==
  ASSUME NEW items, NEW c
  PROVE  \A n \in Nat : \E f : IsSquishing(f, items, c, n)
<1> DEFINE P == {n \in Nat : \E f : IsSquishing(f, items, c, n)}
<1>1. 0 \in P
  <2> DEFINE f == [i \in 0..0 |-> Trimmed(items, c.trims)]
             h == [i \in 0..0 |-> IF i = 0 THEN Trimmed(items, c.trims) ELSE Squished(f[i - 1], c.squishes[i])]
  <2>1. f = h
    <3>1. \A i \in 0..0 : i = 0
      OBVIOUS
    <3> QED
      BY <3>1
  <2>2. IsSquishing(f, items, c, 0)
    BY <2>1, Zenon DEF IsSquishing
  <2> HIDE DEF f
  <2> QED
    BY <2>2
<1>2. ASSUME NEW n \in Nat, n \in P PROVE n + 1 \in P
  <2>1. PICK f : IsSquishing(f, items, c, n)
    BY <1>2
  <2> DEFINE g == [i \in 0..(n + 1) |-> IF i = n + 1 THEN Squished(f[n], c.squishes[i]) ELSE f[i]]
             h == [i \in 0..(n + 1) |-> IF i = 0 THEN Trimmed(items, c.trims) ELSE Squished(g[i - 1], c.squishes[i])]
  <2>2. ASSUME NEW i \in 0..(n + 1) PROVE g[i] = h[i]
    <3>1. CASE i = 0
      <4>1. i \in 0..n /\ i # n + 1
        BY <3>1
      <4>2. f[i] = Trimmed(items, c.trims)
        BY <2>1, <3>1, <4>1 DEF IsSquishing
      <4> QED
        BY <3>1, <4>1, <4>2
    <3>2. CASE i = n + 1
      <4>1. i - 1 = n /\ n \in 0..(n + 1) /\ n # n + 1 /\ i # 0
        BY <3>2
      <4>2. g[n] = f[n]
        BY <4>1
      <4> QED
        BY <3>2, <4>1, <4>2
    <3>3. CASE i # n + 1 /\ i # 0
      <4>1. i \in 0..n /\ i - 1 \in 0..(n + 1) /\ i - 1 # n + 1
        BY <3>3
      <4>2. g[i] = f[i] /\ g[i - 1] = f[i - 1]
        BY <3>3, <4>1
      <4>3. f[i] = Squished(f[i - 1], c.squishes[i])
        BY <2>1, <3>3, <4>1 DEF IsSquishing
      <4> QED
        BY <3>3, <4>2, <4>3
    <3> QED
      BY <3>1, <3>2, <3>3
  <2>3. g = h
    <3> HIDE DEF g
    <3>1. g = [i \in 0..(n + 1) |-> g[i]]
      BY DEF g
    <3> QED
      BY <2>2, <3>1
  <2>4. IsSquishing(g, items, c, n + 1)
    BY <2>3, Zenon DEF IsSquishing
  <2> HIDE DEF g
  <2> QED
    BY <2>4
<1>3. Nat \subseteq P
  <2> HIDE DEF P
  <2> QED
    BY <1>1, <1>2, NatInductionOver
<1> QED
  BY <1>3

(* What it passes through on the way.                                      *)
SquishPrefixes(f, items, c) ==
  /\ f[0] = Trimmed(items, c.trims)
  /\ \A i \in 1..Len(c.squishes) : f[i] = Squished(f[i - 1], c.squishes[i])
  /\ applyInPlaceCompaction(items, c) =
       UNION {hideItems(v, c.hiddenSeqs, c.hiddenIDs) : v \in f[Len(c.squishes)]}

(* It goes from one step to the next.                                      *)
LEMMA SquishPrefixesExist ==
  ASSUME NEW items, NEW c, Len(c.squishes) \in Nat
  PROVE  \E f : SquishPrefixes(f, items, c)
<1> DEFINE h == CHOOSE h : IsSquishing(h, items, c, Len(c.squishes))
<1>1. IsSquishing(h, items, c, Len(c.squishes))
  <2>1. \E f : IsSquishing(f, items, c, Len(c.squishes))
    BY SquishingExists
  <2> QED
    BY <2>1, Zenon
<1>2. applyInPlaceCompaction(items, c) =
       UNION {hideItems(v, c.hiddenSeqs, c.hiddenIDs) : v \in h[Len(c.squishes)]}
  BY Zenon DEF applyInPlaceCompaction, IsSquishing
<1> HIDE DEF h
<1>3. \A i \in 0..Len(c.squishes) : h[i] = IF i = 0 THEN Trimmed(items, c.trims) ELSE Squished(h[i - 1], c.squishes[i])
  BY <1>1 DEF IsSquishing
<1>4. h[0] = Trimmed(items, c.trims) /\ \A i \in 1..Len(c.squishes) : h[i] = Squished(h[i - 1], c.squishes[i])
  BY <1>3
<1> QED
  BY <1>2, <1>4 DEF SquishPrefixes

-----------------------------------------------------------------------------
(* What rows, views and records are made of.                               *)

Ids == Nat \X {"work", "compact"}

RowTypes == {"user", "agent", "results", "nudge", "idle"}

PlainRows == [type : RowTypes, uses : SUBSET Ids, results : SUBSET Ids]

Compactions ==
  [trims : SUBSET (Nat \X Ids), squishes : Seq(Nat \X Nat),
   hiddenSeqs : SUBSET Nat, hiddenIDs : SUBSET Ids]

RecordRows == [type : {"record"}, uses : {{}}, results : {{}}, record : Compactions]

Rows == PlainRows \cup RecordRows

ViewItems ==
  [from : Nat, to : Nat, type : RowTypes \cup {"note"}, uses : SUBSET Ids, results : SUBSET Ids,
   cut : SUBSET Ids]

Views == Seq(ViewItems)

(* A record row and what is in it.                                         *)
LEMMA RowKinds ==
  ASSUME NEW r \in Rows
  PROVE  /\ r.type = "record" => r.uses = {} /\ r.results = {} /\ r.record \in Compactions
         /\ r.type # "record" => r \in PlainRows
         /\ r.uses \in SUBSET Ids /\ r.results \in SUBSET Ids /\ r.type \in RowTypes \cup {"record"}
<1>1. CASE r \in PlainRows
  BY <1>1 DEF PlainRows, RowTypes
<1>2. CASE r \in RecordRows
  <2>1. r.type = "record" /\ r.uses = {} /\ r.results = {} /\ r.record \in Compactions
    BY <1>2 DEF RecordRows
  <2> QED
    BY <2>1
<1>3. QED
  BY <1>1, <1>2 DEF Rows

(* The empty transcript shows nothing.                                     *)
LEMMA ContextEmpty == compactedContext(<<>>) = {<<>>}
<1>1. Len(<<>>) = 0
  OBVIOUS
<1>2. PICK f : ViewPrefixes(f, <<>>)
  BY <1>1, ViewPrefixesExist
<1> QED
  BY <1>1, <1>2 DEF ViewPrefixes

(* One row more.                                                           *)
LEMMA ContextAppend ==
  ASSUME NEW S, NEW rs \in Seq(S), NEW r
  PROVE  compactedContext(Append(rs, r)) = Viewed(compactedContext(rs), Len(rs) + 1, r)
<1> DEFINE more == Append(rs, r)
           n == Len(rs)
<1>1. /\ n \in Nat /\ more \in Seq(S \cup {r}) /\ Len(more) = n + 1 /\ more[n + 1] = r
      /\ \A i \in 1..n : more[i] = rs[i]
  OBVIOUS
<1> HIDE DEF more
<1>2. PICK f : ViewPrefixes(f, rs)
  BY <1>1, ViewPrefixesExist, Zenon
<1>3. PICK g : ViewPrefixes(g, more)
  <2>1. Len(more) \in Nat
    BY <1>1
  <2> QED
    BY <2>1, ViewPrefixesExist, Zenon
<1> HIDE DEF n
<1> DEFINE P == {i \in Nat : i <= n => f[i] = g[i]}
<1>4. 0 \in P
  BY <1>2, <1>3 DEF ViewPrefixes
<1>5. ASSUME NEW i \in Nat, i \in P PROVE i + 1 \in P
  <2>1. SUFFICES ASSUME i + 1 <= n PROVE f[i + 1] = g[i + 1]
    OBVIOUS
  <2>2. i + 1 \in 1..n /\ i + 1 \in 1..Len(more) /\ (i + 1) - 1 = i /\ f[i] = g[i]
    BY <1>1, <1>5, <2>1
  <2> QED
    BY <1>1, <1>2, <1>3, <2>2 DEF ViewPrefixes, n
<1>6. Nat \subseteq P
  <2> HIDE DEF P
  <2> QED
    BY <1>4, <1>5, NatInductionOver
<1>7. f[n] = g[n]
  BY <1>1, <1>6
<1>8. g[n + 1] = Viewed(g[n], n + 1, r)
  <2>1. n + 1 \in 1..Len(more) /\ (n + 1) - 1 = n
    BY <1>1
  <2> QED
    BY <1>1, <1>3, <2>1 DEF ViewPrefixes
<1> QED
  BY <1>1, <1>2, <1>3, <1>7, <1>8 DEF more, n, ViewPrefixes

(* A plain row adds its item to every view.                                *)
LEMMA ContextPlain ==
  ASSUME NEW S, NEW rs \in Seq(S), NEW r, r.type # "record"
  PROVE  compactedContext(Append(rs, r)) =
           {Append(v, contextItem(Len(rs) + 1, r)) : v \in compactedContext(rs)}
<1> DEFINE Vs == compactedContext(rs)
           item == contextItem(Len(rs) + 1, r)
<1>1. compactedContext(Append(rs, r)) = UNION {{Append(v, item)} : v \in Vs}
  BY ContextAppend DEF Viewed
<1>2. UNION {{Append(v, item)} : v \in Vs} = {Append(v, item) : v \in Vs}
  <2> HIDE DEF Vs, item
  <2> QED
    OBVIOUS
<1> QED
  BY <1>1, <1>2

(* A record is applied to every view.                                      *)
LEMMA ContextRecord ==
  ASSUME NEW S, NEW rs \in Seq(S), NEW r, r.type = "record"
  PROVE  compactedContext(Append(rs, r)) =
           UNION {applyInPlaceCompaction(v, r.record) : v \in compactedContext(rs)}
BY ContextAppend DEF Viewed

(* IDs, field by field.                                                    *)
LEMMA IDsAre ==
  ASSUME NEW items, NEW id
  PROVE  /\ id \in IDs(items, "uses") <=> \E k \in DOMAIN items : id \in items[k].uses
         /\ id \in IDs(items, "results") <=> \E k \in DOMAIN items : id \in items[k].results
BY DEF IDs

-----------------------------------------------------------------------------
(* How the operators that change a view change it.                         *)

(* e lists the places below n in order.                                    *)
Picks(e, v, places, s, n) ==
  /\ s \in Views /\ e \in Seq(1..n) /\ Len(e) = Len(s)
  /\ \A i \in 1..Len(s) : e[i] \in places /\ s[i] = v[e[i]]
  /\ \A i, j \in 1..Len(s) : i < j => e[i] < e[j]
  /\ \A k \in 1..n : k \in places => \E i \in 1..Len(s) : e[i] = k

(* One place more.                                                         *)
LEMMA PickMore ==
  ASSUME NEW v \in Views, NEW places, NEW n \in Nat, n + 1 <= Len(v),
         NEW e, NEW s, Picks(e, v, places, s, n)
  PROVE  \E d : Picks(d, v, places, KeptNext(s, v, places, n + 1), n + 1)
<1>1. CASE n + 1 \notin places
  <2>1. KeptNext(s, v, places, n + 1) = s
    BY <1>1 DEF KeptNext
  <2>2. e \in Seq(1..(n + 1))
    BY DEF Picks
  <2>3. ASSUME NEW k \in 1..(n + 1), k \in places PROVE \E i \in 1..Len(s) : e[i] = k
    <3>1. k \in 1..n
      BY <1>1, <2>3
    <3> QED
      BY <2>3, <3>1 DEF Picks
  <2>4. Picks(e, v, places, s, n + 1)
    BY <2>2, <2>3 DEF Picks
  <2> QED
    BY <2>1, <2>4
<1>2. CASE n + 1 \in places
  <2> DEFINE d == Append(e, n + 1)
             t == Append(s, v[n + 1])
  <2>1. KeptNext(s, v, places, n + 1) = t
    BY <1>2 DEF KeptNext
  <2>2. v[n + 1] \in ViewItems /\ s \in Seq(ViewItems) /\ Len(s) \in Nat /\ e \in Seq(1..n) /\ Len(e) = Len(s)
    BY DEF Picks, Views
  <2>3. /\ t \in Views /\ Len(t) = Len(s) + 1 /\ t[Len(s) + 1] = v[n + 1]
        /\ \A i \in 1..Len(s) : t[i] = s[i]
    BY <2>2 DEF Views
  <2>4. /\ d \in Seq(1..(n + 1)) /\ Len(d) = Len(s) + 1 /\ d[Len(s) + 1] = n + 1
        /\ \A i \in 1..Len(s) : d[i] = e[i] /\ e[i] \in 1..n
    BY <2>2
  <2> HIDE DEF d, t
  <2>5. ASSUME NEW i \in 1..Len(t) PROVE d[i] \in places /\ t[i] = v[d[i]]
    <3>1. CASE i = Len(s) + 1
      BY <1>2, <2>3, <2>4, <3>1
    <3>2. CASE i \in 1..Len(s)
      BY <2>3, <2>4, <3>2 DEF Picks
    <3> QED
      BY <2>2, <2>3, <3>1, <3>2
  <2>6. ASSUME NEW i \in 1..Len(t), NEW j \in 1..Len(t), i < j PROVE d[i] < d[j]
    <3>1. i \in 1..Len(s)
      BY <2>2, <2>3, <2>6
    <3>2. CASE j = Len(s) + 1
      BY <2>4, <3>1, <3>2
    <3>3. CASE j \in 1..Len(s)
      BY <2>4, <2>6, <3>1, <3>3 DEF Picks
    <3> QED
      BY <2>2, <2>3, <3>2, <3>3
  <2>7. ASSUME NEW k \in 1..(n + 1), k \in places PROVE \E i \in 1..Len(t) : d[i] = k
    <3>1. CASE k = n + 1
      <4>1. Len(s) + 1 \in 1..Len(t)
        BY <2>2, <2>3
      <4> QED
        BY <2>4, <3>1, <4>1
    <3>2. CASE k \in 1..n
      <4>1. PICK i \in 1..Len(s) : e[i] = k
        BY <2>7, <3>2 DEF Picks
      <4>2. i \in 1..Len(t)
        BY <2>2, <2>3
      <4> QED
        BY <2>4, <4>1, <4>2
    <3> QED
      BY <3>1, <3>2
  <2>8. Picks(d, v, places, t, n + 1)
    BY <2>3, <2>4, <2>5, <2>6, <2>7 DEF Picks
  <2> QED
    BY <2>1, <2>8
<1> QED
  BY <1>1, <1>2

(* Kept lists the items at the places in order.                            *)
LEMMA KeptPicks ==
  ASSUME NEW v \in Views, NEW places
  PROVE  \E e : Picks(e, v, places, Kept(v, places), Len(v))
<1>1. Len(v) \in Nat
  BY DEF Views
<1>2. PICK f : KeptPrefixes(f, v, places)
  BY <1>1, KeptPrefixesExist, Zenon
<1> DEFINE P == {n \in Nat : n <= Len(v) => \E e : Picks(e, v, places, f[n], n)}
<1>3. 0 \in P
  <2>1. f[0] = <<>>
    BY <1>2 DEF KeptPrefixes
  <2>2. Picks(<<>>, v, places, <<>>, 0)
    BY DEF Picks, Views
  <2> QED
    BY <2>1, <2>2
<1>4. ASSUME NEW n \in Nat, n \in P PROVE n + 1 \in P
  <2>1. SUFFICES ASSUME n + 1 <= Len(v) PROVE \E e : Picks(e, v, places, f[n + 1], n + 1)
    OBVIOUS
  <2>2. n + 1 \in 1..Len(v) /\ (n + 1) - 1 = n /\ n <= Len(v)
    BY <1>1, <2>1
  <2>3. f[n + 1] = KeptNext(f[n], v, places, n + 1)
    BY <1>2, <2>2 DEF KeptPrefixes
  <2>4. PICK e : Picks(e, v, places, f[n], n)
    BY <1>4, <2>2
  <2> QED
    BY <2>1, <2>3, <2>4, PickMore
<1>5. Len(v) \in P
  <2> HIDE DEF P
  <2> QED
    BY <1>1, <1>3, <1>4, NatInductionOver
<1>6. f[Len(v)] = Kept(v, places)
  BY <1>2 DEF KeptPrefixes
<1> QED
  BY <1>1, <1>5, <1>6

-----------------------------------------------------------------------------
(* What a view has to do with the rows it shows.                           *)

WorkOf(ids) == {id \in ids : ~Compacts(id)}

(* A row the agent may leave out of its view.                              *)
Exempt(row) ==
  \/ row.type \in {"record", "nudge", "idle"}
  \/ row.uses \cup row.results # {} /\ WorkOf(row.uses \cup row.results) = {}

RowFits(rs, k) ==
  /\ rs[k].uses = {} \/ rs[k].results = {}
  /\ \A id \in rs[k].uses : id[1] = k
  /\ \A id \in rs[k].results : id[1] < k
  /\ rs[k].type \in {"nudge", "idle", "record"} => rs[k].uses = {} /\ rs[k].results = {}

ItemFits(item, rs) ==
  /\ item.from \in 1..Len(rs) /\ item.to \in 1..Len(rs) /\ item.from <= item.to
  /\ item.uses = {} \/ item.results = {}
  /\ Original(item) =>
       /\ item.to = item.from /\ item.type = rs[item.from].type
       /\ item.uses \subseteq rs[item.from].uses
       /\ item.results \subseteq rs[item.from].results
       /\ WorkOf(item.uses \cup item.results) =
            WorkOf(rs[item.from].uses \cup rs[item.from].results)
  /\ ~Original(item) => item.uses = {} /\ item.results = {}

(* Calls and outputs are neighbours, the open calls at the end.            *)
Pairs(v, open) ==
  /\ v = <<>> => open = {}
  /\ v # <<>> => v[Len(v)].uses = open
  /\ \A k \in 1..Len(v) : v[k].results # {} => k > 1 /\ v[k - 1].uses = v[k].results
  /\ \A k \in 1..Len(v) : v[k].uses # {} => k = Len(v) \/ v[k + 1].results = v[k].uses

InOrder(v) == \A i, j \in 1..Len(v) : i < j => v[i].to < v[j].from

Covers(v, rs) ==
  \A k \in 1..Len(rs) : Exempt(rs[k]) \/ \E m \in 1..Len(v) : v[m].from <= k /\ k <= v[m].to

ViewFits(v, rs) ==
  /\ v \in Views
  /\ \A k \in 1..Len(v) : ItemFits(v[k], rs)
  /\ InOrder(v)
  /\ Pairs(v, OpenCalls(rs))
  /\ Covers(v, rs)

(* Places that take no call from its output.                               *)
PairClosed(v, places, open) ==
  /\ \A k \in 1..Len(v) : k \in places /\ v[k].results # {} => k - 1 \in places
  /\ \A k \in 1..Len(v) : k \in places /\ v[k].uses # {} /\ k < Len(v) => k + 1 \in places
  /\ v # <<>> /\ Len(v) \notin places => open = {}

(* Such places keep the pairs.                                             *)
LEMMA KeptPairs ==
  ASSUME NEW v \in Views, NEW open, Pairs(v, open), NEW places, PairClosed(v, places, open)
  PROVE  Pairs(Kept(v, places), open)
<1> DEFINE w == Kept(v, places)
<1>1. PICK e : Picks(e, v, places, w, Len(v))
  BY KeptPicks
<1> HIDE DEF w
<1>2. Len(v) \in Nat /\ Len(w) \in Nat /\ w \in Seq(ViewItems) /\ v \in Seq(ViewItems)
  BY <1>1 DEF Picks, Views
<1>3. \A i \in 1..Len(w) : e[i] \in 1..Len(v) /\ e[i] \in places /\ w[i] = v[e[i]]
  BY <1>1 DEF Picks
<1>4. ASSUME NEW i \in 1..Len(w), w[i].results # {} PROVE i > 1 /\ w[i - 1].uses = w[i].results
  <2>1. e[i] \in 1..Len(v) /\ e[i] > 1 /\ v[e[i] - 1].uses = v[e[i]].results /\ w[i] = v[e[i]]
    BY <1>3, <1>4 DEF Pairs
  <2>2. e[i] - 1 \in places /\ e[i] - 1 \in 1..Len(v)
    BY <1>2, <1>3, <1>4, <2>1 DEF PairClosed
  <2>3. PICK j \in 1..Len(w) : e[j] = e[i] - 1
    BY <1>1, <2>2 DEF Picks
  <2>4. j < i
    <3>1. i < j => e[i] < e[j]
      BY <1>1 DEF Picks
    <3>2. i # j
      BY <2>1, <2>3
    <3> QED
      BY <2>1, <2>3, <3>1, <3>2
  <2>5. j = i - 1
    <3>1. SUFFICES ASSUME j < i - 1 PROVE FALSE
      BY <2>4
    <3>2. i - 1 \in 1..Len(w) /\ i - 1 < i
      BY <1>2, <3>1
    <3>3. e[j] < e[i - 1] /\ e[i - 1] < e[i]
      BY <1>1, <3>1, <3>2 DEF Picks
    <3>4. e[i - 1] \in 1..Len(v) /\ e[i] \in 1..Len(v)
      BY <1>3, <3>2
    <3> QED
      BY <2>3, <3>3, <3>4
  <2>6. w[j] = v[e[i] - 1]
    BY <1>3, <2>3
  <2> QED
    BY <2>1, <2>4, <2>5, <2>6
<1>5. ASSUME NEW i \in 1..Len(w), w[i].uses # {}, i # Len(w) PROVE w[i + 1].results = w[i].uses
  <2>1. i + 1 \in 1..Len(w)
    BY <1>2, <1>5
  <2>2. e[i] < e[i + 1] /\ e[i + 1] \in 1..Len(v) /\ e[i] \in 1..Len(v)
    BY <1>1, <1>3, <2>1 DEF Picks
  <2>3. e[i] < Len(v) /\ e[i] + 1 \in 1..Len(v)
    BY <1>2, <2>2
  <2>4. v[e[i]].uses # {}
    BY <1>3, <1>5
  <2>5. e[i] + 1 \in places
    BY <1>3, <2>2, <2>3, <2>4 DEF PairClosed
  <2>6. v[e[i] + 1].results = v[e[i]].uses
    BY <2>2, <2>3, <2>4 DEF Pairs
  <2>7. PICK j \in 1..Len(w) : e[j] = e[i] + 1
    BY <1>1, <2>3, <2>5 DEF Picks
  <2>8. j = i + 1
    <3>1. j < i => e[j] < e[i]
      BY <1>1 DEF Picks
    <3>2. i + 1 < j => e[i + 1] < e[j]
      BY <1>1, <2>1 DEF Picks
    <3> QED
      BY <2>2, <2>7, <3>1, <3>2
  <2>9. w[j] = v[e[i] + 1] /\ w[i] = v[e[i]]
    BY <1>3, <2>7
  <2> QED
    BY <2>6, <2>8, <2>9
<1>6. ASSUME w # <<>> PROVE w[Len(w)].uses = open
  <2>1. Len(w) \in 1..Len(w)
    BY <1>2, <1>6
  <2>2. e[Len(w)] \in 1..Len(v) /\ w[Len(w)] = v[e[Len(w)]]
    BY <1>3, <2>1
  <2>2a. Len(v) \in 1..Len(v) /\ v # <<>>
    BY <1>2, <2>2
  <2>3. CASE Len(v) \in places
    <3>1. PICK j \in 1..Len(w) : e[j] = Len(v)
      BY <1>1, <2>2a, <2>3 DEF Picks
    <3>2. j < Len(w) => e[j] < e[Len(w)]
      BY <1>1, <2>1 DEF Picks
    <3>3. j = Len(w)
      BY <1>2, <2>2, <3>1, <3>2
    <3> QED
      BY <2>2, <2>2a, <3>1, <3>3 DEF Pairs
  <2>4. CASE Len(v) \notin places
    <3>1. open = {}
      BY <2>2a, <2>4 DEF PairClosed
    <3>2. SUFFICES ASSUME w[Len(w)].uses # {} PROVE FALSE
      BY <3>1
    <3>3. e[Len(w)] # Len(v)
      BY <2>2a, <2>2, <3>1, <3>2 DEF Pairs
    <3>4. e[Len(w)] < Len(v) /\ e[Len(w)] + 1 \in 1..Len(v)
      BY <1>2, <2>2, <3>3
    <3>5. e[Len(w)] + 1 \in places
      BY <1>3, <2>1, <2>2, <3>2, <3>4 DEF PairClosed
    <3>6. PICK j \in 1..Len(w) : e[j] = e[Len(w)] + 1
      BY <1>1, <3>4, <3>5 DEF Picks
    <3>7. j < Len(w) => e[j] < e[Len(w)]
      BY <1>1, <2>1 DEF Picks
    <3> QED
      BY <1>2, <2>2, <3>6, <3>7
  <2> QED
    BY <2>3, <2>4
<1>7. ASSUME w = <<>> PROVE open = {}
  <2>1. SUFFICES ASSUME v # <<>> PROVE open = {}
    BY DEF Pairs
  <2>2. Len(v) \in 1..Len(v)
    BY <1>2, <2>1
  <2>3. Len(v) \notin places
    <3>1. Len(w) = 0
      BY <1>7
    <3>2. ~\E i \in 1..Len(w) : e[i] = Len(v)
      BY <3>1
    <3> QED
      BY <1>1, <2>2, <3>2 DEF Picks
  <2> QED
    BY <2>1, <2>3 DEF PairClosed
<1> QED
  BY <1>4, <1>5, <1>6, <1>7 DEF Pairs, w

(* A place that is not the last one has a next.                            *)
LEMMA NotLast ==
  ASSUME NEW n \in Nat, NEW k \in 1..n, k # n
  PROVE  k + 1 \in 1..n
OBVIOUS

(* Items that show exempt rows may go.                                     *)
LEMMA KeptFits ==
  ASSUME NEW rs, NEW v, ViewFits(v, rs), NEW places, PairClosed(v, places, OpenCalls(rs)),
         \A k \in 1..Len(v) : k \notin places => Original(v[k]) /\ Exempt(rs[v[k].from])
  PROVE  ViewFits(Kept(v, places), rs)
<1> DEFINE w == Kept(v, places)
<1>0. v \in Views
  BY DEF ViewFits
<1>1. PICK e : Picks(e, v, places, w, Len(v))
  BY <1>0, KeptPicks
<1>2. Pairs(w, OpenCalls(rs))
  BY <1>0, KeptPairs DEF ViewFits
<1> HIDE DEF w
<1>3. \A i \in 1..Len(w) : e[i] \in 1..Len(v) /\ w[i] = v[e[i]]
  BY <1>1 DEF Picks
<1>4. \A i \in 1..Len(w) : ItemFits(w[i], rs)
  BY <1>3 DEF ViewFits
<1>5. InOrder(w)
  <2>1. ASSUME NEW i \in 1..Len(w), NEW j \in 1..Len(w), i < j PROVE w[i].to < w[j].from
    <3>1. e[i] < e[j]
      BY <1>1, <2>1 DEF Picks
    <3> QED
      BY <1>3, <3>1 DEF ViewFits, InOrder
  <2> QED
    BY <2>1 DEF InOrder
<1>6. ASSUME NEW k \in 1..Len(rs), ~Exempt(rs[k])
      PROVE  \E m \in 1..Len(w) : w[m].from <= k /\ k <= w[m].to
  <2>1. PICK m \in 1..Len(v) : v[m].from <= k /\ k <= v[m].to
    BY <1>6 DEF ViewFits, Covers
  <2>2. ItemFits(v[m], rs)
    BY DEF ViewFits
  <2>3. m \in places
    <3>1. SUFFICES ASSUME m \notin places PROVE FALSE
      OBVIOUS
    <3>2. Original(v[m]) /\ Exempt(rs[v[m].from])
      BY <3>1
    <3>3. v[m].from = k
      BY <2>1, <2>2, <3>2 DEF ItemFits
    <3> QED
      BY <1>6, <3>2, <3>3
  <2>4. PICK i \in 1..Len(w) : e[i] = m
    BY <1>1, <2>3 DEF Picks
  <2> QED
    BY <1>3, <2>1, <2>4
<1>7. w \in Views
  BY <1>1 DEF Picks
<1> QED
  BY <1>2, <1>4, <1>5, <1>6, <1>7 DEF ViewFits, Covers, w

(* An item without some calls.                                             *)
LEMMA LackingIs ==
  ASSUME NEW item \in ViewItems, NEW ids
  PROVE  LET other == Lacking(item, ids)
         IN  /\ other \in ViewItems /\ other.from = item.from /\ other.to = item.to
             /\ other.type = item.type /\ other.cut = item.cut
             /\ other.uses = item.uses \ ids /\ other.results = item.results \ ids
BY DEF Lacking, ViewItems

(* Calls of the kind that compacts may go, unless they are open.           *)
LEMMA LackingFits ==
  ASSUME NEW rs, NEW v, ViewFits(v, rs), NEW ids, \A id \in ids : Compacts(id),
         ids \cap OpenCalls(rs) = {}
  PROVE  ViewFits([k \in DOMAIN v |-> Lacking(v[k], ids)], rs)
<1> DEFINE w == [k \in DOMAIN v |-> Lacking(v[k], ids)]
<1>1. v \in Seq(ViewItems) /\ Len(v) \in Nat /\ DOMAIN v = 1..Len(v)
  BY DEF ViewFits, Views
<1>2. \A k \in 1..Len(v) : w[k] = Lacking(v[k], ids) /\ v[k] \in ViewItems
  BY <1>1
<1>2a. ASSUME NEW k \in 1..Len(v) PROVE w[k] \in ViewItems
  <2> HIDE DEF w
  <2>1. Lacking(v[k], ids) \in ViewItems
    BY <1>2, LackingIs
  <2> QED
    BY <1>2, <2>1
<1>3. w \in Seq(ViewItems) /\ Len(w) = Len(v)
  BY <1>1, <1>2a
<1> HIDE DEF w
<1>4. ASSUME NEW k \in 1..Len(v)
      PROVE  /\ w[k].from = v[k].from /\ w[k].to = v[k].to /\ w[k].type = v[k].type
             /\ w[k].uses = v[k].uses \ ids /\ w[k].results = v[k].results \ ids
  BY <1>2, LackingIs
<1>5. ASSUME NEW k \in 1..Len(v) PROVE ItemFits(w[k], rs)
  <2>1. ItemFits(v[k], rs)
    BY DEF ViewFits
  <2>2. Original(w[k]) <=> Original(v[k])
    BY <1>4 DEF Original
  <2>3. WorkOf(w[k].uses \cup w[k].results) = WorkOf(v[k].uses \cup v[k].results)
    BY <1>4 DEF WorkOf
  <2> QED
    BY <1>4, <2>1, <2>2, <2>3 DEF ItemFits
<1>6. InOrder(w)
  BY <1>3, <1>4 DEF ViewFits, InOrder
<1>7. Covers(w, rs)
  <2>1. ASSUME NEW k \in 1..Len(rs), ~Exempt(rs[k])
        PROVE  \E m \in 1..Len(w) : w[m].from <= k /\ k <= w[m].to
    <3>1. PICK m \in 1..Len(v) : v[m].from <= k /\ k <= v[m].to
      BY <2>1 DEF ViewFits, Covers
    <3> QED
      BY <1>3, <1>4, <3>1
  <2> QED
    BY <2>1 DEF Covers
<1>8. Pairs(w, OpenCalls(rs))
  <2>1. Pairs(v, OpenCalls(rs))
    BY DEF ViewFits
  <2>2. v = <<>> <=> w = <<>>
    BY <1>1, <1>3
  <2>3. w # <<>> => w[Len(w)].uses = OpenCalls(rs)
    <3>1. SUFFICES ASSUME w # <<>> PROVE w[Len(w)].uses = OpenCalls(rs)
      OBVIOUS
    <3>2. Len(v) \in 1..Len(v)
      BY <1>1, <2>2, <3>1
    <3>3. w[Len(v)].uses = v[Len(v)].uses \ ids /\ v[Len(v)].uses = OpenCalls(rs)
      BY <1>4, <2>1, <2>2, <3>1, <3>2 DEF Pairs
    <3> QED
      BY <1>3, <3>3
  <2>4. ASSUME NEW k \in 1..Len(w), w[k].results # {} PROVE k > 1 /\ w[k - 1].uses = w[k].results
    <3>1. v[k].results # {} /\ k \in 1..Len(v)
      BY <1>3, <1>4, <2>4
    <3>2. k > 1 /\ v[k - 1].uses = v[k].results
      BY <2>1, <3>1 DEF Pairs
    <3>3. k - 1 \in 1..Len(v)
      BY <1>1, <3>1, <3>2
    <3> QED
      BY <1>4, <3>1, <3>2, <3>3
  <2>5. ASSUME NEW k \in 1..Len(w), w[k].uses # {}, k # Len(w) PROVE w[k + 1].results = w[k].uses
    <3>1. v[k].uses # {} /\ k \in 1..Len(v) /\ k # Len(v)
      BY <1>3, <1>4, <2>5
    <3>2. v[k + 1].results = v[k].uses
      BY <2>1, <3>1 DEF Pairs
    <3>4. k + 1 \in 1..Len(v)
      BY <1>1, <3>1, NotLast
    <3> QED
      BY <1>4, <3>1, <3>2, <3>4
  <2> QED
    BY <2>1, <2>2, <2>3, <2>4, <2>5 DEF Pairs
<1> QED
  BY <1>3, <1>5, <1>6, <1>7, <1>8 DEF ViewFits, Views, w

(* So may the messages that had no other calls.                            *)
LEMMA WithoutFits ==
  ASSUME NEW rs, NEW v, ViewFits(v, rs), NEW ids, \A id \in ids : Compacts(id),
         ids \cap OpenCalls(rs) = {}
  PROVE  ViewFits(Without(v, ids), rs)
<1> DEFINE places == {k \in DOMAIN v : ~Emptied(v[k], ids)}
<1>1. v \in Seq(ViewItems) /\ Len(v) \in Nat /\ DOMAIN v = 1..Len(v) /\ Pairs(v, OpenCalls(rs))
  BY DEF ViewFits, Views
<1>2. \A k \in 1..Len(v) : ItemFits(v[k], rs)
  BY DEF ViewFits
<1>3. ASSUME NEW k \in 1..Len(v), k \in places, v[k].results # {} PROVE k - 1 \in places
  <2>1. k > 1 /\ v[k - 1].uses = v[k].results
    BY <1>1, <1>3 DEF Pairs
  <2>2. k - 1 \in 1..Len(v)
    BY <1>1, <2>1
  <2>3. v[k].uses = {} /\ v[k - 1].results = {}
    BY <1>2, <1>3, <2>1, <2>2 DEF ItemFits
  <2> QED
    BY <1>1, <1>3, <2>1, <2>2, <2>3 DEF Emptied
<1>4. ASSUME NEW k \in 1..Len(v), k \in places, v[k].uses # {}, k < Len(v) PROVE k + 1 \in places
  <2>0. k # Len(v)
    BY <1>1, <1>4
  <2>1. v[k + 1].results = v[k].uses
    BY <1>1, <1>4, <2>0 DEF Pairs
  <2>2. k + 1 \in 1..Len(v)
    BY <1>1, <1>4
  <2>3. v[k].results = {} /\ v[k + 1].uses = {}
    BY <1>2, <1>4, <2>1, <2>2 DEF ItemFits
  <2> QED
    BY <1>1, <1>4, <2>1, <2>2, <2>3 DEF Emptied
<1>5. ASSUME v # <<>>, Len(v) \notin places PROVE OpenCalls(rs) = {}
  <2>1. Len(v) \in 1..Len(v)
    BY <1>1, <1>5
  <2>2. v[Len(v)].uses \subseteq ids
    BY <1>1, <1>5, <2>1 DEF Emptied
  <2> QED
    BY <1>1, <1>5, <2>2 DEF Pairs
<1>6. ASSUME NEW k \in 1..Len(v), k \notin places PROVE Original(v[k]) /\ Exempt(rs[v[k].from])
  <2>1. v[k].uses \cup v[k].results # {} /\ v[k].uses \cup v[k].results \subseteq ids
    BY <1>1, <1>6 DEF Emptied
  <2>2. Original(v[k])
    BY <1>2, <2>1 DEF ItemFits
  <2>3. WorkOf(v[k].uses \cup v[k].results) = {}
    BY <2>1 DEF WorkOf
  <2>4. /\ WorkOf(rs[v[k].from].uses \cup rs[v[k].from].results) = {}
        /\ v[k].uses \subseteq rs[v[k].from].uses /\ v[k].results \subseteq rs[v[k].from].results
    BY <1>2, <2>2, <2>3 DEF ItemFits
  <2> QED
    BY <2>1, <2>2, <2>4 DEF Exempt
<1>7. PairClosed(v, places, OpenCalls(rs))
  BY <1>3, <1>4, <1>5, Zenon DEF PairClosed
<1> HIDE DEF places
<1>8. ViewFits(Kept(v, places), rs)
  BY <1>6, <1>7, KeptFits
<1> QED
  BY <1>8, LackingFits DEF Without, places

(* What a record may hide: nudges and closed calls that compact.           *)
MayHide(rs, seqs, ids) ==
  /\ \A s \in seqs : s \in 1..Len(rs) => rs[s].type \in {"nudge", "idle"}
  /\ \A id \in ids : Compacts(id)
  /\ ids \cap OpenCalls(rs) = {}

(* Hiding them keeps a view fit.                                           *)
LEMMA HideFits ==
  ASSUME NEW rs, \A k \in 1..Len(rs) : RowFits(rs, k), NEW v, ViewFits(v, rs),
         NEW seqs, NEW ids, MayHide(rs, seqs, ids), NEW w \in hideItems(v, seqs, ids)
  PROVE  ViewFits(w, rs)
<1> DEFINE places == {k \in DOMAIN v : ~(Original(v[k]) /\ v[k].from \in seqs)}
<1>1. v \in Seq(ViewItems) /\ Len(v) \in Nat /\ DOMAIN v = 1..Len(v) /\ Pairs(v, OpenCalls(rs))
  BY DEF ViewFits, Views
<1>2. ASSUME NEW k \in 1..Len(v), k \notin places
      PROVE  Original(v[k]) /\ Exempt(rs[v[k].from]) /\ v[k].uses = {} /\ v[k].results = {}
  <2>1. Original(v[k]) /\ v[k].from \in seqs /\ ItemFits(v[k], rs)
    BY <1>1, <1>2 DEF ViewFits
  <2>2. v[k].from \in 1..Len(rs) /\ RowFits(rs, v[k].from)
    BY <2>1 DEF ItemFits
  <2>3. rs[v[k].from].type \in {"nudge", "idle"}
    BY <2>1, <2>2 DEF MayHide
  <2> QED
    BY <2>1, <2>2, <2>3 DEF ItemFits, RowFits, Exempt
<1>3. ASSUME NEW k \in 1..Len(v), k \in places, v[k].results # {} PROVE k - 1 \in places
  <2>1. k > 1 /\ v[k - 1].uses = v[k].results
    BY <1>1, <1>3 DEF Pairs
  <2>2. k - 1 \in 1..Len(v)
    BY <1>1, <2>1
  <2> QED
    BY <1>2, <1>3, <2>1, <2>2
<1>4. ASSUME NEW k \in 1..Len(v), k \in places, v[k].uses # {}, k < Len(v) PROVE k + 1 \in places
  <2>0. k # Len(v)
    BY <1>1, <1>4
  <2>1. v[k + 1].results = v[k].uses
    BY <1>1, <1>4, <2>0 DEF Pairs
  <2>2. k + 1 \in 1..Len(v)
    BY <1>1, <1>4
  <2> QED
    BY <1>2, <1>4, <2>1, <2>2
<1>5. ASSUME v # <<>>, Len(v) \notin places PROVE OpenCalls(rs) = {}
  <2>1. Len(v) \in 1..Len(v)
    BY <1>1, <1>5
  <2> QED
    BY <1>1, <1>2, <1>5, <2>1 DEF Pairs
<1>6. PairClosed(v, places, OpenCalls(rs))
  BY <1>3, <1>4, <1>5, Zenon DEF PairClosed
<1> HIDE DEF places
<1>7. ViewFits(Kept(v, places), rs)
  BY <1>2, <1>6, KeptFits
<1>8. w = Without(Kept(v, places), ids)
  BY Zenon DEF hideItems, places
<1> QED
  BY <1>7, <1>8, WithoutFits DEF MayHide

(* Trimming an output changes nothing else.                                *)
LEMMA TrimFits ==
  ASSUME NEW rs, NEW v, ViewFits(v, rs), NEW trims \in SUBSET (Nat \X Ids),
         NEW w \in Trimmed(v, trims)
  PROVE  ViewFits(w, rs)
<1> DEFINE Cut(k) == {t[2] : t \in {u \in trims : u[1] = v[k].from}}
           z == [k \in DOMAIN v |-> [v[k] EXCEPT !.cut = @ \cup Cut(k)]]
<1>1. v \in Seq(ViewItems) /\ Len(v) \in Nat /\ DOMAIN v = 1..Len(v)
  BY DEF ViewFits, Views
<1>2. w = z
  BY DEF Trimmed
<1>3. ASSUME NEW k \in 1..Len(v) PROVE Cut(k) \subseteq Ids
  <2>1. ASSUME NEW t \in trims PROVE t[2] \in Ids
    OBVIOUS
  <2> QED
    BY <2>1
<1> HIDE DEF Cut
<1>4. ASSUME NEW k \in 1..Len(v)
      PROVE  /\ z[k] \in ViewItems /\ z[k].from = v[k].from /\ z[k].to = v[k].to
             /\ z[k].type = v[k].type /\ z[k].uses = v[k].uses /\ z[k].results = v[k].results
  <2>1. z[k] = [v[k] EXCEPT !.cut = @ \cup Cut(k)]
    BY <1>1
  <2>2. v[k] \in ViewItems
    BY <1>1
  <2> HIDE DEF z
  <2> QED
    BY <1>3, <2>1, <2>2 DEF ViewItems
<1>5. z \in Seq(ViewItems) /\ Len(z) = Len(v)
  <2>1. \A k \in 1..Len(v) : z[k] \in ViewItems
    BY <1>4
  <2>2. DOMAIN z = 1..Len(v) /\ z = [k \in 1..Len(v) |-> z[k]]
    BY <1>1
  <2> HIDE DEF z
  <2> QED
    BY <1>1, <2>1, <2>2
<1> HIDE DEF z
<1>6. ASSUME NEW k \in 1..Len(z) PROVE ItemFits(z[k], rs)
  <2>1. ItemFits(v[k], rs) /\ k \in 1..Len(v)
    BY <1>5 DEF ViewFits
  <2> QED
    BY <1>4, <2>1 DEF ItemFits, Original
<1>7. InOrder(z)
  BY <1>4, <1>5 DEF ViewFits, InOrder
<1>8. Covers(z, rs)
  <2>1. ASSUME NEW k \in 1..Len(rs), ~Exempt(rs[k])
        PROVE  \E m \in 1..Len(z) : z[m].from <= k /\ k <= z[m].to
    <3>1. PICK m \in 1..Len(v) : v[m].from <= k /\ k <= v[m].to
      BY <2>1 DEF ViewFits, Covers
    <3> QED
      BY <1>4, <1>5, <3>1
  <2> QED
    BY <2>1 DEF Covers
<1>9. Pairs(z, OpenCalls(rs))
  <2>1. Pairs(v, OpenCalls(rs))
    BY DEF ViewFits
  <2>2. v = <<>> <=> z = <<>>
    BY <1>1, <1>5
  <2>3. ASSUME z # <<>> PROVE z[Len(z)].uses = OpenCalls(rs)
    <3>1. Len(v) \in 1..Len(v)
      BY <1>1, <2>2, <2>3
    <3> QED
      BY <1>4, <1>5, <2>1, <2>2, <2>3, <3>1 DEF Pairs
  <2>4. ASSUME NEW k \in 1..Len(z), z[k].results # {} PROVE k > 1 /\ z[k - 1].uses = z[k].results
    <3>1. v[k].results # {} /\ k \in 1..Len(v)
      BY <1>4, <1>5, <2>4
    <3>2. k > 1 /\ v[k - 1].uses = v[k].results
      BY <2>1, <3>1 DEF Pairs
    <3>3. k - 1 \in 1..Len(v)
      BY <1>1, <3>1, <3>2
    <3> QED
      BY <1>4, <3>1, <3>2, <3>3
  <2>5. ASSUME NEW k \in 1..Len(z), z[k].uses # {}, k # Len(z) PROVE z[k + 1].results = z[k].uses
    <3>1. v[k].uses # {} /\ k \in 1..Len(v) /\ k # Len(v)
      BY <1>4, <1>5, <2>5
    <3>2. v[k + 1].results = v[k].uses
      BY <2>1, <3>1 DEF Pairs
    <3>3. k + 1 \in 1..Len(v)
      BY <1>1, <3>1, NotLast
    <3> QED
      BY <1>4, <3>1, <3>2, <3>3
  <2> QED
    BY <2>1, <2>2, <2>3, <2>4, <2>5 DEF Pairs
<1> QED
  BY <1>2, <1>5, <1>6, <1>7, <1>8, <1>9 DEF ViewFits, Views

(* w is p followed by q.                                                   *)
IsJoin(w, p, q) ==
  /\ Len(w) = Len(p) + Len(q)
  /\ \A k \in 1..Len(p) : w[k] = p[k]
  /\ \A k \in 1..Len(q) : w[Len(p) + k] = q[k]

(* What \o makes.                                                          *)
LEMMA JoinIs ==
  ASSUME NEW S, NEW p \in Seq(S), NEW q \in Seq(S)
  PROVE  p \o q \in Seq(S) /\ IsJoin(p \o q, p, q)
BY DEF IsJoin

(* w is v with one note in place of the items from i to j.                 *)
IsCollapse(w, v, i, j, note) ==
  /\ Len(w) = Len(v) - (j - i)
  /\ \A k \in 1..(i - 1) : w[k] = v[k]
  /\ w[i] = note
  /\ \A k \in (j + 1)..Len(v) : w[k - (j - i)] = v[k]

(* How a note takes their place.                                           *)
LEMMA CollapseIs ==
  ASSUME NEW v \in Views, NEW i \in 1..Len(v), NEW j \in 1..Len(v), i <= j,
         NEW note \in ViewItems,
         NEW w, w = SubSeq(v, 1, i - 1) \o <<note>> \o SubSeq(v, j + 1, Len(v))
  PROVE  w \in Views /\ IsCollapse(w, v, i, j, note)
<1>1. v \in Seq(ViewItems) /\ Len(v) \in Nat
  BY DEF Views
<1> DEFINE a == SubSeq(v, 1, i - 1)
           b == SubSeq(v, j + 1, Len(v))
           c == a \o <<note>>
<1>2. a \in Seq(ViewItems) /\ Len(a) = i - 1 /\ \A k \in 1..(i - 1) : a[k] = v[k]
  BY <1>1
<1>3. b \in Seq(ViewItems) /\ Len(b) = Len(v) - j /\ \A k \in 1..(Len(v) - j) : b[k] = v[j + k]
  BY <1>1
<1> HIDE DEF a, b
<1>4. /\ c \in Seq(ViewItems) /\ Len(c) = i /\ c[i] = note
      /\ \A k \in 1..(i - 1) : c[k] = a[k]
  BY <1>2
<1> HIDE DEF c
<1>5. w = c \o b
  BY DEF a, b, c
<1>5a. w \in Seq(ViewItems) /\ IsJoin(w, c, b)
  BY <1>3, <1>4, <1>5, JoinIs
<1>6. w \in Seq(ViewItems) /\ Len(w) = i + (Len(v) - j)
  BY <1>3, <1>4, <1>5a DEF IsJoin
<1>7. \A k \in 1..i : w[k] = c[k]
  BY <1>4, <1>5a DEF IsJoin
<1>8. \A k \in 1..(Len(v) - j) : w[i + k] = b[k]
  BY <1>3, <1>4, <1>5a DEF IsJoin
<1>9. ASSUME NEW k \in (j + 1)..Len(v) PROVE w[k - (j - i)] = v[k]
  <2>1. k - j \in 1..(Len(v) - j) /\ i + (k - j) = k - (j - i) /\ j + (k - j) = k
    BY <1>1
  <2> QED
    BY <1>3, <1>8, <2>1
<1>10. Len(w) = Len(v) - (j - i)
  <2>1. \A x, y, z \in Nat : x + (z - y) = z - (y - x)
    OBVIOUS
  <2>2. i \in Nat /\ j \in Nat
    BY <1>1
  <2> QED
    BY <1>1, <1>6, <2>1, <2>2, Zenon
<1>11. w[i] = note /\ \A k \in 1..(i - 1) : w[k] = v[k]
  BY <1>2, <1>4, <1>7
<1> QED
  BY <1>6, <1>9, <1>10, <1>11 DEF Views, IsCollapse

(* A collapse never parts a call from its output.                          *)
LEMMA SquishFits ==
  ASSUME NEW rs, NEW v, ViewFits(v, rs), NEW range, NEW w \in Squish(v, range)
  PROVE  ViewFits(w, rs)
<1>1. PICK p \in (DOMAIN v) \X (DOMAIN v) :
        /\ v[p[1]].from = range[1] /\ v[p[2]].to = range[2] /\ p[1] <= p[2]
        /\ v[p[1]].results = {} /\ v[p[2]].uses = {}
        /\ w = SubSeq(v, 1, p[1] - 1) \o <<Note(range[1], range[2])>> \o SubSeq(v, p[2] + 1, Len(v))
  BY DEF Squish
<1>2. v \in Views /\ v \in Seq(ViewItems) /\ Len(v) \in Nat /\ DOMAIN v = 1..Len(v)
  BY DEF ViewFits, Views
<1> DEFINE i == p[1]
           j == p[2]
           note == Note(range[1], range[2])
           d == j - i
<1>3. i \in 1..Len(v) /\ j \in 1..Len(v) /\ i <= j
  BY <1>1, <1>2
<1>4. /\ v[i].from = range[1] /\ v[j].to = range[2] /\ v[i].results = {} /\ v[j].uses = {}
      /\ w = SubSeq(v, 1, i - 1) \o <<note>> \o SubSeq(v, j + 1, Len(v))
  BY <1>1
<1> HIDE DEF i, j
<1>5. v[i] \in ViewItems /\ v[j] \in ViewItems
  BY <1>2, <1>3
<1>6. /\ note \in ViewItems /\ note.from = v[i].from /\ note.to = v[j].to /\ note.type = "note"
      /\ note.uses = {} /\ note.results = {}
  BY <1>4, <1>5 DEF Note, ViewItems
<1> HIDE DEF note
<1>7. /\ w \in Views /\ Len(w) = Len(v) - d
      /\ \A k \in 1..(i - 1) : w[k] = v[k]
      /\ w[i] = note
      /\ \A k \in (j + 1)..Len(v) : w[k - d] = v[k]
  <2>1. w \in Views /\ IsCollapse(w, v, i, j, note)
    BY <1>2, <1>3, <1>4, <1>6, CollapseIs
  <2> QED
    BY <2>1 DEF IsCollapse
<1>8. d \in Nat /\ j = i + d /\ i \in Nat /\ j \in Nat /\ i >= 1 /\ j <= Len(v)
  BY <1>2, <1>3
<1> HIDE DEF d
<1>9. Len(w) \in Nat /\ Len(w) + d = Len(v) /\ w \in Seq(ViewItems) /\ i \in 1..Len(w)
  BY <1>2, <1>7, <1>8 DEF Views
<1>10. ASSUME NEW k \in 1..Len(w), k > i
       PROVE  k + d \in 1..Len(v) /\ k + d > j /\ w[k] = v[k + d]
  <2>1. k + d \in (j + 1)..Len(v) /\ (k + d) - d = k
    BY <1>2, <1>8, <1>9, <1>10
  <2>2. w[(k + d) - d] = v[k + d]
    BY <1>7, <2>1
  <2> QED
    BY <1>2, <1>8, <2>1, <2>2
<1>11. ASSUME NEW k \in 1..Len(w), k < i
       PROVE  k \in 1..Len(v) /\ w[k] = v[k]
  <2>1. k \in 1..(i - 1) /\ k \in 1..Len(v)
    BY <1>2, <1>3, <1>8, <1>9, <1>11
  <2> QED
    BY <1>7, <2>1
<1>12. \A k \in 1..Len(v) : ItemFits(v[k], rs)
  BY DEF ViewFits
<1>13. ItemFits(note, rs)
  <2>1. v[i].from <= v[j].to
    <3>1. CASE i = j
      BY <1>3, <1>12, <3>1 DEF ItemFits
    <3>2. CASE i # j
      <4>1. v[i].to < v[j].from
        BY <1>3, <1>8, <3>2 DEF ViewFits, InOrder
      <4>2. v[i].from <= v[i].to /\ v[j].from <= v[j].to
        BY <1>3, <1>12 DEF ItemFits
      <4> QED
        BY <1>5, <4>1, <4>2 DEF ViewItems
    <3> QED
      BY <3>1, <3>2
  <2>2. v[i].from \in 1..Len(rs) /\ v[j].to \in 1..Len(rs)
    BY <1>3, <1>12 DEF ItemFits
  <2> QED
    BY <1>6, <2>1, <2>2 DEF ItemFits, Original
<1>14. ASSUME NEW k \in 1..Len(w) PROVE ItemFits(w[k], rs)
  <2>1. CASE k < i
    BY <1>11, <1>12, <2>1
  <2>2. CASE k = i
    BY <1>7, <1>13, <2>2
  <2>3. CASE k > i
    BY <1>10, <1>12, <2>3
  <2> QED
    BY <1>8, <1>9, <2>1, <2>2, <2>3
<1>15. ASSUME NEW k \in 1..Len(w), NEW m \in 1..Len(w), k < m PROVE w[k].to < w[m].from
  <2>1. \A x, y \in 1..Len(v) : x < y => v[x].to < v[y].from
    BY DEF ViewFits, InOrder
  <2>2. CASE m < i
    <3>1. k < i
      BY <1>8, <1>9, <1>15, <2>2
    <3> QED
      BY <1>11, <1>15, <2>1, <2>2, <3>1
  <2>3. CASE m = i
    <3>1. k < i
      BY <1>15, <2>3
    <3>2. k \in 1..Len(v) /\ w[k] = v[k]
      BY <1>11, <3>1
    <3>3. v[k].to < v[i].from
      BY <1>3, <2>1, <3>1, <3>2
    <3> QED
      BY <1>6, <1>7, <2>3, <3>2, <3>3
  <2>4. CASE m > i
    <3>1. m + d \in 1..Len(v) /\ m + d > j /\ w[m] = v[m + d]
      BY <1>10, <2>4
    <3>2. CASE k < i
      <4>1. k \in 1..Len(v) /\ w[k] = v[k]
        BY <1>11, <3>2
      <4>2. k < m + d
        BY <1>2, <1>8, <1>15, <3>1, <3>2
      <4> QED
        BY <2>1, <3>1, <4>1, <4>2
    <3>3. CASE k = i
      <4>1. v[j].to < v[m + d].from
        BY <1>3, <2>1, <3>1
      <4> QED
        BY <1>6, <1>7, <3>1, <3>3, <4>1
    <3>4. CASE k > i
      <4>1. k + d \in 1..Len(v) /\ w[k] = v[k + d]
        BY <1>10, <3>4
      <4>2. k + d < m + d
        BY <1>8, <1>9, <1>15
      <4> QED
        BY <2>1, <3>1, <4>1, <4>2
    <3> QED
      BY <1>8, <1>9, <3>2, <3>3, <3>4
  <2> QED
    BY <1>8, <1>9, <2>2, <2>3, <2>4
<1>16. ASSUME NEW k \in 1..Len(rs), ~Exempt(rs[k])
       PROVE  \E m \in 1..Len(w) : w[m].from <= k /\ k <= w[m].to
  <2>1. PICK m \in 1..Len(v) : v[m].from <= k /\ k <= v[m].to
    BY <1>16 DEF ViewFits, Covers
  <2>2. CASE m < i
    <3>1. m \in 1..(i - 1) /\ m \in 1..Len(w)
      BY <1>8, <1>9, <2>2
    <3> QED
      BY <1>7, <2>1, <3>1
  <2>3. CASE m > j
    <3>1. m \in (j + 1)..Len(v) /\ m - d \in 1..Len(w)
      BY <1>2, <1>8, <1>9, <2>3
    <3>2. w[m - d] = v[m]
      BY <1>7, <3>1
    <3> QED
      BY <2>1, <3>1, <3>2
  <2>4. CASE i <= m /\ m <= j
    <3>1. v[i].from <= v[m].from
      <4>1. i # m => v[i].to < v[m].from
        BY <1>3, <1>8, <2>4 DEF ViewFits, InOrder
      <4>2. v[i].from <= v[i].to
        BY <1>3, <1>12 DEF ItemFits
      <4>3. v[m] \in ViewItems
        BY <1>2
      <4> QED
        BY <1>5, <4>1, <4>2, <4>3 DEF ViewItems
    <3>2. v[m].to <= v[j].to
      <4>1. j # m => v[m].to < v[j].from
        BY <1>3, <1>8, <2>4 DEF ViewFits, InOrder
      <4>2. v[j].from <= v[j].to
        BY <1>3, <1>12 DEF ItemFits
      <4>3. v[m] \in ViewItems
        BY <1>2
      <4> QED
        BY <1>5, <4>1, <4>2, <4>3 DEF ViewItems
    <3>3. v[m] \in ViewItems /\ k \in Int
      BY <1>2
    <3>4. note.from <= k /\ k <= note.to
      <4>1. /\ v[i].from \in Nat /\ v[m].from \in Nat /\ v[m].to \in Nat /\ v[j].to \in Nat
        BY <1>5, <3>3 DEF ViewItems
      <4>2. v[i].from <= k
        <5>1. v[m].from <= k
          BY <2>1
        <5>2. \A x, y, z \in Int : x <= y /\ y <= z => x <= z
          OBVIOUS
        <5>3. v[i].from \in Int /\ v[m].from \in Int
          BY <4>1
        <5> QED
          BY <3>1, <3>3, <5>1, <5>2, <5>3, Zenon
      <4>3. k <= v[j].to
        BY <2>1, <3>2, <3>3, <4>1
      <4> QED
        BY <1>6, <4>2, <4>3
    <3> QED
      BY <1>7, <1>9, <3>4
  <2> QED
    BY <1>8, <2>2, <2>3, <2>4
<1>17. Pairs(w, OpenCalls(rs))
  <2>1. Pairs(v, OpenCalls(rs))
    BY DEF ViewFits
  <2>2. w # <<>>
    BY <1>9
  <2>3. w[Len(w)].uses = OpenCalls(rs)
    <3>1. v # <<>> /\ v[Len(v)].uses = OpenCalls(rs)
      <4>1. v # <<>>
        BY <1>2, <1>3
      <4> QED
        BY <2>1, <4>1 DEF Pairs
    <3>2. CASE i = Len(w)
      <4>1. j = Len(v)
        BY <1>8, <1>9, <3>2
      <4> QED
        BY <1>4, <1>6, <1>7, <3>1, <3>2, <4>1
    <3>3. CASE i # Len(w)
      <4>1. Len(w) \in 1..Len(w) /\ Len(w) > i
        BY <1>8, <1>9, <3>3
      <4> QED
        BY <1>9, <1>10, <3>1, <4>1
    <3> QED
      BY <3>2, <3>3
  <2>4. ASSUME NEW k \in 1..Len(w), w[k].results # {} PROVE k > 1 /\ w[k - 1].uses = w[k].results
    <3>1. k # i
      BY <1>6, <1>7, <2>4
    <3>2. CASE k < i
      <4>1. k \in 1..Len(v) /\ w[k] = v[k]
        BY <1>11, <3>2
      <4>2. k > 1 /\ v[k - 1].uses = v[k].results
        BY <2>1, <2>4, <4>1 DEF Pairs
      <4>3. k - 1 \in 1..(i - 1)
        BY <1>8, <1>9, <3>2, <4>2
      <4> QED
        BY <1>7, <4>1, <4>2, <4>3
    <3>3. CASE k > i
      <4>1. k + d \in 1..Len(v) /\ k + d > j /\ w[k] = v[k + d]
        BY <1>10, <3>3
      <4>2. v[(k + d) - 1].uses = v[k + d].results /\ v[k + d].results # {}
        BY <2>1, <2>4, <4>1 DEF Pairs
      <4>3. k - 1 # i
        <5>1. SUFFICES ASSUME k - 1 = i PROVE FALSE
          OBVIOUS
        <5>2. (k + d) - 1 = j
          BY <1>8, <1>9, <5>1
        <5> QED
          BY <1>4, <4>2, <5>2
      <4>4. k - 1 \in 1..Len(w) /\ k - 1 > i /\ (k - 1) + d = (k + d) - 1 /\ k > 1
        BY <1>8, <1>9, <3>3, <4>3
      <4>5. w[k - 1] = v[(k - 1) + d]
        BY <1>10, <4>4
      <4> QED
        BY <4>1, <4>2, <4>4, <4>5
    <3> QED
      BY <1>8, <1>9, <3>1, <3>2, <3>3
  <2>5. ASSUME NEW k \in 1..Len(w), w[k].uses # {}, k # Len(w) PROVE w[k + 1].results = w[k].uses
    <3>1. k # i
      BY <1>6, <1>7, <2>5
    <3>2. CASE k < i
      <4>0. k < Len(v)
        BY <1>2, <1>8, <1>9, <3>2
      <4>1. k \in 1..Len(v) /\ w[k] = v[k] /\ k # Len(v)
        <5>1. k \in 1..Len(v) /\ w[k] = v[k]
          BY <1>11, <3>2
        <5>2. \A x \in Nat : ~(x < x)
          OBVIOUS
        <5>3. k # Len(v)
          BY <1>2, <4>0, <5>2, Zenon
        <5> QED
          BY <5>1, <5>3
      <4>2. v[k + 1].results = v[k].uses
        BY <2>1, <2>5, <4>1 DEF Pairs
      <4>3. k + 1 # i
        BY <1>4, <2>5, <4>1, <4>2
      <4>4. k + 1 \in 1..(i - 1)
        BY <1>8, <1>9, <3>2, <4>3
      <4> QED
        BY <1>7, <4>1, <4>2, <4>4
    <3>3. CASE k > i
      <4>1. k + d \in 1..Len(v) /\ w[k] = v[k + d] /\ k + d # Len(v)
        BY <1>8, <1>9, <1>10, <2>5, <3>3
      <4>2. v[(k + d) + 1].results = v[k + d].uses
        BY <2>1, <2>5, <4>1 DEF Pairs
      <4>3. k + 1 \in 1..Len(w)
        BY <1>9, <2>5, NotLast
      <4>4. k + 1 > i /\ (k + 1) + d = (k + d) + 1
        BY <1>8, <1>9, <3>3
      <4>5. w[k + 1] = v[(k + 1) + d]
        BY <1>10, <4>3, <4>4
      <4> QED
        BY <4>1, <4>2, <4>4, <4>5
    <3> QED
      BY <1>8, <1>9, <3>1, <3>2, <3>3
  <2> QED
    BY <2>2, <2>3, <2>4, <2>5 DEF Pairs
<1> QED
  BY <1>7, <1>14, <1>15, <1>16, <1>17 DEF ViewFits, InOrder, Covers

(* A record that applies fits: what it may trim, collapse and hide.        *)
RecordFits(c, rs) == c \in Compactions /\ MayHide(rs, c.hiddenSeqs, c.hiddenIDs)

(* Applying a record keeps a view fit.                                     *)
LEMMA ApplyFits ==
  ASSUME NEW rs, \A k \in 1..Len(rs) : RowFits(rs, k), NEW v, ViewFits(v, rs),
         NEW c, RecordFits(c, rs), NEW w \in applyInPlaceCompaction(v, c)
  PROVE  ViewFits(w, rs)
<1>1. /\ c.trims \in SUBSET (Nat \X Ids) /\ c.squishes \in Seq(Nat \X Nat)
      /\ MayHide(rs, c.hiddenSeqs, c.hiddenIDs)
  BY DEF RecordFits, Compactions
<1>2. Len(c.squishes) \in Nat
  BY <1>1
<1>3. PICK f : SquishPrefixes(f, v, c)
  BY <1>2, SquishPrefixesExist, Zenon
<1> DEFINE P == {n \in Nat : n <= Len(c.squishes) => \A u \in f[n] : ViewFits(u, rs)}
<1>4. 0 \in P
  <2>1. f[0] = Trimmed(v, c.trims)
    BY <1>3 DEF SquishPrefixes
  <2> QED
    BY <1>1, <2>1, TrimFits
<1>5. ASSUME NEW n \in Nat, n \in P PROVE n + 1 \in P
  <2>1. SUFFICES ASSUME n + 1 <= Len(c.squishes), NEW u \in f[n + 1] PROVE ViewFits(u, rs)
    OBVIOUS
  <2>2. n + 1 \in 1..Len(c.squishes) /\ (n + 1) - 1 = n /\ n <= Len(c.squishes)
    BY <1>2, <2>1
  <2>3. f[n + 1] = Squished(f[n], c.squishes[n + 1])
    BY <1>3, <2>2 DEF SquishPrefixes
  <2>4. PICK z \in f[n] : u \in Squish(z, c.squishes[n + 1])
    BY <2>1, <2>3 DEF Squished
  <2>5. ViewFits(z, rs)
    BY <1>5, <2>2
  <2> QED
    BY <2>4, <2>5, SquishFits
<1>6. Len(c.squishes) \in P
  <2> HIDE DEF P
  <2> QED
    BY <1>2, <1>4, <1>5, NatInductionOver
<1>7. PICK u \in f[Len(c.squishes)] : w \in hideItems(u, c.hiddenSeqs, c.hiddenIDs)
  BY <1>3, Zenon DEF SquishPrefixes
<1>8. ViewFits(u, rs)
  BY <1>2, <1>6
<1> QED
  BY <1>1, <1>7, <1>8, HideFits

-----------------------------------------------------------------------------
(* Transcripts whose views fit.                                            *)

FitRows(rs) == rs \in Seq(Rows) /\ \A k \in 1..Len(rs) : RowFits(rs, k)

Good(rs) ==
  /\ FitRows(rs)
  /\ compactedContext(rs) # {}
  /\ \A v \in compactedContext(rs) : ViewFits(v, rs)

(* One row more, row by row.                                               *)
LEMMA MoreRows ==
  ASSUME NEW rs \in Seq(Rows), NEW r \in Rows
  PROVE  /\ Append(rs, r) \in Seq(Rows) /\ Len(Append(rs, r)) = Len(rs) + 1
         /\ Len(rs) \in Nat /\ Append(rs, r)[Len(rs) + 1] = r
         /\ \A k \in 1..Len(rs) : Append(rs, r)[k] = rs[k]
OBVIOUS

(* Whose calls are in the rows.                                            *)
LEMMA OpenIs ==
  ASSUME NEW rs, FitRows(rs), NEW id
  PROVE  id \in OpenCalls(rs) <=>
           (\E k \in 1..Len(rs) : id \in rs[k].uses) /\ ~(\E k \in 1..Len(rs) : id \in rs[k].results)
<1>1. DOMAIN rs = 1..Len(rs)
  BY DEF FitRows
<1> QED
  BY <1>1, IDsAre, Zenon DEF OpenCalls

(* A row that answers the open calls, and may make calls of its own.       *)
Answering(r, rs) ==
  /\ r \in PlainRows
  /\ r.results = OpenCalls(rs)
  /\ r.uses = {} \/ r.results = {}
  /\ \A id \in r.uses : id[1] = Len(rs) + 1
  /\ r.type \in {"nudge", "idle"} => r.uses = {} /\ r.results = {}

(* Such a row fits, and leaves its own calls open.                         *)
LEMMA AnsweringFits ==
  ASSUME NEW rs, FitRows(rs), NEW r, Answering(r, rs)
  PROVE  FitRows(Append(rs, r)) /\ OpenCalls(Append(rs, r)) = r.uses
<1> DEFINE more == Append(rs, r)
           n == Len(rs)
<1>1. r \in Rows /\ rs \in Seq(Rows)
  BY DEF Answering, FitRows, Rows
<1>2. /\ more \in Seq(Rows) /\ Len(more) = n + 1 /\ n \in Nat /\ more[n + 1] = r
      /\ \A k \in 1..n : more[k] = rs[k]
  BY <1>1, MoreRows
<1> HIDE DEF more
<1>3. \A k \in 1..n : RowFits(rs, k)
  BY DEF FitRows
<1>4. ASSUME NEW id \in OpenCalls(rs) PROVE id[1] < n + 1
  <2>1. PICK k \in 1..n : id \in rs[k].uses
    BY OpenIs
  <2>2. id[1] = k
    BY <1>3, <2>1 DEF RowFits
  <2> QED
    BY <1>2, <2>2
<1>5. RowFits(more, n + 1)
  <2>1. r.type # "record"
    BY DEF Answering, PlainRows, RowTypes
  <2> QED
    BY <1>2, <1>4, <2>1 DEF Answering, RowFits
<1>6. \A k \in 1..n : RowFits(more, k)
  BY <1>2, <1>3 DEF RowFits
<1>7. FitRows(more)
  <2>1. \A k \in 1..(n + 1) : k = n + 1 \/ k \in 1..n
    BY <1>2
  <2> QED
    BY <1>2, <1>5, <1>6, <2>1 DEF FitRows
<1>8. ASSUME NEW id \in r.uses PROVE id \in OpenCalls(more)
  <2>1. id[1] = n + 1
    BY DEF Answering
  <2>2. ASSUME NEW k \in 1..Len(more), id \in more[k].results PROVE FALSE
    <3>1. id[1] < k
      BY <1>7, <2>2 DEF FitRows, RowFits
    <3> QED
      BY <1>2, <2>1, <3>1
  <2>3. n + 1 \in 1..Len(more) /\ id \in more[n + 1].uses
    BY <1>2
  <2> QED
    BY <1>7, <2>2, <2>3, OpenIs
<1>9. ASSUME NEW id \in OpenCalls(more) PROVE id \in r.uses
  <2>1. PICK k \in 1..Len(more) : id \in more[k].uses
    BY <1>7, OpenIs
  <2>2. ~\E j \in 1..Len(more) : id \in more[j].results
    BY <1>7, OpenIs
  <2>3. SUFFICES ASSUME k # n + 1 PROVE FALSE
    BY <1>2, <2>1
  <2>4. k \in 1..n /\ id \in rs[k].uses
    BY <1>2, <2>1, <2>3
  <2>5. ~\E j \in 1..n : id \in rs[j].results
    <3>1. \A j \in 1..n : j \in 1..Len(more)
      BY <1>2
    <3> QED
      BY <1>2, <2>2, <3>1
  <2>6. id \in OpenCalls(rs)
    BY <2>4, <2>5, OpenIs
  <2>7. id \in more[n + 1].results /\ n + 1 \in 1..Len(more)
    BY <1>2, <2>6 DEF Answering
  <2> QED
    BY <2>2, <2>7
<1> QED
  BY <1>7, <1>8, <1>9 DEF more

(* A record fits, and opens and answers nothing.                           *)
LEMMA RecordFitsRows ==
  ASSUME NEW rs, FitRows(rs), NEW c \in Compactions
  PROVE  FitRows(Append(rs, RecordRow(c))) /\ OpenCalls(Append(rs, RecordRow(c))) = OpenCalls(rs)
<1> DEFINE r == RecordRow(c)
           more == Append(rs, r)
           n == Len(rs)
<1>0. r \in RecordRows /\ r.uses = {} /\ r.results = {}
  BY DEF RecordRow, RecordRows
<1>1. r \in Rows /\ rs \in Seq(Rows)
  BY <1>0 DEF FitRows, Rows
<1> HIDE DEF r
<1>2. /\ more \in Seq(Rows) /\ Len(more) = n + 1 /\ n \in Nat /\ more[n + 1] = r
      /\ \A k \in 1..n : more[k] = rs[k]
  BY <1>1, MoreRows
<1> HIDE DEF more
<1>3. \A k \in 1..(n + 1) : RowFits(more, k)
  <2>1. \A k \in 1..n : RowFits(more, k)
    BY <1>2 DEF FitRows, RowFits
  <2>2. RowFits(more, n + 1)
    BY <1>0, <1>2 DEF RowFits
  <2>3. \A k \in 1..(n + 1) : k = n + 1 \/ k \in 1..n
    BY <1>2
  <2> QED
    BY <2>1, <2>2, <2>3
<1>4. FitRows(more)
  BY <1>2, <1>3 DEF FitRows
<1>5. \A k \in 1..Len(more) : k = n + 1 \/ k \in 1..n
  BY <1>2
<1>6. \A k \in 1..n : k \in 1..Len(more)
  BY <1>2
<1>7. ASSUME NEW id PROVE id \in OpenCalls(more) <=> id \in OpenCalls(rs)
  <2>1. (\E k \in 1..Len(more) : id \in more[k].uses) <=> \E k \in 1..n : id \in rs[k].uses
    BY <1>0, <1>2, <1>5, <1>6
  <2>2. (\E k \in 1..Len(more) : id \in more[k].results) <=> \E k \in 1..n : id \in rs[k].results
    BY <1>0, <1>2, <1>5, <1>6
  <2> QED
    BY <1>4, <2>1, <2>2, OpenIs
<1> QED
  BY <1>4, <1>7 DEF more, r

(* Items go on showing the rows they showed.                               *)
LEMMA ItemsStay ==
  ASSUME NEW rs, FitRows(rs), NEW r \in Rows, NEW item, ItemFits(item, rs)
  PROVE  ItemFits(item, Append(rs, r))
<1>1. /\ Len(Append(rs, r)) = Len(rs) + 1 /\ Len(rs) \in Nat
      /\ \A k \in 1..Len(rs) : Append(rs, r)[k] = rs[k]
  BY MoreRows DEF FitRows
<1> DEFINE more == Append(rs, r)
<1> HIDE DEF more
<1>2. item.from \in 1..Len(more) /\ item.to \in 1..Len(more) /\ item.from <= item.to
  BY <1>1 DEF ItemFits, more
<1>3. more[item.from] = rs[item.from]
  BY <1>1 DEF ItemFits, more
<1> QED
  BY <1>2, <1>3 DEF ItemFits, more

(* A view and one item more.                                               *)
LEMMA ViewGrows ==
  ASSUME NEW rs, FitRows(rs), NEW r, Answering(r, rs), NEW v, ViewFits(v, rs)
  PROVE  ViewFits(Append(v, contextItem(Len(rs) + 1, r)), Append(rs, r))
<1> DEFINE more == Append(rs, r)
           item == contextItem(Len(rs) + 1, r)
           w == Append(v, item)
           n == Len(rs)
           m == Len(v)
<1>1. r \in Rows /\ rs \in Seq(Rows) /\ r \in PlainRows
  BY DEF Answering, FitRows, Rows
<1>2. /\ more \in Seq(Rows) /\ Len(more) = n + 1 /\ n \in Nat /\ more[n + 1] = r
      /\ \A k \in 1..n : more[k] = rs[k]
  BY <1>1, MoreRows
<1>3. /\ item \in ViewItems /\ item.from = n + 1 /\ item.to = n + 1 /\ item.type = r.type
      /\ item.uses = r.uses /\ item.results = r.results /\ item.type # "note"
  BY <1>1, <1>2 DEF contextItem, ViewItems, PlainRows, RowTypes
<1>4. v \in Seq(ViewItems) /\ m \in Nat
  BY DEF ViewFits, Views
<1> HIDE DEF item
<1>5. /\ w \in Seq(ViewItems) /\ Len(w) = m + 1 /\ w[m + 1] = item
      /\ \A k \in 1..m : w[k] = v[k]
  BY <1>3, <1>4
<1>6. FitRows(more) /\ OpenCalls(more) = r.uses
  BY AnsweringFits
<1>7. \A k \in 1..m : ItemFits(v[k], rs) /\ ItemFits(v[k], more)
  BY <1>1, ItemsStay DEF ViewFits
<1> HIDE DEF w, more, n, m
<1>8. \A k \in 1..(m + 1) : k = m + 1 \/ k \in 1..m
  BY <1>4
<1>9. ItemFits(item, more)
  <2>1. item.from \in 1..Len(more) /\ more[item.from] = r
    BY <1>2, <1>3
  <2>2. item.to \in 1..Len(more) /\ item.from <= item.to
    BY <1>2, <1>3
  <2> QED
    BY <1>3, <2>1, <2>2 DEF ItemFits, Original, Answering
<1>10. \A k \in 1..Len(w) : ItemFits(w[k], more)
  BY <1>5, <1>7, <1>8, <1>9
<1>11. ASSUME NEW k \in 1..Len(w), NEW j \in 1..Len(w), k < j PROVE w[k].to < w[j].from
  <2>1. k \in 1..m
    BY <1>4, <1>5, <1>11
  <2>2. CASE j = m + 1
    <3>1. v[k].to \in 1..n
      BY <1>7, <2>1 DEF ItemFits, n
    <3> QED
      BY <1>2, <1>3, <1>5, <2>1, <2>2, <3>1
  <2>3. CASE j \in 1..m
    BY <1>5, <1>11, <2>1, <2>3 DEF ViewFits, InOrder, m
  <2> QED
    BY <1>5, <1>8, <2>2, <2>3
<1>12. Covers(w, more)
  <2>1. ASSUME NEW k \in 1..Len(more), ~Exempt(more[k])
        PROVE  \E j \in 1..Len(w) : w[j].from <= k /\ k <= w[j].to
    <3>1. CASE k = n + 1
      <4>1. m + 1 \in 1..Len(w)
        BY <1>4, <1>5
      <4> QED
        BY <1>2, <1>3, <1>5, <3>1, <4>1
    <3>2. CASE k \in 1..n
      <4>1. ~Exempt(rs[k])
        BY <1>2, <2>1, <3>2
      <4>2. PICK j \in 1..m : v[j].from <= k /\ k <= v[j].to
        BY <3>2, <4>1 DEF ViewFits, Covers, n, m
      <4>3. j \in 1..Len(w)
        BY <1>4, <1>5
      <4> QED
        BY <1>5, <4>2, <4>3
    <3>3. k = n + 1 \/ k \in 1..n
      BY <1>2
    <3> QED
      BY <3>1, <3>2, <3>3
  <2> QED
    BY <2>1 DEF Covers
<1>13. Pairs(w, OpenCalls(more))
  <2>1. Pairs(v, OpenCalls(rs))
    BY DEF ViewFits
  <2>2. w # <<>> /\ w[Len(w)].uses = r.uses
    BY <1>3, <1>4, <1>5
  <2>3. m = 0 => v = <<>>
    BY <1>4 DEF m
  <2>3a. m # 0 => v # <<>> /\ m \in 1..m
    BY <1>4 DEF m
  <2>4. ASSUME NEW k \in 1..Len(w), w[k].results # {} PROVE k > 1 /\ w[k - 1].uses = w[k].results
    <3>1. CASE k \in 1..m
      <4>1. k > 1 /\ v[k - 1].uses = v[k].results
        BY <1>5, <2>1, <2>4, <3>1 DEF Pairs, m
      <4>2. k - 1 \in 1..m
        BY <1>4, <3>1, <4>1
      <4> QED
        BY <1>5, <3>1, <4>1, <4>2
    <3>2. CASE k = m + 1
      <4>1. w[k].results = OpenCalls(rs) /\ OpenCalls(rs) # {}
        BY <1>3, <1>5, <2>4, <3>2 DEF Answering
      <4>2. m # 0
        BY <2>1, <2>3, <4>1 DEF Pairs
      <4>3. v[m].uses = OpenCalls(rs)
        BY <2>1, <2>3a, <4>2 DEF Pairs, m
      <4>4. w[m] = v[m]
        BY <1>5, <2>3a, <4>2
      <4>5. k > 1 /\ k - 1 = m
        BY <1>4, <3>2, <4>2
      <4> QED
        BY <4>1, <4>3, <4>4, <4>5
    <3> QED
      BY <1>5, <1>8, <3>1, <3>2
  <2>5. ASSUME NEW k \in 1..Len(w), w[k].uses # {}, k # Len(w) PROVE w[k + 1].results = w[k].uses
    <3>1. k \in 1..m /\ v[k].uses # {}
      BY <1>5, <1>8, <2>5
    <3>2. CASE k = m
      <4>1. v[m].uses = OpenCalls(rs)
        BY <2>1, <2>3a, <3>1, <3>2 DEF Pairs, m
      <4> QED
        BY <1>3, <1>5, <3>1, <3>2, <4>1 DEF Answering
    <3>3. CASE k # m
      <4>1. v[k + 1].results = v[k].uses
        BY <2>1, <3>1, <3>3 DEF Pairs, m
      <4>2. k + 1 \in 1..m
        BY <1>4, <3>1, <3>3, NotLast
      <4> QED
        BY <1>5, <3>1, <4>1, <4>2
    <3> QED
      BY <3>2, <3>3
  <2> QED
    BY <1>6, <2>2, <2>4, <2>5 DEF Pairs
<1>14. ViewFits(w, more)
  BY <1>5, <1>10, <1>11, <1>12, <1>13, Zenon DEF ViewFits, Views, InOrder
<1> QED
  BY <1>14 DEF w, item, more, n

(* A transcript grows by a row that answers what is open.                  *)
LEMMA GoodGrows ==
  ASSUME NEW rs, Good(rs), NEW r, Answering(r, rs)
  PROVE  /\ Good(Append(rs, r)) /\ OpenCalls(Append(rs, r)) = r.uses
         /\ compactedContext(Append(rs, r)) =
              {Append(v, contextItem(Len(rs) + 1, r)) : v \in compactedContext(rs)}
<1>1. FitRows(rs) /\ rs \in Seq(Rows) /\ compactedContext(rs) # {}
  BY DEF Good, FitRows
<1>2. r.type # "record"
  BY DEF Answering, PlainRows, RowTypes
<1>3. compactedContext(Append(rs, r)) =
        {Append(v, contextItem(Len(rs) + 1, r)) : v \in compactedContext(rs)}
  BY <1>1, <1>2, ContextPlain
<1>4. FitRows(Append(rs, r)) /\ OpenCalls(Append(rs, r)) = r.uses
  BY <1>1, AnsweringFits
<1>5. ASSUME NEW w \in compactedContext(Append(rs, r)) PROVE ViewFits(w, Append(rs, r))
  <2>1. PICK v \in compactedContext(rs) : w = Append(v, contextItem(Len(rs) + 1, r))
    BY <1>3
  <2>2. ViewFits(v, rs)
    BY DEF Good
  <2> QED
    BY <1>1, <2>1, <2>2, ViewGrows
<1>6. compactedContext(Append(rs, r)) # {}
  BY <1>1, <1>3
<1> QED
  BY <1>3, <1>4, <1>5, <1>6 DEF Good

(* A view stays fit when a record joins the rows.                          *)
LEMMA ViewStays ==
  ASSUME NEW rs, FitRows(rs), NEW c \in Compactions, NEW v, ViewFits(v, rs)
  PROVE  ViewFits(v, Append(rs, RecordRow(c)))
<1> DEFINE r == RecordRow(c)
           more == Append(rs, r)
           n == Len(rs)
<1>1. r \in Rows /\ rs \in Seq(Rows) /\ r.type = "record"
  BY DEF FitRows, Rows, RecordRow, RecordRows
<1>2. /\ Len(more) = n + 1 /\ n \in Nat /\ more[n + 1] = r
      /\ \A k \in 1..n : more[k] = rs[k]
  BY <1>1, MoreRows
<1>3. OpenCalls(more) = OpenCalls(rs)
  BY RecordFitsRows
<1> HIDE DEF r
<1>4. \A k \in 1..Len(v) : ItemFits(v[k], more)
  BY <1>1, ItemsStay DEF ViewFits
<1> HIDE DEF more, n
<1>5. Covers(v, more)
  <2>1. ASSUME NEW k \in 1..Len(more), ~Exempt(more[k])
        PROVE  \E m \in 1..Len(v) : v[m].from <= k /\ k <= v[m].to
    <3>1. k # n + 1
      BY <1>1, <1>2, <2>1 DEF Exempt
    <3>2. k \in 1..n /\ ~Exempt(rs[k])
      BY <1>2, <2>1, <3>1
    <3> QED
      BY <3>2 DEF ViewFits, Covers, n
  <2> QED
    BY <2>1 DEF Covers
<1>6. ViewFits(v, more)
  BY <1>3, <1>4, <1>5 DEF ViewFits
<1> QED
  BY <1>6 DEF more, r

(* A transcript grows by a record that fits and applies to some view.      *)
LEMMA GoodRecords ==
  ASSUME NEW rs, Good(rs), NEW c, RecordFits(c, rs),
         NEW v \in compactedContext(rs), applyInPlaceCompaction(v, c) # {}
  PROVE  /\ Good(Append(rs, RecordRow(c)))
         /\ OpenCalls(Append(rs, RecordRow(c))) = OpenCalls(rs)
<1> DEFINE r == RecordRow(c)
           more == Append(rs, r)
<1>1. FitRows(rs) /\ rs \in Seq(Rows)
  BY DEF Good, FitRows
<1>2. c \in Compactions
  BY DEF RecordFits
<1>3. FitRows(more) /\ OpenCalls(more) = OpenCalls(rs)
  BY <1>1, <1>2, RecordFitsRows
<1>4. r.type = "record" /\ r.record = c
  BY DEF RecordRow
<1> HIDE DEF r
<1>5. compactedContext(more) = UNION {applyInPlaceCompaction(u, r.record) : u \in compactedContext(rs)}
  BY <1>1, <1>4, ContextRecord
<1>6. compactedContext(more) # {}
  BY <1>4, <1>5
<1>7. ASSUME NEW w \in compactedContext(more) PROVE ViewFits(w, more)
  <2>1. PICK u \in compactedContext(rs) : w \in applyInPlaceCompaction(u, c)
    BY <1>4, <1>5
  <2>2. ViewFits(u, rs) /\ \A k \in 1..Len(rs) : RowFits(rs, k)
    BY <1>1 DEF Good, FitRows
  <2>3. ViewFits(w, rs)
    BY <2>1, <2>2, ApplyFits
  <2> QED
    BY <1>1, <1>2, <2>3, ViewStays DEF r
<1> QED
  BY <1>3, <1>6, <1>7 DEF Good, r

(* The empty transcript.                                                   *)
LEMMA GoodEmpty == Good(<<>>) /\ OpenCalls(<<>>) = {}
<1>1. Len(<<>>) = 0 /\ <<>> \in Seq(Rows)
  OBVIOUS
<1>2. \A k \in 1..Len(<<>>) : FALSE
  BY <1>1
<1>3. FitRows(<<>>)
  BY <1>1, <1>2 DEF FitRows
<1>4. OpenCalls(<<>>) = {}
  BY <1>2, <1>3, OpenIs
<1>5. ViewFits(<<>>, <<>>)
  <2>1. <<>> \in Views
    BY DEF Views
  <2>2. Pairs(<<>>, {}) /\ InOrder(<<>>) /\ Covers(<<>>, <<>>)
    BY <1>2 DEF Pairs, InOrder, Covers
  <2> QED
    BY <1>2, <1>4, <2>1, <2>2 DEF ViewFits
<1> QED
  BY <1>3, <1>4, <1>5, ContextEmpty DEF Good

-----------------------------------------------------------------------------
(* What the agent and the debugger may record.                             *)

(* The evidence that a view holds may be hidden.                           *)
LEMMA EvidenceFits ==
  ASSUME NEW rs, FitRows(rs), NEW v, ViewFits(v, rs)
  PROVE  /\ compactionEvidence(v).seqs \in SUBSET Nat
         /\ compactionEvidence(v).ids \in SUBSET Ids
         /\ MayHide(rs, compactionEvidence(v).seqs, compactionEvidence(v).ids)
<1> DEFINE S == {v[k].from : k \in {j \in DOMAIN v : v[j].type \in {"nudge", "idle"}}}
           I == {id \in IDs(v, "uses") : Compacts(id) /\ id \in IDs(v, "results")}
<1>1. compactionEvidence(v).seqs = S /\ compactionEvidence(v).ids = I
  BY DEF compactionEvidence
<1>2. v \in Seq(ViewItems) /\ DOMAIN v = 1..Len(v) /\ \A k \in 1..Len(v) : v[k] \in ViewItems
  BY DEF ViewFits, Views
<1>3. ASSUME NEW s \in S PROVE s \in Nat /\ rs[s].type \in {"nudge", "idle"}
  <2>1. PICK k \in 1..Len(v) : v[k].type \in {"nudge", "idle"} /\ s = v[k].from
    BY <1>2
  <2>2. ItemFits(v[k], rs) /\ v[k].from \in Nat
    BY <1>2 DEF ViewFits, ViewItems
  <2> QED
    BY <2>1, <2>2 DEF ItemFits, Original
<1>4. ASSUME NEW id \in I PROVE id \in Ids /\ Compacts(id) /\ id \notin OpenCalls(rs)
  <2>1. PICK k \in 1..Len(v) : id \in v[k].results
    BY <1>2, IDsAre
  <2>2. ItemFits(v[k], rs) /\ v[k].results \in SUBSET Ids
    BY <1>2 DEF ViewFits, ViewItems
  <2>3. Original(v[k]) /\ v[k].from \in 1..Len(rs) /\ id \in rs[v[k].from].results
    BY <2>1, <2>2 DEF ItemFits
  <2> QED
    BY <2>1, <2>2, <2>3, OpenIs
<1> HIDE DEF S, I
<1> QED
  BY <1>1, <1>3, <1>4 DEF MayHide

(* What Without leaves is a view.                                          *)
LEMMA WithoutTyped ==
  ASSUME NEW v \in Views, NEW ids
  PROVE  Without(v, ids) \in Views
<1> DEFINE kept == Kept(v, {k \in DOMAIN v : ~Emptied(v[k], ids)})
<1>1. kept \in Views
  BY KeptPicks DEF Picks
<1>2. Without(v, ids) = [k \in DOMAIN kept |-> Lacking(kept[k], ids)]
  BY DEF Without
<1> HIDE DEF kept
<1>3. kept \in Seq(ViewItems) /\ DOMAIN kept = 1..Len(kept) /\ Len(kept) \in Nat
  BY <1>1 DEF Views
<1>4. ASSUME NEW k \in 1..Len(kept) PROVE Lacking(kept[k], ids) \in ViewItems
  <2>1. kept[k] \in ViewItems
    BY <1>3
  <2> QED
    BY <2>1, LackingIs
<1> QED
  BY <1>2, <1>3, <1>4 DEF Views

(* The agent's view is one.                                                *)
LEMMA AgentViews ==
  ASSUME NEW rs, FitRows(rs), NEW items, ViewFits(items, rs), NEW v \in compactionView(items)
  PROVE  v \in Views
<1> DEFINE e == compactionEvidence(items)
<1>1. PICK u \in hideItems(items, e.seqs, e.ids) :
        v = Without(u, {id \in IDs(u, "uses") : Compacts(id)})
  BY DEF compactionView
<1>2. MayHide(rs, e.seqs, e.ids)
  BY EvidenceFits
<1> HIDE DEF e
<1>3. ViewFits(u, rs)
  BY <1>2, HideFits DEF FitRows
<1> QED
  BY <1>1, <1>3, WithoutTyped DEF ViewFits

(* A row of the agent's view ends in the view.                             *)
LEMMA RowEndIs ==
  ASSUME NEW v \in Views, NEW k \in DOMAIN v
  PROVE  RowEnd(v, k) \in DOMAIN v /\ k \in Nat
BY DEF RowEnd, Views

(* A request names what the view shows.                                    *)
LEMMA RequestFits ==
  ASSUME NEW v \in Views, NEW in \in Requests(v)
  PROVE  /\ buildCompaction(v, in) \in Compactions
         /\ buildCompaction(v, in).hiddenSeqs = {} /\ buildCompaction(v, in).hiddenIDs = {}
<1>1. v \in Seq(ViewItems) /\ \A k \in DOMAIN v : v[k] \in ViewItems /\ k \in Nat
  BY DEF Views
<1>1a. \A k \in DOMAIN v : v[k].from \in Nat /\ v[k].to \in Nat /\ v[k].results \in SUBSET Ids
  BY <1>1 DEF ViewItems
<1>2. in.trim \subseteq DOMAIN v
  BY DEF Requests, RowStarts
<1>3. ASSUME NEW k \in in.trim PROVE rowTrims(v, k) \subseteq Nat \X Ids
  <2>1. k \in DOMAIN v
    BY <1>2
  <2>2. RowEnd(v, k) \in DOMAIN v
    BY <2>1, RowEndIs
  <2>3. ASSUME NEW m \in k..RowEnd(v, k) PROVE m \in DOMAIN v
    BY <1>1, <2>1, <2>2
  <2>4. ASSUME NEW t \in rowTrims(v, k) PROVE t \in Nat \X Ids
    <3>1. PICK m \in k..RowEnd(v, k) : t \in {<<v[m].from, id>> : id \in v[m].results \ v[m].cut}
      BY DEF rowTrims
    <3>2. m \in DOMAIN v
      BY <2>3
    <3> QED
      BY <1>1a, <3>1, <3>2
  <2> QED
    BY <2>4
<1> DEFINE trims == UNION {rowTrims(v, k) : k \in in.trim}
           squish(n) == <<v[in.collapse[n][1]].from, v[RowEnd(v, in.collapse[n][2])].to>>
           squishes == [n \in DOMAIN in.collapse |-> squish(n)]
<1>4. trims \in SUBSET (Nat \X Ids)
  BY <1>3
<1>5. PICK n \in 0..MaxRanges : in.collapse \in [1..n -> Collapsible(v)]
  BY DEF Requests
<1>6. ASSUME NEW k \in 1..n PROVE squish(k) \in Nat \X Nat
  <2>1. in.collapse[k] \in Collapsible(v)
    BY <1>5
  <2>2. in.collapse[k][1] \in DOMAIN v /\ in.collapse[k][2] \in DOMAIN v
    BY <2>1 DEF Collapsible, RowStarts
  <2>3. RowEnd(v, in.collapse[k][2]) \in DOMAIN v
    BY <2>2, RowEndIs
  <2> QED
    BY <1>1a, <2>2, <2>3
<1> HIDE DEF squish
<1>7. squishes \in Seq(Nat \X Nat)
  <2>1. DOMAIN in.collapse = 1..n /\ n \in Nat
    BY <1>5, CompactionAssumption
  <2>2. squishes = [k \in 1..n |-> squish(k)]
    BY <2>1
  <2> QED
    BY <1>6, <2>1, <2>2
<1>8. buildCompaction(v, in) = [trims |-> trims, squishes |-> squishes, hiddenSeqs |-> {}, hiddenIDs |-> {}]
  BY DEF buildCompaction, squish
<1> HIDE DEF trims, squishes
<1> QED
  BY <1>4, <1>7, <1>8 DEF Compactions

(* With evidence of its own context it fits the rows.                      *)
LEMMA CompactionFits ==
  ASSUME NEW rs, FitRows(rs), NEW items, ViewFits(items, rs), NEW v \in compactionView(items),
         NEW in \in Requests(v), NEW c \in WithEvidence(items, buildCompaction(v, in))
  PROVE  RecordFits(c, rs)
<1> DEFINE b == buildCompaction(v, in)
<1>1. b \in Compactions /\ b.hiddenSeqs = {} /\ b.hiddenIDs = {}
  BY AgentViews, RequestFits
<1> HIDE DEF b
<1>2. PICK after \in applyInPlaceCompaction(items, b) :
        c = LET e == compactionEvidence(after)
            IN  [b EXCEPT !.hiddenSeqs = e.seqs, !.hiddenIDs = e.ids]
  BY Zenon DEF WithEvidence, b
<1>3. RecordFits(b, rs)
  BY <1>1 DEF RecordFits, MayHide
<1>4. ViewFits(after, rs)
  BY <1>3, ApplyFits DEF FitRows
<1> DEFINE e == compactionEvidence(after)
<1>5. e.seqs \in SUBSET Nat /\ e.ids \in SUBSET Ids /\ MayHide(rs, e.seqs, e.ids)
  BY <1>4, EvidenceFits
<1>6. c = [b EXCEPT !.hiddenSeqs = e.seqs, !.hiddenIDs = e.ids]
  BY <1>2
<1> HIDE DEF e
<1>7. c \in Compactions /\ c.hiddenSeqs = e.seqs /\ c.hiddenIDs = e.ids
  BY <1>1, <1>5, <1>6 DEF Compactions
<1> QED
  BY <1>5, <1>7 DEF RecordFits

(* So does the debugger's collapse.                                        *)
LEMMA DebugFits ==
  ASSUME NEW rs, NEW items, ViewFits(items, rs), NEW i \in DOMAIN items, NEW j \in DOMAIN items
  PROVE  RecordFits([trims |-> {}, squishes |-> <<<<items[i].from, items[j].to>>>>,
                     hiddenSeqs |-> {}, hiddenIDs |-> {}], rs)
<1>1. items[i].from \in Nat /\ items[j].to \in Nat
  <2>1. items[i] \in ViewItems /\ items[j] \in ViewItems
    BY DEF ViewFits, Views
  <2> QED
    BY <2>1 DEF ViewItems
<1>2. <<<<items[i].from, items[j].to>>>> \in Seq(Nat \X Nat)
  BY <1>1
<1> QED
  BY <1>2 DEF RecordFits, Compactions, MayHide

-----------------------------------------------------------------------------
(* Rows that join the transcript and a loop's history together.            *)

Grown(history, rs, new) ==
  {h \o [k \in DOMAIN new |-> contextItem(Len(rs) + k, new[k])] : h \in history}

(* Extend, on the rows that there are.                                     *)
LEMMA ExtendIs ==
  ASSUME NEW history, NEW new, Extend(history, new)
  PROVE  rows' = rows \o new /\ live' = Grown(history, rows, new)
BY DEF Extend, Grown

(* One sequence is another with one element more.                          *)
LEMMA JoinAppend ==
  ASSUME NEW S, NEW p \in Seq(S), NEW q \in Seq(S), NEW x \in S
  PROVE  p \o Append(q, x) = Append(p \o q, x)
<1> DEFINE a == Append(q, x)
           b == p \o q
           c == p \o a
           d == Append(b, x)
<1>1. /\ a \in Seq(S) /\ Len(a) = Len(q) + 1 /\ a[Len(q) + 1] = x
      /\ \A k \in 1..Len(q) : a[k] = q[k]
  OBVIOUS
<1>2. b \in Seq(S) /\ IsJoin(b, p, q)
  BY JoinIs
<1> HIDE DEF a, b
<1>3. c \in Seq(S) /\ IsJoin(c, p, a)
  BY <1>1, JoinIs
<1>4. /\ d \in Seq(S) /\ Len(d) = Len(b) + 1 /\ d[Len(b) + 1] = x
      /\ \A k \in 1..Len(b) : d[k] = b[k]
  BY <1>2
<1> HIDE DEF c, d
<1>5. Len(p) \in Nat /\ Len(q) \in Nat
  OBVIOUS
<1>6. Len(c) = Len(p) + (Len(q) + 1) /\ Len(d) = Len(p) + (Len(q) + 1)
  BY <1>1, <1>2, <1>3, <1>4, <1>5 DEF IsJoin
<1>7. ASSUME NEW k \in 1..(Len(p) + (Len(q) + 1)) PROVE c[k] = d[k]
  <2>1. CASE k \in 1..Len(p)
    <3>1. c[k] = p[k]
      BY <1>3, <2>1 DEF IsJoin
    <3>2. b[k] = p[k] /\ k \in 1..Len(b)
      BY <1>2, <1>5, <2>1 DEF IsJoin
    <3> QED
      BY <1>4, <3>1, <3>2
  <2>2. CASE k \notin 1..Len(p)
    <3> DEFINE m == k - Len(p)
    <3>1. m \in 1..(Len(q) + 1) /\ k = Len(p) + m
      BY <1>5, <2>2
    <3> HIDE DEF m
    <3>2. c[k] = a[m]
      BY <1>1, <1>3, <3>1 DEF IsJoin
    <3>3. CASE m = Len(q) + 1
      <4>1. k = Len(b) + 1
        BY <1>2, <1>5, <3>1, <3>3 DEF IsJoin
      <4> QED
        BY <1>1, <1>4, <3>2, <3>3, <4>1
    <3>4. CASE m # Len(q) + 1
      <4>1. m \in 1..Len(q)
        BY <1>5, <3>1, <3>4
      <4>2. b[k] = q[m] /\ k \in 1..Len(b)
        BY <1>2, <1>5, <3>1, <4>1 DEF IsJoin
      <4> QED
        BY <1>1, <1>4, <3>2, <4>1, <4>2
    <3> QED
      BY <3>3, <3>4
  <2> QED
    BY <2>1, <2>2
<1> DEFINE n == Len(p) + (Len(q) + 1)
<1>8. Len(c) = n /\ Len(d) = n /\ \A k \in 1..n : c[k] = d[k]
  BY <1>6, <1>7
<1> HIDE DEF n
<1>9. c = d
  <2>1. c \in [1..n -> S] /\ d \in [1..n -> S]
    BY <1>3, <1>4, <1>8
  <2>2. c = [k \in 1..n |-> c[k]] /\ d = [k \in 1..n |-> d[k]]
    BY <2>1
  <2> QED
    BY <1>8, <2>2
<1> QED
  BY <1>9 DEF a, b, c, d

(* Rows p and then r.                                                      *)
GrowsBy(history, rs, p, r) ==
  /\ rs \o Append(p, r) = Append(rs \o p, r)
  /\ Grown(history, rs, Append(p, r)) =
       {Append(h, contextItem(Len(rs \o p) + 1, r)) : h \in Grown(history, rs, p)}

(* One row more.                                                           *)
LEMMA GrownMore ==
  ASSUME NEW rs \in Seq(Rows), NEW history \in SUBSET Views, NEW p \in Seq(PlainRows),
         NEW r \in PlainRows
  PROVE  Append(p, r) \in Seq(PlainRows) /\ rs \o p \in Seq(Rows) /\ GrowsBy(history, rs, p, r)
<1> DEFINE Items(new) == [k \in DOMAIN new |-> contextItem(Len(rs) + k, new[k])]
           x == contextItem(Len(rs \o p) + 1, r)
<1>1. p \in Seq(Rows) /\ r \in Rows
  <2>1. PlainRows \subseteq Rows
    BY DEF Rows
  <2> QED
    BY <2>1
<1>2. rs \o Append(p, r) = Append(rs \o p, r)
  BY <1>1, JoinAppend
<1>3. rs \o p \in Seq(Rows) /\ Len(rs \o p) = Len(rs) + Len(p)
  BY <1>1, JoinIs DEF IsJoin
<1>4. Len(p) \in Nat /\ Len(rs) \in Nat /\ DOMAIN p = 1..Len(p)
  OBVIOUS
<1>5. ASSUME NEW k \in Nat, NEW row \in PlainRows PROVE contextItem(k, row) \in ViewItems
  <2>1. row.type \in RowTypes /\ row.uses \in SUBSET Ids /\ row.results \in SUBSET Ids
    BY DEF PlainRows
  <2> QED
    BY <2>1 DEF contextItem, ViewItems
<1>6. x \in ViewItems
  BY <1>3, <1>4, <1>5
<1>7. Items(p) \in Seq(ViewItems) /\ Len(Items(p)) = Len(p)
  <2>1. ASSUME NEW k \in 1..Len(p) PROVE contextItem(Len(rs) + k, p[k]) \in ViewItems
    <3>1. Len(rs) + k \in Nat /\ p[k] \in PlainRows
      BY <1>4
    <3> QED
      BY <1>5, <3>1
  <2> QED
    BY <1>4, <2>1
<1>8. Items(Append(p, r)) = Append(Items(p), x)
  <2> DEFINE a == Append(p, r)
             b == Append(Items(p), x)
             n == Len(p) + 1
  <2>1. a \in Seq(PlainRows) /\ DOMAIN a = 1..n /\ a[n] = r /\ \A k \in 1..Len(p) : a[k] = p[k]
    BY <1>4
  <2>2. \A k \in 1..Len(p) : Items(p)[k] = contextItem(Len(rs) + k, p[k])
    BY <1>4
  <2> HIDE DEF Items
  <2>3. b \in Seq(ViewItems) /\ DOMAIN b = 1..n /\ b[n] = x /\ \A k \in 1..Len(p) : b[k] = Items(p)[k]
    BY <1>4, <1>6, <1>7
  <2>4. Items(a) = [k \in 1..n |-> contextItem(Len(rs) + k, a[k])]
    BY <2>1 DEF Items
  <2>5. b = [k \in 1..n |-> b[k]]
    BY <2>3
  <2>6. x = contextItem(Len(rs) + n, r)
    <3>1. Len(rs \o p) + 1 = Len(rs) + n
      BY <1>3, <1>4
    <3> QED
      BY <3>1
  <2> HIDE DEF a, b, x
  <2>7. ASSUME NEW k \in 1..n PROVE b[k] = contextItem(Len(rs) + k, a[k])
    <3>1. CASE k = n
      BY <2>1, <2>3, <2>6, <3>1
    <3>2. CASE k # n
      <4>1. k \in 1..Len(p)
        BY <1>4, <3>2
      <4> QED
        BY <2>1, <2>2, <2>3, <4>1
    <3> QED
      BY <3>1, <3>2
  <2> HIDE DEF n
  <2>8. Items(a) = b
    BY <2>4, <2>5, <2>7
  <2> QED
    BY <2>8 DEF a, b
<1> HIDE DEF x
<1>9. ASSUME NEW h \in history PROVE h \o Items(Append(p, r)) = Append(h \o Items(p), x)
  <2>1. h \in Seq(ViewItems)
    BY DEF Views
  <2> HIDE DEF Items
  <2> QED
    BY <1>6, <1>7, <1>8, <2>1, JoinAppend
<1>10. Grown(history, rs, Append(p, r)) = {Append(h, x) : h \in Grown(history, rs, p)}
  <2>1. Grown(history, rs, Append(p, r)) = {h \o Items(Append(p, r)) : h \in history}
    BY DEF Grown
  <2>2. Grown(history, rs, p) = {h \o Items(p) : h \in history}
    BY DEF Grown
  <2> HIDE DEF Items
  <2> QED
    BY <1>9, <2>1, <2>2
<1>11. Append(p, r) \in Seq(PlainRows)
  OBVIOUS
<1> QED
  BY <1>2, <1>3, <1>10, <1>11 DEF x, GrowsBy

(* One row.                                                                *)
LEMMA GrownOne ==
  ASSUME NEW rs \in Seq(Rows), NEW history \in SUBSET Views, NEW r \in PlainRows
  PROVE  /\ rs \o <<r>> = Append(rs, r)
         /\ Grown(history, rs, <<r>>) =
              {Append(h, contextItem(Len(rs) + 1, r)) : h \in history}
<1>1. <<>> \in Seq(PlainRows) /\ Append(<<>>, r) = <<r>> /\ rs \o <<>> = rs
  OBVIOUS
<1>2. Grown(history, rs, <<>>) = history
  <2> DEFINE z == [k \in DOMAIN <<>> |-> contextItem(Len(rs) + k, <<>>[k])]
  <2>1. z = <<>>
    OBVIOUS
  <2> HIDE DEF z
  <2>2. ASSUME NEW h \in history PROVE h \o z = h
    <3>1. h \in Seq(ViewItems)
      BY DEF Views
    <3> QED
      BY <2>1, <3>1
  <2>3. Grown(history, rs, <<>>) = {h \o z : h \in history}
    BY DEF Grown, z
  <2> QED
    BY <2>2, <2>3
<1>3. /\ rs \o Append(<<>>, r) = Append(rs \o <<>>, r)
      /\ Grown(history, rs, Append(<<>>, r)) =
           {Append(h, contextItem(Len(rs \o <<>>) + 1, r)) : h \in Grown(history, rs, <<>>)}
  <2>1. GrowsBy(history, rs, <<>>, r)
    BY <1>1, GrownMore
  <2> QED
    BY <2>1, Zenon DEF GrowsBy
<1> QED
  BY <1>1, <1>2, <1>3

(* Rows that open nothing.                                                 *)
Plain(new) == new \in Seq(PlainRows) /\ \A k \in 1..Len(new) : new[k].uses = {} /\ new[k].results = {}

(* While nothing is open, they may join in any number.                     *)
LEMMA GoodExtends ==
  ASSUME NEW rs, Good(rs), OpenCalls(rs) = {}, NEW new, Plain(new)
  PROVE  /\ Good(rs \o new) /\ OpenCalls(rs \o new) = {}
         /\ compactedContext(rs \o new) = Grown(compactedContext(rs), rs, new)
<1> DEFINE H == compactedContext(rs)
           part(n) == SubSeq(new, 1, n)
           Done(p) == /\ p \in Seq(PlainRows)
                      /\ Good(rs \o p) /\ OpenCalls(rs \o p) = {}
                      /\ compactedContext(rs \o p) = Grown(H, rs, p)
           P == {n \in Nat : n <= Len(new) => Done(part(n))}
<1>1. rs \in Seq(Rows) /\ H \in SUBSET Views
  BY DEF Good, FitRows, ViewFits
<1>2. new \in Seq(PlainRows) /\ Len(new) \in Nat
  BY DEF Plain
<1>3. 0 \in P
  <2>1. part(0) = <<>>
    BY <1>2
  <2>2. <<>> \in Seq(PlainRows) /\ rs \o <<>> = rs
    BY <1>1
  <2>3. Grown(H, rs, <<>>) = H
    <3> DEFINE z == [k \in DOMAIN <<>> |-> contextItem(Len(rs) + k, <<>>[k])]
    <3>1. z = <<>>
      OBVIOUS
    <3> HIDE DEF z, H
    <3>2. ASSUME NEW h \in H PROVE h \o z = h
      <4>1. h \in Seq(ViewItems)
        BY <1>1 DEF Views
      <4> QED
        BY <3>1, <4>1
    <3>3. Grown(H, rs, <<>>) = {h \o z : h \in H}
      BY DEF Grown, z
    <3> QED
      BY <3>2, <3>3
  <2>4. Done(<<>>)
    BY <2>2, <2>3
  <2> HIDE DEF Done
  <2> QED
    BY <2>1, <2>4
<1>4. ASSUME NEW n \in Nat, n \in P PROVE n + 1 \in P
  <2>1. SUFFICES ASSUME n + 1 <= Len(new) PROVE Done(part(n + 1))
    OBVIOUS
  <2> DEFINE p == part(n)
             r == new[n + 1]
  <2>2. Done(p)
    BY <1>2, <1>4, <2>1
  <2>3. part(n + 1) = Append(p, r)
    BY <1>2, <2>1
  <2>4. r \in PlainRows /\ r.uses = {} /\ r.results = {}
    <3>1. n + 1 \in 1..Len(new)
      BY <1>2, <2>1
    <3> QED
      BY <1>2, <3>1 DEF Plain
  <2> HIDE DEF part, p, r, H
  <2>5. /\ p \in Seq(PlainRows) /\ Good(rs \o p) /\ OpenCalls(rs \o p) = {}
        /\ compactedContext(rs \o p) = Grown(H, rs, p)
    BY <2>2
  <2>6. Answering(r, rs \o p)
    BY <2>4, <2>5 DEF Answering
  <2>7. /\ Good(Append(rs \o p, r)) /\ OpenCalls(Append(rs \o p, r)) = r.uses
        /\ compactedContext(Append(rs \o p, r)) =
             {Append(h, contextItem(Len(rs \o p) + 1, r)) : h \in compactedContext(rs \o p)}
    BY <2>5, <2>6, GoodGrows
  <2>7a. Append(p, r) \in Seq(PlainRows) /\ GrowsBy(H, rs, p, r)
    BY <1>1, <2>4, <2>5, GrownMore
  <2>8. /\ Append(p, r) \in Seq(PlainRows) /\ rs \o Append(p, r) = Append(rs \o p, r)
        /\ Grown(H, rs, Append(p, r)) =
             {Append(h, contextItem(Len(rs \o p) + 1, r)) : h \in Grown(H, rs, p)}
    BY <2>7a, Zenon DEF GrowsBy
  <2>9. Done(Append(p, r))
    BY <2>4, <2>5, <2>7, <2>8
  <2> QED
    BY <2>3, <2>9
<1>5. Len(new) \in P
  <2> HIDE DEF P
  <2> QED
    BY <1>2, <1>3, <1>4, NatInductionOver
<1>6. part(Len(new)) = new
  BY <1>2
<1>7. Done(new)
  <2> HIDE DEF Done, part
  <2> QED
    BY <1>2, <1>5, <1>6
<1> QED
  BY <1>7

-----------------------------------------------------------------------------
(* The turn, its lock and the idle timer.                                  *)

ControlTypes ==
  /\ turn \in {"rest", "ask", "wait", "tools", "stopped"}
  /\ lock \in {"free", "claimed", "started"}
  /\ timer \subseteq {"armed", "fired", "stale"}
  /\ queue \in Nat /\ gen \in Nat /\ compactedGen \in Nat
  /\ endsTurn \in BOOLEAN /\ working \in BOOLEAN /\ tearing \in BOOLEAN
  /\ idleCompacting \in BOOLEAN /\ joined \in BOOLEAN /\ activity \in BOOLEAN

(* Who may be at work.                                                     *)
TurnInv ==
  /\ turn # "tools" => todo = {} /\ ~endsTurn
  /\ turn # "rest" => working \/ tearing
  /\ turn = "stopped" => tearing
  /\ tearing => turn \in {"tools", "stopped"}

(* A turn that took a message is not the idle one.                         *)
JoinedInv ==
  /\ joined => ~idleCompacting /\ ~endsTurn
  /\ lock = "started" => ~joined /\ working /\ (~idleCompacting => activity)

(* While an idle compaction is being started nothing else goes on, and the *)
(* timer that can start one was armed after somebody used the conversation. *)
TimerInv ==
  /\ lock # "free" => turn = "rest" /\ timer \subseteq {"stale"} /\ queue = 0 /\ ~tearing
  /\ ~({"armed", "fired"} \subseteq timer)
  /\ queue > 0 => activity
  /\ timer \cap {"armed", "fired"} # {} => activity
  /\ turn # "rest" /\ ~idleCompacting => activity
  /\ lock = "claimed" => activity

IdleInv == ControlTypes /\ TurnInv /\ JoinedInv /\ TimerInv

(* A request stops the timer and the mark of the idle turn.                *)
LEMMA CancelsTimer ==
  ASSUME cancelIdleCompaction, timer \subseteq {"armed", "fired", "stale"}
  PROVE  ~idleCompacting' /\ timer' \subseteq {"stale"} /\ idleCompacting' \in BOOLEAN
BY DEF cancelIdleCompaction

(* The end of a turn leaves the mark or arms the timer.                    *)
LEMMA Schedules ==
  ASSUME scheduleIdleWork, idleCompacting \in BOOLEAN, timer \subseteq {"armed", "fired", "stale"}
  PROVE  /\ ~idleCompacting' /\ idleCompacting' \in BOOLEAN
         /\ timer' \subseteq {"armed", "fired", "stale"}
         /\ idleCompacting => timer' = timer
         /\ ~idleCompacting => timer' \subseteq {"armed", "stale"}
<1>1. CASE idleCompacting /\ idleCompacting' = FALSE /\ UNCHANGED <<idleCompactedAt, timer>>
  BY <1>1
<1>2. CASE /\ ~idleCompacting
           /\ timer' = {"armed"} \cup (IF timer \cap {"fired", "stale"} = {} THEN {} ELSE {"stale"})
           /\ UNCHANGED <<idleCompacting, idleCompactedAt>>
  <2>1. timer' \subseteq {"armed", "stale"}
    BY <1>2
  <2>2. QED
    BY <1>2, <2>1
<1>3. QED
  BY <1>1, <1>2 DEF scheduleIdleWork

(* A user message starts a turn.                                           *)
LEMMA StartsTurn ==
  ASSUME IdleInv, StartTurn
  PROVE  /\ turn' = "ask" /\ working' = TRUE /\ joined' = TRUE /\ ~idleCompacting' /\ idleCompacting' \in BOOLEAN
         /\ timer' \subseteq {"stale"} /\ gen' \in Nat /\ todo' = todo /\ endsTurn' = endsTurn
         /\ compactedGen' = compactedGen /\ tearing' = tearing /\ lock' = lock
<1>1. timer' \subseteq {"stale"} /\ ~idleCompacting' /\ idleCompacting' \in BOOLEAN
  BY CancelsTimer DEF StartTurn, IdleInv, ControlTypes
<1>2. gen' \in Nat
  BY DEF StartTurn, BuildsLoop, IdleInv, ControlTypes
<1>3. QED
  BY <1>1, <1>2 DEF StartTurn, openBatch

(* A request arrives.                                                      *)
LEMMA ArriveControl ==
  ASSUME IdleInv, NEW what \in {"send", "stop", "debug"}, Arrive(what)
  PROVE  IdleInv'
BY DEF IdleInv, ControlTypes, TurnInv, JoinedInv, TimerInv, Arrive, cancelIdleCompaction,
   manager, openBatch

(* A user message is taken or queued.                                      *)
LEMMA AcceptControl ==
  ASSUME IdleInv, AcceptUserMessage
  PROVE  IdleInv'
<1>1. lock = "free" /\ tearing = FALSE /\ activity' = TRUE
  BY DEF AcceptUserMessage, Free, IdleInv, ControlTypes
<1>2. CASE ~working /\ StartTurn /\ UNCHANGED queue
  <2>1. turn = "rest"
    BY <1>1, <1>2 DEF IdleInv, TurnInv
  <2>2. todo = {} /\ endsTurn = FALSE
    BY <2>1 DEF IdleInv, TurnInv, ControlTypes
  <2>3. QED
    BY <1>1, <1>2, <2>1, <2>2, StartsTurn DEF IdleInv, ControlTypes, TurnInv, JoinedInv,
       TimerInv
<1>3. CASE working /\ queue' = queue + 1
           /\ UNCHANGED <<rows, turn, openBatch, manager, working, idle, lock, joined>>
  BY <1>1, <1>3 DEF IdleInv, ControlTypes, TurnInv, JoinedInv, TimerInv, manager, openBatch,
     idle
<1>4. QED
  BY <1>2, <1>3 DEF AcceptUserMessage

(* The turn is stopped.                                                    *)
LEMMA CancelControl ==
  ASSUME IdleInv, turn # "rest" => live # {}, CancelConversation
  PROVE  IdleInv'
<1>1. /\ lock = "free" /\ tearing = FALSE /\ activity' = TRUE /\ queue' = 0 /\ lock' = lock
      /\ todo' = todo /\ endsTurn' = endsTurn /\ compactedGen' = compactedGen /\ joined' = joined
      /\ idleCompacting' = idleCompacting /\ timer' = timer
  BY DEF CancelConversation, Free, IdleInv, ControlTypes, openBatch, idle
<1>2. CASE live = {} /\ working' = FALSE /\ UNCHANGED <<turn, gen, tearing>>
  <2>1. turn = "rest"
    BY <1>2
  <2>2. todo = {} /\ endsTurn = FALSE
    BY <2>1 DEF IdleInv, TurnInv, ControlTypes
  <2>3. QED
  BY <1>1, <1>2, <2>1, <2>2 DEF IdleInv, ControlTypes, TurnInv, JoinedInv, TimerInv
<1>3. CASE tearing' = TRUE /\ gen' = gen + 1 /\ turn' = (IF turn = "tools" THEN turn ELSE "stopped")
           /\ UNCHANGED working
  BY <1>1, <1>3 DEF IdleInv, ControlTypes, TurnInv, JoinedInv, TimerInv
<1>4. QED
  BY <1>2, <1>3 DEF CancelConversation

(* The stopped turn gets its end row.                                      *)
LEMMA TeardownControl ==
  ASSUME IdleInv, TeardownRecords
  PROVE  IdleInv'
BY DEF IdleInv, ControlTypes, TurnInv, JoinedInv, TimerInv, TeardownRecords, manager,
   openBatch, idle, Free

(* A compaction recorded from the debugger.                                *)
LEMMA DebugControl ==
  ASSUME IdleInv, RecordInPlaceCompaction
  PROVE  IdleInv'
BY DEF IdleInv, ControlTypes, TurnInv, JoinedInv, TimerInv, RecordInPlaceCompaction, manager,
   openBatch, idle, Free

(* The queue of an idle conversation.                                      *)
LEMMA DrainControl ==
  ASSUME IdleInv, DrainPendingMessages
  PROVE  IdleInv'
<1>1. /\ lock = "free" /\ tearing = FALSE /\ working = FALSE /\ activity' = TRUE /\ queue' = queue - 1
      /\ queue > 0 /\ StartTurn
  BY DEF DrainPendingMessages, Free, IdleInv, ControlTypes, TimerInv
<1>2. turn = "rest" /\ todo = {} /\ endsTurn = FALSE
  BY <1>1 DEF IdleInv, TurnInv, ControlTypes
<1>3. queue' \in Nat
  BY <1>1 DEF IdleInv, ControlTypes
<1>4. QED
  BY <1>1, <1>2, <1>3, StartsTurn DEF IdleInv, ControlTypes, TurnInv, JoinedInv, TimerInv

(* What comes before a request.                                            *)
LEMMA TakeControl ==
  ASSUME IdleInv, NEW nudge \in BOOLEAN, takeInjectable(nudge)
  PROVE  IdleInv'
<1>1. /\ lock = "free" /\ tearing = FALSE /\ turn = "ask" /\ turn' = "wait" /\ queue' = 0 /\ lock' = lock
      /\ tearing' = tearing /\ working' = working /\ activity' = activity /\ todo' = todo
      /\ endsTurn' = endsTurn /\ gen' = gen
  BY DEF takeInjectable, Free, IdleInv, ControlTypes, openBatch
<1>2. compactedGen' \in Nat
  BY DEF takeInjectable, IdleInv, ControlTypes
<1>3. todo = {} /\ endsTurn = FALSE /\ working = TRUE
  BY <1>1 DEF IdleInv, ControlTypes, TurnInv
<1>4. CASE queue > 0
  <2>1. cancelIdleCompaction /\ joined' = TRUE
    BY <1>4 DEF takeInjectable
  <2>2. activity = TRUE
    BY <1>4 DEF IdleInv, ControlTypes, TimerInv
  <2>3. QED
    BY <1>1, <1>2, <1>3, <2>1, <2>2, CancelsTimer DEF IdleInv, ControlTypes, TurnInv,
       JoinedInv, TimerInv
<1>5. CASE ~(queue > 0)
  <2>1. UNCHANGED <<idleCompacting, timer, joined>>
    BY <1>5 DEF takeInjectable, idle
  <2>2. QED
    BY <1>1, <1>2, <1>3, <2>1 DEF IdleInv, ControlTypes, TurnInv, JoinedInv, TimerInv
<1>6. QED
  BY <1>4, <1>5

(* A response with calls.                                                  *)
LEMMA CallToolsControl ==
  ASSUME IdleInv, CallTools
  PROVE  IdleInv'
BY DEF IdleInv, ControlTypes, TurnInv, JoinedInv, TimerInv, CallTools, manager, openBatch,
   idle, Free

(* The end of a turn.                                                      *)
LEMMA EndTurnControl ==
  ASSUME IdleInv, EndTurn
  PROVE  IdleInv'
<1>1. /\ turn = "wait" /\ tearing = FALSE /\ turn' = "rest" /\ working' = FALSE /\ scheduleIdleWork
      /\ queue' = queue /\ todo' = todo /\ endsTurn' = endsTurn /\ gen' = gen /\ compactedGen' = compactedGen
      /\ tearing' = tearing /\ lock' = lock /\ joined' = joined /\ activity' = activity
  BY DEF EndTurn, openBatch, IdleInv, ControlTypes
<1>2. lock = "free" /\ todo = {} /\ endsTurn = FALSE
  BY <1>1 DEF IdleInv, ControlTypes, TurnInv, TimerInv
<1>3. timer' \cap {"armed", "fired"} # {} => activity
  BY <1>1, Schedules DEF IdleInv, ControlTypes, TimerInv
<1>3a. ~({"armed", "fired"} \subseteq timer')
  BY <1>1, Schedules DEF IdleInv, ControlTypes, TimerInv
<1>4. QED
  BY <1>1, <1>2, <1>3, <1>3a, Schedules DEF IdleInv, ControlTypes, TurnInv, JoinedInv, TimerInv

(* The agent compacts.                                                     *)
LEMMA CompactCallControl ==
  ASSUME IdleInv, CompactCall
  PROVE  IdleInv'
BY DEF IdleInv, ControlTypes, TurnInv, JoinedInv, TimerInv, CompactCall, compactMidTurn,
   manager, openBatch, idle, Free

(* The results of a batch.                                                 *)
LEMMA ResultsControl ==
  ASSUME IdleInv, RecordResults
  PROVE  IdleInv'
<1>1. /\ turn = "tools" /\ todo = {} /\ endsTurn' = FALSE
      /\ queue' = queue /\ todo' = todo /\ gen' = gen /\ compactedGen' = compactedGen
      /\ tearing' = tearing /\ lock' = lock /\ joined' = joined /\ activity' = activity
  BY DEF RecordResults
<1>2. lock = "free"
  BY <1>1 DEF IdleInv, ControlTypes, TimerInv
<1>3. CASE tearing /\ turn' = "stopped" /\ UNCHANGED <<working, idle>>
  BY <1>1, <1>2, <1>3 DEF IdleInv, ControlTypes, TurnInv, JoinedInv, TimerInv, idle
<1>4. CASE ~tearing /\ turn' = "rest" /\ working' = FALSE /\ scheduleIdleWork
  <2>3. timer' \cap {"armed", "fired"} # {} => activity
    BY <1>1, <1>4, Schedules DEF IdleInv, ControlTypes, TimerInv
  <2>4. ~({"armed", "fired"} \subseteq timer')
    BY <1>1, <1>4, Schedules DEF IdleInv, ControlTypes, TimerInv
  <2>5. QED
    BY <1>1, <1>2, <1>4, <2>3, <2>4, Schedules DEF IdleInv, ControlTypes, TurnInv, JoinedInv,
       TimerInv
<1>5. CASE ~tearing /\ turn' = "ask" /\ UNCHANGED <<working, idle>>
  BY <1>1, <1>2, <1>5 DEF IdleInv, ControlTypes, TurnInv, JoinedInv, TimerInv, idle
<1>6. QED
  BY <1>3, <1>4, <1>5 DEF RecordResults

(* A call that changes nothing.                                            *)
LEMMA CallReturnsControl ==
  ASSUME IdleInv, NEW id \in todo, CallReturns(id)
  PROVE  IdleInv'
BY DEF IdleInv, ControlTypes, TurnInv, JoinedInv, TimerInv, CallReturns, manager, openBatch,
   idle, Free

(* The timer fires.                                                        *)
LEMMA FireControl ==
  ASSUME IdleInv, Fire
  PROVE  IdleInv'
BY DEF IdleInv, ControlTypes, TurnInv, JoinedInv, TimerInv, Fire, manager, openBatch, idle, Free

(* An idle compaction is started.                                          *)
LEMMA StartIdleControl ==
  ASSUME IdleInv, StartIdle
  PROVE  IdleInv'
<1>1. /\ lock = "claimed" /\ lock' = "started" /\ working' = TRUE /\ idleCompacting' = TRUE /\ joined' = FALSE
      /\ activity' = FALSE /\ queue' = queue /\ turn' = turn /\ compactedGen' = compactedGen
      /\ tearing' = tearing /\ timer' = timer /\ todo' = todo /\ endsTurn' = endsTurn
  BY DEF StartIdle, openBatch
<1>2. gen' \in Nat
  BY DEF StartIdle, BuildsLoop, IdleInv, ControlTypes
<1>3. turn = "rest" /\ timer \subseteq {"stale"} /\ queue = 0 /\ tearing = FALSE
  BY <1>1 DEF IdleInv, ControlTypes, TimerInv
<1>4. todo = {} /\ endsTurn = FALSE
  BY <1>3 DEF IdleInv, TurnInv, ControlTypes
<1>5. ControlTypes'
  BY <1>1, <1>2 DEF IdleInv, ControlTypes
<1>6. TurnInv'
  BY <1>1, <1>3, <1>4 DEF TurnInv
<1>7. JoinedInv'
  BY <1>1 DEF JoinedInv
<1>8. TimerInv'
  BY <1>1, <1>3 DEF TimerInv
<1>9. QED
  BY <1>5, <1>6, <1>7, <1>8 DEF IdleInv

(* There is no model service.                                              *)
LEMMA UnavailableControl ==
  ASSUME IdleInv, IdleUnavailable
  PROVE  IdleInv'
BY DEF IdleInv, ControlTypes, TurnInv, JoinedInv, TimerInv, IdleUnavailable, manager,
   openBatch, idle, Free

(* The idle turn begins.                                                   *)
LEMMA NudgeControl ==
  ASSUME IdleInv, NudgeIdle
  PROVE  IdleInv'
<1>1. /\ lock = "started" /\ lock' = "free" /\ queue' = queue /\ todo' = todo /\ endsTurn' = endsTurn
      /\ gen' = gen /\ compactedGen' = compactedGen /\ tearing' = tearing /\ timer' = timer
      /\ idleCompacting' = idleCompacting /\ joined' = joined /\ activity' = activity
  BY DEF NudgeIdle, openBatch, idle
<1>2. CASE turn' = "ask" /\ UNCHANGED <<working, left>>
  BY <1>1, <1>2 DEF IdleInv, ControlTypes, TurnInv, JoinedInv, TimerInv
<1>3. CASE working' = FALSE /\ UNCHANGED <<rows, live, turn>>
  BY <1>1, <1>3 DEF IdleInv, ControlTypes, TurnInv, JoinedInv, TimerInv
<1>4. QED
  BY <1>2, <1>3 DEF NudgeIdle

(* A callback runs.                                                        *)
LEMMA CallbackControl ==
  ASSUME IdleInv, NEW callback \in {"fired", "stale"}, CallbackRuns(callback)
  PROVE  IdleInv'
<1>1. /\ callback \in timer /\ lock = "free" /\ timer' = timer \ {callback}
      /\ queue' = queue /\ turn' = turn /\ todo' = todo /\ endsTurn' = endsTurn /\ gen' = gen
      /\ compactedGen' = compactedGen /\ tearing' = tearing /\ working' = working /\ joined' = joined
      /\ activity' = activity
  BY DEF CallbackRuns, openBatch, manager
<1>2. CASE claimIdleCompaction(callback) /\ lock' = "claimed" /\ idleCompacting' = FALSE
  <2>1. callback = "fired" /\ working = FALSE /\ tearing = FALSE /\ queue = 0
    BY <1>2 DEF claimIdleCompaction, IdleInv, ControlTypes
  <2>2. activity = TRUE /\ turn = "rest" /\ timer' \subseteq {"stale"}
    BY <1>1, <2>1 DEF IdleInv, ControlTypes, TimerInv, TurnInv
  <2>3. QED
    BY <1>1, <1>2, <2>1, <2>2 DEF IdleInv, ControlTypes, TurnInv, JoinedInv, TimerInv
<1>3. CASE UNCHANGED <<lock, idleCompacting, idleCompactedAt>>
  BY <1>1, <1>3 DEF IdleInv, ControlTypes, TurnInv, JoinedInv, TimerInv
<1>4. QED
  BY <1>2, <1>3 DEF CallbackRuns

(* The process dies.                                                       *)
LEMMA RestartControl ==
  ASSUME IdleInv, Restart
  PROVE  IdleInv'
BY DEF IdleInv, ControlTypes, TurnInv, JoinedInv, TimerInv, Restart, manager, openBatch, idle,
   Free

-----------------------------------------------------------------------------
(* The transcript fits, and only the running batch has open calls.         *)
RowsInv == Good(rows) /\ (turn # "tools" => OpenCalls(rows) = {})

(* The loop's history is what a rebuild gives, unless the loop's own turn  *)
(* has recorded a compaction that it has not picked up.                    *)
LiveInv ==
  /\ compactedGen <= gen
  /\ turn # "rest" \/ lock = "started" => live # {}
  /\ ~tearing /\ live # {} => live = compactedContext(rows) \/ compactedGen = gen
  /\ turn = "wait" => live = compactedContext(rows)

ContextInv == IdleInv /\ RowsInv /\ LiveInv

(* A step that leaves the transcript and the loop alone.                   *)
LEMMA ContextStays ==
  ASSUME RowsInv, LiveInv, rows' = rows, live' = live, turn' = turn, gen' = gen,
         compactedGen' = compactedGen, tearing' = tearing, lock' = "started" => lock = "started"
  PROVE  RowsInv' /\ LiveInv'
BY DEF RowsInv, LiveInv

(* One row joins the transcript and a history.                             *)
LEMMA OneJoins ==
  ASSUME Good(rows), NEW r, Answering(r, rows), NEW history, Extend(history, <<r>>)
  PROVE  /\ Good(rows') /\ OpenCalls(rows') = r.uses
         /\ history # {} => live' # {}
         /\ history = compactedContext(rows) => live' = compactedContext(rows')
<1>1. rows \in Seq(Rows) /\ compactedContext(rows) \in SUBSET Views
  BY DEF Good, FitRows, ViewFits
<1>2. rows' = rows \o <<r>> /\ live' = Grown(history, rows, <<r>>)
  BY ExtendIs
<1>3. r \in PlainRows
  BY DEF Answering
<1>4. rows' = Append(rows, r)
  BY <1>1, <1>2, <1>3, GrownOne
<1>5. /\ Good(rows') /\ OpenCalls(rows') = r.uses
      /\ compactedContext(rows') = {Append(h, contextItem(Len(rows) + 1, r)) : h \in compactedContext(rows)}
  BY <1>4, GoodGrows
<1>6. ASSUME history = compactedContext(rows) PROVE live' = compactedContext(rows')
  BY <1>1, <1>2, <1>3, <1>5, <1>6, GrownOne
<1>7. history # {} => live' # {}
  BY <1>2 DEF Grown
<1> QED
  BY <1>5, <1>6, <1>7

(* A row without calls answers nothing when nothing is open.               *)
LEMMA PlainAnswers ==
  ASSUME NEW type \in RowTypes, OpenCalls(rows) = {}
  PROVE  Answering(Row(type, {}, {}), rows) /\ Row(type, {}, {}).uses = {}
BY DEF Answering, Row, PlainRows

(* A user message starts a turn on the rows that there are.                *)
LEMMA StartContext ==
  ASSUME ContextInv, StartTurn, turn = "rest", tearing = FALSE
  PROVE  RowsInv' /\ LiveInv'
<1>1. Good(rows) /\ OpenCalls(rows) = {}
  BY DEF ContextInv, RowsInv
<1>2. Answering(UserRow, rows) /\ UserRow.uses = {}
  BY <1>1, PlainAnswers DEF UserRow, RowTypes
<1>3. /\ Extend(ensureLoop, <<UserRow>>) /\ BuildsLoop /\ turn' = "ask"
      /\ compactedGen' = compactedGen /\ tearing' = tearing /\ lock' = lock
  BY DEF StartTurn
<1>4. /\ Good(rows') /\ OpenCalls(rows') = {}
      /\ ensureLoop # {} => live' # {}
      /\ ensureLoop = compactedContext(rows) => live' = compactedContext(rows')
  BY <1>1, <1>2, <1>3, OneJoins
<1>5. gen \in Nat /\ compactedGen \in Nat /\ compactedGen <= gen
  BY DEF ContextInv, IdleInv, ControlTypes, LiveInv
<1>6. CASE live = {}
  <2>1. ensureLoop = compactedContext(rows) /\ compactedContext(rows) # {} /\ gen' = gen + 1
    BY <1>1, <1>3, <1>6 DEF ensureLoop, BuildsLoop, Good
  <2> QED
    BY <1>3, <1>4, <1>5, <2>1 DEF RowsInv, LiveInv
<1>7. CASE live # {}
  <2>1. ensureLoop = live /\ gen' = gen
    BY <1>3, <1>7 DEF ensureLoop, BuildsLoop
  <2>2. live = compactedContext(rows) \/ compactedGen = gen
    BY <1>7 DEF ContextInv, LiveInv
  <2> QED
    BY <1>3, <1>4, <1>5, <1>7, <2>1, <2>2 DEF RowsInv, LiveInv
<1> QED
  BY <1>6, <1>7

(* A user message is taken or queued.                                      *)
LEMMA AcceptContext ==
  ASSUME ContextInv, AcceptUserMessage
  PROVE  RowsInv' /\ LiveInv'
<1>1. CASE ~working /\ StartTurn /\ UNCHANGED queue
  <2>1. turn = "rest" /\ tearing = FALSE
    BY <1>1 DEF AcceptUserMessage, Free, ContextInv, IdleInv, TurnInv, ControlTypes
  <2> QED
    BY <1>1, <2>1, StartContext
<1>2. CASE UNCHANGED <<rows, turn, openBatch, manager, working, idle, lock, joined>>
  BY <1>2, ContextStays DEF ContextInv, manager
<1> QED
  BY <1>1, <1>2 DEF AcceptUserMessage

(* The turn is stopped.                                                    *)
LEMMA CancelContext ==
  ASSUME ContextInv, CancelConversation
  PROVE  RowsInv' /\ LiveInv'
<1>1. rows' = rows /\ live' = live /\ compactedGen' = compactedGen /\ lock' = "free"
  BY DEF CancelConversation, Free
<1>2. CASE live = {} /\ UNCHANGED <<turn, gen, tearing>>
  BY <1>1, <1>2, ContextStays DEF ContextInv
<1>3. CASE live # {} /\ tearing' = TRUE /\ gen' = gen + 1 /\ turn' = (IF turn = "tools" THEN turn ELSE "stopped")
  <2>1. compactedGen \in Nat /\ gen \in Nat
    BY DEF ContextInv, IdleInv, ControlTypes
  <2>2. compactedGen' <= gen'
    BY <1>1, <1>3, <2>1 DEF ContextInv, LiveInv
  <2> QED
    BY <1>1, <1>3, <2>2 DEF ContextInv, RowsInv, LiveInv
<1> QED
  BY <1>2, <1>3 DEF CancelConversation

(* The stopped turn gets its end row.                                      *)
LEMMA TeardownContext ==
  ASSUME ContextInv, TeardownRecords
  PROVE  RowsInv' /\ LiveInv'
<1>1. /\ turn = "stopped" /\ rows' = Append(rows, Row("agent", {}, {})) /\ live' = {}
      /\ turn' = "rest" /\ tearing' = FALSE /\ lock' = "free" /\ gen' = gen /\ compactedGen' = compactedGen
  BY DEF TeardownRecords
<1>2. Good(rows) /\ OpenCalls(rows) = {}
  BY <1>1 DEF ContextInv, RowsInv
<1>3. Answering(Row("agent", {}, {}), rows) /\ Row("agent", {}, {}).uses = {}
  BY <1>2, PlainAnswers DEF RowTypes
<1>4. Good(rows') /\ OpenCalls(rows') = {}
  BY <1>1, <1>2, <1>3, GoodGrows
<1> QED
  BY <1>1, <1>4 DEF ContextInv, RowsInv, LiveInv

(* A compaction recorded from the debugger.                                *)
LEMMA DebugContext ==
  ASSUME ContextInv, RecordInPlaceCompaction
  PROVE  RowsInv' /\ LiveInv'
<1>1. turn' = turn /\ compactedGen' = compactedGen /\ tearing' = tearing /\ lock' = "free"
  BY DEF RecordInPlaceCompaction, Free
<1>2. CASE UNCHANGED <<rows, live, gen>>
  BY <1>1, <1>2, ContextStays DEF ContextInv
<1>3. ASSUME ~working,
             \E items \in compactedContext(rows) : \E i, j \in DOMAIN items :
               LET c == [trims |-> {}, squishes |-> <<<<items[i].from, items[j].to>>>>,
                         hiddenSeqs |-> {}, hiddenIDs |-> {}]
               IN  /\ applyInPlaceCompaction(items, c) # {}
                   /\ rows' = Append(rows, RecordRow(c)),
             live' = {}, gen' = IF live = {} THEN gen ELSE gen + 1
      PROVE  RowsInv' /\ LiveInv'
  <2>0. PICK items \in compactedContext(rows) : \E i, j \in DOMAIN items :
          LET c == [trims |-> {}, squishes |-> <<<<items[i].from, items[j].to>>>>,
                    hiddenSeqs |-> {}, hiddenIDs |-> {}]
          IN  /\ applyInPlaceCompaction(items, c) # {}
              /\ rows' = Append(rows, RecordRow(c))
    BY <1>3
  <2>1. PICK i \in DOMAIN items, j \in DOMAIN items :
          LET c == [trims |-> {}, squishes |-> <<<<items[i].from, items[j].to>>>>,
                    hiddenSeqs |-> {}, hiddenIDs |-> {}]
          IN  /\ applyInPlaceCompaction(items, c) # {}
              /\ rows' = Append(rows, RecordRow(c))
    BY <2>0
  <2> DEFINE c == [trims |-> {}, squishes |-> <<<<items[i].from, items[j].to>>>>,
                   hiddenSeqs |-> {}, hiddenIDs |-> {}]
  <2>2. applyInPlaceCompaction(items, c) # {} /\ rows' = Append(rows, RecordRow(c))
    BY <2>1
  <2>3. Good(rows) /\ ViewFits(items, rows)
    BY DEF ContextInv, RowsInv, Good
  <2>4. RecordFits(c, rows)
    BY <2>3, DebugFits
  <2> HIDE DEF c
  <2>5. Good(rows') /\ OpenCalls(rows') = OpenCalls(rows)
    BY <2>2, <2>3, <2>4, GoodRecords
  <2>6. turn = "rest"
    BY <1>3 DEF RecordInPlaceCompaction, Free, ContextInv, IdleInv, TurnInv
  <2>7. compactedGen' <= gen'
    BY <1>1, <1>3 DEF ContextInv, IdleInv, ControlTypes, LiveInv
  <2> QED
    BY <1>1, <1>3, <2>5, <2>6, <2>7 DEF ContextInv, RowsInv, LiveInv
<1> QED
  BY <1>2, <1>3, Zenon DEF RecordInPlaceCompaction

(* The queue of an idle conversation.                                      *)
LEMMA DrainContext ==
  ASSUME ContextInv, DrainPendingMessages
  PROVE  RowsInv' /\ LiveInv'
<1>1. StartTurn /\ turn = "rest" /\ tearing = FALSE
  BY DEF DrainPendingMessages, Free, ContextInv, IdleInv, TurnInv, ControlTypes
<1> QED
  BY <1>1, StartContext

(* What comes before a request.                                            *)
LEMMA TakeContext ==
  ASSUME ContextInv, NEW nudge \in BOOLEAN, takeInjectable(nudge)
  PROVE  RowsInv' /\ LiveInv'
<1> DEFINE users == [k \in 1..queue |-> UserRow]
           more == IF nudge THEN <<Row("nudge", {}, {})>> ELSE <<>>
           new == users \o more
           history == IF compacted THEN compactedContext(rows) ELSE live
<1>1. /\ turn = "ask" /\ tearing = FALSE /\ Extend(history, new) /\ turn' = "wait"
      /\ gen' = gen /\ tearing' = tearing /\ lock' = lock
      /\ compactedGen' = IF compacted THEN 0 ELSE compactedGen
  BY DEF takeInjectable, Free, ContextInv, IdleInv, ControlTypes
<1>2. Good(rows) /\ OpenCalls(rows) = {} /\ rows \in Seq(Rows)
  BY <1>1 DEF ContextInv, RowsInv, Good, FitRows
<1>3. queue \in Nat /\ gen \in Nat /\ compactedGen \in Nat /\ compactedGen <= gen /\ live # {}
  BY <1>1 DEF ContextInv, IdleInv, ControlTypes, LiveInv
<1>4. history = compactedContext(rows)
  BY <1>1, <1>3 DEF ContextInv, LiveInv, compacted
<1>5. Plain(new)
  <2>1. UserRow \in PlainRows /\ UserRow.uses = {} /\ UserRow.results = {}
    BY DEF UserRow, Row, PlainRows, RowTypes
  <2>2. users \in Seq(PlainRows) /\ Len(users) = queue /\ \A k \in 1..queue : users[k] = UserRow
    BY <1>3, <2>1
  <2>3. Row("nudge", {}, {}) \in PlainRows /\ Row("nudge", {}, {}).uses = {} /\ Row("nudge", {}, {}).results = {}
    BY DEF Row, PlainRows, RowTypes
  <2>4. more \in Seq(PlainRows) /\ Len(more) \in Nat /\ \A k \in 1..Len(more) : more[k].uses = {} /\ more[k].results = {}
    <3>1. CASE nudge
      BY <2>3, <3>1
    <3>2. CASE ~nudge
      BY <3>2
    <3> QED
      BY <3>1, <3>2
  <2> HIDE DEF users, more
  <2>5. new \in Seq(PlainRows) /\ IsJoin(new, users, more)
    BY <2>2, <2>4, JoinIs
  <2> HIDE DEF new
  <2>6. ASSUME NEW k \in 1..Len(new) PROVE new[k].uses = {} /\ new[k].results = {}
    <3>1. CASE k \in 1..queue
      BY <2>1, <2>2, <2>5, <3>1 DEF IsJoin
    <3>2. CASE k \notin 1..queue
      <4> DEFINE m == k - queue
      <4>1. m \in 1..Len(more) /\ k = Len(users) + m
        BY <1>3, <2>2, <2>4, <2>5, <3>2 DEF IsJoin
      <4> HIDE DEF m
      <4> QED
        BY <2>4, <2>5, <4>1 DEF IsJoin
    <3> QED
      BY <3>1, <3>2
  <2> QED
    BY <2>5, <2>6 DEF Plain
<1> HIDE DEF new
<1>6. rows' = rows \o new /\ live' = Grown(history, rows, new)
  BY <1>1, ExtendIs
<1>7. /\ Good(rows') /\ OpenCalls(rows') = {}
      /\ compactedContext(rows') = live'
  BY <1>2, <1>4, <1>5, <1>6, GoodExtends
<1>8. live' # {}
  BY <1>7 DEF Good
<1>9. compactedGen' <= gen'
  BY <1>1, <1>3
<1> QED
  BY <1>1, <1>7, <1>8, <1>9 DEF RowsInv, LiveInv

(* A response with calls.                                                  *)
LEMMA CallToolsContext ==
  ASSUME ContextInv, CallTools
  PROVE  RowsInv' /\ LiveInv'
<1>1. /\ turn = "wait" /\ turn' = "tools" /\ gen' = gen /\ compactedGen' = compactedGen
      /\ tearing' = tearing /\ lock' = lock
  BY DEF CallTools
<1>2. PICK tools \in ToolSets :
        LET made == {<<Len(rows) + 1, t>> : t \in tools}
        IN  Extend(live, <<Row("agent", made, {})>>) /\ todo' = {id \in made : Compacts(id)}
  BY DEF CallTools
<1> DEFINE made == {<<Len(rows) + 1, t>> : t \in tools}
           r == Row("agent", made, {})
<1>3. Extend(live, <<r>>)
  BY <1>2
<1>4. Good(rows) /\ OpenCalls(rows) = {} /\ live = compactedContext(rows)
  BY <1>1 DEF ContextInv, RowsInv, LiveInv
<1>5. Len(rows) \in Nat
  BY <1>4 DEF Good, FitRows
<1>6. made \in SUBSET Ids /\ \A id \in made : id[1] = Len(rows) + 1
  <2>1. tools \subseteq {"work", "compact"}
    BY CompactionAssumption
  <2> QED
    BY <1>5, <2>1 DEF Ids
<1> HIDE DEF made
<1>7. r.type = "agent" /\ r.uses = made /\ r.results = {} /\ r \in PlainRows
  BY <1>6 DEF Row, PlainRows, RowTypes
<1>8. Answering(r, rows)
  BY <1>4, <1>6, <1>7 DEF Answering
<1> HIDE DEF r
<1>9. Good(rows') /\ live' = compactedContext(rows')
  BY <1>3, <1>4, <1>8, OneJoins
<1>10. live' # {}
  BY <1>9 DEF Good
<1> QED
  BY <1>1, <1>9, <1>10 DEF ContextInv, RowsInv, LiveInv

(* The end of a turn.                                                      *)
LEMMA EndTurnContext ==
  ASSUME ContextInv, EndTurn
  PROVE  RowsInv' /\ LiveInv'
<1>1. /\ turn = "wait" /\ turn' = "rest" /\ gen' = gen /\ compactedGen' = compactedGen
      /\ tearing' = tearing /\ lock' = lock /\ Extend(live, <<Row("agent", {}, {})>>)
  BY DEF EndTurn
<1>2. Good(rows) /\ OpenCalls(rows) = {} /\ live = compactedContext(rows)
  BY <1>1 DEF ContextInv, RowsInv, LiveInv
<1>3. Answering(Row("agent", {}, {}), rows) /\ Row("agent", {}, {}).uses = {}
  BY <1>2, PlainAnswers DEF RowTypes
<1>4. Good(rows') /\ OpenCalls(rows') = {} /\ live' = compactedContext(rows')
  BY <1>1, <1>2, <1>3, OneJoins
<1>5. live' # {}
  BY <1>4 DEF Good
<1> QED
  BY <1>1, <1>4, <1>5 DEF ContextInv, RowsInv, LiveInv

(* The agent compacts.                                                     *)
LEMMA CompactCallContext ==
  ASSUME ContextInv, CompactCall
  PROVE  RowsInv' /\ LiveInv'
<1>1. PICK id \in todo, items \in compactedContext(rows) : \E v \in compactionView(items) :
        \E in \in Requests(v) : compactMidTurn(id, items, v, in)
  BY DEF CompactCall
<1>2. PICK v \in compactionView(items) : \E in \in Requests(v) : compactMidTurn(id, items, v, in)
  BY <1>1
<1>3. PICK in \in Requests(v) : compactMidTurn(id, items, v, in)
  BY <1>2
<1>4. /\ turn = "tools" /\ lock = "free" /\ tearing = FALSE /\ turn' = turn /\ live' = live /\ gen' = gen
      /\ tearing' = tearing /\ lock' = lock
  BY <1>3 DEF compactMidTurn, Free, ContextInv, IdleInv, ControlTypes
<1>5. PICK c \in WithEvidence(items, buildCompaction(v, in)) :
        \E after \in applyInPlaceCompaction(items, c) :
          \/ UNCHANGED <<rows, compactedGen>>
          \/ rows' = Append(rows, RecordRow(c)) /\ compactedGen' = gen
  BY <1>3 DEF compactMidTurn
<1>6. Good(rows) /\ FitRows(rows) /\ ViewFits(items, rows)
  BY DEF ContextInv, RowsInv, Good
<1>7. CASE UNCHANGED <<rows, compactedGen>>
  BY <1>4, <1>7, ContextStays DEF ContextInv
<1>8. CASE rows' = Append(rows, RecordRow(c)) /\ compactedGen' = gen
  <2>1. RecordFits(c, rows)
    BY <1>6, CompactionFits
  <2>2. applyInPlaceCompaction(items, c) # {}
    BY <1>5
  <2>3. Good(rows')
    BY <1>6, <1>8, <2>1, <2>2, GoodRecords
  <2>4. gen \in Nat /\ live # {}
    BY <1>4 DEF ContextInv, IdleInv, ControlTypes, LiveInv
  <2> QED
    BY <1>4, <1>8, <2>3, <2>4 DEF RowsInv, LiveInv
<1> QED
  BY <1>5, <1>7, <1>8

(* The results of what is open may join at any time.                       *)
LEMMA ClosingAnswers ==
  ASSUME Good(rows)
  PROVE  /\ Answering(Row("results", {}, OpenCalls(rows)), rows)
         /\ Row("results", {}, OpenCalls(rows)).uses = {}
<1>1. FitRows(rows) /\ \A k \in 1..Len(rows) : rows[k] \in Rows
  BY DEF Good, FitRows
<1>2. ASSUME NEW id \in OpenCalls(rows) PROVE id \in Ids
  <2>1. PICK k \in 1..Len(rows) : id \in rows[k].uses
    BY <1>1, OpenIs
  <2> QED
    BY <1>1, <2>1, RowKinds
<1>3. OpenCalls(rows) \in SUBSET Ids
  BY <1>2
<1> QED
  BY <1>3 DEF Answering, Row, PlainRows, RowTypes

(* The results of a batch.                                                 *)
LEMMA ResultsContext ==
  ASSUME ContextInv, RecordResults
  PROVE  RowsInv' /\ LiveInv'
<1>1. /\ turn = "tools" /\ gen' = gen /\ compactedGen' = compactedGen /\ tearing' = tearing /\ lock' = lock
      /\ turn' \in {"stopped", "rest", "ask"}
      /\ Extend(live, <<Row("results", {}, OpenCalls(rows))>>)
  BY DEF RecordResults
<1>2. Good(rows) /\ live # {}
  BY <1>1 DEF ContextInv, RowsInv, LiveInv
<1>3. /\ Good(rows') /\ OpenCalls(rows') = {} /\ live' # {}
      /\ live = compactedContext(rows) => live' = compactedContext(rows')
  BY <1>1, <1>2, ClosingAnswers, OneJoins
<1> QED
  BY <1>1, <1>2, <1>3 DEF ContextInv, RowsInv, LiveInv

(* An idle compaction is started.                                          *)
LEMMA StartIdleContext ==
  ASSUME ContextInv, StartIdle
  PROVE  RowsInv' /\ LiveInv'
<1>1. /\ lock = "claimed" /\ rows' = rows /\ turn' = turn /\ compactedGen' = compactedGen
      /\ tearing' = tearing /\ live' = ensureLoop /\ BuildsLoop
  BY DEF StartIdle
<1>2. turn = "rest" /\ gen \in Nat /\ compactedGen \in Nat /\ compactedGen <= gen
  BY <1>1 DEF ContextInv, IdleInv, ControlTypes, TimerInv, LiveInv
<1>3. compactedContext(rows) # {}
  BY DEF ContextInv, RowsInv, Good
<1>4. CASE live = {}
  <2>1. live' = compactedContext(rows) /\ gen' = gen + 1
    BY <1>1, <1>4 DEF ensureLoop, BuildsLoop
  <2> QED
    BY <1>1, <1>2, <1>3, <2>1 DEF ContextInv, RowsInv, LiveInv
<1>5. CASE live # {}
  <2>1. live' = live /\ gen' = gen
    BY <1>1, <1>5 DEF ensureLoop, BuildsLoop
  <2> QED
    BY <1>1, <1>2, <1>5, <2>1 DEF ContextInv, RowsInv, LiveInv
<1> QED
  BY <1>4, <1>5

(* The idle turn begins.                                                   *)
LEMMA NudgeContext ==
  ASSUME ContextInv, NudgeIdle
  PROVE  RowsInv' /\ LiveInv'
<1>1. /\ lock = "started" /\ lock' = "free" /\ gen' = gen /\ compactedGen' = compactedGen /\ tearing' = tearing
  BY DEF NudgeIdle
<1>2. CASE UNCHANGED <<rows, live, turn>>
  BY <1>1, <1>2, ContextStays DEF ContextInv
<1>3. CASE Extend(live, <<Row("idle", {}, {})>>) /\ turn' = "ask"
  <2>1. turn = "rest"
    BY <1>1 DEF ContextInv, IdleInv, TimerInv
  <2>2. Good(rows) /\ OpenCalls(rows) = {} /\ live # {}
    BY <1>1, <2>1 DEF ContextInv, RowsInv, LiveInv
  <2>3. Answering(Row("idle", {}, {}), rows) /\ Row("idle", {}, {}).uses = {}
    BY <2>2, PlainAnswers DEF RowTypes
  <2>4. /\ Good(rows') /\ OpenCalls(rows') = {} /\ live' # {}
        /\ live = compactedContext(rows) => live' = compactedContext(rows')
    BY <1>3, <2>2, <2>3, OneJoins
  <2> QED
    BY <1>1, <1>3, <2>2, <2>4 DEF ContextInv, RowsInv, LiveInv
<1> QED
  BY <1>2, <1>3 DEF NudgeIdle

(* The process dies.                                                       *)
LEMMA RestartContext ==
  ASSUME ContextInv, Restart
  PROVE  RowsInv' /\ LiveInv'
<1>1. /\ live' = {} /\ turn' = "rest" /\ gen' = 1 /\ compactedGen' = 0 /\ lock' = "free"
      /\ rows' = IF OpenCalls(rows) = {} THEN rows
                 ELSE Append(rows, Row("results", {}, OpenCalls(rows)))
  BY DEF Restart
<1>2. Good(rows)
  BY DEF ContextInv, RowsInv
<1>3. Good(rows') /\ OpenCalls(rows') = {}
  <2>1. CASE OpenCalls(rows) = {}
    BY <1>1, <1>2, <2>1
  <2>2. CASE OpenCalls(rows) # {}
    BY <1>1, <1>2, <2>2, ClosingAnswers, GoodGrows
  <2> QED
    BY <2>1, <2>2
<1> QED
  BY <1>1, <1>3 DEF RowsInv, LiveInv

(* All of it holds at first.                                               *)
LEMMA ContextInit == CompactionInit => ContextInv
<1> SUFFICES ASSUME CompactionInit PROVE ContextInv
  OBVIOUS
<1>1. IdleInv
  BY DEF CompactionInit, IdleInv, ControlTypes, TurnInv, JoinedInv, TimerInv
<1>2. RowsInv
  BY GoodEmpty DEF CompactionInit, RowsInv
<1>3. LiveInv
  BY DEF CompactionInit, LiveInv
<1> QED
  BY <1>1, <1>2, <1>3 DEF ContextInv

(* Every step keeps it.                                                    *)
LEMMA ContextStep ==
  ContextInv /\ [CompactionNext]_compactionVars => ContextInv'
<1> SUFFICES ASSUME ContextInv, [CompactionNext]_compactionVars PROVE ContextInv'
  OBVIOUS
<1>0. IdleInv /\ RowsInv /\ LiveInv /\ (turn # "rest" => live # {})
  BY DEF ContextInv, LiveInv
<1>1. ASSUME NEW what \in {"send", "stop", "debug"}, Arrive(what) PROVE ContextInv'
  <2>1. RowsInv' /\ LiveInv'
    BY <1>0, <1>1, ContextStays DEF Arrive, manager
  <2> QED
    BY <1>0, <1>1, <2>1, ArriveControl DEF ContextInv
<1>2. CASE AcceptUserMessage
  BY <1>0, <1>2, AcceptControl, AcceptContext DEF ContextInv
<1>3. CASE CancelConversation
  BY <1>0, <1>3, CancelControl, CancelContext DEF ContextInv
<1>4. CASE TeardownRecords
  BY <1>0, <1>4, TeardownControl, TeardownContext DEF ContextInv
<1>5. CASE RecordInPlaceCompaction
  BY <1>0, <1>5, DebugControl, DebugContext DEF ContextInv
<1>6. CASE DrainPendingMessages
  BY <1>0, <1>6, DrainControl, DrainContext DEF ContextInv
<1>7. ASSUME NEW nudge \in BOOLEAN, takeInjectable(nudge) PROVE ContextInv'
  BY <1>0, <1>7, TakeControl, TakeContext DEF ContextInv
<1>8. CASE CallTools
  BY <1>0, <1>8, CallToolsControl, CallToolsContext DEF ContextInv
<1>9. CASE EndTurn
  BY <1>0, <1>9, EndTurnControl, EndTurnContext DEF ContextInv
<1>10. CASE CompactCall
  BY <1>0, <1>10, CompactCallControl, CompactCallContext DEF ContextInv
<1>11. CASE RecordResults
  BY <1>0, <1>11, ResultsControl, ResultsContext DEF ContextInv
<1>12. ASSUME NEW id \in todo, CallReturns(id) PROVE ContextInv'
  <2>1. RowsInv' /\ LiveInv'
    BY <1>0, <1>12, ContextStays DEF CallReturns, manager
  <2> QED
    BY <1>0, <1>12, <2>1, CallReturnsControl DEF ContextInv
<1>13. CASE Fire
  <2>1. RowsInv' /\ LiveInv'
    BY <1>0, <1>13, ContextStays DEF Fire, manager
  <2> QED
    BY <1>0, <1>13, <2>1, FireControl DEF ContextInv
<1>14. CASE StartIdle
  BY <1>0, <1>14, StartIdleControl, StartIdleContext DEF ContextInv
<1>15. CASE IdleUnavailable
  <2>1. RowsInv' /\ LiveInv'
    BY <1>0, <1>15, ContextStays DEF IdleUnavailable, manager
  <2> QED
    BY <1>0, <1>15, <2>1, UnavailableControl DEF ContextInv
<1>16. CASE NudgeIdle
  BY <1>0, <1>16, NudgeControl, NudgeContext DEF ContextInv
<1>17. ASSUME NEW callback \in {"fired", "stale"}, CallbackRuns(callback) PROVE ContextInv'
  <2>1. RowsInv' /\ LiveInv'
    <3>1. rows' = rows /\ live' = live /\ turn' = turn /\ gen' = gen /\ compactedGen' = compactedGen
          /\ tearing' = tearing
      BY <1>17 DEF CallbackRuns, manager
    <3>2. lock' \in {"claimed", "free"}
      BY <1>17 DEF CallbackRuns
    <3> QED
      BY <1>0, <3>1, <3>2, ContextStays
  <2> QED
    BY <1>0, <1>17, <2>1, CallbackControl DEF ContextInv
<1>18. CASE Restart
  BY <1>0, <1>18, RestartControl, RestartContext DEF ContextInv
<1>19. CASE UNCHANGED compactionVars
  <2>1. RowsInv' /\ LiveInv'
    BY <1>0, <1>19, ContextStays DEF compactionVars, manager
  <2>2. IdleInv'
    BY <1>0, <1>19 DEF compactionVars, manager, idle, openBatch, IdleInv, ControlTypes,
       TurnInv, JoinedInv, TimerInv
  <2> QED
    BY <2>1, <2>2 DEF ContextInv
<1> QED
  BY <1>1, <1>2, <1>3, <1>4, <1>5, <1>6, <1>7, <1>8, <1>9, <1>10, <1>11, <1>12, <1>13, <1>14,
     <1>15, <1>16, <1>17, <1>18, <1>19 DEF CompactionNext

(* The transcript fits and the loop follows it, in every run.              *)
THEOREM ContextInvariance == CompactionSpec => []ContextInv
<1>1. CompactionInit => ContextInv
  BY ContextInit
<1>2. ContextInv /\ [CompactionNext]_compactionVars => ContextInv'
  BY ContextStep
<1> QED
  BY <1>1, <1>2, PTL DEF CompactionSpec

(* Every request sends what a rebuild from the database would give,        *)
(* however compactions, stops, restarts and idle turns meet.               *)
THEOREM LoopIsRebuilt == CompactionSpec => []LiveIsRebuilt
<1>1. ContextInv => LiveIsRebuilt
  BY DEF ContextInv, LiveInv, LiveIsRebuilt
<1> QED
  BY <1>1, ContextInvariance, PTL

(* The idle timer claims nothing that nobody has used since the last time, *)
(* and a turn that took a user message is not ended by its compaction.     *)
THEOREM IdleCompactionIsOwn == CompactionSpec => []IdleTurnIsOwn
<1>1. ContextInv => IdleTurnIsOwn
  BY DEF ContextInv, IdleInv, JoinedInv, TimerInv, IdleTurnIsOwn
<1> QED
  BY <1>1, ContextInvariance, PTL

(* No trim, collapse or hiding of any record in the transcript parts a     *)
(* call from its output, and only the running batch has calls without one. *)
THEOREM CallsKeepResults == CompactionSpec => []PairsKept
<1>1. ASSUME ContextInv PROVE PairsKept
  <2>1. ASSUME NEW v \in compactedContext(rows), NEW k \in DOMAIN v
        PROVE  /\ v[k].results # {} => k > 1 /\ v[k - 1].uses = v[k].results
               /\ v[k].uses # {} => IF k = Len(v) THEN turn = "tools" ELSE v[k + 1].results = v[k].uses
    <3>1. ViewFits(v, rows) /\ (turn # "tools" => OpenCalls(rows) = {})
      BY <1>1 DEF ContextInv, RowsInv, Good
    <3>2. Pairs(v, OpenCalls(rows)) /\ DOMAIN v = 1..Len(v)
      BY <3>1 DEF ViewFits, Views
    <3>3. v # <<>>
      BY <3>2
    <3> QED
      BY <3>1, <3>2, <3>3 DEF Pairs
  <2> QED
    BY <2>1 DEF PairsKept
<1> QED
  BY <1>1, ContextInvariance, PTL

(* A row that must be in view is in the span of one item.                  *)
LEMMA RowInView ==
  ASSUME NEW rs, FitRows(rs), NEW v, ViewFits(v, rs), NEW k \in 1..Len(rs), ~Exempt(rs[k])
  PROVE  LET ids == rs[k].uses \cup rs[k].results
             covers == {m \in DOMAIN v : v[m].from <= k /\ k <= v[m].to}
         IN  /\ Cardinality(covers) = 1
             /\ \A m \in covers : Original(v[m]) => WorkOf(v[m].uses \cup v[m].results) = WorkOf(ids)
<1> DEFINE covers == {m \in DOMAIN v : v[m].from <= k /\ k <= v[m].to}
<1>1. v \in Seq(ViewItems) /\ DOMAIN v = 1..Len(v) /\ Len(v) \in Nat
  BY DEF ViewFits, Views
<1>2. PICK m \in 1..Len(v) : v[m].from <= k /\ k <= v[m].to
  BY DEF ViewFits, Covers
<1>3. k \in Int
  OBVIOUS
<1>4. ASSUME NEW i \in 1..Len(v), NEW j \in 1..Len(v), i < j, i \in covers, j \in covers PROVE FALSE
  <2>1. v[i].to < v[j].from
    BY <1>4 DEF ViewFits, InOrder
  <2>2. v[i] \in ViewItems /\ v[j] \in ViewItems
    BY <1>1
  <2>3. k <= v[i].to /\ v[j].from <= k
    BY <1>4
  <2>4. v[i].to \in Int /\ v[j].from \in Int
    BY <2>2 DEF ViewItems
  <2> QED
    BY <1>3, <2>1, <2>3, <2>4
<1>5. covers = {m}
  <2>1. m \in covers
    BY <1>1, <1>2
  <2>2. ASSUME NEW j \in covers PROVE j = m
    <3>1. j \in 1..Len(v)
      BY <1>1
    <3>2. ~(j < m) /\ ~(m < j)
      BY <1>4, <2>1, <3>1
    <3> QED
      BY <1>1, <3>1, <3>2
  <2> HIDE DEF covers
  <2> QED
    BY <2>1, <2>2
<1>6. Cardinality(covers) = 1
  BY <1>5, FS_Singleton
<1>7. ASSUME Original(v[m])
      PROVE  WorkOf(v[m].uses \cup v[m].results) = WorkOf(rs[k].uses \cup rs[k].results)
  <2>1. ItemFits(v[m], rs) /\ v[m] \in ViewItems
    BY <1>1 DEF ViewFits
  <2>2. v[m].to = v[m].from /\ v[m].from \in Int
    BY <1>7, <2>1 DEF ItemFits, ViewItems
  <2>3. v[m].from = k
    BY <1>2, <1>3, <2>2
  <2> QED
    BY <1>7, <2>1, <2>3 DEF ItemFits
<1> HIDE DEF covers
<1>8. \A j \in covers : Original(v[j]) =>
        WorkOf(v[j].uses \cup v[j].results) = WorkOf(rs[k].uses \cup rs[k].results)
  BY <1>5, <1>7
<1> QED
  BY <1>6, <1>8 DEF covers

(* Every record applies when the context is rebuilt, and every row but the *)
(* traces of compacting is in view or in the span of exactly one note.     *)
THEOREM CompactionForgetsNothing == CompactionSpec => []NothingForgotten
<1>1. ASSUME ContextInv PROVE NothingForgotten
  <2>1. Good(rows)
    BY <1>1 DEF ContextInv, RowsInv
  <2>2. PICK v \in compactedContext(rows) : ViewFits(v, rows)
    BY <2>1 DEF Good
  <2>3. FitRows(rows) /\ DOMAIN rows = 1..Len(rows)
    BY <2>1 DEF Good, FitRows
  <2>4. ASSUME NEW k \in DOMAIN rows
        PROVE  LET Others(ids) == {id \in ids : ~Compacts(id)}
                   ids == rows[k].uses \cup rows[k].results
                   covers == {m \in DOMAIN v : v[m].from <= k /\ k <= v[m].to}
               IN  \/ rows[k].type \in {"record", "nudge", "idle"}
                   \/ ids # {} /\ Others(ids) = {}
                   \/ /\ Cardinality(covers) = 1
                      /\ \A m \in covers : Original(v[m]) => Others(v[m].uses \cup v[m].results) = Others(ids)
    <3>1. CASE Exempt(rows[k])
      BY <3>1 DEF Exempt, WorkOf
    <3>2. CASE ~Exempt(rows[k])
      BY <2>2, <2>3, <3>2, RowInView DEF WorkOf
    <3> QED
      BY <3>1, <3>2
  <2> QED
    BY <2>4, Zenon DEF NothingForgotten
<1> QED
  BY <1>1, ContextInvariance, PTL
=============================================================================
