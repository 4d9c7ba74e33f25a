-------------------------- MODULE SubagentsProofs ---------------------------
(***************************************************************************)
(* What a parent and its subagents keep in every run, for any set of       *)
(* subagents and any number of prompts, reports, jobs, failures and Stops: *)
(* a stopped parent stays stopped, and a subagent's reply becomes a report *)
(* when it is due, no sooner and no less.                                  *)
(***************************************************************************)
EXTENDS Subagents, TLAPS

(* Nothing runs in the parent, nothing waits for it, and no subagent is    *)
(* inside its lifecycle mutex with a report in hand.                       *)
Silent == ~working /\ queue = {} /\ lock \notin Kids

(* The lifecycle mutex: a subagent holds it only to append its report, and *)
(* nobody does while the loop is torn down.                                *)
LockInv ==
  /\ \A k \in Kids : lock = k <=> At(k, "append")
  /\ tearing <=> stop \in {"clear", "halt", "finish"}
  /\ tearing => lock = None
  /\ stop \in {"halt", "finish"} /\ ~missed => queue = {}

(* The fence is up for as long as Stop is at work.                         *)
FenceInv == (stop # "none" => stopping) /\ (stopping => stopped)

(* A parent without a manager is silent, and no report is about to be      *)
(* appended to its queue.                                                  *)
UnloadedInv ==
  ~loaded => Silent /\ \A k \in Kids : ~At(k, "enter") /\ ~At(k, "append")

(* From the moment Stop has nothing more to clear, a parent to which the   *)
(* user has sent nothing is silent behind its fence.                       *)
StopInv ==
  \/ quiet
  \/ stop = "cancel" /\ ~found /\ ~missed
  \/ stop = "walk" /\ ~missed
  => stopped /\ Silent

(* What a turn that is past its reply, or has reported, may rely on.       *)
ReplyInv(k) ==
  /\ turn[k].pc \in {"fence", "jobs", "queue", "rows"} => turn[k].rewritten = "no"
  /\ turn[k].rewritten = "now" =>
       /\ turn[k].final
       /\ turn[k].pc \in {"check", "load", "enter", "append", "sent", "failed"}
  /\ turn[k].error =>
       turn[k].pc \in {"fence", "jobs", "queue", "rows"} \/ turn[k].rewritten = "now"
  /\ turn[k].rewritten = "before" => k \in excused

(* Once the jobs, then the queue, were found empty no job can notify.      *)
JobInv(k) ==
  /\ turn[k].pc \in {"queue", "rows"} \/ turn[k].rewritten = "now" => job[k] = "none"
  /\ turn[k].pc = "rows" \/ turn[k].rewritten = "now" => "notice" \notin kqueue[k]

(* An idle subagent that owes a report has a job that will wake it,        *)
(* something in its queue, or an excuse.                                   *)
DueInv(k) ==
  turn[k] = Idle /\ kqueue[k] = {} /\ job[k] # "running" /\ k \in owes => k \in excused

KidInv(k) == ReplyInv(k) /\ JobInv(k) /\ DueInv(k)

(* The inductive invariant.                                                *)
IInv ==
  /\ TypeOK /\ LockInv /\ FenceInv /\ UnloadedInv /\ StopInv
  /\ \A k \in Kids : KidInv(k)

-----------------------------------------------------------------------------
(* An event is spent.                                                      *)
LEMMA SpendType ==
  ASSUME left \in [Events -> Nat], NEW e \in Events, Spend(e)
  PROVE  left' \in [Events -> Nat]
  BY DEF Spend

(* The state of subagent j is left alone.                                  *)
Same(j) ==
  /\ turn'[j] = turn[j] /\ kqueue'[j] = kqueue[j] /\ job'[j] = job[j]
  /\ j \in owes <=> j \in owes'
  /\ j \in excused <=> j \in excused'

(* A step of another subagent, or of the parent, disturbs nothing of it.   *)
LEMMA SameKeeps ==
  ASSUME NEW j, KidInv(j), Same(j)
  PROVE  KidInv(j)'
  BY DEF KidInv, ReplyInv, JobInv, DueInv, Same

(* A turn has its fields, and the start of one is not an idle one.         *)
LEMMA TurnFields ==
  /\ Idle \in Turns /\ Running \in Turns /\ Idle # Running
  /\ Idle.pc = "idle" /\ Idle.rewritten = "no" /\ Idle.error = FALSE /\ Idle.final = FALSE
  /\ Running.pc = "turn" /\ Running.rewritten = "no" /\ Running.error = FALSE
  /\ Running.final = FALSE
  /\ \A t \in Turns :
       /\ t.pc \in TurnSteps /\ t.rewritten \in {"no", "now", "before"}
       /\ t.error \in BOOLEAN /\ t.final \in BOOLEAN
       /\ \A pc \in TurnSteps : [t EXCEPT !.pc = pc] \in Turns
  BY DEF Idle, Running, Turns, TurnSteps

(* The parent's turns keep the invariant.                                  *)
LEMMA ParentStep ==
  ASSUME IInv, 
         \/ UserSends
         \/ UserResumes
         \/ takeInjectable
         \/ ParentTurnEnds
         \/ ParentFails
         \/ drainPendingMessages
         \/ Cleanup
  PROVE  IInv'
<1> USE DEF fence, parent, calls, handler, kids, Events
<1>1. TypeOK /\ LockInv /\ FenceInv /\ UnloadedInv /\ StopInv
  BY DEF IInv
<1>2. CASE UserSends
  <2> USE <1>2 DEF UserSends, Entered
  <2>1. TypeOK'
    BY <1>1, SpendType DEF TypeOK
  <2>2. LockInv' /\ FenceInv'
    BY <1>1, SubagentsAssumption DEF LockInv, FenceInv, At, TypeOK
  <2>3. UnloadedInv' /\ StopInv'
    BY <1>1, SubagentsAssumption DEF LockInv, FenceInv, UnloadedInv, StopInv, Silent, At, TypeOK
  <2>4. \A k \in Kids : KidInv(k)'
    BY SameKeeps DEF Same, IInv
  <2> QED
    BY <2>1, <2>2, <2>3, <2>4 DEF IInv
<1>3. CASE UserResumes
  <2> USE <1>3 DEF UserResumes, resumeParentCompletions, Entered
  <2>1. TypeOK'
    BY <1>1, SpendType DEF TypeOK
  <2>2. LockInv' /\ FenceInv'
    BY <1>1, SubagentsAssumption DEF LockInv, FenceInv, At, TypeOK
  <2>3. UnloadedInv' /\ StopInv'
    BY <1>1, SubagentsAssumption DEF LockInv, FenceInv, UnloadedInv, StopInv, Silent, At, TypeOK
  <2>4. \A k \in Kids : KidInv(k)'
    BY SameKeeps DEF Same, IInv
  <2> QED
    BY <2>1, <2>2, <2>3, <2>4 DEF IInv
<1>4. CASE takeInjectable
  <2> USE <1>4 DEF takeInjectable, Entered
  <2>1. TypeOK'
    BY <1>1, SpendType DEF TypeOK
  <2>2. LockInv' /\ FenceInv'
    BY <1>1, SubagentsAssumption DEF LockInv, FenceInv, At, TypeOK
  <2>3. UnloadedInv' /\ StopInv'
    BY <1>1, SubagentsAssumption DEF LockInv, FenceInv, UnloadedInv, StopInv, Silent, At, TypeOK
  <2>4. \A k \in Kids : KidInv(k)'
    BY SameKeeps DEF Same, IInv
  <2> QED
    BY <2>1, <2>2, <2>3, <2>4 DEF IInv
<1>5. CASE ParentTurnEnds
  <2> USE <1>5 DEF ParentTurnEnds, Entered
  <2>1. TypeOK'
    BY <1>1, SpendType DEF TypeOK
  <2>2. LockInv' /\ FenceInv'
    BY <1>1, SubagentsAssumption DEF LockInv, FenceInv, At, TypeOK
  <2>3. UnloadedInv' /\ StopInv'
    BY <1>1, SubagentsAssumption DEF LockInv, FenceInv, UnloadedInv, StopInv, Silent, At, TypeOK
  <2>4. \A k \in Kids : KidInv(k)'
    BY SameKeeps DEF Same, IInv
  <2> QED
    BY <2>1, <2>2, <2>3, <2>4 DEF IInv
<1>8. CASE ParentFails
  <2> USE <1>8 DEF ParentFails, Entered
  <2>1. TypeOK'
    BY <1>1, SpendType DEF TypeOK
  <2>2. LockInv' /\ FenceInv'
    BY <1>1, SubagentsAssumption DEF LockInv, FenceInv, At, TypeOK
  <2>3. UnloadedInv' /\ StopInv'
    BY <1>1, SubagentsAssumption DEF LockInv, FenceInv, UnloadedInv, StopInv, Silent, At, TypeOK
  <2>4. \A k \in Kids : KidInv(k)'
    BY SameKeeps DEF Same, IInv
  <2> QED
    BY <2>1, <2>2, <2>3, <2>4 DEF IInv
<1>6. CASE drainPendingMessages
  <2> USE <1>6 DEF drainPendingMessages, Entered
  <2>1. TypeOK'
    BY <1>1, SpendType DEF TypeOK
  <2>2. LockInv' /\ FenceInv'
    BY <1>1, SubagentsAssumption DEF LockInv, FenceInv, At, TypeOK
  <2>3. UnloadedInv' /\ StopInv'
    BY <1>1, SubagentsAssumption DEF LockInv, FenceInv, UnloadedInv, StopInv, Silent, At, TypeOK
  <2>4. \A k \in Kids : KidInv(k)'
    BY SameKeeps DEF Same, IInv
  <2> QED
    BY <2>1, <2>2, <2>3, <2>4 DEF IInv
<1>7. CASE Cleanup
  <2> USE <1>7 DEF Cleanup, Entered
  <2>1. TypeOK'
    BY <1>1, SpendType DEF TypeOK
  <2>2. LockInv' /\ FenceInv'
    BY <1>1, SubagentsAssumption DEF LockInv, FenceInv, At, TypeOK
  <2>3. UnloadedInv' /\ StopInv'
    BY <1>1, SubagentsAssumption DEF LockInv, FenceInv, UnloadedInv, StopInv, Silent, At, TypeOK
  <2>4. \A k \in Kids : KidInv(k)'
    BY SameKeeps DEF Same, IInv
  <2> QED
    BY <2>1, <2>2, <2>3, <2>4 DEF IInv
<1> QED
  BY <1>2, <1>3, <1>4, <1>5, <1>6, <1>7, <1>8

(* Stop keeps it: what was under way when it began is cleared or fenced off.*)
LEMMA StopStep ==
  ASSUME IInv, 
         \/ StopRaises
         \/ StopLooksUp
         \/ StopCancels
         \/ StopTearsDown
         \/ StopReturns
  PROVE  IInv'
<1> USE DEF fence, parent, calls, handler, kids, Events
<1>1. TypeOK /\ LockInv /\ FenceInv /\ UnloadedInv /\ StopInv
  BY DEF IInv
<1>2. CASE StopRaises
  <2> USE <1>2 DEF StopRaises, Entered
  <2>1. TypeOK'
    BY <1>1, SpendType DEF TypeOK
  <2>2. LockInv' /\ FenceInv'
    BY <1>1, SubagentsAssumption DEF LockInv, FenceInv, At, TypeOK
  <2>3. UnloadedInv' /\ StopInv'
    BY <1>1, SubagentsAssumption DEF LockInv, FenceInv, UnloadedInv, StopInv, Silent, At, TypeOK
  <2>4. \A k \in Kids : KidInv(k)'
    BY SameKeeps DEF Same, IInv
  <2> QED
    BY <2>1, <2>2, <2>3, <2>4 DEF IInv
<1>3. CASE StopLooksUp
  <2> USE <1>3 DEF StopLooksUp, Entered
  <2>1. TypeOK'
    BY <1>1, SpendType DEF TypeOK
  <2>2. LockInv' /\ FenceInv'
    BY <1>1, SubagentsAssumption DEF LockInv, FenceInv, At, TypeOK
  <2>3. UnloadedInv' /\ StopInv'
    BY <1>1, SubagentsAssumption DEF LockInv, FenceInv, UnloadedInv, StopInv, Silent, At, TypeOK
  <2>4. \A k \in Kids : KidInv(k)'
    BY SameKeeps DEF Same, IInv
  <2> QED
    BY <2>1, <2>2, <2>3, <2>4 DEF IInv
<1>4. CASE StopCancels
  <2> USE <1>4 DEF StopCancels, StopGoesOn, StopFails, Entered
  <2>1. TypeOK'
    BY <1>1, SpendType DEF TypeOK
  <2>2. \A k \in Kids : KidInv(k)'
    BY SameKeeps DEF Same, IInv
  <2>3. /\ UNCHANGED <<stopped, stopping, quiet, loaded, lock, turn, found>>
        /\ ~tearing /\ stopping /\ stopped
    BY <1>1 DEF LockInv, FenceInv
  <2>4. CASE found /\ looped
    <3>1. tearing' /\ lock = None /\ stop' = "clear" /\ UNCHANGED <<working, queue, missed>>
      BY <2>4
    <3> QED
      BY <1>1, <2>1, <2>2, <2>3, <3>1
         DEF IInv, LockInv, FenceInv, UnloadedInv, StopInv, Silent, At
  <2>5. CASE found /\ ~looped
    <3>1. /\ lock = None /\ stop' = "walk" /\ tearing' = tearing
          /\ \/ working' = FALSE /\ queue' = {}
             \/ missed' = TRUE /\ (working' = working \/ working' = FALSE) /\ queue' = queue
      <4>1. /\ \/ working' = FALSE /\ queue' = {} /\ missed' = FALSE /\ StopGoesOn
               \/ working' \in {working, FALSE} /\ UNCHANGED queue /\ StopFails
            /\ lock = None /\ UNCHANGED <<looped, tearing>>
        BY <2>5 DEF StopCancels, Entered
      <4> QED
        BY <4>1
    <3>2. UnloadedInv' /\ StopInv'
      BY <1>1, <2>3, <3>1, SubagentsAssumption DEF UnloadedInv, StopInv, Silent, At
    <3> QED
      BY <1>1, <2>1, <2>2, <2>3, <3>1, <3>2 DEF IInv, LockInv, FenceInv, At
  <2>6. CASE ~found
    <3>1. /\ stop' = "walk" /\ UNCHANGED <<tearing, working>>
          /\ \/ queue' = {} /\ missed' = missed
             \/ missed' /\ queue' = queue
      BY <2>6
    <3>2. UnloadedInv' /\ StopInv'
      BY <1>1, <2>3, <2>6, <3>1 DEF UnloadedInv, StopInv, Silent, At
    <3> QED
      BY <1>1, <2>1, <2>2, <2>3, <3>1, <3>2 DEF IInv, LockInv, FenceInv, At
  <2> QED
    BY <2>4, <2>5, <2>6
<1>5. CASE StopTearsDown
  <2> USE <1>5 DEF StopTearsDown, StopGoesOn, StopFails
  <2>1. TypeOK'
    BY <1>1, SpendType DEF TypeOK
  <2>2. \A k \in Kids : KidInv(k)'
    BY SameKeeps DEF Same, IInv
  <2>3. /\ UNCHANGED <<stopped, stopping, quiet, loaded, lock, turn, found>>
        /\ stop' \in {"halt", "finish", "walk"} /\ stopping /\ stopped
    <3>1. stop' \in {"halt", "finish", "walk"} /\ tearing /\ lock = None
      BY <1>1 DEF LockInv
    <3>2. stop # "none"
      OBVIOUS
    <3> QED
      BY <1>1, <3>1, <3>2 DEF FenceInv
  <2>4. LockInv' /\ FenceInv'
    BY <1>1, <2>3 DEF LockInv, FenceInv, At
  <2>5. UnloadedInv' /\ StopInv'
    BY <1>1, <2>3, SubagentsAssumption
       DEF LockInv, FenceInv, UnloadedInv, StopInv, Silent, At, TypeOK
  <2> QED
    BY <2>1, <2>2, <2>4, <2>5 DEF IInv
<1>6. CASE StopReturns
  <2> USE <1>6 DEF StopReturns, Entered
  <2>1. TypeOK'
    BY <1>1, SpendType DEF TypeOK
  <2>2. LockInv' /\ FenceInv'
    BY <1>1, SubagentsAssumption DEF LockInv, FenceInv, At, TypeOK
  <2>3. UnloadedInv' /\ StopInv'
    BY <1>1, SubagentsAssumption DEF LockInv, FenceInv, UnloadedInv, StopInv, Silent, At, TypeOK
  <2>4. \A k \in Kids : KidInv(k)'
    BY SameKeeps DEF Same, IInv
  <2> QED
    BY <2>1, <2>2, <2>3, <2>4 DEF IInv
<1> QED
  BY <1>2, <1>3, <1>4, <1>5, <1>6

(* The parent's calls of its subagents keep it.                            *)
LEMMA DelegateStep ==
  ASSUME IInv, NEW k \in Kids, 
         \/ Delegate(k)
         \/ DelegateResumes(k)
         \/ DelegateAccepts(k)
  PROVE  IInv'
<1> USE DEF fence, parent, calls, handler, kids, Events
<1>1. TypeOK /\ LockInv /\ FenceInv /\ UnloadedInv /\ StopInv
  BY DEF IInv
<1>2. KidInv(k) /\ turn[k] \in Turns
  BY DEF IInv, TypeOK
<1>3. CASE Delegate(k)
  <2> USE <1>3 DEF Delegate, Entered, At
  <2>1. TypeOK'
    BY <1>1, <1>2, SpendType, TurnFields DEF TypeOK
  <2>2. LockInv' /\ FenceInv'
    BY <1>1, <1>2, SubagentsAssumption, TurnFields DEF LockInv, FenceInv, TypeOK
  <2>3. UnloadedInv' /\ StopInv'
    BY <1>1, <1>2, SubagentsAssumption, TurnFields DEF LockInv, FenceInv, UnloadedInv, StopInv, Silent, TypeOK
  <2>4. KidInv(k)'
    BY <1>1, <1>2, TurnFields DEF KidInv, ReplyInv, JobInv, DueInv, TypeOK
  <2>5. \A j \in Kids \ {k} : Same(j)
    BY <1>1 DEF Same, TypeOK
  <2> QED
    BY <2>1, <2>2, <2>3, <2>4, <2>5, SameKeeps DEF IInv
<1>4. CASE DelegateResumes(k)
  <2> USE <1>4 DEF DelegateResumes, resumeParentCompletions, Entered, At
  <2>1. TypeOK'
    BY <1>1, <1>2, SpendType, TurnFields DEF TypeOK
  <2>2. LockInv' /\ FenceInv'
    BY <1>1, <1>2, SubagentsAssumption, TurnFields DEF LockInv, FenceInv, TypeOK
  <2>3. UnloadedInv' /\ StopInv'
    BY <1>1, <1>2, SubagentsAssumption, TurnFields DEF LockInv, FenceInv, UnloadedInv, StopInv, Silent, TypeOK
  <2>4. KidInv(k)'
    BY <1>1, <1>2, TurnFields DEF KidInv, ReplyInv, JobInv, DueInv, TypeOK
  <2>5. \A j \in Kids \ {k} : Same(j)
    BY <1>1 DEF Same, TypeOK
  <2> QED
    BY <2>1, <2>2, <2>3, <2>4, <2>5, SameKeeps DEF IInv
<1>5. CASE DelegateAccepts(k)
  <2> USE <1>5 DEF DelegateAccepts, Prompted, Entered, At
  <2>1. TypeOK'
    BY <1>1, <1>2, SpendType, TurnFields DEF TypeOK
  <2>2. LockInv' /\ FenceInv'
    BY <1>1, <1>2, SubagentsAssumption, TurnFields DEF LockInv, FenceInv, TypeOK
  <2>3. UnloadedInv' /\ StopInv'
    BY <1>1, <1>2, SubagentsAssumption, TurnFields DEF LockInv, FenceInv, UnloadedInv, StopInv, Silent, TypeOK
  <2>4. KidInv(k)'
    BY <1>1, <1>2, TurnFields DEF KidInv, ReplyInv, JobInv, DueInv, TypeOK
  <2>5. \A j \in Kids \ {k} : Same(j)
    BY <1>1 DEF Same, TypeOK
  <2> QED
    BY <2>1, <2>2, <2>3, <2>4, <2>5, SameKeeps DEF IInv
<1> QED
  BY <1>3, <1>4, <1>5

(* So do prompts, the user's messages and jobs of a subagent.              *)
LEMMA QueueStep ==
  ASSUME IInv, NEW k \in Kids, 
         \/ UserTypes(k)
         \/ KidTakes(k)
         \/ KidDrains(k)
         \/ StartJob(k)
         \/ JobExits(k)
  PROVE  IInv'
<1> USE DEF fence, parent, calls, handler, kids, Events
<1>1. TypeOK /\ LockInv /\ FenceInv /\ UnloadedInv /\ StopInv
  BY DEF IInv
<1>2. KidInv(k) /\ turn[k] \in Turns
  BY DEF IInv, TypeOK
<1>3. CASE UserTypes(k)
  <2> USE <1>3 DEF UserTypes, Entered, At
  <2>1. TypeOK'
    BY <1>1, <1>2, SpendType, TurnFields DEF TypeOK
  <2>2. LockInv' /\ FenceInv'
    BY <1>1, <1>2, SubagentsAssumption, TurnFields DEF LockInv, FenceInv, TypeOK
  <2>3. UnloadedInv' /\ StopInv'
    BY <1>1, <1>2, SubagentsAssumption, TurnFields DEF LockInv, FenceInv, UnloadedInv, StopInv, Silent, TypeOK
  <2>4. KidInv(k)'
    BY <1>1, <1>2, TurnFields DEF KidInv, ReplyInv, JobInv, DueInv, TypeOK
  <2>5. \A j \in Kids \ {k} : Same(j)
    BY <1>1 DEF Same, TypeOK
  <2> QED
    BY <2>1, <2>2, <2>3, <2>4, <2>5, SameKeeps DEF IInv
<1>4. CASE KidTakes(k)
  <2> USE <1>4 DEF KidTakes, Prompted, Entered, At
  <2>1. TypeOK'
    BY <1>1, <1>2, SpendType, TurnFields DEF TypeOK
  <2>2. LockInv' /\ FenceInv'
    BY <1>1, <1>2, SubagentsAssumption, TurnFields DEF LockInv, FenceInv, TypeOK
  <2>3. UnloadedInv' /\ StopInv'
    BY <1>1, <1>2, SubagentsAssumption, TurnFields DEF LockInv, FenceInv, UnloadedInv, StopInv, Silent, TypeOK
  <2>4. KidInv(k)'
    BY <1>1, <1>2, TurnFields DEF KidInv, ReplyInv, JobInv, DueInv, TypeOK
  <2>5. \A j \in Kids \ {k} : Same(j)
    BY <1>1 DEF Same, TypeOK
  <2> QED
    BY <2>1, <2>2, <2>3, <2>4, <2>5, SameKeeps DEF IInv
<1>5. CASE KidDrains(k)
  <2> USE <1>5 DEF KidDrains, Prompted, Entered, At
  <2>1. TypeOK'
    BY <1>1, <1>2, SpendType, TurnFields DEF TypeOK
  <2>2. LockInv' /\ FenceInv'
    BY <1>1, <1>2, SubagentsAssumption, TurnFields DEF LockInv, FenceInv, TypeOK
  <2>3. UnloadedInv' /\ StopInv'
    BY <1>1, <1>2, SubagentsAssumption, TurnFields DEF LockInv, FenceInv, UnloadedInv, StopInv, Silent, TypeOK
  <2>4. KidInv(k)'
    BY <1>1, <1>2, TurnFields DEF KidInv, ReplyInv, JobInv, DueInv, TypeOK
  <2>5. \A j \in Kids \ {k} : Same(j)
    BY <1>1 DEF Same, TypeOK
  <2> QED
    BY <2>1, <2>2, <2>3, <2>4, <2>5, SameKeeps DEF IInv
<1>6. CASE StartJob(k)
  <2> USE <1>6 DEF StartJob, Entered, At
  <2>1. TypeOK'
    BY <1>1, <1>2, SpendType, TurnFields DEF TypeOK
  <2>2. LockInv' /\ FenceInv'
    BY <1>1, <1>2, SubagentsAssumption, TurnFields DEF LockInv, FenceInv, TypeOK
  <2>3. UnloadedInv' /\ StopInv'
    BY <1>1, <1>2, SubagentsAssumption, TurnFields DEF LockInv, FenceInv, UnloadedInv, StopInv, Silent, TypeOK
  <2>4. KidInv(k)'
    BY <1>1, <1>2, TurnFields DEF KidInv, ReplyInv, JobInv, DueInv, TypeOK
  <2>5. \A j \in Kids \ {k} : Same(j)
    BY <1>1 DEF Same, TypeOK
  <2> QED
    BY <2>1, <2>2, <2>3, <2>4, <2>5, SameKeeps DEF IInv
<1>7. CASE JobExits(k)
  <2> USE <1>7 DEF JobExits, Entered, At
  <2>1. TypeOK'
    BY <1>1, <1>2, SpendType, TurnFields DEF TypeOK
  <2>2. LockInv' /\ FenceInv'
    BY <1>1, <1>2, SubagentsAssumption, TurnFields DEF LockInv, FenceInv, TypeOK
  <2>3. UnloadedInv' /\ StopInv'
    BY <1>1, <1>2, SubagentsAssumption, TurnFields DEF LockInv, FenceInv, UnloadedInv, StopInv, Silent, TypeOK
  <2>4. KidInv(k)'
    BY <1>1, <1>2, TurnFields DEF KidInv, ReplyInv, JobInv, DueInv, TypeOK
  <2>5. \A j \in Kids \ {k} : Same(j)
    BY <1>1 DEF Same, TypeOK
  <2> QED
    BY <2>1, <2>2, <2>3, <2>4, <2>5, SameKeeps DEF IInv
<1> QED
  BY <1>3, <1>4, <1>5, <1>6, <1>7

(* A step of a subagent that neither holds the parent's mutex nor is about *)
(* to take it leaves the parent's part of the invariant alone.             *)
LEMMA OutsideStep ==
  ASSUME IInv, NEW k \in Kids, UNCHANGED <<fence, parent, handler>>,
         ~At(k, "append"), turn'[k].pc \notin {"enter", "append"},
         \A j \in Kids \ {k} : turn'[j] = turn[j]
  PROVE  LockInv' /\ FenceInv' /\ UnloadedInv' /\ StopInv'
<1> USE DEF fence, parent, handler, At
<1>1. LockInv'
  BY DEF IInv, LockInv
<1>2. FenceInv' /\ UnloadedInv' /\ StopInv'
  BY DEF IInv, FenceInv, UnloadedInv, StopInv, Silent
<1> QED
  BY <1>1, <1>2

(* A reply either ends a turn that has reported, or goes through the       *)
(* checks.                                                                 *)
LEMMA ReplyStep ==
  ASSUME IInv, NEW k \in Kids, NEW error \in BOOLEAN, KidReplies(k, error)
  PROVE  IInv'
<1> USE DEF KidReplies, EndTurn, At
<1>1. TypeOK /\ KidInv(k) /\ turn[k] \in Turns /\ turn \in [Kids -> Turns]
  BY DEF IInv, TypeOK
<1>2. \/ turn[k].rewritten # "no" /\ turn' = [turn EXCEPT ![k] = Idle]
      \/ /\ turn[k].rewritten = "no" /\ kwake' = kwake
         /\ turn' = [turn EXCEPT ![k] = [turn[k] EXCEPT !.pc = "fence", !.error = error]]
  BY <1>1
<1>3. turn[k].pc = "turn" /\ turn[k].rewritten # "now"
  BY <1>1 DEF KidInv, ReplyInv
<1>4. \/ turn[k].rewritten = "before" /\ turn'[k] = Idle
      \/ /\ turn[k].rewritten = "no" /\ turn'[k].pc = "fence" /\ turn'[k].rewritten = "no"
         /\ turn'[k] \in Turns
  <2>1. /\ [turn[k] EXCEPT !.pc = "fence", !.error = error] \in Turns
        /\ [turn[k] EXCEPT !.pc = "fence", !.error = error].pc = "fence"
        /\ [turn[k] EXCEPT !.pc = "fence", !.error = error].rewritten = turn[k].rewritten
    BY <1>1 DEF Turns, TurnSteps
  <2>2. turn[k].rewritten \in {"no", "now", "before"}
    BY <1>1, TurnFields
  <2> QED
    BY <1>1, <1>2, <1>3, <2>1, <2>2
<1>5. \A j \in Kids \ {k} : turn'[j] = turn[j]
  BY <1>1, <1>2
<1>6. TypeOK'
  <2>1. turn' \in [Kids -> Turns]
    BY <1>1, <1>2, <1>4, TurnFields
  <2>2. left' \in [Events -> Nat]
    BY <1>1, SpendType DEF TypeOK, Events
  <2>3. kwake' \subseteq Kids
    BY <1>1 DEF TypeOK
  <2> QED
    BY <1>1, <2>1, <2>2, <2>3 DEF TypeOK, fence, parent, calls, handler
<1>7. LockInv' /\ FenceInv' /\ UnloadedInv' /\ StopInv'
  BY <1>3, <1>4, <1>5, OutsideStep, TurnFields
<1>8. KidInv(k)'
  BY <1>1, <1>3, <1>4, TurnFields DEF KidInv, ReplyInv, JobInv, DueInv
<1>9. \A j \in Kids \ {k} : Same(j)
  BY <1>5 DEF Same
<1> QED
  BY <1>6, <1>7, <1>8, <1>9, SameKeeps DEF IInv

(* The checks keep a reply, or make a report of it once the jobs and then  *)
(* the queue were found empty.                                             *)
LEMMA CheckStep ==
  ASSUME IInv, NEW k \in Kids, reportUnreportedReply(k), CheckReply(k), UNCHANGED left
  PROVE  IInv'
<1> USE DEF reportUnreportedReply, EndTurn, Keep, Goto, At
<1>1. TypeOK /\ KidInv(k) /\ turn[k] \in Turns /\ turn \in [Kids -> Turns]
  BY DEF IInv, TypeOK
<1>2. /\ turn[k].pc \in {"fence", "jobs", "queue", "rows"} /\ turn[k].rewritten = "no"
      /\ kqueue' = kqueue /\ owes' = owes /\ job' = job /\ left' = left
  BY <1>1 DEF CheckReply, KidInv, ReplyInv
<1>3. /\ turn' \in [Kids -> Turns] /\ kwake' \subseteq Kids /\ excused' \subseteq Kids
      /\ turn'[k].pc \notin {"enter", "append"}
      /\ \A j \in Kids \ {k} : turn'[j] = turn[j] /\ (j \in excused' <=> j \in excused)
  <2>1. /\ \A pc \in TurnSteps : [turn[k] EXCEPT !.pc = pc] \in Turns
        /\ [turn[k] EXCEPT !.pc = "check", !.rewritten = "now", !.final = TRUE] \in Turns
    <3>1. \A pc \in TurnSteps : [turn[k] EXCEPT !.pc = pc] \in Turns
      BY <1>1, TurnFields
    <3>2. [turn[k] EXCEPT !.pc = "check", !.rewritten = "now", !.final = TRUE] \in Turns
      BY <1>1 DEF Turns, TurnSteps
    <3> QED
      BY <3>1, <3>2
  <2>2. kwake \subseteq Kids /\ excused \subseteq Kids /\ Idle \in Turns /\ Idle.pc = "idle"
    BY <1>1, TurnFields DEF TypeOK
  <2>3. CASE At(k, "fence")
    BY <1>1, <2>1, <2>2, <2>3 DEF CheckReply, TurnSteps, Turns
  <2>4. CASE At(k, "jobs")
    <3>1. \/ /\ turn' = [turn EXCEPT ![k] = Idle] /\ kwake' = kwake \cup {k}
             /\ excused' = excused \cup {k} \/ excused' = excused
          \/ /\ turn' = [turn EXCEPT ![k] = [turn[k] EXCEPT !.pc = "queue"]]
             /\ kwake' = kwake /\ excused' = excused
      BY <1>1, <2>4 DEF CheckReply
    <3>2. [turn[k] EXCEPT !.pc = "queue"] \in Turns /\ [turn[k] EXCEPT !.pc = "queue"].pc = "queue"
      BY <1>1, <2>1 DEF TurnSteps, Turns
    <3> QED
      BY <1>1, <2>2, <3>1, <3>2
  <2>5. CASE At(k, "queue")
    BY <1>1, <2>1, <2>2, <2>5 DEF CheckReply, TurnSteps, Turns
  <2>6. CASE At(k, "rows")
    BY <1>1, <2>1, <2>2, <2>6 DEF CheckReply, TurnSteps, Turns
  <2> QED
    BY <1>2, <2>3, <2>4, <2>5, <2>6
<1>4. TypeOK'
  BY <1>1, <1>2, <1>3 DEF TypeOK, fence, parent, calls, handler
<1>5. LockInv' /\ FenceInv' /\ UnloadedInv' /\ StopInv'
  BY <1>2, <1>3, OutsideStep
<1>6. KidInv(k)'
  <2>1. CASE At(k, "fence")
    <3>1. \/ turn'[k] = Idle /\ k \in excused'
          \/ turn'[k] = [turn[k] EXCEPT !.pc = "jobs"] /\ excused' = excused
      BY <1>1, <2>1 DEF CheckReply
    <3> QED
      BY <1>1, <1>2, <2>1, <3>1, TurnFields DEF KidInv, ReplyInv, JobInv, DueInv, Turns
  <2>2. CASE At(k, "jobs")
    <3>1. \/ turn'[k] = Idle /\ job[k] # "none" /\ (Spent(k) => k \in excused')
          \/ turn'[k] = [turn[k] EXCEPT !.pc = "queue"] /\ excused' = excused /\ job[k] = "none"
      BY <1>1, <2>2 DEF CheckReply
    <3>2. job[k] \in {"none", "running", "queued"}
      BY <1>1 DEF TypeOK
    <3> QED
      BY <1>1, <1>2, <2>2, <3>1, <3>2, TurnFields
         DEF KidInv, ReplyInv, JobInv, DueInv, Turns, Spent
  <2>3. CASE At(k, "queue")
    <3>1. \/ turn'[k] = Idle /\ kqueue[k] # {}
          \/ turn'[k] = [turn[k] EXCEPT !.pc = "rows"] /\ excused' = excused /\ kqueue[k] = {}
      BY <1>1, <2>3 DEF CheckReply
    <3> QED
      BY <1>1, <1>2, <2>3, <3>1, TurnFields DEF KidInv, ReplyInv, JobInv, DueInv, Turns
  <2>4. CASE At(k, "rows")
    <3>1. \/ turn'[k] = Idle /\ k \notin owes
          \/ /\ turn'[k] = [turn[k] EXCEPT !.pc = "check", !.rewritten = "now", !.final = TRUE]
             /\ excused' = excused
      BY <1>1, <2>4 DEF CheckReply
    <3>2. CASE turn'[k] = Idle /\ k \notin owes
      BY <1>2, <3>2, TurnFields DEF KidInv, ReplyInv, JobInv, DueInv
    <3>3. CASE turn'[k] = [turn[k] EXCEPT !.pc = "check", !.rewritten = "now", !.final = TRUE]
      <4>1. turn'[k].pc = "check" /\ turn'[k].rewritten = "now" /\ turn'[k].final
        BY <1>1, <3>3 DEF Turns
      <4>2. turn'[k] # Idle
        BY <4>1, TurnFields
      <4> QED
        BY <1>1, <1>2, <2>4, <4>1, <4>2 DEF KidInv, ReplyInv, JobInv, DueInv
    <3> QED
      BY <3>1, <3>2, <3>3
  <2> QED
    BY <1>2, <2>1, <2>2, <2>3, <2>4
<1>7. \A j \in Kids \ {k} : Same(j)
  BY <1>2, <1>3 DEF Same
<1> QED
  BY <1>4, <1>5, <1>6, <1>7, SameKeeps DEF IInv

(* A turn that ends without a report is excused.                           *)
LEMMA SilentEnd ==
  ASSUME IInv, NEW k \in Kids, UNCHANGED <<fence, parent, calls, handler, kqueue, owes, job>>,
         turn' = [turn EXCEPT ![k] = Idle], excused' = excused \cup {k},
         kwake' = kwake \/ kwake' = kwake \cup {k}, left' \in [Events -> Nat],
         ~At(k, "append")
  PROVE  IInv'
<1>1. TypeOK /\ KidInv(k) /\ turn \in [Kids -> Turns]
  BY DEF IInv, TypeOK
<1>2. turn'[k] = Idle /\ \A j \in Kids \ {k} : turn'[j] = turn[j]
  BY <1>1
<1>3. TypeOK'
  <2>1. turn' \in [Kids -> Turns] /\ kwake' \subseteq Kids /\ excused' \subseteq Kids
    BY <1>1, TurnFields DEF TypeOK
  <2> QED
    BY <1>1, <2>1 DEF TypeOK, fence, parent, calls, handler
<1>4. LockInv' /\ FenceInv' /\ UnloadedInv' /\ StopInv'
  BY <1>2, OutsideStep, TurnFields
<1>5. KidInv(k)'
  BY <1>1, <1>2, TurnFields DEF KidInv, ReplyInv, JobInv, DueInv
<1>6. \A j \in Kids \ {k} : Same(j)
  BY <1>2 DEF Same
<1> QED
  BY <1>3, <1>4, <1>5, <1>6, SameKeeps DEF IInv

(* A reply without text, and a turn that cannot be recorded, keep it.      *)
LEMMA FailStep ==
  ASSUME IInv, NEW k \in Kids, KidRepliesNothing(k) \/ KidFails(k)
  PROVE  IInv'
<1>1. left' \in [Events -> Nat]
  BY SpendType DEF KidRepliesNothing, KidFails, IInv, TypeOK, Events
<1>2. CASE KidRepliesNothing(k)
  BY <1>1, <1>2, SilentEnd DEF KidRepliesNothing, EndTurn, At
<1>3. CASE KidFails(k)
  BY <1>1, <1>3, SilentEnd DEF KidFails, At
<1> QED
  BY <1>2, <1>3

(* A check that fails keeps the reply, and excuses the subagent.           *)
LEMMA KeepStep ==
  ASSUME IInv, NEW k \in Kids, reportUnreportedReply(k)
  PROVE  IInv'
<1>1. CASE CheckReply(k) /\ UNCHANGED left
  BY <1>1, CheckStep
<1>2. CASE CheckFails(k)
  <2>1. left' \in [Events -> Nat]
    BY <1>2, SpendType DEF CheckFails, IInv, TypeOK, Events
  <2> QED
    BY <1>2, <2>1, SilentEnd DEF reportUnreportedReply, CheckFails, EndTurn, At
<1> QED
  BY <1>1, <1>2 DEF reportUnreportedReply

(* The model's own call of message_parent.                                 *)
LEMMA ReportStep ==
  ASSUME IInv, NEW k \in Kids, NEW final \in BOOLEAN, KidReports(k, final)
  PROVE  IInv'
<1> USE DEF KidReports, At
<1>1. TypeOK /\ KidInv(k) /\ turn[k] \in Turns /\ turn \in [Kids -> Turns]
  BY DEF IInv, TypeOK
<1>2. /\ turn' = [turn EXCEPT ![k] = [turn[k] EXCEPT !.pc = "check", !.final = final]]
      /\ turn[k].pc = "turn" /\ turn[k].rewritten # "now"
  BY <1>1 DEF KidInv, ReplyInv
<1>3. /\ turn'[k] \in Turns /\ turn'[k].pc = "check" /\ turn'[k].error = turn[k].error
      /\ turn'[k].rewritten = turn[k].rewritten
  BY <1>1, <1>2 DEF Turns, TurnSteps
<1>4. TypeOK'
  <2>1. turn' \in [Kids -> Turns] /\ left' \in [Events -> Nat]
    BY <1>1, <1>2, <1>3, SpendType DEF TypeOK, Events
  <2> QED
    BY <1>1, <2>1 DEF TypeOK, fence, parent, calls, handler
<1>5. \A j \in Kids \ {k} : turn'[j] = turn[j]
  BY <1>1, <1>2
<1>6. LockInv' /\ FenceInv' /\ UnloadedInv' /\ StopInv'
  BY <1>2, <1>3, <1>5, OutsideStep
<1>7. KidInv(k)'
  BY <1>1, <1>2, <1>3, TurnFields DEF KidInv, ReplyInv, JobInv, DueInv
<1>8. \A j \in Kids \ {k} : Same(j)
  BY <1>5 DEF Same
<1> QED
  BY <1>4, <1>6, <1>7, <1>8, SameKeeps DEF IInv

(* messageParent: a report passes the fence twice, and is appended under   *)
(* the parent's mutex.                                                     *)
LEMMA MessageStep ==
  ASSUME IInv, NEW k \in Kids, messageParent(k)
  PROVE  IInv'
<1> USE DEF messageParent, EnterFenced, Entered, Goto, At, fence, parent, calls, handler
<1>1. /\ TypeOK /\ LockInv /\ FenceInv /\ UnloadedInv /\ StopInv /\ KidInv(k)
      /\ turn[k] \in Turns /\ turn \in [Kids -> Turns]
      /\ k # None /\ k # User
  BY SubagentsAssumption DEF IInv, TypeOK
<1>2. PICK pc \in {"load", "enter", "append", "sent", "failed"} :
         turn' = [turn EXCEPT ![k] = [turn[k] EXCEPT !.pc = pc]]
  BY <1>1
<1>3. /\ turn'[k] = [turn[k] EXCEPT !.pc = pc] /\ turn'[k] \in Turns /\ turn'[k].pc = pc
      /\ turn'[k].rewritten = turn[k].rewritten /\ turn'[k].error = turn[k].error
      /\ turn'[k].final = turn[k].final
      /\ \A j \in Kids \ {k} : turn'[j] = turn[j]
      /\ turn[k].pc \in {"check", "load", "enter", "append"}
  BY <1>1, <1>2 DEF Turns, TurnSteps
<1>4. TypeOK'
  <2>1. turn' \in [Kids -> Turns]
    BY <1>1, <1>2, <1>3
  <2>2. left' \in [Events -> Nat]
    BY <1>1, SpendType DEF TypeOK, Events
  <2>3. /\ loaded' \in BOOLEAN /\ wake' \in BOOLEAN /\ lock' \in Kids \cup {User, None}
        /\ queue' \subseteq Kids \cup {User}
    BY <1>1 DEF TypeOK
  <2> QED
    BY <1>1, <2>1, <2>2, <2>3 DEF TypeOK
<1>5. LockInv' /\ FenceInv' /\ UnloadedInv' /\ StopInv'
  <2>1. CASE At(k, "check")
    <3>1. pc \in {"load", "failed"} /\ UNCHANGED <<loaded, lock, queue, wake>>
      BY <1>1, <1>3, <2>1 DEF Turns
    <3> QED
      BY <1>3, <2>1, <3>1, OutsideStep
  <2>2. CASE At(k, "load")
    <3>1. pc = "enter" /\ loaded' /\ UNCHANGED <<lock, queue, wake>>
      BY <1>1, <1>3, <2>2 DEF Turns
    <3> QED
      BY <1>1, <1>3, <2>2, <3>1 DEF LockInv, FenceInv, UnloadedInv, StopInv, Silent
  <2>3. CASE At(k, "enter")
    <3>1. /\ lock = None /\ ~tearing /\ UNCHANGED <<loaded, queue, wake>>
          /\ \/ stopped /\ pc = "failed" /\ lock' = lock
             \/ ~stopped /\ pc = "append" /\ lock' = k
      BY <1>1, <1>3, <2>3 DEF Turns
    <3>2. LockInv' /\ FenceInv'
      <4>1. \A j \in Kids : turn[j].pc # "append"
        BY <1>1, <3>1, SubagentsAssumption DEF LockInv
      <4>2. \A j \in Kids : lock' = j <=> turn'[j].pc = "append"
        BY <1>3, <3>1, <4>1, SubagentsAssumption
      <4> QED
        BY <1>1, <3>1, <4>2 DEF LockInv, FenceInv
    <3>3. loaded
      BY <1>1, <2>3 DEF UnloadedInv
    <3>4. UnloadedInv' /\ StopInv'
      BY <1>1, <1>3, <2>3, <3>1, <3>3 DEF UnloadedInv, StopInv, Silent
    <3> QED
      BY <3>2, <3>4
  <2>4. CASE At(k, "append")
    <3>1. lock' = None /\ loaded' = loaded /\ pc \in {"sent", "failed"}
      BY <1>1, <1>3, <2>4 DEF Turns
    <3>2. lock = k /\ loaded /\ ~tearing
      BY <1>1, <2>4 DEF LockInv, UnloadedInv
    <3>3. LockInv' /\ FenceInv'
      <4>1. stop \notin {"clear", "halt", "finish"} /\ UNCHANGED <<stop, stopping, stopped, tearing>>
        BY <1>1, <3>2 DEF LockInv
      <4>2. \A j \in Kids : turn'[j].pc # "append"
        BY <1>1, <1>3, <3>1, <3>2 DEF LockInv
      <4> QED
        BY <1>1, <3>1, <3>2, <4>1, <4>2, SubagentsAssumption DEF LockInv, FenceInv
    <3>4. UnloadedInv' /\ StopInv'
      BY <1>1, <1>3, <2>4, <3>1, <3>2 DEF UnloadedInv, StopInv, Silent
    <3> QED
      BY <3>3, <3>4
  <2> QED
    BY <1>3, <2>1, <2>2, <2>3, <2>4
<1>6. KidInv(k)'
  BY <1>1, <1>3, TurnFields DEF KidInv, ReplyInv, JobInv, DueInv
<1>7. \A j \in Kids \ {k} : Same(j)
  BY <1>3 DEF Same
<1> QED
  BY <1>4, <1>5, <1>6, <1>7, SameKeeps DEF IInv

(* The result of a report is recorded, and ends the turn or not.           *)
LEMMA ReturnStep ==
  ASSUME IInv, NEW k \in Kids, MessageParentReturns(k)
  PROVE  IInv'
<1> USE DEF MessageParentReturns, EndTurn, At
<1>1. TypeOK /\ KidInv(k) /\ turn[k] \in Turns /\ turn \in [Kids -> Turns]
  BY DEF IInv, TypeOK
<1>2. turn[k].pc \in {"sent", "failed"}
  OBVIOUS
<1>3. \/ turn' = [turn EXCEPT ![k] = Idle]
      \/ turn' = [turn EXCEPT ![k] = [turn[k] EXCEPT !.pc = "turn",
                    !.rewritten = IF @ = "now" THEN "before" ELSE @]]
  BY <1>1
<1>4. /\ turn'[k] \in Turns /\ turn'[k].pc \in {"idle", "turn"}
      /\ turn' \in [Kids -> Turns]
      /\ \A j \in Kids \ {k} : turn'[j] = turn[j]
  <2> DEFINE back == [turn[k] EXCEPT !.pc = "turn",
                        !.rewritten = IF @ = "now" THEN "before" ELSE @]
  <2>1. back \in Turns /\ back.pc = "turn"
    BY <1>1 DEF Turns, TurnSteps
  <2>2. turn' = [turn EXCEPT ![k] = Idle] \/ turn' = [turn EXCEPT ![k] = back]
    BY <1>3
  <2> HIDE DEF back
  <2> QED
    BY <1>1, <2>1, <2>2, TurnFields
<1>5. TypeOK'
  <2>1. kwake' \subseteq Kids /\ owes' \subseteq Kids /\ excused' \subseteq Kids
    BY <1>1 DEF TypeOK
  <2> QED
    BY <1>1, <1>4, <2>1 DEF TypeOK, fence, parent, calls, handler
<1>6. LockInv' /\ FenceInv' /\ UnloadedInv' /\ StopInv'
  BY <1>2, <1>4, OutsideStep
<1>7. KidInv(k)'
  <2>1. CASE turn'[k] = Idle
    <3>1. (At(k, "sent") /\ turn[k].final) \/ turn[k].error
      BY <1>1, <2>1, TurnFields DEF Turns
    <3>2. k \notin owes' \/ k \in excused'
      BY <1>1, <1>2, <3>1 DEF KidInv, ReplyInv
    <3> QED
      BY <2>1, <3>2, TurnFields DEF KidInv, ReplyInv, JobInv, DueInv
  <2>2. CASE turn'[k] # Idle
    <3>1. /\ turn'[k] = [turn[k] EXCEPT !.pc = "turn",
                           !.rewritten = IF @ = "now" THEN "before" ELSE @]
          /\ ~turn[k].error /\ ~(At(k, "sent") /\ turn[k].final)
      BY <1>1, <2>2
    <3>2. /\ turn'[k].pc = "turn" /\ turn'[k].rewritten # "now" /\ ~turn'[k].error
          /\ turn'[k].rewritten = "before" => turn[k].rewritten \in {"now", "before"}
      BY <1>1, <3>1 DEF Turns
    <3>3. turn[k].rewritten \in {"now", "before"} => k \in excused'
      BY <1>1, <1>2, <3>1 DEF KidInv, ReplyInv
    <3> QED
      BY <2>2, <3>2, <3>3 DEF KidInv, ReplyInv, JobInv, DueInv
  <2> QED
    BY <2>1, <2>2
<1>8. \A j \in Kids \ {k} : Same(j)
  BY <1>1, <1>4 DEF Same, TypeOK
<1> QED
  BY <1>5, <1>6, <1>7, <1>8, SameKeeps DEF IInv

(* So does the cancellation of a subagent.                                 *)
LEMMA CancelStep ==
  ASSUME IInv, NEW k \in Kids, 
         \/ StopKid(k)
         \/ StopVisits(k)
  PROVE  IInv'
<1> USE DEF fence, parent, calls, handler, kids, Events
<1>1. TypeOK /\ LockInv /\ FenceInv /\ UnloadedInv /\ StopInv
  BY DEF IInv
<1>2. KidInv(k) /\ turn[k] \in Turns
  BY DEF IInv, TypeOK
<1>3. CASE StopKid(k)
  <2> USE <1>3 DEF StopKid, CancelKid, Entered, At
  <2>1. TypeOK'
    BY <1>1, <1>2, SpendType, TurnFields DEF TypeOK
  <2>2. LockInv' /\ FenceInv'
    BY <1>1, <1>2, SubagentsAssumption, TurnFields DEF LockInv, FenceInv, TypeOK
  <2>3. UnloadedInv' /\ StopInv'
    BY <1>1, <1>2, SubagentsAssumption, TurnFields DEF LockInv, FenceInv, UnloadedInv, StopInv, Silent, TypeOK
  <2>4. KidInv(k)'
    BY <1>1, <1>2, TurnFields DEF KidInv, ReplyInv, JobInv, DueInv, TypeOK
  <2>5. \A j \in Kids \ {k} : Same(j)
    BY <1>1 DEF Same, TypeOK
  <2> QED
    BY <2>1, <2>2, <2>3, <2>4, <2>5, SameKeeps DEF IInv
<1>4. CASE StopVisits(k)
  <2> USE <1>4 DEF StopVisits, CancelKid, Entered, At
  <2>1. TypeOK'
    BY <1>1, <1>2, SpendType, TurnFields DEF TypeOK
  <2>2. LockInv' /\ FenceInv'
    BY <1>1, <1>2, SubagentsAssumption, TurnFields DEF LockInv, FenceInv, TypeOK
  <2>3. UnloadedInv' /\ StopInv'
    BY <1>1, <1>2, SubagentsAssumption, TurnFields DEF LockInv, FenceInv, UnloadedInv, StopInv, Silent, TypeOK
  <2>4. KidInv(k)'
    BY <1>1, <1>2, TurnFields DEF KidInv, ReplyInv, JobInv, DueInv, TypeOK
  <2>5. \A j \in Kids \ {k} : Same(j)
    BY <1>1 DEF Same, TypeOK
  <2> QED
    BY <2>1, <2>2, <2>3, <2>4, <2>5, SameKeeps DEF IInv
<1> QED
  BY <1>3, <1>4

-----------------------------------------------------------------------------
(* The initial states satisfy the invariant.                               *)
LEMMA InitInv == Init => IInv
<1> SUFFICES ASSUME Init PROVE IInv
  OBVIOUS
<1>1. TypeOK
  BY SubagentsAssumption, TurnFields DEF Init, TypeOK
<1>2. LockInv /\ FenceInv /\ UnloadedInv /\ StopInv
  BY SubagentsAssumption, TurnFields DEF Init, LockInv, FenceInv, UnloadedInv, StopInv, Silent, At
<1>3. \A k \in Kids : KidInv(k)
  BY TurnFields DEF Init, KidInv, ReplyInv, JobInv, DueInv
<1> QED
  BY <1>1, <1>2, <1>3 DEF IInv

(* Every step of the parent, a subagent or a Stop preserves the invariant. *)
LEMMA StepInv == IInv /\ [Next]_vars => IInv'
<1> SUFFICES ASSUME IInv, [Next]_vars PROVE IInv'
  OBVIOUS
<1>1. CASE UNCHANGED vars
  <2> USE <1>1 DEF vars, fence, parent, calls, handler, kids
  <2>1. TypeOK'
    BY DEF IInv, TypeOK
  <2>2. LockInv' /\ FenceInv' /\ UnloadedInv' /\ StopInv'
    BY DEF IInv, LockInv, FenceInv, UnloadedInv, StopInv, Silent, At
  <2>3. \A k \in Kids : KidInv(k)'
    BY SameKeeps DEF IInv, Same
  <2> QED
    BY <2>1, <2>2, <2>3 DEF IInv
<1>2. CASE UserSends \/ UserResumes \/ takeInjectable \/ ParentTurnEnds \/ ParentFails
             \/ drainPendingMessages \/ Cleanup
  BY <1>2, ParentStep
<1>3. CASE StopSteps
  BY <1>3, StopStep DEF StopSteps
<1>4. ASSUME NEW k \in Kids,
             Delegate(k) \/ DelegateResumes(k) \/ DelegateAccepts(k) \/ KidSteps(k)
      PROVE  IInv'
  BY <1>4, DelegateStep, QueueStep, ReplyStep, FailStep, KeepStep, ReportStep, MessageStep,
     ReturnStep, CancelStep DEF KidSteps
<1> QED
  BY <1>1, <1>2, <1>3, <1>4 DEF Next

(* The inductive invariant holds in every run.                             *)
THEOREM Invariance == Spec => []IInv
  BY InitInv, StepInv, PTL DEF Spec

(* Once Stop has returned, no report waits in the parent's queue and none  *)
(* has started a turn, until new work reopens the fence.                   *)
THEOREM StoppedStays == Spec => []StaysStopped
<1>1. IInv => StaysStopped
  BY DEF IInv, StopInv, Silent, StaysStopped
<1> QED
  BY <1>1, Invariance, PTL

(* A reply is sent as the final report when nothing will wake the subagent *)
(* again, and an idle subagent that nothing will wake has reported or is   *)
(* excused.                                                                *)
THEOREM ReportsWhenDue == Spec => []ReportedWhenDue
<1>1. IInv => ReportedWhenDue
  BY DEF IInv, KidInv, JobInv, DueInv, ReportedWhenDue
<1> QED
  BY <1>1, Invariance, PTL

=============================================================================
