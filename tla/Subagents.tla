----------------------------- MODULE Subagents ------------------------------
(***************************************************************************)
(* A parent conversation and the subagents it delegates to                 *)
(* (server/subagent.go): prompts sent to a subagent, the reports it sends  *)
(* back, the final reply the server turns into a report, and Stop, which   *)
(* raises a fence against late reports, tears the parent's turn down and   *)
(* then cancels the subagents one by one.                                  *)
(*                                                                         *)
(* Conversations are taken at the interface that Conversation describes: a *)
(* turn, a queue a running turn takes from, a drain that starts a turn     *)
(* from the queue of an idle conversation, a lifecycle mutex.  Only top    *)
(* level conversations have subagents, so a subagent has none.             *)
(***************************************************************************)
EXTENDS Naturals

CONSTANTS
    Kids,     \* the parent's delegated subagents
    User,     \* the sender of what is typed
    None,     \* nobody
    Limits    \* bounds: how often each of Events may happen

Events == {"send", "delegate", "report", "job", "fault", "stop"}

ASSUME SubagentsAssumption ==
    /\ User \notin Kids /\ None \notin Kids \cup {User}
    /\ Limits \in [Events -> Nat]

VARIABLES
    \* The fence, under Server.mu.
    stopped,    \* stoppedParents has the parent
    stopping,   \* stoppingParents has it
    \* The parent.
    loaded,     \* it has a manager
    working,    \* agent_working: a turn runs, or its end was not recorded
    looped,     \* it has a loop
    tearing,    \* its loop is being torn down
    lock,       \* who is inside loopLifecycleMu: User, a subagent or None
    queue,      \* senders with messages in queued_messages
    wake,       \* a drain is on its way
    call,       \* its subagent tool calls: "none", "resume" or "accept"
    live,       \* those whose context is not cancelled
    stop,       \* the step handleCancelConversation is at
    found,      \* it saw a manager
    todo,       \* subagents cancelSubagentTree has still to visit
    \* The subagents.
    turn,       \* where each one's turn is
    kqueue,     \* what is in its queue: "prompt", "typed" or "notice"
    kwake,      \* a drain of its queue is on its way
    owes,       \* the parent's last prompt is unanswered in its transcript
    job,        \* its background job: "none", "running" or "queued"
    \* Bookkeeping of the model.
    excused,    \* history: subagents that may stay silent, see ReportedWhenDue
    missed,     \* history: what Stop may leave behind: an error, a clear that failed, or
                \* something the user sent after the clear
    quiet,      \* history: Stop returned and no new work has begun since
    left        \* what remains of Limits

fence == <<stopped, stopping, quiet>>
parent == <<loaded, working, looped, tearing, lock, queue, wake>>
calls == <<call, live>>
handler == <<stop, found, todo, missed>>
kids == <<turn, kqueue, kwake, owes, job, excused>>
vars == <<fence, parent, calls, handler, kids, left>>

\* The steps of a turn: in the model's hands, in reportUnreportedReply, in
\* messageParent.
TurnSteps == {"idle", "turn", "fence", "jobs", "queue", "rows", "check", "load", "enter",
              "append", "sent", "failed"}
Turns == [pc : TurnSteps,
          rewritten : {"no", "now", "before"},  \* its reply was turned into a report
          error : BOOLEAN,                      \* the reply is the error that ended the turn
          final : BOOLEAN]                      \* the report has end_turn

Idle == [pc |-> "idle", rewritten |-> "no", error |-> FALSE, final |-> FALSE]
Running == [Idle EXCEPT !.pc = "turn"]

\* Types of all variables; the queues are sets because order plays no part.
TypeOK ==
    /\ {stopped, stopping, quiet, loaded, working, looped, tearing, wake, found, missed}
         \subseteq BOOLEAN
    /\ lock \in Kids \cup {User, None}
    /\ queue \subseteq Kids \cup {User}
    /\ call \in [Kids -> {"none", "resume", "accept"}] /\ live \subseteq Kids
    /\ stop \in {"none", "lookup", "cancel", "clear", "halt", "finish", "walk"}
    /\ todo \subseteq Kids
    /\ turn \in [Kids -> Turns]
    /\ kqueue \in [Kids -> SUBSET {"prompt", "typed", "notice"}]
    /\ kwake \subseteq Kids /\ owes \subseteq Kids /\ excused \subseteq Kids
    /\ job \in [Kids -> {"none", "running", "queued"}]
    /\ left \in [Events -> Nat]

Init ==
    /\ stopped = FALSE /\ stopping = FALSE /\ quiet = FALSE
    /\ loaded = TRUE /\ working = FALSE /\ looped = FALSE /\ tearing = FALSE /\ lock = None
    /\ queue = {} /\ wake = FALSE
    /\ call = [k \in Kids |-> "none"] /\ live = {}
    /\ stop = "none" /\ found = FALSE /\ todo = {} /\ missed = FALSE
    /\ turn = [k \in Kids |-> Idle] /\ kqueue = [k \in Kids |-> {}] /\ kwake = {}
    /\ owes = {} /\ job = [k \in Kids |-> "none"] /\ excused = {}
    /\ left = Limits

Spend(e) == left[e] > 0 /\ left' = [left EXCEPT ![e] = @ - 1]

\* loopLifecycleMu.Lock and waitForLoopTeardownLocked, of the parent.
Entered == lock = None /\ ~tearing

-----------------------------------------------------------------------------
(* The fence.                                                              *)

\* Mutant: a send during Stop reopens the fence.
ReopenAlways ==
    /\ stopped' = FALSE
    /\ quiet' = (quiet /\ stopping)
    /\ UNCHANGED stopping

\* New work reopens report delivery, but not during a Stop.
resumeParentCompletions ==
    /\ stopped' = (stopped /\ stopping)
    /\ quiet' = (quiet /\ stopping)
    /\ UNCHANGED stopping

-----------------------------------------------------------------------------
(* The parent's turns.                                                     *)

\* AcceptUserMessage for what the user types: it starts a turn, or is queued
\* for the one that runs.  A working flag without a loop is stale.
UserSends ==
    /\ Entered /\ Spend("send")
    /\ loaded' = TRUE /\ working' = TRUE /\ looped' = TRUE
    /\ queue' = IF working /\ looped THEN queue \cup {User} ELSE queue
    /\ lock' = User
    /\ missed' = TRUE /\ quiet' = FALSE
    /\ UNCHANGED <<stopped, stopping, tearing, wake, calls, stop, found, todo, kids>>

\* The row is committed: reopen the fence, then drainQueueIfIdle.
UserResumes ==
    /\ lock = User
    /\ resumeParentCompletions
    /\ lock' = None
    /\ wake' = (wake \/ ~working)
    /\ UNCHANGED <<loaded, working, looped, tearing, queue, calls, handler, kids, left>>

\* A turn takes what is queued for it between two batches of tool calls.
takeInjectable ==
    /\ working /\ looped /\ ~tearing /\ live = {} /\ queue # {}
    /\ queue' = {}
    /\ UNCHANGED <<fence, loaded, working, looped, tearing, lock, wake, calls, handler, kids, left>>

ParentTurnEnds ==
    /\ working /\ looped /\ ~tearing /\ live = {}
    /\ working' = FALSE /\ wake' = TRUE
    /\ UNCHANGED <<fence, loaded, looped, tearing, lock, queue, calls, handler, kids, left>>

\* handleFatalLoopExit: a record of the turn failed.  Nothing drains the queue.
ParentFails ==
    /\ working /\ looped /\ live = {} /\ Entered /\ Spend("fault")
    /\ working' = FALSE /\ looped' = FALSE
    /\ UNCHANGED <<fence, loaded, tearing, lock, queue, wake, calls, handler, kids>>

drainPendingMessages ==
    /\ wake /\ Entered
    /\ wake' = FALSE
    /\ IF ~working /\ queue # {}
       THEN working' = TRUE /\ looped' = TRUE /\ queue' = {}
       ELSE UNCHANGED <<working, looped, queue>>
    /\ UNCHANGED <<fence, loaded, tearing, lock, calls, handler, kids, left>>

\* Cleanup drops a manager that has been idle for long.
Cleanup ==
    /\ loaded /\ Entered /\ ~working /\ queue = {} /\ ~wake /\ stop = "none"
    /\ \A k \in Kids : turn[k].pc \notin {"enter", "append"}
    /\ loaded' = FALSE /\ looped' = FALSE
    /\ UNCHANGED <<fence, working, tearing, lock, queue, wake, calls, handler, kids, left>>

-----------------------------------------------------------------------------
(* RunSubagent, as a tool call of the parent's turn.                       *)

\* A recorded prompt is owed a report; a turn that used its one rewriting up
\* keeps its excuse.
Prompted(k, what) ==
    /\ owes' = IF "prompt" \in what THEN owes \cup {k} ELSE owes
    /\ excused' = IF "prompt" \in what /\ turn[k].rewritten = "no" THEN excused \ {k} ELSE excused

Delegate(k) ==
    /\ working /\ looped /\ ~tearing /\ call[k] = "none" /\ Spend("delegate")
    /\ call' = [call EXCEPT ![k] = "resume"] /\ live' = live \cup {k}
    /\ UNCHANGED <<fence, parent, handler, kids>>

DelegateResumes(k) ==
    /\ call[k] = "resume"
    /\ resumeParentCompletions
    /\ call' = [call EXCEPT ![k] = "accept"]
    /\ UNCHANGED <<parent, live, handler, kids, left>>

\* AcceptUserMessage of the subagent; its writes fail once the call's
\* context is cancelled.
DelegateAccepts(k) ==
    /\ call[k] = "accept"
    /\ call' = [call EXCEPT ![k] = "none"] /\ live' = live \ {k}
    /\ \/ /\ k \notin live
          /\ UNCHANGED <<turn, kqueue, owes, excused>>
       \/ /\ k \in live /\ turn[k] = Idle
          /\ turn' = [turn EXCEPT ![k] = Running]
          /\ Prompted(k, {"prompt"})
          /\ UNCHANGED kqueue
       \/ /\ k \in live /\ turn[k] # Idle
          /\ kqueue' = [kqueue EXCEPT ![k] = @ \cup {"prompt"}]
          /\ UNCHANGED <<turn, owes, excused>>
    /\ UNCHANGED <<fence, parent, handler, kwake, job, left>>

-----------------------------------------------------------------------------
(* A subagent's turn.                                                      *)

At(k, pc) == turn[k].pc = pc
Goto(k, pc) == turn' = [turn EXCEPT ![k].pc = pc]

\* The end row marks the subagent idle and wakes the drain of its queue.
EndTurn(k) == turn' = [turn EXCEPT ![k] = Idle] /\ kwake' = kwake \cup {k}

\* The user types into the subagent itself.
UserTypes(k) ==
    /\ Spend("send")
    /\ IF turn[k] = Idle
       THEN turn' = [turn EXCEPT ![k] = Running] /\ UNCHANGED kqueue
       ELSE kqueue' = [kqueue EXCEPT ![k] = @ \cup {"typed"}] /\ UNCHANGED turn
    /\ UNCHANGED <<fence, parent, calls, handler, kwake, owes, job, excused>>

KidTakes(k) ==
    /\ At(k, "turn") /\ kqueue[k] # {}
    /\ Prompted(k, kqueue[k])
    /\ kqueue' = [kqueue EXCEPT ![k] = {}]
    /\ UNCHANGED <<fence, parent, calls, handler, turn, kwake, job, left>>

KidDrains(k) ==
    /\ k \in kwake
    /\ kwake' = kwake \ {k}
    /\ IF turn[k] = Idle /\ kqueue[k] # {}
       THEN /\ Prompted(k, kqueue[k])
            /\ kqueue' = [kqueue EXCEPT ![k] = {}]
            /\ turn' = [turn EXCEPT ![k] = Running]
       ELSE UNCHANGED <<turn, kqueue, owes, excused>>
    /\ UNCHANGED <<fence, parent, calls, handler, job, left>>

StartJob(k) ==
    /\ At(k, "turn") /\ job[k] = "none" /\ Spend("job")
    /\ job' = [job EXCEPT ![k] = "running"]
    /\ UNCHANGED <<fence, parent, calls, handler, turn, kqueue, kwake, owes, excused>>

\* notifyBackgroundJobExit queues the notice, which wakes an idle subagent,
\* and only then stops counting the job.
JobExits(k) ==
    /\ \/ /\ job[k] = "running"
          /\ job' = [job EXCEPT ![k] = "queued"]
          /\ kqueue' = [kqueue EXCEPT ![k] = @ \cup {"notice"}]
          /\ kwake' = IF turn[k] = Idle THEN kwake \cup {k} ELSE kwake
       \/ /\ job[k] = "queued"
          /\ job' = [job EXCEPT ![k] = "none"]
          /\ UNCHANGED <<kqueue, kwake>>
    /\ UNCHANGED <<fence, parent, calls, handler, turn, owes, excused, left>>

-----------------------------------------------------------------------------
(* A reply that would end the turn, and reportUnreportedReply.             *)

\* A reply, or (failTurn) the error that stands for it.  A turn's reply is
\* turned into a report at most once.
KidReplies(k, error) ==
    /\ At(k, "turn")
    /\ IF error THEN Spend("fault") ELSE UNCHANGED left
    /\ IF turn[k].rewritten # "no"
       THEN EndTurn(k)
       ELSE turn' = [turn EXCEPT ![k].pc = "fence", ![k].error = error] /\ UNCHANGED kwake
    /\ UNCHANGED <<fence, parent, calls, handler, kqueue, owes, job, excused>>

\* A reply without text is no report: the turn ends with it as it is.
KidRepliesNothing(k) ==
    /\ At(k, "turn")
    /\ EndTurn(k)
    /\ excused' = excused \cup {k}
    /\ UNCHANGED <<fence, parent, calls, handler, kqueue, owes, job, left>>

\* A call, the report made of a reply, or a result is not recorded: failTurn
\* still ends the turn of an error, and any other dies (handleFatalLoopExit),
\* with nothing to drain its queue.
KidFails(k) ==
    /\ turn[k].pc \in {"turn", "check", "sent", "failed"} /\ Spend("fault")
    /\ turn' = [turn EXCEPT ![k] = Idle]
    /\ kwake' = IF turn[k].error THEN kwake \cup {k} ELSE kwake
    /\ excused' = excused \cup {k}
    /\ UNCHANGED <<fence, parent, calls, handler, kqueue, owes, job>>

\* The reply stays what it is, and ends the turn.
Keep(k) == EndTurn(k) /\ UNCHANGED excused

\* The job still counts, but the turn has taken its notice.
Spent(k) == job[k] = "queued" /\ "notice" \notin kqueue[k]

\* Mutant: the queue is read before the jobs.
CheckQueueFirst(k) ==
    \/ /\ At(k, "fence")
       /\ IF stopped
          THEN EndTurn(k) /\ excused' = excused \cup {k}
          ELSE Goto(k, "queue") /\ UNCHANGED <<kwake, excused>>
    \/ /\ At(k, "queue")
       /\ IF kqueue[k] # {} THEN Keep(k) ELSE Goto(k, "jobs") /\ UNCHANGED <<kwake, excused>>
    \/ /\ At(k, "jobs")
       /\ IF job[k] # "none"
          THEN EndTurn(k) /\ excused' = IF Spent(k) THEN excused \cup {k} ELSE excused
          ELSE Goto(k, "rows") /\ UNCHANGED <<kwake, excused>>
    \/ /\ At(k, "rows")
       /\ IF k \notin owes
          THEN Keep(k)
          ELSE /\ turn' = [turn EXCEPT ![k].pc = "check", ![k].rewritten = "now", ![k].final = TRUE]
               /\ UNCHANGED <<kwake, excused>>

\* The parent's fence, the subagent's jobs, then its queue, then its rows.
CheckReply(k) ==
    \/ /\ At(k, "fence")
       /\ IF stopped
          THEN EndTurn(k) /\ excused' = excused \cup {k}
          ELSE Goto(k, "jobs") /\ UNCHANGED <<kwake, excused>>
    \/ /\ At(k, "jobs")
       /\ IF job[k] # "none"
          THEN EndTurn(k) /\ excused' = IF Spent(k) THEN excused \cup {k} ELSE excused
          ELSE Goto(k, "queue") /\ UNCHANGED <<kwake, excused>>
    \/ /\ At(k, "queue")
       /\ IF kqueue[k] # {} THEN Keep(k) ELSE Goto(k, "rows") /\ UNCHANGED <<kwake, excused>>
    \/ /\ At(k, "rows")
       /\ IF k \notin owes
          THEN Keep(k)
          ELSE /\ turn' = [turn EXCEPT ![k].pc = "check", ![k].rewritten = "now", ![k].final = TRUE]
               /\ UNCHANGED <<kwake, excused>>

\* What a check cannot read keeps the reply as well.
CheckFails(k) ==
    /\ turn[k].pc \in {"fence", "jobs", "queue", "rows"} /\ Spend("fault")
    /\ EndTurn(k)
    /\ excused' = excused \cup {k}

reportUnreportedReply(k) ==
    /\ (CheckReply(k) /\ UNCHANGED left) \/ CheckFails(k)
    /\ UNCHANGED <<fence, parent, calls, handler, kqueue, owes, job>>

-----------------------------------------------------------------------------
(* message_parent.                                                         *)

\* The model calls it itself, to report progress or to end the turn.
KidReports(k, final) ==
    /\ At(k, "turn") /\ Spend("report")
    /\ turn' = [turn EXCEPT ![k].pc = "check", ![k].final = final]
    /\ UNCHANGED <<fence, parent, calls, handler, kqueue, kwake, owes, job, excused>>

\* queueMessageLocked: a subagent's report is refused once Stop has begun.
EnterFenced(k) ==
    /\ At(k, "enter") /\ Entered
    /\ IF stopped
       THEN Goto(k, "failed") /\ UNCHANGED lock
       ELSE Goto(k, "append") /\ lock' = k

messageParent(k) ==
    /\ \/ /\ At(k, "check")
          /\ IF stopped THEN Goto(k, "failed") ELSE Goto(k, "load")
          /\ UNCHANGED <<loaded, lock, queue, wake, left>>
       \/ /\ At(k, "load")
          /\ loaded' = TRUE
          /\ Goto(k, "enter")
          /\ UNCHANGED <<lock, queue, wake, left>>
       \/ /\ EnterFenced(k)
          /\ UNCHANGED <<loaded, queue, wake, left>>
       \/ /\ At(k, "append")       \* AppendQueuedMessage, then drainQueueIfIdle
          /\ lock' = None
          /\ \/ /\ Goto(k, "sent")
                /\ queue' = queue \cup {k}
                /\ wake' = (wake \/ ~working)
                /\ UNCHANGED left
             \/ /\ Goto(k, "failed") /\ Spend("fault")
                /\ UNCHANGED <<queue, wake>>
          /\ UNCHANGED loaded
    /\ UNCHANGED <<fence, working, looped, tearing, calls, handler, kqueue, kwake, owes, job,
                   excused>>

\* executeToolCalls records the result; a report that was sent with end_turn
\* ends the turn, and so does any report failTurn made of an error.
MessageParentReturns(k) ==
    /\ \/ /\ At(k, "sent")
          /\ owes' = IF turn[k].final THEN owes \ {k} ELSE owes
          /\ UNCHANGED excused
       \/ /\ At(k, "failed")
          /\ excused' = IF turn[k].rewritten = "now" THEN excused \cup {k} ELSE excused
          /\ UNCHANGED owes
    /\ IF (At(k, "sent") /\ turn[k].final) \/ turn[k].error
       THEN EndTurn(k)
       ELSE /\ turn' = [turn EXCEPT ![k].pc = "turn",
                     ![k].rewritten = IF @ = "now" THEN "before" ELSE @]
            /\ UNCHANGED kwake
    /\ UNCHANGED <<fence, parent, calls, handler, kqueue, job, left>>

-----------------------------------------------------------------------------
(* Stop.                                                                   *)

\* CancelConversation of a subagent: its queue is cleared, unless that fails,
\* its turn ended, and a report it was sending fails on the cancelled context.
\* The row that ends the turn drains what is left.
CancelKid(k) ==
    /\ turn' = [turn EXCEPT ![k] = Idle]
    /\ \/ kqueue' = [kqueue EXCEPT ![k] = {}]
       \/ UNCHANGED kqueue
    /\ kwake' = kwake \cup {k}
    /\ excused' = excused \cup {k}
    /\ lock' = IF lock = k THEN None ELSE lock
    /\ UNCHANGED <<owes, job>>

\* The user stops the subagent alone.
StopKid(k) ==
    /\ Spend("stop")
    /\ CancelKid(k)
    /\ UNCHANGED <<fence, loaded, working, looped, tearing, queue, wake, calls, handler>>

\* handleCancelConversation raises the fence before it looks the manager up.
StopRaises ==
    /\ stop = "none" /\ Spend("stop")
    /\ stopped' = TRUE /\ stopping' = TRUE
    /\ stop' = "lookup"
    /\ UNCHANGED <<quiet, parent, calls, found, todo, missed, kids>>

StopLooksUp ==
    /\ stop = "lookup"
    /\ found' = loaded /\ missed' = FALSE
    /\ stop' = "cancel"
    /\ UNCHANGED <<fence, parent, calls, todo, kids, left>>

\* The handler goes on to the subagents, or returns the error.
StopGoesOn == stop' = "walk" /\ todo' = Kids
StopFails == stop' = "walk" /\ todo' = {} /\ missed' = TRUE

\* A loop is detached.  Without one the flag and the queue are cleared under
\* the mutex, and without a manager the queue is under none; any of these
\* writes may fail.
StopCancels ==
    /\ stop = "cancel"
    /\ \/ /\ found /\ Entered /\ looped      \* detachLoopLocked
          /\ looped' = FALSE /\ tearing' = TRUE /\ stop' = "clear"
          /\ UNCHANGED <<working, queue, todo, missed>>
       \/ /\ found /\ Entered /\ ~looped
          /\ \/ working' = FALSE /\ queue' = {} /\ missed' = FALSE /\ StopGoesOn
             \/ working' \in {working, FALSE} /\ UNCHANGED queue /\ StopFails
          /\ UNCHANGED <<looped, tearing>>
       \/ /\ ~found
          /\ \/ queue' = {} /\ UNCHANGED missed /\ StopGoesOn
             \/ UNCHANGED queue /\ StopFails
          /\ UNCHANGED <<working, looped, tearing>>
    /\ UNCHANGED <<fence, loaded, lock, wake, calls, found, kids, left>>

\* The teardown: ClearQueuedMessages, whose failure is only logged; the
\* loop's context is cancelled, and the loop ends, after a second also if a
\* tool call has not returned; the row that ends the turn marks the parent
\* idle and drains what is left.
StopTearsDown ==
    /\ \/ /\ stop = "clear"
          /\ \/ queue' = {} /\ missed' = FALSE
             \/ UNCHANGED queue /\ missed' = TRUE
          /\ stop' = "halt"
          /\ UNCHANGED <<working, tearing, wake, live, todo>>
       \/ /\ stop = "halt"
          /\ live' = {} /\ stop' = "finish"
          /\ UNCHANGED <<queue, missed, working, tearing, wake, todo>>
       \/ /\ stop = "finish" /\ lock = None
          /\ tearing' = FALSE
          /\ \/ working' = FALSE /\ wake' = TRUE /\ UNCHANGED missed /\ StopGoesOn
             \/ UNCHANGED <<working, wake>> /\ StopFails
          /\ UNCHANGED <<queue, live>>
    /\ UNCHANGED <<fence, loaded, looped, lock, call, found, kids, left>>

\* cancelSubagentTree: only subagents that work are cancelled.
StopVisits(k) ==
    /\ stop = "walk" /\ k \in todo
    /\ todo' = todo \ {k}
    /\ IF turn[k] = Idle THEN UNCHANGED <<kids, lock>> ELSE CancelKid(k)
    /\ UNCHANGED <<fence, loaded, working, looped, tearing, queue, wake, calls, stop, found, missed,
                   left>>

\* The deferred part: the fence stays closed, but new work may reopen it.
StopReturns ==
    /\ stop = "walk" /\ todo = {}
    /\ stop' = "none"
    /\ stopped' = TRUE /\ stopping' = FALSE
    /\ quiet' = ~missed
    /\ UNCHANGED <<parent, calls, found, todo, missed, kids, left>>

-----------------------------------------------------------------------------
StopSteps == StopRaises \/ StopLooksUp \/ StopCancels \/ StopTearsDown \/ StopReturns

KidSteps(k) ==
    \/ UserTypes(k) \/ KidTakes(k) \/ KidDrains(k)
    \/ StartJob(k) \/ JobExits(k)
    \/ \E error \in BOOLEAN : KidReplies(k, error)
    \/ KidRepliesNothing(k) \/ KidFails(k)
    \/ reportUnreportedReply(k)
    \/ \E final \in BOOLEAN : KidReports(k, final)
    \/ messageParent(k) \/ MessageParentReturns(k)
    \/ StopKid(k) \/ StopVisits(k)

Next ==
    \/ UserSends \/ UserResumes \/ takeInjectable \/ ParentTurnEnds \/ ParentFails
    \/ drainPendingMessages \/ Cleanup
    \/ StopSteps
    \/ \E k \in Kids : Delegate(k) \/ DelegateResumes(k) \/ DelegateAccepts(k) \/ KidSteps(k)

Spec == Init /\ [][Next]_vars

-----------------------------------------------------------------------------
\* "A report arriving first is cleared by Stop; one arriving later sees the
\* stopped parent" (handleCancelConversation): once a Stop that cleared the
\* queue has returned without an error, no report waits in it and none has
\* started a turn, until the user sends something or a subagent call reopens
\* the fence; whatever prompts, reports and turns were under way when Stop
\* began.  Where the clear fails, which Stop only logs, a report that arrived
\* first is drained by the row that ends the turn.
StaysStopped == quiet => stopped /\ ~working /\ queue = {}

\* "When the parent would otherwise never hear it" (reportUnreportedReply), no
\* sooner and no less: while a reply is sent as the final report, no job and
\* no job's notice will wake the subagent again; and one that is idle with
\* nothing to wake it has reported on the parent's last prompt, unless it or
\* the parent was stopped, it ended with a reply without text or in the middle
\* of a turn it could not record, a check could not be read, the one report
\* made of its reply failed, or the reply was kept for a job whose notice the
\* turn had already taken.
ReportedWhenDue ==
    \A k \in Kids :
        /\ turn[k].rewritten = "now"
           => job[k] = "none" /\ "notice" \notin kqueue[k]
        /\ turn[k] = Idle /\ kqueue[k] = {} /\ job[k] = "none" /\ k \in owes
           => k \in excused
=============================================================================
