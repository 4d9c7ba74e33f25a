------------------------------ MODULE TurnEnds ------------------------------
(***************************************************************************)
(* Background jobs of one conversation, the notices that report their      *)
(* exits, and the announcement of turn ends, which waits until the         *)
(* conversation is idle.  Several goroutines settle announcements at once, *)
(* reading jobs, conversation and loop one after the other without a lock. *)
(* Job rows and the queue are durable; the process can stop and start.     *)
(***************************************************************************)
EXTENDS Naturals, Sequences, FiniteSets

CONSTANTS
    Jobs,       \* background jobs
    Settlers,   \* goroutines that may settle at the same time
    Announcer,  \* the one that runs inside the end of a turn
    User,       \* a message typed by the user
    None,
    Limits      \* how often each external event may happen

Events == {"send", "restart", "fail", "stop"}

ASSUME TurnEndsAssumption ==
    /\ Announcer \in Settlers
    /\ User \notin Jobs /\ None \notin Jobs \cup {User}
    /\ Limits \in [Events -> Nat]

VARIABLES
    job,          \* background_jobs: "none", "running", "exited" or "notified"
    proc,         \* the job's process: "none", "live" or "dead"
    watch,        \* a goroutine waits for the process
    due,          \* scheduled notifyBackgroundJobExit calls
    queued,       \* those whose notice is queued and not yet marked
    working,      \* conversations.agent_working
    queue,        \* conversations.queued_messages
    serving,      \* the process runs
    loaded,       \* the conversation has a manager
    mem,          \* the manager's agentWorking
    loop,         \* "none", "idle", "turn", "ending" or "announcing"
    handed,       \* the loop will run a turn it has not started yet
    wake,         \* a drain of the queue is on its way
    undrainable,  \* the queued message that could not start a turn
    owed,         \* owedTurnEnds: the sequence number of the turn end, or 0
    settler,      \* where each settling goroutine is and what it has read
    seq,          \* history: turn ends so far
    sent,         \* history: announced turn ends, in order
    noticed,      \* history: notices of each job queued by this process
    gaveUp,       \* history: jobs that failed to be watched, reported or noticed in this process
    sawIdle,      \* history: settlers that were checking while nothing was pending
    left          \* what remains of Limits

durable == <<job, proc, working, queue>>
manager == <<loaded, mem, loop, handed, wake, undrainable>>
jobWork == <<watch, due, queued>>
history == <<seq, sent, noticed, gaveUp, left>>
vars == <<durable, serving, manager, jobWork, owed, settler, history, sawIdle>>

Spend(e) == left[e] > 0 /\ left' = [left EXCEPT ![e] = @ - 1]

-----------------------------------------------------------------------------
(* The checks of willWorkAgain.                                            *)

\* CountUnfinishedBackgroundJobs: until its notice is queued and marked.
Unfinished == \E j \in Jobs : job[j] \in {"running", "exited"}

\* The queue of a loaded conversation drains unless its head failed to start.
Drainable(q) == q # <<>> /\ loaded /\ undrainable # Head(q)

\* What the conversation still has to do.
Pending == Unfinished \/ working \/ handed \/ Drainable(queue)

-----------------------------------------------------------------------------
(* Settling: takeOwedTurnEnd.                                              *)

AtRest == [pc |-> "rest", owed |-> 0, queue |-> <<>>]
Start == [AtRest EXCEPT !.pc = "start"]

\* Part of every step: which settlers have been checking at a moment when
\* nothing was pending.
Observe ==
    sawIdle' = {t \in Settlers :
        /\ settler'[t].pc \notin {"rest", "start"}
        /\ t \in sawIdle \/ ~Pending'}

\* Mutant: the conversation is read before the delegated work.
SettleJobsLast(t) ==
    \/ /\ settler[t].pc = "jobs"
       /\ settler' = [settler EXCEPT ![t] =
             IF working THEN AtRest ELSE [@ EXCEPT !.pc = "loop", !.queue = queue]]
       /\ UNCHANGED <<owed, sent>>
    \/ /\ settler[t].pc = "loop"
       /\ settler' = [settler EXCEPT ![t] =
             IF Unfinished \/ handed \/ Drainable(@.queue) THEN AtRest ELSE [@ EXCEPT !.pc = "drop"]]
       /\ UNCHANGED <<owed, sent>>

SettleStarts(t) ==
    /\ settler[t].pc = "start"
    /\ settler' = [settler EXCEPT ![t] =
          IF owed = 0 THEN AtRest ELSE [@ EXCEPT !.pc = "jobs", !.owed = owed]]
    /\ UNCHANGED <<owed, sent>>

\* willWorkAgain: delegated work, then the conversation, then the loop.
willWorkAgain(t) ==
    \/ /\ settler[t].pc = "jobs"
       /\ settler' = [settler EXCEPT ![t] = IF Unfinished THEN AtRest ELSE [@ EXCEPT !.pc = "conv"]]
       /\ UNCHANGED <<owed, sent>>
    \/ /\ settler[t].pc = "conv"
       /\ settler' = [settler EXCEPT ![t] =
             IF working THEN AtRest ELSE [@ EXCEPT !.pc = "loop", !.queue = queue]]
       /\ UNCHANGED <<owed, sent>>
    \/ /\ settler[t].pc = "loop"
       /\ settler' = [settler EXCEPT ![t] =
             IF handed \/ Drainable(@.queue) THEN AtRest ELSE [@ EXCEPT !.pc = "drop"]]
       /\ UNCHANGED <<owed, sent>>

\* Mutant: whatever was owed is forgotten and sent.
DropUnchecked(t) ==
    /\ settler[t].pc = "drop"
    /\ settler' = [settler EXCEPT ![t] = AtRest]
    /\ owed' = 0
    /\ sent' = Append(sent, settler[t].owed)

\* dropOwedTurnEnd compares and deletes under the mutex; then it is sent.
dropOwedTurnEnd(t) ==
    /\ settler[t].pc = "drop"
    /\ settler' = [settler EXCEPT ![t] = AtRest]
    /\ IF owed = settler[t].owed
       THEN owed' = 0 /\ sent' = Append(sent, owed)
       ELSE UNCHANGED <<owed, sent>>

takeOwedTurnEnd(t) ==
    /\ serving
    /\ SettleStarts(t) \/ willWorkAgain(t) \/ dropOwedTurnEnd(t)
    /\ UNCHANGED <<durable, serving, manager, jobWork, seq, noticed, gaveUp, left>>
    /\ Observe

Begin(S) ==
    /\ \A t \in S : settler[t].pc = "rest"
    /\ settler' = [t \in Settlers |-> IF t \in S THEN Start ELSE settler[t]]

\* settleTurnEnds in a goroutine of its own, or at the end of a handler.
settleTurnEnds == \E t \in Settlers \ {Announcer} : Begin({t})

\* setAgentWorking(false) owes the turn end when the flag changes, before
\* anything checks for pending work.
OweTurnEnd ==
    /\ seq' = IF mem THEN seq + 1 ELSE seq
    /\ owed' = IF mem THEN seq + 1 ELSE owed

announceTurnEnd == OweTurnEnd /\ Begin({t \in {Announcer} : mem})

-----------------------------------------------------------------------------
Init ==
    /\ job = [j \in Jobs |-> "none"] /\ proc = [j \in Jobs |-> "none"]
    /\ watch = [j \in Jobs |-> FALSE]
    /\ due = [j \in Jobs |-> 0] /\ queued = [j \in Jobs |-> 0]
    /\ working = FALSE /\ queue = <<>>
    /\ serving = TRUE /\ loaded = FALSE /\ mem = FALSE
    /\ loop = "none" /\ handed = FALSE /\ wake = FALSE /\ undrainable = None
    /\ owed = 0 /\ settler = [t \in Settlers |-> AtRest]
    /\ seq = 0 /\ sent = <<>> /\ noticed = [j \in Jobs |-> 0] /\ gaveUp = {}
    /\ sawIdle = {} /\ left = Limits

(* Jobs.                                                                   *)

\* recordBackgroundJob and watchBackgroundJob, from a tool call of a turn.
Background(j) ==
    /\ loop = "turn" /\ job[j] = "none"
    /\ job' = [job EXCEPT ![j] = "running"]
    /\ proc' = [proc EXCEPT ![j] = "live"]
    /\ watch' = [watch EXCEPT ![j] = TRUE]
    /\ UNCHANGED <<working, queue, serving, manager, due, queued, owed, settler, history>>
    /\ Observe

\* The command ends, or Kill ends it; the server may be down.
ProcessExits(j) ==
    /\ proc[j] = "live"
    /\ proc' = [proc EXCEPT ![j] = "dead"]
    /\ UNCHANGED <<job, working, queue, serving, manager, jobWork, owed, settler, history>>
    /\ Observe

\* MarkBackgroundJobExited: only the caller that changes the row notifies.
MarkBackgroundJobExited(j) ==
    /\ job' = [job EXCEPT ![j] = IF @ = "running" THEN "exited" ELSE @]
    /\ due' = [due EXCEPT ![j] = IF job[j] = "running" THEN @ + 1 ELSE @]

reportBackgroundJobExit(j) ==
    /\ serving /\ watch[j] /\ proc[j] = "dead"
    /\ watch' = [watch EXCEPT ![j] = FALSE]
    /\ MarkBackgroundJobExited(j)
    /\ UNCHANGED <<proc, working, queue, serving, manager, queued, owed, settler, history>>
    /\ Observe

ReportFails(j) ==
    /\ serving /\ watch[j] /\ proc[j] = "dead"
    /\ Spend("fail")
    /\ watch' = [watch EXCEPT ![j] = FALSE]
    /\ gaveUp' = gaveUp \cup {j}
    /\ UNCHANGED <<durable, serving, manager, due, queued, owed, settler, seq, sent, noticed>>
    /\ Observe

\* The user's Kill finds the process gone and reports it now.
handleKillBackgroundJob(j) ==
    /\ serving /\ job[j] = "running" /\ proc[j] = "dead"
    /\ MarkBackgroundJobExited(j)
    /\ UNCHANGED <<proc, working, queue, serving, manager, watch, queued, owed, settler, history>>
    /\ Observe

\* InjectMessage: append, wake the drain of an idle conversation, settle.
queueMessage(m) ==
    /\ queue' = Append(queue, m)
    /\ loaded' = TRUE
    /\ mem' = IF loaded THEN mem ELSE working
    /\ wake' = (wake \/ ~mem')
    /\ undrainable' = IF mem' THEN undrainable ELSE None
    /\ settleTurnEnds

deliverBackgroundJobNotice(j) ==
    /\ serving /\ due[j] > 0
    /\ queueMessage(j)
    /\ due' = [due EXCEPT ![j] = @ - 1]
    /\ queued' = [queued EXCEPT ![j] = @ + 1]
    /\ noticed' = [noticed EXCEPT ![j] = @ + 1]
    /\ UNCHANGED <<job, proc, working, serving, loop, handed, watch, owed, seq, sent, gaveUp, left>>
    /\ Observe

NoticeFails(j) ==
    /\ serving
    /\ Spend("fail")
    /\ \/ /\ due[j] > 0
          /\ due' = [due EXCEPT ![j] = @ - 1]
          /\ UNCHANGED queued
       \/ /\ queued[j] > 0
          /\ queued' = [queued EXCEPT ![j] = @ - 1]
          /\ UNCHANGED due
    /\ gaveUp' = gaveUp \cup {j}
    /\ UNCHANGED <<durable, serving, manager, watch, owed, settler, seq, sent, noticed>>
    /\ Observe

MarkBackgroundJobNotified(j) ==
    /\ serving /\ queued[j] > 0
    /\ job' = [job EXCEPT ![j] = "notified"]
    /\ queued' = [queued EXCEPT ![j] = @ - 1]
    /\ settleTurnEnds
    /\ UNCHANGED <<proc, working, queue, serving, manager, watch, due, owed, history>>
    /\ Observe

-----------------------------------------------------------------------------
(* Turns.                                                                  *)

\* The transaction that records a turn's first row marks it working; the flag
\* in memory follows and forgets what was owed; the loop gets the turn.
StartTurn ==
    /\ working' = TRUE /\ mem' = TRUE
    /\ owed' = 0
    /\ undrainable' = None
    /\ handed' = TRUE
    /\ loop' = IF loop = "none" THEN "idle" ELSE loop

\* AcceptUserMessage starts a turn, or queues while one runs.
AcceptUserMessage ==
    /\ serving
    /\ Spend("send")
    /\ \/ /\ ~(mem /\ loop # "none")
          /\ StartTurn
          /\ loaded' = TRUE
          /\ UNCHANGED <<queue, wake, settler>>
       \/ /\ mem /\ loop # "none"
          /\ queueMessage(User)
          /\ UNCHANGED <<working, loop, handed, owed>>
    /\ UNCHANGED <<job, proc, serving, jobWork, seq, sent, noticed, gaveUp>>
    /\ Observe

LoopStartsTurn ==
    /\ loop = "idle" /\ handed
    /\ loop' = "turn" /\ handed' = FALSE
    /\ UNCHANGED <<durable, serving, loaded, mem, wake, undrainable, jobWork, owed, settler, history>>
    /\ Observe

\* The running turn records the queued messages at its next request.
takeInjectable ==
    /\ loop = "turn" /\ queue # <<>>
    /\ queue' = <<>>
    /\ UNCHANGED <<job, proc, working, serving, manager, jobWork, owed, settler, history>>
    /\ Observe

\* The end row and agent_working are one transaction, the memory flag follows.
EndRowCommits ==
    /\ loop = "turn"
    /\ working' = FALSE
    /\ loop' = "ending"
    /\ UNCHANGED <<job, proc, queue, serving, loaded, mem, handed, wake, undrainable, jobWork,
                   owed, settler, history>>
    /\ Observe

syncAgentWorking ==
    /\ loop = "ending"
    /\ announceTurnEnd
    /\ mem' = FALSE
    /\ loop' = "announcing"
    /\ UNCHANGED <<durable, serving, loaded, handed, wake, undrainable, jobWork,
                   sent, noticed, gaveUp, left>>
    /\ Observe

\* After the announcement, notifySubscribers wakes the drain.
notifySubscribers ==
    /\ loop = "announcing" /\ settler[Announcer].pc = "rest"
    /\ loop' = "idle"
    /\ wake' = TRUE
    /\ UNCHANGED <<durable, serving, loaded, mem, handed, undrainable, jobWork, owed, settler, history>>
    /\ Observe

\* It cannot read the conversation and returns: no drain.
NotifyFails ==
    /\ loop = "announcing" /\ settler[Announcer].pc = "rest"
    /\ Spend("fail")
    /\ loop' = "idle"
    /\ UNCHANGED <<durable, serving, loaded, mem, handed, wake, undrainable, jobWork, owed, settler,
                   seq, sent, noticed, gaveUp>>
    /\ Observe

\* drainPendingMessages: nothing to do, a turn for the whole queue, or a failure.
DrainRests ==
    /\ serving /\ wake /\ (mem \/ queue = <<>>)
    /\ wake' = FALSE
    /\ UNCHANGED <<durable, serving, loaded, mem, loop, handed, undrainable, jobWork, owed, settler, history>>
    /\ Observe

DrainStartsTurn ==
    /\ serving /\ wake /\ ~mem /\ queue # <<>>
    /\ StartTurn
    /\ queue' = <<>>
    /\ wake' = FALSE
    /\ UNCHANGED <<job, proc, serving, loaded, jobWork, settler, history>>
    /\ Observe

\* markUndrainable, then settle: nothing drains this message before the user acts.
DrainFails ==
    /\ serving /\ wake /\ ~mem /\ queue # <<>>
    /\ Spend("fail")
    /\ wake' = FALSE
    /\ undrainable' = Head(queue)
    /\ settleTurnEnds
    /\ UNCHANGED <<durable, serving, loaded, mem, loop, handed, jobWork, owed,
                   seq, sent, noticed, gaveUp>>
    /\ Observe

\* handleFatalLoopExit: the turn records no end, so nothing wakes the drain.
handleFatalLoopExit ==
    /\ loop = "turn"
    /\ Spend("fail")
    /\ announceTurnEnd
    /\ loop' = "none" /\ working' = FALSE /\ mem' = FALSE
    /\ undrainable' = IF queue = <<>> THEN undrainable ELSE Head(queue)
    /\ UNCHANGED <<job, proc, queue, serving, loaded, handed, wake, jobWork, sent, noticed, gaveUp>>
    /\ Observe

\* Stop: the queue is cleared and the turn ended, which announces it and wakes
\* the drain; the handler settles last, for a turn end that waited on the queue.
CancelConversation ==
    /\ serving /\ loop \in {"none", "idle", "turn"}
    /\ Spend("stop")
    /\ queue' = <<>>
    /\ OweTurnEnd
    /\ \E t \in Settlers \ {Announcer} : Begin({t} \cup {a \in {Announcer} : mem})
    /\ wake' = (wake \/ loop # "none")
    /\ loop' = "none" /\ handed' = FALSE /\ working' = FALSE /\ mem' = FALSE
    /\ UNCHANGED <<job, proc, serving, loaded, undrainable, jobWork, sent, noticed, gaveUp>>
    /\ Observe

\* The user clears the queue.
CancelQueuedMessages ==
    /\ serving
    /\ Spend("stop")
    /\ queue' = <<>>
    /\ settleTurnEnds
    /\ UNCHANGED <<job, proc, working, serving, manager, jobWork, owed, seq, sent, noticed, gaveUp>>
    /\ Observe

\* Mutant: the evicted conversation's announcement is not looked at again.
CleanupUnsettled ==
    /\ serving /\ loaded /\ ~mem /\ ~wake /\ ~handed /\ loop \in {"none", "idle"}
    /\ loaded' = FALSE /\ loop' = "none" /\ undrainable' = None
    /\ UNCHANGED <<durable, serving, mem, handed, wake, jobWork, owed, settler, history>>
    /\ Observe

\* The 30-minute eviction of an idle manager; nothing drains its queue now.
Cleanup ==
    /\ serving /\ loaded /\ ~mem /\ ~wake /\ ~handed /\ loop \in {"none", "idle"}
    /\ loaded' = FALSE /\ loop' = "none" /\ undrainable' = None
    /\ settleTurnEnds
    /\ UNCHANGED <<durable, serving, mem, handed, wake, jobWork, owed, history>>
    /\ Observe

-----------------------------------------------------------------------------
(* The process.                                                            *)

Die ==
    /\ serving
    /\ Spend("restart")
    /\ serving' = FALSE /\ loaded' = FALSE /\ mem' = FALSE
    /\ loop' = "none" /\ handed' = FALSE /\ wake' = FALSE /\ undrainable' = None
    /\ watch' = [j \in Jobs |-> FALSE]
    /\ due' = [j \in Jobs |-> 0] /\ queued' = [j \in Jobs |-> 0]
    /\ owed' = 0 /\ settler' = [t \in Settlers |-> AtRest]
    /\ noticed' = [j \in Jobs |-> 0] /\ gaveUp' = {}
    /\ UNCHANGED <<durable, seq, sent>>
    /\ Observe

\* Mutant: a job recorded as exited counts as finished.
RecoverRunningOnly(lost) ==
    /\ watch' = [j \in Jobs |-> job[j] = "running" /\ j \notin lost]
    /\ gaveUp' = lost
    /\ due' = due

\* ListUnfinishedBackgroundJobs: exited ones are reported, the others watched.
recoverBackgroundJobs(lost) ==
    /\ watch' = [j \in Jobs |-> job[j] = "running" /\ j \notin lost]
    /\ due' = [j \in Jobs |-> IF job[j] = "exited" /\ j \notin lost THEN 1 ELSE 0]
    /\ gaveUp' = lost

JobsIn(S) == {j \in Jobs : job[j] \in S}

\* Startup ends the turns of the old process (module Recovery).  It serves also
\* if it could not list the jobs, or not watch some (Exited).
StartServing ==
    /\ ~serving
    /\ serving' = TRUE
    /\ working' = FALSE
    /\ \/ recoverBackgroundJobs({}) /\ UNCHANGED left
       \/ /\ Spend("fail")
          /\ \E lost \in {JobsIn({"running", "exited"})} \cup SUBSET JobsIn({"running"}) :
                lost # {} /\ recoverBackgroundJobs(lost)
    /\ UNCHANGED <<job, proc, queue, manager, queued, owed, settler, seq, sent, noticed>>
    /\ Observe

-----------------------------------------------------------------------------
JobStep(j) ==
    \/ reportBackgroundJobExit(j)
    \/ deliverBackgroundJobNotice(j)
    \/ MarkBackgroundJobNotified(j)

Drain == DrainRests \/ DrainStartsTurn

LoopStep == LoopStartsTurn \/ syncAgentWorking \/ notifySubscribers

Next ==
    \/ \E j \in Jobs :
          \/ Background(j) \/ ProcessExits(j)
          \/ JobStep(j) \/ ReportFails(j) \/ NoticeFails(j)
          \/ handleKillBackgroundJob(j)
    \/ \E t \in Settlers : takeOwedTurnEnd(t)
    \/ AcceptUserMessage
    \/ LoopStep \/ takeInjectable \/ EndRowCommits \/ NotifyFails
    \/ Drain \/ DrainFails
    \/ handleFatalLoopExit \/ CancelConversation \/ CancelQueuedMessages \/ Cleanup
    \/ Die \/ StartServing

Spec == Init /\ [][Next]_vars

\* Goroutines run, the eviction timer ticks, and a stopped server is started.
\* Nothing makes a job or a turn end, or a user act.
FairSpec ==
    /\ Spec
    /\ \A j \in Jobs : WF_vars(JobStep(j))
    /\ \A t \in Settlers : WF_vars(takeOwedTurnEnd(t))
    /\ WF_vars(LoopStep)
    /\ WF_vars(Drain)
    /\ WF_vars(Cleanup)
    /\ WF_vars(StartServing)

-----------------------------------------------------------------------------
(* Properties.                                                             *)

\* Every variable has its type.
TypeOK ==
    /\ job \in [Jobs -> {"none", "running", "exited", "notified"}]
    /\ proc \in [Jobs -> {"none", "live", "dead"}]
    /\ watch \in [Jobs -> BOOLEAN]
    /\ due \in [Jobs -> Nat] /\ queued \in [Jobs -> Nat] /\ noticed \in [Jobs -> Nat]
    /\ {working, serving, loaded, mem, handed, wake} \subseteq BOOLEAN
    /\ queue \in Seq(Jobs \cup {User})
    /\ loop \in {"none", "idle", "turn", "ending", "announcing"}
    /\ undrainable \in Jobs \cup {User, None}
    /\ owed \in Nat /\ seq \in Nat /\ sent \in Seq(Nat)
    /\ settler \in [Settlers -> [pc : {"rest", "start", "jobs", "conv", "loop", "drop"},
                                  owed : Nat, queue : Seq(Jobs \cup {User})]]
    /\ gaveUp \subseteq Jobs /\ sawIdle \subseteq Settlers
    /\ left \in [Events -> Nat]

\* However many goroutines settle at once, a turn end is announced at most once
\* and never after a later one (dropOwedTurnEnd); and a process reports a job's
\* exit once, although the watcher and the user's Kill may both see it.
AnnouncedOnce ==
    /\ \A i, k \in DOMAIN sent : i < k => sent[i] < sent[k]
    /\ \A j \in Jobs : noticed[j] <= 1

\* "Only an idle conversation is announced": a goroutine announces only if at
\* some moment of its check nothing was pending, although it reads jobs,
\* conversation and loop one by one while notices move between them.
NoFalseFinish ==
    [][\A t \in Settlers :
         settler[t].pc = "drop" /\ settler[t].owed = owed /\ owed' = 0 /\ sent' # sent =>
             t \in sawIdle]_vars

\* The exit of a recorded job is reported to its conversation, across restarts,
\* unless it could not be listed, watched or written in this process (the next
\* start retries).
JobReported ==
    \A j \in Jobs :
        proc[j] = "dead" /\ job[j] \in {"running", "exited"}
            ~> job[j] = "notified" \/ j \in gaveUp

\* An announcement does not stay owed by a conversation in which nothing is
\* going to happen: no turn, job, drain or settling goroutine is left.
OwedSettles ==
    []<>(\/ owed = 0
         \/ Unfinished \/ working \/ mem \/ handed \/ wake
         \/ \E t \in Settlers : settler[t].pc # "rest")

=============================================================================
