---------------------------- MODULE Conversation ----------------------------
(***************************************************************************)
(* One ConversationManager (server/convo.go) and the agent loops it        *)
(* starts (loop/loop.go, loop/run.go): how a message is accepted, queued,  *)
(* drained or injected, how a turn starts and ends, and how a loop is      *)
(* cancelled, reset or replaced.                                           *)
(*                                                                         *)
(* Concurrent actors: request handlers under loopLifecycleMu (one holder   *)
(* at a time, lock), the drain goroutine, the owner of a teardown (which   *)
(* gives the mutex up while it waits), one goroutine per loop, and SetCwd  *)
(* (which does not take loopLifecycleMu).  A step is a transaction or a    *)
(* critical section of cm.mu or l.mu.                                      *)
(***************************************************************************)
EXTENDS Integers, Sequences

CONSTANTS Msgs,     \* user messages
          None,     \* no message
          MaxGen,   \* bound: loopGeneration
          Limits    \* bounds: how often each of Events may happen

Events == {"round", "error", "stop", "reset", "fault", "flag", "nudge", "expire",
           "move"}

ASSUME NoneAssumption == None \notin Msgs
ASSUME MaxGenAssumption == MaxGen \in Nat
ASSUME LimitsAssumption == Limits \in [Events -> Nat]

Gens == 1..MaxGen

VARIABLES
  \* The database.
  rows,            \* messages, in sequence order
  queue,           \* conversations.queued_messages
  dbWorking,       \* conversations.agent_working
  \* ConversationManager.
  agentWorking,
  loop,            \* generation of the installed loop; 0: cm.loop is nil
  gen,             \* loopGeneration
  lastRetried,     \* lastRetriedErrorMessageID, as a row number
  \* Who holds loopLifecycleMu, at which point, with which message.
  lock, arg, fresh,
  \* The open teardown: point, purpose, the detached loop and its boundary.
  tear, why, victim, boundary,
  \* drainPendingMessages: goroutines on their way to it, and the owner.
  wakes, drainer, drainRequested, batch,
  mover,           \* SetCwd
  loops,           \* the loops, by generation
  \* Bookkeeping of the model.
  sent,            \* messages a client has sent
  left             \* what is left of Limits

dbVars == <<rows, queue, dbWorking>>
installVars == <<loop, gen>>
lockVars == <<lock, arg, fresh>>
tearVars == <<tear, why, victim, boundary>>
drainVars == <<drainer, drainRequested, batch>>
vars == <<dbVars, agentWorking, installVars, lastRetried, lockVars, tearVars,
          wakes, drainVars, mover, loops, sent, left>>

-----------------------------------------------------------------------------
EndKinds == {"reply", "marker", "error", "refusal", "truncated", "stopped", "interrupted"}
Kinds == EndKinds \cup {"user", "use", "result", "notice"}
Rows == [kind : Kinds, msg : Msgs \cup {None}]
Row(k) == [kind |-> k, msg |-> None]
UserRow(m) == [kind |-> "user", msg |-> m]
Items == [msg : Msgs, inject : BOOLEAN]

(* The entries of s that are in S, in their order.                         *)
Filter(s, S) ==
  LET kept[n \in 0..Len(s)] ==
        IF n = 0 THEN <<>>
        ELSE IF s[n] \in S THEN Append(kept[n - 1], s[n]) ELSE kept[n - 1]
  IN  kept[Len(s)]

(* compactedContext drops error rows, ListMessagesForContext the excluded  *)
(* end-of-turn marker; partitionMessages keeps the rest.                   *)
InContext(r) == r.kind \notin {"error", "refusal", "truncated", "marker"}
ContextRows == {r \in Rows : InContext(r)}
Context(s) == Filter(s, ContextRows)

(* Loop.appendContext keeps the truncation error.                          *)
Mirrored(r) == InContext(r) \/ r.kind = "truncated"

(* late is bookkeeping of the model: a notice of a move was looking for a  *)
(* loop to append it to while this one was being built.                    *)
PCs == {"none", "loaded", "top", "wait", "start", "pending", "request", "tools",
        "marker", "ending", "ended", "fatal", "dead"}
Loops == [pc : PCs, ctx : {"live", "cancelled", "expired"},
          messageQueue : Seq(Rows), history : Seq(Rows),
          retryPending : BOOLEAN, notify : BOOLEAN, last : Rows, late : BOOLEAN]

NewLoop(h) ==
  [pc |-> "top", ctx |-> "live", messageQueue |-> <<>>, history |-> h,
   retryPending |-> FALSE, notify |-> FALSE, last |-> Row("reply"), late |-> FALSE]
LoadedLoop(h) == [NewLoop(h) EXCEPT !.pc = "loaded"]
NoLoop == [NewLoop(<<>>) EXCEPT !.pc = "none"]
DeadLoop == [NewLoop(<<>>) EXCEPT !.pc = "dead"]

TypeOK ==
  /\ rows \in Seq(Rows)
  /\ queue \in Seq(Items)
  /\ dbWorking \in BOOLEAN
  /\ agentWorking \in BOOLEAN
  /\ loop \in Gens \cup {0}
  /\ gen \in 0..MaxGen
  /\ lastRetried \in Nat
  /\ lock \in {"free", "install", "record", "hand", "poke", "drain"}
  /\ arg \in Msgs \cup {None}
  /\ fresh \in BOOLEAN
  /\ tear \in {"none", "clear", "stop", "wait"}
  /\ why \in {"none", "cancel", "send", "reset", "discard"}
  /\ victim \in Gens \cup {0}
  /\ boundary \in 0..MaxGen
  /\ wakes \in Nat
  /\ drainer \in {"idle", "lock", "look", "install", "record", "finish"}
  /\ drainRequested \in BOOLEAN
  /\ batch \in Seq(Rows)
  /\ mover \in {"idle", "record", "append"}
  /\ loops \in [Gens -> Loops]
  /\ sent \subseteq Msgs
  /\ left \in [Events -> Nat]

Init ==
  /\ rows = <<>> /\ queue = <<>> /\ dbWorking = FALSE
  /\ agentWorking = FALSE /\ loop = 0 /\ gen = 0 /\ lastRetried = 0
  /\ lock = "free" /\ arg = None /\ fresh = FALSE
  /\ tear = "none" /\ why = "none" /\ victim = 0 /\ boundary = 0
  /\ wakes = 0 /\ drainer = "idle" /\ drainRequested = FALSE /\ batch = <<>>
  /\ mover = "idle"
  /\ loops = [g \in Gens |-> NoLoop]
  /\ sent = {} /\ left = Limits

-----------------------------------------------------------------------------
Spend(events) ==
  /\ \A e \in events : left[e] > 0
  /\ left' = [e \in Events |-> IF e \in events THEN left[e] - 1 ELSE left[e]]

(* loopLifecycleMu.Lock and waitForLoopTeardownLocked.                     *)
Entered == lock = "free" /\ tear = "none"

(* setAgentWorking(w, persist TRUE): returns early if nothing changes, and *)
(* only logs a write that is lost.                                         *)
SetAgentWorking(w, lost) ==
  /\ lost => agentWorking # w
  /\ agentWorking' = w
  /\ dbWorking' = IF lost \/ agentWorking = w THEN dbWorking ELSE w
Lost(lost) == IF lost THEN {"flag"} ELSE {}

(* isCurrentLoopGeneration.                                                *)
Current(g) == tear = "none" /\ loop # 0 /\ gen = g

(* ensureLoopLocked, without a loop: the history of the next generation is *)
(* read from the database, ...                                             *)
LoadHistory ==
  /\ loop = 0 /\ gen < MaxGen
  /\ loops' = [loops EXCEPT ![gen + 1] = LoadedLoop(Context(rows))]

(* ... and the loop built on it is installed later, under cm.mu.           *)
InstallLoop ==
  /\ gen' = gen + 1 /\ loop' = gen + 1
  /\ loops' = [loops EXCEPT ![gen + 1].pc = "top"]

(* detachLoopLocked: from here on the teardown boundary is open.           *)
Detach(purpose, point) ==
  /\ gen < MaxGen
  /\ gen' = gen + 1
  /\ loop' = 0
  /\ victim' = loop
  /\ boundary' = gen + 1
  /\ why' = purpose
  /\ tear' = point

(* Mutant: the waiting loop is not notified.                               *)
HandQuietly(messages) ==
  loops' = IF messages = <<>> THEN loops
           ELSE [loops EXCEPT ![loop].messageQueue = @ \o messages]

(* Loop.QueueTurn, QueueMessages: a full notify channel is left as it is.  *)
Hand(messages) ==
  loops' = IF messages = <<>> THEN loops
           ELSE [loops EXCEPT ![loop].messageQueue = @ \o messages,
                              ![loop].notify = TRUE]

-----------------------------------------------------------------------------
(* AcceptUserMessage while a turn runs: the message is queued for it.      *)
AcceptQueues(m) ==
  /\ Entered /\ m \notin sent
  /\ agentWorking /\ loop # 0
  /\ sent' = sent \cup {m}
  /\ queue' = Append(queue, [msg |-> m, inject |-> TRUE])
  /\ lock' = "poke"
  /\ UNCHANGED <<rows, dbWorking, agentWorking, installVars, lastRetried, arg, fresh,
                 tearVars, wakes, drainVars, mover, loops, left>>

(* Otherwise it starts a turn: the flag is reserved before the write.  (A  *)
(* flag without a loop is stale.)                                          *)
AcceptStarts(m) ==
  /\ Entered /\ m \notin sent
  /\ sent' = sent \cup {m}
  /\ arg' = m /\ fresh' = (loop = 0)
  /\ \/ loop # 0 /\ ~agentWorking /\ agentWorking' = TRUE /\ lock' = "record" /\ UNCHANGED loops
     \/ LoadHistory /\ lock' = "install" /\ UNCHANGED agentWorking
  /\ UNCHANGED <<dbVars, installVars, lastRetried, tearVars, wakes, drainVars, mover, left>>

AcceptInstalls ==
  /\ lock = "install"
  /\ InstallLoop
  /\ agentWorking' = TRUE
  /\ lock' = "record"
  /\ UNCHANGED <<dbVars, lastRetried, arg, fresh, tearVars, wakes, drainVars, mover, sent,
                 left>>

(* Mutant: the row alone, agent_working is left for later.                 *)
RecordTurnStartUnflagged ==
  /\ lock = "record"
  /\ rows' = Append(rows, UserRow(arg))
  /\ agentWorking' = TRUE
  /\ lock' = "hand"
  /\ UNCHANGED <<queue, dbWorking, installVars, lastRetried, arg, fresh, tearVars, wakes,
                 drainVars, mover, loops, sent, left>>

(* recordTurnStartMessage: row and agent_working in one transaction.       *)
RecordTurnStart ==
  /\ lock = "record"
  /\ rows' = Append(rows, UserRow(arg))
  /\ dbWorking' = TRUE /\ agentWorking' = TRUE
  /\ lock' = "hand"
  /\ UNCHANGED <<queue, installVars, lastRetried, arg, fresh, tearVars, wakes,
                 drainVars, mover, loops, sent, left>>

(* The write fails: rejectTurnStart, and discardUnstartedLoopLocked if the *)
(* loop was built for this turn.                                           *)
RejectTurnStart(lost) ==
  /\ lock = "record" /\ Spend({"fault"} \cup Lost(lost))
  /\ SetAgentWorking(FALSE, lost)
  /\ wakes' = wakes + 1
  /\ lock' = "free"
  /\ IF fresh THEN Detach("discard", "stop") ELSE UNCHANGED <<installVars, tearVars>>
  /\ UNCHANGED <<rows, queue, lastRetried, arg, fresh, drainVars, mover, loops, sent>>

QueueTurn ==
  /\ lock = "hand"
  /\ Hand(<<UserRow(arg)>>)
  /\ lock' = "free"
  /\ UNCHANGED <<dbVars, agentWorking, installVars, lastRetried, arg, fresh, tearVars,
                 wakes, drainVars, mover, sent, left>>

(* QueueMessage, InjectMessage: append, then drainQueueIfIdle.             *)
QueueMessage(m, inject) ==
  /\ Entered /\ m \notin sent
  /\ sent' = sent \cup {m}
  /\ queue' = Append(queue, [msg |-> m, inject |-> inject])
  /\ lock' = "poke"
  /\ UNCHANGED <<rows, dbWorking, agentWorking, installVars, lastRetried, arg, fresh,
                 tearVars, wakes, drainVars, mover, loops, left>>

DrainQueueIfIdle ==
  /\ lock = "poke"
  /\ wakes' = IF agentWorking THEN wakes ELSE wakes + 1
  /\ lock' = "free"
  /\ UNCHANGED <<dbVars, agentWorking, installVars, lastRetried, arg, fresh, tearVars,
                 drainVars, mover, loops, sent, left>>

CancelQueuedMessages ==
  /\ Entered /\ queue # <<>>
  /\ queue' = <<>>
  /\ UNCHANGED <<rows, dbWorking, agentWorking, installVars, lastRetried, lockVars,
                 tearVars, wakes, drainVars, mover, loops, sent, left>>

CancelQueuedMessage(m) ==
  /\ Entered
  /\ \E k \in DOMAIN queue : queue[k].msg = m
  /\ queue' = Filter(queue, {q \in Items : q.msg # m})
  /\ lock' = "poke"
  /\ UNCHANGED <<rows, dbWorking, agentWorking, installVars, lastRetried, arg, fresh,
                 tearVars, wakes, drainVars, mover, loops, sent, left>>

(* RetryLastLLMRequest: the last row is a retryable error, and not one     *)
(* that was retried before.                                                *)
RetryLastLLMRequest(lost) ==
  /\ Entered /\ loop # 0 /\ ~agentWorking
  /\ rows # <<>> /\ rows[Len(rows)].kind = "error"
  /\ lastRetried # Len(rows)
  /\ lastRetried' = Len(rows)
  /\ SetAgentWorking(TRUE, lost) /\ Spend(Lost(lost))
  /\ loops' = [loops EXCEPT ![loop].retryPending = TRUE, ![loop].notify = TRUE]
  /\ UNCHANGED <<rows, queue, installVars, lockVars, tearVars, wakes, drainVars, mover,
                 sent>>

-----------------------------------------------------------------------------
(* beginPendingDrain: become the owner, or ask the owner for another pass. *)
BeginPendingDrain ==
  /\ wakes > 0
  /\ wakes' = wakes - 1
  /\ IF drainer = "idle"
     THEN drainer' = "lock" /\ UNCHANGED drainRequested
     ELSE drainRequested' = TRUE /\ UNCHANGED drainer
  /\ UNCHANGED <<dbVars, agentWorking, installVars, lastRetried, lockVars, tearVars,
                 batch, mover, loops, sent, left>>

DrainEnter ==
  /\ drainer = "lock" /\ Entered
  /\ lock' = "drain" /\ drainer' = "look"
  /\ UNCHANGED <<dbVars, agentWorking, installVars, lastRetried, arg, fresh, tearVars,
                 wakes, drainRequested, batch, mover, loops, sent, left>>

(* drainPendingMessagesOwned: a running turn holds the queue back; and     *)
(* feedQueued can fail before it records anything.                         *)
DrainLeave ==
  /\ drainer = "look"
  /\ \/ (agentWorking \/ queue = <<>>) /\ UNCHANGED left
     \/ ~agentWorking /\ queue # <<>> /\ Spend({"fault"})
  /\ lock' = "free" /\ drainer' = "finish"
  /\ UNCHANGED <<dbVars, agentWorking, installVars, lastRetried, arg, fresh, tearVars,
                 wakes, drainRequested, batch, mover, loops, sent>>

DrainStart ==
  /\ drainer = "look" /\ ~agentWorking /\ queue # <<>>
  /\ \/ loop # 0 /\ drainer' = "record" /\ UNCHANGED loops
     \/ LoadHistory /\ drainer' = "install"
  /\ batch' = <<>>
  /\ UNCHANGED <<dbVars, agentWorking, installVars, lastRetried, lockVars, tearVars, wakes,
                 drainRequested, mover, sent, left>>

DrainInstalls ==
  /\ drainer = "install"
  /\ InstallLoop
  /\ drainer' = "record"
  /\ UNCHANGED <<dbVars, agentWorking, lastRetried, lockVars, tearVars, wakes,
                 drainRequested, batch, mover, sent, left>>

(* Mutant: the queue is rewritten in a later transaction, which can fail.  *)
DrainRecordTwice ==
  /\ drainer = "record" /\ queue # <<>>
  /\ rows' = Append(rows, UserRow(Head(queue).msg))
  /\ batch' = Append(batch, UserRow(Head(queue).msg))
  /\ \/ queue' = Tail(queue) /\ UNCHANGED left
     \/ Spend({"fault"}) /\ UNCHANGED queue
  /\ dbWorking' = TRUE /\ agentWorking' = TRUE
  /\ UNCHANGED <<installVars, lastRetried, lockVars, tearVars, wakes, drainer,
                 drainRequested, mover, loops, sent>>

(* recordQueued: row, queue and agent_working in one transaction.          *)
DrainRecord ==
  /\ drainer = "record" /\ queue # <<>>
  /\ rows' = Append(rows, UserRow(Head(queue).msg))
  /\ batch' = Append(batch, UserRow(Head(queue).msg))
  /\ queue' = Tail(queue)
  /\ dbWorking' = TRUE /\ agentWorking' = TRUE
  /\ UNCHANGED <<installVars, lastRetried, lockVars, tearVars, wakes, drainer,
                 drainRequested, mover, loops, sent, left>>

(* Mutant: the error returns before the hand-over.                         *)
DrainRecordFailsEarly ==
  /\ drainer = "record" /\ queue # <<>> /\ Spend({"fault"})
  /\ lock' = "free" /\ drainer' = "finish" /\ batch' = <<>>
  /\ UNCHANGED <<dbVars, agentWorking, installVars, lastRetried, arg, fresh, tearVars,
                 wakes, drainRequested, mover, loops, sent>>

(* An item fails: what was recorded before it is handed over all the same. *)
DrainRecordFails ==
  /\ drainer = "record" /\ queue # <<>> /\ Spend({"fault"})
  /\ Hand(batch)
  /\ lock' = "free" /\ drainer' = "finish" /\ batch' = <<>>
  /\ UNCHANGED <<dbVars, agentWorking, installVars, lastRetried, arg, fresh, tearVars,
                 wakes, drainRequested, mover, sent>>

DrainHand ==
  /\ drainer = "record" /\ queue = <<>>
  /\ Hand(batch)
  /\ drainer' = "look" /\ batch' = <<>>
  /\ UNCHANGED <<dbVars, agentWorking, installVars, lastRetried, lockVars, tearVars,
                 wakes, drainRequested, mover, sent, left>>

(* Mutant: a wake-up that came during the pass is forgotten.               *)
FinishPendingDrainPassOnce ==
  /\ drainer = "finish"
  /\ drainer' = "idle"
  /\ drainRequested' = FALSE
  /\ UNCHANGED <<dbVars, agentWorking, installVars, lastRetried, lockVars, tearVars,
                 wakes, batch, mover, loops, sent, left>>

FinishPendingDrainPass ==
  /\ drainer = "finish"
  /\ drainer' = IF drainRequested THEN "lock" ELSE "idle"
  /\ drainRequested' = FALSE
  /\ UNCHANGED <<dbVars, agentWorking, installVars, lastRetried, lockVars, tearVars,
                 wakes, batch, mover, loops, sent, left>>

-----------------------------------------------------------------------------
(* cancelConversation with clearQueued (the Stop button).                  *)
CancelConversation ==
  /\ Entered /\ Spend({"stop"})
  /\ IF loop = 0
     THEN /\ agentWorking' = FALSE /\ dbWorking' = FALSE   \* ClearConversationRuntimeState
          /\ queue' = <<>>
          /\ UNCHANGED <<installVars, tearVars>>
     ELSE /\ Detach("cancel", "clear")
          /\ UNCHANGED <<agentWorking, dbWorking, queue>>
  /\ UNCHANGED <<rows, lastRetried, lockVars, wakes, drainVars, mover, loops, sent>>

(* Without a loop: agent_working is cleared, then clearing the queue fails. *)
CancelIdleFails ==
  /\ Entered /\ loop = 0 /\ Spend({"fault"})
  /\ agentWorking' = FALSE /\ dbWorking' = FALSE
  /\ UNCHANGED <<rows, queue, installVars, lastRetried, lockVars, tearVars, wakes, drainVars,
                 mover, loops, sent>>

(* SendQueuedNow: cancelConversation without clearQueued, then a drain.    *)
SendQueuedNow ==
  /\ Entered /\ queue # <<>> /\ Spend({"stop"})
  /\ IF agentWorking /\ loop # 0
     THEN /\ Detach("send", "stop")
          /\ UNCHANGED <<agentWorking, dbWorking, wakes>>
     ELSE /\ agentWorking' = FALSE
          /\ dbWorking' = (dbWorking /\ ~agentWorking)
          /\ wakes' = wakes + 1
          /\ UNCHANGED <<installVars, tearVars>>
  /\ UNCHANGED <<rows, queue, lastRetried, lockVars, drainVars, mover, loops, sent>>

(* resetLoopAfter, when its mutate does not refuse (some refuse a working  *)
(* conversation), and stopLoop, which looks at nothing.                    *)
ResetLoop ==
  /\ Entered /\ loop # 0 /\ Spend({"reset"})
  /\ Detach("reset", "stop")
  /\ UNCHANGED <<dbVars, agentWorking, lastRetried, lockVars, wakes, drainVars, mover,
                 loops, sent>>

(* Without the mutex: CancelConversation clears the queue (it only logs a  *)
(* failure) ...                                                            *)
TeardownClears ==
  /\ tear = "clear"
  /\ \/ queue' = <<>> /\ UNCHANGED left
     \/ Spend({"fault"}) /\ UNCHANGED queue
  /\ tear' = "stop"
  /\ UNCHANGED <<rows, dbWorking, agentWorking, installVars, lastRetried, lockVars, why,
                 victim, boundary, wakes, drainVars, mover, loops, sent>>

(* ... and detachedLoop.stop cancels the context and waits for the loop.   *)
TeardownStops ==
  /\ tear = "stop"
  /\ loops' = [loops EXCEPT ![victim].ctx = IF @ = "live" THEN "cancelled" ELSE @]
  /\ tear' = "wait"
  /\ UNCHANGED <<dbVars, agentWorking, installVars, lastRetried, lockVars, why, victim,
                 boundary, wakes, drainVars, mover, sent, left>>

(* Mutant: the loop is cancelled and not waited for.                       *)
JoinedEarly == tear = "wait" /\ lock = "free"

Joined == tear = "wait" /\ loops[victim].pc = "dead" /\ lock = "free"

(* finishLoopTeardownLocked.                                               *)
CloseBoundary ==
  /\ tear' = IF gen = boundary THEN "none" ELSE tear
  /\ UNCHANGED <<why, victim, boundary>>

TeardownCloses ==
  /\ Joined /\ why \in {"reset", "discard"}
  /\ CloseBoundary
  /\ UNCHANGED <<dbVars, agentWorking, installVars, lastRetried, lockVars, wakes,
                 drainVars, mover, loops, sent, left>>

(* A cancellation records the end of the turn before it closes.            *)
TeardownRecords ==
  /\ Joined /\ why \in {"cancel", "send"}
  /\ rows' = Append(rows, Row(IF why = "cancel" THEN "stopped" ELSE "interrupted"))
  /\ dbWorking' = FALSE /\ agentWorking' = FALSE
  /\ wakes' = IF why = "cancel" THEN wakes + 1 ELSE wakes + 2
  /\ CloseBoundary
  /\ UNCHANGED <<queue, installVars, lastRetried, lockVars, drainVars, mover, loops, sent,
                 left>>

TeardownRecordFails ==
  /\ Joined /\ why \in {"cancel", "send"} /\ Spend({"fault"})
  /\ CloseBoundary
  /\ UNCHANGED <<dbVars, agentWorking, installVars, lastRetried, lockVars, wakes,
                 drainVars, mover, loops, sent>>

-----------------------------------------------------------------------------
(* SetCwd, under cwdMu: it looks at agentWorking once, then records the    *)
(* notice and splices it into the live loop.                               *)
SetCwd ==
  /\ mover = "idle" /\ ~agentWorking /\ Spend({"move"})
  /\ mover' = "record"
  /\ UNCHANGED <<dbVars, agentWorking, installVars, lastRetried, lockVars, tearVars, wakes,
                 drainVars, loops, sent>>

RecordCwdChangeNotice ==
  /\ mover = "record"
  /\ rows' = Append(rows, Row("notice"))
  /\ mover' = "append"
  /\ UNCHANGED <<queue, dbWorking, agentWorking, installVars, lastRetried, lockVars,
                 tearVars, wakes, drainVars, loops, sent, left>>

(* The move stands although its notice was not written.                    *)
NoticeFails ==
  /\ mover = "record" /\ Spend({"fault"})
  /\ mover' = "idle"
  /\ UNCHANGED <<dbVars, agentWorking, installVars, lastRetried, lockVars, tearVars, wakes,
                 drainVars, loops, sent>>

(* Into the installed loop; one that is being built does not get it.       *)
Spliced ==
  IF loop # 0 THEN [loops EXCEPT ![loop].history = Append(@, Row("notice"))]
  ELSE IF gen < MaxGen /\ loops[gen + 1].pc = "loaded"
       THEN [loops EXCEPT ![gen + 1].late = TRUE]
       ELSE loops

(* Mutant: a working agent is left alone.                                  *)
AppendHistoryIfIdle ==
  /\ mover = "append"
  /\ loops' = IF agentWorking THEN loops ELSE Spliced
  /\ mover' = "idle"
  /\ UNCHANGED <<dbVars, agentWorking, installVars, lastRetried, lockVars, tearVars, wakes,
                 drainVars, sent, left>>

AppendHistory ==
  /\ mover = "append"
  /\ loops' = Spliced
  /\ mover' = "idle"
  /\ UNCHANGED <<dbVars, agentWorking, installVars, lastRetried, lockVars, tearVars, wakes,
                 drainVars, sent, left>>

-----------------------------------------------------------------------------
(* The goroutine of loop g.  Most steps change only the loop itself.       *)
At(g, pc) == loops[g].pc = pc
Live(g) == loops[g].ctx = "live"
Running(g) == loops[g].pc \notin {"none", "loaded", "dead"}
Goto(g, pc) == loops' = [loops EXCEPT ![g].pc = pc]
Exit(g) == loops' = [loops EXCEPT ![g] = DeadLoop]
OnlyLoop == UNCHANGED <<dbVars, agentWorking, installVars, lastRetried, lockVars, tearVars,
                        wakes, drainVars, mover, sent>>
ManagerUnchanged == UNCHANGED <<installVars, lastRetried, lockVars, tearVars, drainVars,
                                mover, sent>>

(* Loop.Go, at the top and while it waits.                                 *)
LoopStops(g) ==
  /\ At(g, "top") \/ At(g, "wait")
  /\ ~Live(g)
  /\ Exit(g) /\ OnlyLoop /\ UNCHANGED left

LoopTakes(g) ==
  /\ At(g, "top") /\ Live(g)
  /\ loops[g].messageQueue # <<>> \/ loops[g].retryPending
  /\ loops' = [loops EXCEPT ![g].history = @ \o loops[g].messageQueue,
                            ![g].messageQueue = <<>>, ![g].retryPending = FALSE,
                            ![g].pc = "start"]
  /\ OnlyLoop /\ UNCHANGED left

LoopRests(g) ==
  /\ At(g, "top") /\ Live(g)
  /\ loops[g].messageQueue = <<>> /\ ~loops[g].retryPending
  /\ Goto(g, "wait") /\ OnlyLoop /\ UNCHANGED left

LoopWakes(g) ==
  /\ At(g, "wait") /\ loops[g].notify
  /\ loops' = [loops EXCEPT ![g].notify = FALSE, ![g].pc = "top"]
  /\ OnlyLoop /\ UNCHANGED left

(* OnTurnStart: under the mutex, but it does not wait for a teardown.      *)
OnTurnStart(g, lost) ==
  /\ At(g, "start") /\ lock = "free"
  /\ IF Current(g) /\ ~agentWorking
     THEN SetAgentWorking(TRUE, lost) /\ Spend(Lost(lost))
     ELSE ~lost /\ UNCHANGED <<agentWorking, dbWorking, left>>
  /\ Goto(g, "pending")
  /\ ManagerUnchanged /\ UNCHANGED <<rows, queue, wakes>>

(* takeInjectable, before every model request: the queued messages a       *)
(* running turn accepts are recorded in order; one whose write fails stays *)
(* queued.  Each write marks the agent working.                            *)
Taken(failed) == {q \in Items : q.inject /\ q.msg # failed}
Injected(failed) ==
  LET taken == Filter(queue, Taken(failed))
  IN  [k \in DOMAIN taken |-> UserRow(taken[k].msg)]
RecordInjected(failed) ==
  /\ rows' = rows \o Injected(failed)
  /\ queue' = Filter(queue, Items \ Taken(failed))
  /\ IF Injected(failed) = <<>> THEN UNCHANGED <<agentWorking, dbWorking>>
     ELSE agentWorking' = TRUE /\ dbWorking' = TRUE

TakeInjectable(g, failed) ==
  /\ At(g, "pending") /\ lock = "free" /\ Current(g)
  /\ IF failed = None THEN UNCHANGED left
     ELSE (\E k \in DOMAIN queue : queue[k].msg = failed /\ queue[k].inject) /\ Spend({"fault"})
  /\ RecordInjected(failed)
  /\ loops' = [loops EXCEPT ![g].history = @ \o Injected(failed), ![g].pc = "request"]
  /\ ManagerUnchanged /\ UNCHANGED wakes

(* A loop that is being torn down takes nothing.                           *)
TakeNothing(g) ==
  /\ At(g, "pending") /\ lock = "free"
  /\ ~Current(g)
  /\ Goto(g, "request") /\ OnlyLoop /\ UNCHANGED left

(* The context nudge after the injections cannot be recorded: what was     *)
(* injected is not appended, Run returns an error, Go waits for a message. *)
PendingFails(g) ==
  /\ At(g, "pending") /\ lock = "free" /\ Current(g) /\ Spend({"nudge"})
  /\ RecordInjected(None)
  /\ Goto(g, "top")
  /\ ManagerUnchanged /\ UNCHANGED wakes

(* The response asks for tools: recorded even if the context ends now.     *)
RecordToolUse(g) ==
  /\ At(g, "request") /\ Live(g) /\ Spend({"round"})
  /\ rows' = Append(rows, Row("use"))
  /\ loops' = [loops EXCEPT ![g].history = Append(@, Row("use")), ![g].pc = "tools"]
  /\ ManagerUnchanged /\ UNCHANGED <<queue, dbWorking, agentWorking, wakes>>

(* errMessagePersistence, for a tool call, its result or the marker.       *)
PersistenceFails(g) ==
  /\ (At(g, "request") /\ Live(g)) \/ At(g, "tools") \/ At(g, "marker")
  /\ Spend({"fault"})
  /\ Goto(g, "fatal") /\ OnlyLoop

(* A response with tool calls, or an error, under a cancelled context.     *)
RequestAborted(g) ==
  /\ At(g, "request")
  /\ loops[g].ctx = "cancelled"
  /\ Exit(g) /\ OnlyLoop /\ UNCHANGED left

(* A tool call that arrives as the deadline passes.                        *)
RequestExpired(g) ==
  /\ At(g, "request")
  /\ loops[g].ctx = "expired"
  /\ Exit(g) /\ OnlyLoop /\ UNCHANGED left

(* The row that ends the turn: row and agent_working in one transaction.   *)
RecordEnd(g, kind) ==
  /\ rows' = Append(rows, Row(kind))
  /\ dbWorking' = FALSE
  /\ loops' = [loops EXCEPT ![g].last = Row(kind), ![g].pc = "ending"]
  /\ ManagerUnchanged /\ UNCHANGED <<queue, agentWorking, wakes>>

(* The final reply, written with the loop's own context.                   *)
RecordReply(g) ==
  /\ At(g, "request") /\ Live(g)
  /\ RecordEnd(g, "reply") /\ UNCHANGED left

(* failTurn: a failed request (also past the deadline, but not when it was *)
(* cancelled), a refusal or a truncated response; written whatever the     *)
(* context.                                                                *)
FailTurn(g, kind) ==
  /\ At(g, "request") /\ (kind = "error" => loops[g].ctx # "cancelled")
  /\ IF loops[g].ctx = "expired" /\ kind = "error" THEN UNCHANGED left ELSE Spend({"error"})
  /\ RecordEnd(g, kind)

(* emitResponse's error is ignored: the turn is over without an end row.   *)
EndUnrecorded(g) ==
  /\ At(g, "request")
  /\ IF Live(g) THEN Spend({"fault"}) ELSE UNCHANGED left
  /\ Goto(g, "top") /\ OnlyLoop

(* Mutant: the results of a cancelled batch are not recorded.              *)
RecordToolResultsIfLive(g, endsTurn) ==
  /\ At(g, "tools")
  /\ IF Live(g)
     THEN /\ rows' = Append(rows, Row("result"))
          /\ loops' = [loops EXCEPT ![g].history = Append(@, Row("result")),
                                    ![g].pc = IF endsTurn THEN "marker" ELSE "pending"]
     ELSE Exit(g) /\ UNCHANGED rows
  /\ ManagerUnchanged /\ UNCHANGED <<queue, dbWorking, agentWorking, wakes, left>>

(* executeToolCalls ends with one row for the whole batch, cancelled or    *)
(* not; a tool may end the turn.                                           *)
RecordToolResults(g, endsTurn) ==
  /\ At(g, "tools")
  /\ rows' = Append(rows, Row("result"))
  /\ IF Live(g)
     THEN loops' = [loops EXCEPT ![g].history = Append(@, Row("result")),
                                 ![g].pc = IF endsTurn THEN "marker" ELSE "pending"]
     ELSE Exit(g)
  /\ ManagerUnchanged /\ UNCHANGED <<queue, dbWorking, agentWorking, wakes, left>>

RecordMarker(g) ==
  /\ At(g, "marker")
  /\ RecordEnd(g, "marker") /\ UNCHANGED left

(* insertMessages, after the commit of an end row: syncAgentWorking(FALSE) *)
(* and the notification that starts a drain.                               *)
SyncIdle(g) ==
  /\ At(g, "ending")
  /\ agentWorking' = FALSE
  /\ wakes' = wakes + 1
  /\ Goto(g, "ended")
  /\ ManagerUnchanged /\ UNCHANGED <<dbVars, left>>

(* Loop.appendContext, then Run returns.                                   *)
MirrorEnd(g) ==
  /\ At(g, "ended")
  /\ loops' = [loops EXCEPT ![g].history = IF Mirrored(loops[g].last)
                                           THEN Append(@, loops[g].last) ELSE @,
                            ![g].pc = "top"]
  /\ OnlyLoop /\ UNCHANGED left

(* Mutant: agent_working is cleared in memory only.                        *)
HandleFatalLoopExitInMemory(g, lost) ==
  /\ At(g, "fatal") /\ lock = "free" /\ ~lost
  /\ IF loop = g /\ gen = g
     THEN /\ gen < MaxGen /\ gen' = gen + 1
          /\ loop' = 0
          /\ agentWorking' = FALSE
     ELSE UNCHANGED <<installVars, agentWorking>>
  /\ Exit(g)
  /\ UNCHANGED <<dbVars, lastRetried, lockVars, tearVars, wakes, drainVars, mover, sent,
                 left>>

HandleFatalLoopExit(g, lost) ==
  /\ At(g, "fatal") /\ lock = "free"
  /\ IF loop = g /\ gen = g
     THEN /\ gen < MaxGen /\ gen' = gen + 1
          /\ loop' = 0
          /\ SetAgentWorking(FALSE, lost) /\ Spend(Lost(lost))
     ELSE ~lost /\ UNCHANGED <<installVars, agentWorking, dbWorking, left>>
  /\ Exit(g)
  /\ UNCHANGED <<rows, queue, lastRetried, lockVars, tearVars, wakes, drainVars, mover,
                 sent>>

(* The loop's context has a deadline, 12 hours after the loop was built.   *)
Expire(g) ==
  /\ Running(g) /\ Live(g) /\ Spend({"expire"})
  /\ loops' = [loops EXCEPT ![g].ctx = "expired"]
  /\ OnlyLoop

-----------------------------------------------------------------------------
Requests ==
  \/ \E m \in Msgs : AcceptQueues(m) \/ AcceptStarts(m) \/ CancelQueuedMessage(m)
  \/ \E m \in Msgs, inject \in BOOLEAN : QueueMessage(m, inject)
  \/ \E lost \in BOOLEAN : RetryLastLLMRequest(lost)
  \/ CancelQueuedMessages \/ CancelConversation \/ CancelIdleFails \/ SendQueuedNow
  \/ ResetLoop \/ SetCwd

(* A request under way, the drain, a teardown: each goes on by itself.     *)
Holder == AcceptInstalls \/ RecordTurnStart \/ (\E lost \in BOOLEAN : RejectTurnStart(lost))
          \/ QueueTurn \/ DrainQueueIfIdle
Drain == BeginPendingDrain \/ DrainEnter \/ DrainLeave \/ DrainStart \/ DrainInstalls
         \/ DrainRecord \/ DrainRecordFails \/ DrainHand \/ FinishPendingDrainPass
Teardown == TeardownClears \/ TeardownStops \/ TeardownCloses \/ TeardownRecords
            \/ TeardownRecordFails
Notice == RecordCwdChangeNotice \/ NoticeFails \/ AppendHistory
Run(g) ==
  \/ LoopStops(g) \/ LoopTakes(g) \/ LoopRests(g) \/ LoopWakes(g)
  \/ \E lost \in BOOLEAN : OnTurnStart(g, lost) \/ HandleFatalLoopExit(g, lost)
  \/ \E failed \in Msgs \cup {None} : TakeInjectable(g, failed)
  \/ TakeNothing(g) \/ PendingFails(g) \/ RecordToolUse(g) \/ PersistenceFails(g)
  \/ RequestAborted(g) \/ RequestExpired(g) \/ RecordReply(g)
  \/ \E kind \in {"error", "refusal", "truncated"} : FailTurn(g, kind)
  \/ EndUnrecorded(g)
  \/ \E endsTurn \in BOOLEAN : RecordToolResults(g, endsTurn)
  \/ RecordMarker(g) \/ SyncIdle(g) \/ MirrorEnd(g)

Next == Requests \/ Holder \/ Drain \/ Teardown \/ Notice
        \/ \E g \in Gens : Run(g) \/ Expire(g)

Spec == Init /\ [][Next]_vars

(* Goroutines that can run do, a model request ends (Run bounds it with    *)
(* stallTimeout and maxRequestDuration) and a tool returns.                *)
FairSpec ==
  /\ Spec
  /\ WF_vars(Holder) /\ WF_vars(Drain) /\ WF_vars(Teardown) /\ WF_vars(Notice)
  /\ \A g \in Gens : WF_vars(Run(g))

-----------------------------------------------------------------------------
MidTurn(g) == loops[g].pc \in {"pending", "request", "tools", "marker"}
Queued(m) == \E k \in DOMAIN queue : queue[k].msg = m
Recorded(m) == UserRow(m) \in {rows[i] : i \in DOMAIN rows}

(* One agent goroutine per conversation: a loop that runs is the installed *)
(* one or the one the open teardown waits for, never both and never a      *)
(* third (detachLoopLocked, waitForLoopTeardownLocked).                    *)
OneLoop ==
  /\ \A g \in Gens : Running(g) => g = loop \/ (tear # "none" /\ g = victim)
  /\ tear # "none" => loop = 0

(* A client's message is in the queue or in the transcript, at most once,  *)
(* whatever drain, injection, cancellation and failed writes do; and a     *)
(* loop is handed only what is recorded.                                   *)
ExactlyOnce ==
  /\ \A i, j \in DOMAIN rows : rows[i].kind = "user" /\ rows[i] = rows[j] => i = j
  /\ \A i, j \in DOMAIN queue : queue[i].msg = queue[j].msg => i = j
  /\ \A m \in Msgs : ~(Queued(m) /\ Recorded(m))
  /\ \A g \in Gens : \A k \in DOMAIN loops[g].messageQueue :
       loops[g].messageQueue[k] \in {rows[i] : i \in DOMAIN rows}

(* processLLMRequest: "every message Run records is mirrored into the      *)
(* in-memory history".  The live loop's context is what a loop rebuilt     *)
(* from the database would start with (ensureLoopLocked), but for the      *)
(* truncation errors it keeps: its history, the end row it still has to    *)
(* append and its queued turn are the transcript's context rows, in order. *)
HistoryMatches ==
  lock = "free" /\ loop # 0 =>
    LET l == loops[loop]
        owed == IF l.pc \in {"ending", "ended"} /\ Mirrored(l.last) THEN <<l.last>> ELSE <<>>
        whole == l.history \o owed \o l.messageQueue
    IN  l.pc # "dead" => Context(whole) = Context(rows)

(* While the installed loop is inside a turn, the manager says the agent   *)
(* is working, and so does the database unless a write of the flag alone   *)
(* was lost (setAgentWorking only logs that).                              *)
FlagWritten == left["flag"] = Limits["flag"]
TurnIsWorking ==
  loop # 0 /\ MidTurn(loop) => agentWorking /\ (FlagWritten => dbWorking)

(* The flag in memory and the one in the database agree whenever no        *)
(* request, teardown or end-of-turn write is under way and no write of the *)
(* flag alone was lost (SetAgentWorking returns early when the memory flag *)
(* does not change, so a divergence would stay).                           *)
FlagsAgree ==
  /\ FlagWritten
  /\ lock = "free" /\ tear = "none"
  /\ \A g \in Gens : ~At(g, "ending")
  => agentWorking = dbWorking

(* Every recorded tool call is followed by its results before anything     *)
(* else is recorded, cancelled turns included, unless a write failed.      *)
ToolPairs ==
  left["fault"] = Limits["fault"] =>
    /\ \A i \in 1..(Len(rows) - 1) : rows[i].kind = "use" => rows[i + 1].kind = "result"
    /\ rows # <<>> /\ rows[Len(rows)].kind = "use" => \E g \in Gens : At(g, "tools")

(* AcceptUserMessage "starts a turn with message, recording it first": a   *)
(* recorded message is eventually followed by the row that ends its turn.  *)
Answered ==
  \A m \in Msgs :
    Recorded(m) ~> \E i, j \in DOMAIN rows :
                     i < j /\ rows[i] = UserRow(m) /\ rows[j].kind \in EndKinds

(* Nothing stays in the queue: each item is eventually recorded or         *)
(* cancelled, although drains are started by wake-ups that overlap.        *)
QueueDrains == \A m \in Msgs : Queued(m) ~> ~Queued(m)

(* A recorded cwd notice is never missing from the live loop's context,    *)
(* whichever of SetCwd and a turn start, a teardown or an exit comes       *)
(* first -- unless the loop was built while SetCwd looked for one to       *)
(* append it to: ensureLoopLocked had read the history already, and        *)
(* installs the loop without the notice.                                   *)
NoticeKnown ==
  LET noticed(s) == \E i \in DOMAIN s : s[i].kind = "notice"
      l == loops[loop]
  IN  mover = "idle" /\ loop # 0 /\ noticed(rows) /\ Running(loop) => noticed(l.history) \/ l.late

=============================================================================
