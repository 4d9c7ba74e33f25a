----------------------------- MODULE ToolBatch -----------------------------
(***************************************************************************)
(* The tool rounds of one run of the agent loop: each request is repaired  *)
(* so that calls and results pair up, the calls of the response run in     *)
(* groups delimited by change_dir with one worker goroutine per call, and  *)
(* the results are recorded together.  The user may cancel at any moment.  *)
(***************************************************************************)
EXTENDS Naturals, SequencesExt

CONSTANTS
    Kinds,       \* the kinds of call the model may make
    Histories,   \* the histories a run may begin with
    MaxContext   \* bound: messages plus calls of the next response

AllKinds == {"cd", "cd_abs", "say", "say_end", "bash", "compact", "unknown"}

ASSUME ToolBatchAssumption == Kinds \subseteq AllKinds /\ MaxContext \in Nat

\* A call is identified by its message and its place there.
CallIds == Nat \X Nat

\* Messages as they are recorded: only an assistant calls tools, only the user
\* side has results, and nothing is made up.
Recorded ==
    {m \in [role : {"user", "assistant"}, text : {"none", "said"},
            calls : SUBSET CallIds, results : SUBSET CallIds, made : {{}}] :
        IF m.role = "user" THEN m.calls = {} ELSE m.results = {}}

ASSUME HistoriesAssumption == \A ms \in Histories : ms \in Seq(Recorded)

VARIABLES
    messages,   \* the run's conversation
    request,    \* the messages of the last request
    phase,      \* "request", "response", "group", "barrier", "running" or "done"
    calls,      \* the kinds of the calls of the response
    first,      \* the group is calls[first..last-1]
    last,
    run,        \* read once at the barrier: the group may run
    failed,     \* directoryFailed
    worker,     \* "none", "ready", "waiting" or "done"
    tool,       \* the tool's goroutine: "none", "running" or "returned"
    out,        \* what it put in its result channel
    result,     \* toolResults
    dir,        \* the change_dir of this batch the directory is from, or 0
    cancelled   \* ctx.Err() # nil

batch == <<calls, first, last, run, failed, worker, tool, out, result>>
vars == <<messages, request, phase, batch, dir, cancelled>>

-----------------------------------------------------------------------------
(* Messages.                                                               *)

Message(role, text, uses, results, made) ==
    [role |-> role, text |-> text, calls |-> uses, results |-> results, made |-> made]

Empty(m) == m.text = "none" /\ m.calls = {} /\ m.results = {} /\ m.made = {}

(* insertMissingToolResults.                                               *)

\* The calls a user message has to answer: those of the assistant message
\* right before it.
PrevCalls(ms, i) ==
    IF i > 1 /\ ms[i-1].role = "assistant" THEN ms[i-1].calls ELSE {}

\* An empty assistant message gets a placeholder, unless it is the last one.
Placeholder(ms, i) ==
    IF Empty(ms[i]) /\ i < Len(ms) THEN [ms[i] EXCEPT !.text = "made"] ELSE ms[i]

\* Calls that no user message follows are answered by a message of their own.
RepairAssistant(ms, i) ==
    IF ms[i].calls # {} /\ (i = Len(ms) \/ ms[i+1].role # "user")
    THEN <<Placeholder(ms, i), Message("user", "none", {}, {}, ms[i].calls)>>
    ELSE <<Placeholder(ms, i)>>

\* Mutant: a message that has some result is taken to have them all.
RepairUserSome(ms, i) ==
    LET kept == ms[i].results \cap PrevCalls(ms, i)
        m == [ms[i] EXCEPT !.results = kept, !.made = IF kept = {} THEN PrevCalls(ms, i) ELSE {}]
    IN  IF Empty(m) THEN <<>> ELSE <<m>>

\* Orphan results go, missing ones are added, an emptied message is left out.
RepairUser(ms, i) ==
    LET kept == ms[i].results \cap PrevCalls(ms, i)
        m == [ms[i] EXCEPT !.results = kept, !.made = PrevCalls(ms, i) \ kept]
    IN  IF Empty(m) THEN <<>> ELSE <<m>>

\* Nothing to insert and nothing to remove.
Paired(ms) ==
    \A i \in DOMAIN ms :
        IF ms[i].role = "assistant"
        THEN ms[i].calls # {} => i < Len(ms) /\ ms[i+1].role = "user"
        ELSE ms[i].results = PrevCalls(ms, i)

Repaired(ms) ==
    FlattenSeq([i \in DOMAIN ms |->
        IF ms[i].role = "assistant" THEN RepairAssistant(ms, i) ELSE RepairUser(ms, i)])

\* The placeholders are put into the messages in place; the repaired list
\* replaces them only if something was inserted or removed, so that a message
\* of the user that was empty from the start is sent when all the rest pairs up.
insertMissingToolResults(ms) ==
    IF Paired(ms)
    THEN [i \in DOMAIN ms |-> IF ms[i].role = "assistant" THEN Placeholder(ms, i) ELSE ms[i]]
    ELSE Repaired(ms)

-----------------------------------------------------------------------------
(* Calls.                                                                  *)

IsCd(i) == calls[i] \in {"cd", "cd_abs"}

\* message_user is the sequential tool; with end_turn it must be called alone.
IsSequential(i) == calls[i] \in {"say", "say_end"}

\* The sibling of the same sequential tool whose end call i waits for.
Predecessors(i) ==
    {k \in first..(i-1) : IsSequential(i) /\ IsSequential(k)
                          /\ \A l \in (k+1)..(i-1) : ~IsSequential(l)}

Outcomes(i) ==
    {"ok", "error"}
        \cup (IF calls[i] \in {"say_end", "compact"} THEN {"end"} ELSE {})
        \cup (IF cancelled THEN {"canceled"} ELSE {})

IsError(r) == r \notin {"ok", "end"}

\* Results that say the tool was not run.
NotRun == {"not_executed", "skipped", "refused", "not_found"}

Init ==
    /\ messages \in Histories
    /\ request = <<>> /\ phase = "request"
    /\ calls = <<>> /\ first = 1 /\ last = 1 /\ run = FALSE /\ failed = FALSE
    /\ worker = <<>> /\ tool = <<>> /\ out = <<>> /\ result = <<>>
    /\ dir = 0 /\ cancelled = FALSE

Request ==
    /\ phase = "request"
    /\ request' = insertMissingToolResults(messages)
    /\ phase' = "response"
    /\ UNCHANGED <<messages, batch, dir, cancelled>>

\* The model answers without calls, or the request fails: the run ends.
FinalReply ==
    /\ phase = "response"
    /\ phase' = "done"
    /\ UNCHANGED <<messages, request, batch, dir, cancelled>>

\* The response is recorded before its calls run; a cancelled run drops it.
Respond(cs) ==
    /\ phase = "response"
    /\ Len(messages) + Len(cs) <= MaxContext
    /\ IF cancelled
       THEN phase' = "done" /\ UNCHANGED <<messages, batch, dir>>
       ELSE /\ phase' = "group"
            /\ messages' = Append(messages,
                   Message("assistant", "said", {<<Len(messages) + 1, i>> : i \in DOMAIN cs}, {}, {}))
            /\ calls' = cs /\ first' = 1 /\ last' = 1
            /\ run' = FALSE /\ failed' = FALSE /\ dir' = 0
            /\ worker' = [i \in DOMAIN cs |-> "none"] /\ tool' = [i \in DOMAIN cs |-> "none"]
            /\ out' = [i \in DOMAIN cs |-> "none"] /\ result' = [i \in DOMAIN cs |-> "none"]
    /\ UNCHANGED <<request, cancelled>>

-----------------------------------------------------------------------------
(* executeToolCalls.                                                       *)

\* A group is one change_dir, or the calls up to the next one.
GroupEnds(e) ==
    \/ IsCd(first) /\ e = first + 1
    \/ /\ ~IsCd(first)
       /\ \A i \in first..(e-1) : ~IsCd(i)
       /\ e <= Len(calls) => IsCd(e)

\* Mutant: any change_dir is tried after one that failed.
SkipReasonAnyCd ==
    IF cancelled THEN "not_executed"
    ELSE IF failed /\ ~IsCd(first) THEN "skipped"
    ELSE "none"

\* After a change_dir that failed, only an absolute one is tried.
SkipReason ==
    IF cancelled THEN "not_executed"
    ELSE IF failed /\ calls[first] # "cd_abs" THEN "skipped"
    ELSE "none"

InGroup(e) == first..(e-1)

SkipGroup ==
    /\ phase = "group" /\ first <= Len(calls) /\ SkipReason # "none"
    /\ \E e \in (first + 1)..(Len(calls) + 1) :
          /\ GroupEnds(e)
          /\ result' = [i \in DOMAIN calls |-> IF i \in InGroup(e) THEN SkipReason ELSE result[i]]
          /\ first' = e
    /\ failed' = (failed \/ IsCd(first))
    /\ UNCHANGED <<messages, request, phase, calls, last, run, worker, tool, out, dir, cancelled>>

\* executeToolGroup: every worker gets to the start barrier.
StartGroup ==
    /\ phase = "group" /\ first <= Len(calls) /\ SkipReason = "none"
    /\ \E e \in (first + 1)..(Len(calls) + 1) :
          /\ GroupEnds(e)
          /\ last' = e
          /\ worker' = [i \in DOMAIN calls |-> IF i \in InGroup(e) THEN "ready" ELSE worker[i]]
    /\ phase' = "barrier"
    /\ UNCHANGED <<messages, request, calls, first, run, failed, tool, out, result, dir, cancelled>>

Release ==
    /\ phase = "barrier"
    /\ run' = ~cancelled
    /\ phase' = "running"
    /\ UNCHANGED <<messages, request, calls, first, last, failed, worker, tool, out, result, dir, cancelled>>

\* Mutant: the context is not looked at again after waiting.
MayExecuteUnchecked(i) == run

\* A released call is started, but one that waited looks at the context again.
MayExecute(i) == run /\ (Predecessors(i) = {} \/ ~cancelled)

Finish(i, r) ==
    /\ worker' = [worker EXCEPT ![i] = "done"]
    /\ result' = [result EXCEPT ![i] = r]

Released(i) ==
    /\ phase = "running" /\ worker[i] = "ready"
    /\ run => \A k \in Predecessors(i) : worker[k] = "done"

\* The worker answers without running the tool; "unknown" also stands for a
\* call whose input repeats a name.
Decline(i) ==
    /\ Released(i)
    /\ \/ ~MayExecute(i) /\ Finish(i, "not_executed")
       \/ MayExecute(i) /\ calls[i] = "say_end" /\ Len(calls) # 1 /\ Finish(i, "refused")
       \/ MayExecute(i) /\ calls[i] = "unknown" /\ Finish(i, "not_found")
    /\ UNCHANGED <<messages, request, phase, calls, first, last, run, failed, tool, out, dir, cancelled>>

\* executeToolCall: the tool runs in a goroutine of its own.
Execute(i) ==
    /\ Released(i) /\ MayExecute(i)
    /\ calls[i] # "unknown" /\ ~(calls[i] = "say_end" /\ Len(calls) # 1)
    /\ worker' = [worker EXCEPT ![i] = "waiting"]
    /\ tool' = [tool EXCEPT ![i] = "running"]
    /\ UNCHANGED <<messages, request, phase, calls, first, last, run, failed, out, result, dir, cancelled>>

\* A change_dir that works moves the directory; one may return after its
\* worker gave up.
ToolReturns(i, o) ==
    /\ tool[i] = "running" /\ o \in Outcomes(i)
    /\ tool' = [tool EXCEPT ![i] = "returned"]
    /\ out' = [out EXCEPT ![i] = o]
    /\ dir' = IF IsCd(i) /\ o = "ok" THEN i ELSE dir
    /\ UNCHANGED <<messages, request, phase, calls, first, last, run, failed, worker, result, cancelled>>

TakeResult(i) ==
    /\ worker[i] = "waiting" /\ tool[i] = "returned"
    /\ Finish(i, out[i])
    /\ UNCHANGED <<messages, request, phase, calls, first, last, run, failed, tool, out, dir, cancelled>>

\* Mutant: the result of a tool that is given up says that it did not run.
AbandonAsUnrun(i) ==
    /\ worker[i] = "waiting" /\ cancelled
    /\ Finish(i, "not_executed")
    /\ UNCHANGED <<messages, request, phase, calls, first, last, run, failed, tool, out, dir, cancelled>>

\* Mutant: only a tool that has returned is given up.
AbandonReturned(i) ==
    /\ worker[i] = "waiting" /\ cancelled /\ tool[i] = "returned"
    /\ Finish(i, "abandoned")
    /\ UNCHANGED <<messages, request, phase, calls, first, last, run, failed, tool, out, dir, cancelled>>

\* The grace period after a cancellation ends.
Abandon(i) ==
    /\ worker[i] = "waiting" /\ cancelled
    /\ Finish(i, "abandoned")
    /\ UNCHANGED <<messages, request, phase, calls, first, last, run, failed, tool, out, dir, cancelled>>

FinishGroup ==
    /\ phase = "running"
    /\ \A i \in InGroup(last) : worker[i] = "done"
    /\ failed' = IF IsCd(first) THEN IsError(result[first]) ELSE failed
    /\ first' = last
    /\ phase' = "group"
    /\ UNCHANGED <<messages, request, calls, last, run, worker, tool, out, result, dir, cancelled>>

\* The results are recorded in one message even after a cancellation; the run
\* goes on unless it was cancelled or a call ended the turn.
EmitToolResponse ==
    /\ phase = "group" /\ first > Len(calls)
    /\ messages' = Append(messages, Message("user", "none", {}, {<<Len(messages), i>> : i \in DOMAIN result}, {}))
    /\ phase' = IF cancelled \/ \E i \in DOMAIN result : result[i] = "end" THEN "done" ELSE "request"
    /\ UNCHANGED <<request, batch, dir, cancelled>>

\* The write fails, which ends the loop.
EmitFails ==
    /\ phase = "group" /\ first > Len(calls)
    /\ phase' = "done"
    /\ UNCHANGED <<messages, request, batch, dir, cancelled>>

Cancel ==
    /\ ~cancelled /\ phase # "done"
    /\ cancelled' = TRUE
    /\ UNCHANGED <<messages, request, phase, batch, dir>>

-----------------------------------------------------------------------------
Batches == UNION {[1..n -> Kinds] : n \in 1..MaxContext}

WorkerStep(i) == Decline(i) \/ Execute(i) \/ TakeResult(i) \/ Abandon(i)

Main == Request \/ SkipGroup \/ StartGroup \/ Release \/ FinishGroup \/ EmitToolResponse

Next ==
    \/ Main \/ FinalReply \/ EmitFails \/ Cancel
    \/ \E cs \in Batches : Respond(cs)
    \/ \E i \in DOMAIN calls : WorkerStep(i) \/ \E o \in Outcomes(i) : ToolReturns(i, o)

Spec == Init /\ [][Next]_vars

\* The run's goroutine and its workers are scheduled, and the grace timer
\* fires; nothing makes a tool return or the user cancel.
FairSpec ==
    /\ Spec
    /\ WF_vars(Main)
    /\ \A i \in 1..MaxContext : WF_vars(i \in DOMAIN calls /\ WorkerStep(i))

-----------------------------------------------------------------------------
(* Properties.                                                             *)

\* Messages of a request: with placeholders and made-up results.
Sent ==
    [role : {"user", "assistant"}, text : {"none", "said", "made"},
     calls : SUBSET CallIds, results : SUBSET CallIds, made : SUBSET CallIds]

\* Every variable has its type.
TypeOK ==
    /\ messages \in Seq(Recorded) /\ request \in Seq(Sent)
    /\ phase \in {"request", "response", "group", "barrier", "running", "done"}
    /\ calls \in Seq(Kinds)
    /\ first \in 1..(Len(calls) + 1) /\ last \in 1..(Len(calls) + 1)
    /\ run \in BOOLEAN /\ failed \in BOOLEAN /\ cancelled \in BOOLEAN
    /\ worker \in [DOMAIN calls -> {"none", "ready", "waiting", "done"}]
    /\ tool \in [DOMAIN calls -> {"none", "running", "returned"}]
    /\ out \in [DOMAIN calls -> {"none", "ok", "error", "end", "canceled"}]
    /\ result \in [DOMAIN calls -> {"none", "ok", "error", "end", "canceled", "abandoned"} \cup NotRun]
    /\ dir \in 0..Len(calls)

\* What a provider demands: calls are followed by a message that answers each
\* of them once, results are found nowhere else, and no message of the assistant
\* but a final one is empty.
Acceptable(ms) ==
    \A i \in DOMAIN ms :
          /\ ms[i].calls # {} => i < Len(ms) /\ ms[i+1].role = "user"
          /\ ms[i].results \cap ms[i].made = {}
          /\ ms[i].results \cup ms[i].made = IF ms[i].role = "user" /\ i > 1 THEN ms[i-1].calls ELSE {}
          /\ Empty(ms[i]) => ms[i].role = "user" \/ i = Len(ms)

\* A message without what only the repair adds.
Stripped(m) == [m EXCEPT !.made = {}, !.text = IF @ = "made" THEN "none" ELSE @]

AsRecorded(ms) == [i \in DOMAIN ms |-> Stripped(ms[i])]

\* The messages that say something, in order.
Meaningful(m) == m.role = "assistant" \/ ~Empty(m)
Carried(ms) == FlattenSeq([i \in DOMAIN ms |-> IF Meaningful(ms[i]) THEN <<ms[i]>> ELSE <<>>])

\* The history with the results that answer nothing left out.
WithoutOrphans(ms) ==
    [i \in DOMAIN ms |-> [ms[i] EXCEPT !.results =
        {c \in @ : i > 1 /\ ms[i-1].role = "assistant" /\ c \in ms[i-1].calls}]]

\* Whatever the history lost or misplaced, insertMissingToolResults makes of it
\* a request whose calls and results pair up; it adds nothing but made-up results and
\* placeholders and removes nothing but results that answer nothing, so texts,
\* calls and real results reach the model in their order.  A message of the user
\* that is empty is sent only when the whole history is sent as it was recorded.
RequestRepaired ==
    /\ Acceptable(request)
    /\ phase = "response" =>
          /\ Carried(AsRecorded(request)) = Carried(WithoutOrphans(messages))
          /\ (\E i \in DOMAIN request : ~Meaningful(request[i])) => AsRecorded(request) = messages

\* A result that says the tool was not run is true, now and later: the tool
\* never starts, so the model may repeat the call.
NotRunIsTrue == \A i \in DOMAIN calls : result[i] \in NotRun => tool[i] = "none"

\* Calls of a sequential tool run one at a time and in the order of the
\* response, even when the first of them ignores a cancellation and is given up.
SequentialOrder ==
    \A i, k \in DOMAIN calls :
        i < k /\ IsSequential(i) /\ IsSequential(k) /\ tool[k] # "none" => tool[i] # "running"

LastCd(k) ==
    LET before == {i \in 1..(k-1) : IsCd(i)}
    IN  IF before = {} THEN 0 ELSE CHOOSE i \in before : \A j \in before : j <= i

\* A tool runs in the directory of the change_dir before it in the response,
\* from its start to its end: no call runs after one that failed, except an
\* absolute change_dir, and no later change_dir moves a tool that is running.
RunsInItsDirectory ==
    \A k \in DOMAIN calls : tool[k] = "running" /\ calls[k] # "cd_abs" => dir = LastCd(k)

\* A cancelled run ends, also when its tools never return.
CancelledEnds == cancelled /\ phase \in {"group", "barrier", "running"} ~> phase = "done"

=============================================================================
