------------------------------ MODULE Recovery ------------------------------
(***************************************************************************)
(* What a restart does to the turns that were running: the durable flags   *)
(* agent_working and turn_interrupted, the marker left by a restart that   *)
(* promises continuation, the startup transaction, the workers that resume *)
(* turns automatically, and the user's own Continue, Stop, Retry and sends *)
(* that race them.  The process can die between any two transactions.      *)
(***************************************************************************)
EXTENDS Integers, Sequences, FiniteSets

CONSTANTS
    Convs,      \* conversations that have no manager when the process starts
    Top,        \* the top-level ones; the others are children of some parent
    Readers,    \* children that an upgrade does not resume (BTW readers)
    Limits      \* how often each external event may happen

\* An upset is a Stop, an error of the model, a failed write or an expired loop.
Events == {"boot", "send", "call", "mark", "upset"}

ASSUME RecoveryAssumption ==
    /\ Top \subseteq Convs
    /\ Readers \subseteq Convs \ Top
    /\ Limits \in [Events -> Nat]

VARIABLES
    rows,         \* messages of each conversation; the index is the sequence id
    working,      \* conversations.agent_working
    interrupted,  \* conversations.turn_interrupted
    marker,       \* the setting resume_after_upgrade_restart
    phase,        \* "down" or "serving"
    restarting,   \* this process has promised to restart
    live,         \* the installed loop (LoopStates)
    token,        \* the startup token a resume worker still holds
    op,           \* who holds the lifecycle lock, and how far it is
    turn,         \* history: number of user messages that started a turn
    open,         \* history: the latest turn has neither ended nor been stopped
    abandoned,    \* history: tool calls <<c, row>> left when no interruption was
                  \* seen, or stopped when their results could not be written
    dropped,      \* history: open turns that a failed write left unrecorded
    unowned,      \* history: working flags this process left without an owner
    left          \* what remains of Limits

durable == <<rows, working, interrupted, marker>>
volatile == <<phase, restarting, live, token, op>>
history == <<turn, open, abandoned, dropped, unowned>>
vars == <<durable, volatile, history, left>>

RowKinds == {"user", "call", "result", "end", "error", "warning"}
Stages == {"free", "accepting", "claimed", "repaired", "finished", "warned",
           "continuing", "prepared", "stopping"}
NoToken == [user |-> 0, turn |-> 0]

\* In a turn, or in one and running its tools; "failed" could not write a record
\* and is on its way out.  At rest: "idle", "dead" (its context expired and the
\* goroutine returned), and "stuck" (at rest or dead, with the manager's own
\* working flag still up, so that sends are queued and nothing takes them).
Busy == {"turn", "tools"}
LoopStates == {"none", "idle", "failed", "dead", "stuck"} \cup Busy

Spend(e) == left[e] > 0 /\ left' = [left EXCEPT ![e] = @ - 1]

-----------------------------------------------------------------------------
(* What the transactions read.                                             *)

\* Warnings are not messages of a turn.
Actionable(s) == {i \in DOMAIN s : s[i] # "warning"}

\* The last element of a set of positions, 0 when there is none.
LastOf(S) == IF S = {} THEN 0 ELSE CHOOSE i \in S : \A j \in S : j <= i

\* Mutant: a terminal error counts as the end, although Retry adds no row.
ErrorEndsTurn(s) ==
    LET i == LastOf(Actionable(s)) IN i # 0 /\ s[i] \in {"end", "error"}

LatestTurnEndedWithAgent(s) ==
    LET i == LastOf(Actionable(s)) IN i # 0 /\ s[i] = "end"

\* The highest sequence id of a row of type user; tool results are such rows.
MaxUserSequenceID(s) == LastOf({i \in DOMAIN s : s[i] \in {"user", "result"}})

\* A tool call that nothing has answered.
PendingCalls(s) == {i \in DOMAIN s : s[i] = "call" /\ \A j \in DOMAIN s : j > i => s[j] # "result"}

\* Mutant: the claim of an automatic resume is not taken for an interruption.
ClosedCallsIdle(c) ==
    IF interrupted[c] /\ ~working[c] /\ c \in Top /\ PendingCalls(rows[c]) # {}
    THEN Append(rows[c], "result")
    ELSE rows[c]

\* RecordInterruptedToolResults: only for an interrupted top-level conversation.
ClosedCalls(c) ==
    IF interrupted[c] /\ c \in Top /\ PendingCalls(rows[c]) # {}
    THEN Append(rows[c], "result")
    ELSE rows[c]

upgradeResumable(c) == c \notin Readers

\* Mutant: any working conversation is taken for the stale turn.
TokenUnversioned(c) == working[c]

\* The token still names the current stale turn.
TokenCurrent(c) == working[c] /\ MaxUserSequenceID(rows[c]) = token[c].user

AutoStages == {"claimed", "repaired", "finished", "warned"}

Free(c) == phase = "serving" /\ op[c] = "free"

-----------------------------------------------------------------------------
Init ==
    /\ rows = [c \in Convs |-> <<>>]
    /\ working = [c \in Convs |-> FALSE]
    /\ interrupted = [c \in Convs |-> FALSE]
    /\ marker = FALSE
    /\ phase = "down"
    /\ restarting = FALSE
    /\ live = [c \in Convs |-> "none"]
    /\ token = [c \in Convs |-> NoToken]
    /\ op = [c \in Convs |-> "free"]
    /\ turn = [c \in Convs |-> 0]
    /\ open = [c \in Convs |-> FALSE]
    /\ abandoned = {}
    /\ dropped = {}
    /\ unowned = {}
    /\ left = Limits

(* Process lifetime.                                                       *)

\* The turns a startup after an upgrade resumes, and those an ordinary one marks.
ResumableTurns == {c \in Convs : working[c] /\ upgradeResumable(c) /\ ~LatestTurnEndedWithAgent(rows[c])}
InterruptedTurns == {c \in Top : working[c] /\ ~LatestTurnEndedWithAgent(rows[c])}

\* ConsumeResumeAfterUpgrade, one transaction before the listeners open.
ConsumeResumeAfterUpgrade ==
    /\ phase = "down"
    /\ Spend("boot")
    /\ phase' = "serving"
    /\ marker' = FALSE
    /\ IF marker
       THEN /\ working' = [c \in Convs |-> c \in ResumableTurns]
            /\ interrupted' = [c \in Convs |-> interrupted[c] /\ ~working[c]]
            /\ token' = [c \in Convs |->
                  IF c \in ResumableTurns
                  THEN [user |-> MaxUserSequenceID(rows[c]), turn |-> turn[c]]
                  ELSE NoToken]
       ELSE /\ working' = [c \in Convs |-> FALSE]
            /\ interrupted' = [c \in Convs |->
                  IF working[c] /\ c \notin Top THEN FALSE
                  ELSE c \in InterruptedTurns \/ interrupted[c]]
            /\ UNCHANGED token
    /\ UNCHANGED <<rows, restarting, live, op, history>>

\* The disk is full: the server serves with the flags as they were left.
ServeAnyway ==
    /\ phase = "down"
    /\ left["upset"] > 0 /\ left["boot"] > 0
    /\ left' = [left EXCEPT !["upset"] = @ - 1, !["boot"] = @ - 1]
    /\ phase' = "serving"
    /\ unowned' = {c \in Convs : working[c]}
    /\ UNCHANGED <<durable, restarting, live, token, op, turn, open, abandoned, dropped>>

\* A crash, an exit or an exec: only the database survives.
Die ==
    /\ phase = "serving"
    /\ phase' = "down"
    /\ restarting' = FALSE
    /\ live' = [c \in Convs |-> "none"]
    /\ token' = [c \in Convs |-> NoToken]
    /\ op' = [c \in Convs |-> "free"]
    /\ unowned' = {}
    /\ UNCHANGED <<durable, turn, open, abandoned, dropped, left>>

\* An upgrade, or /exit?resume=true, before the process exits.
markResumeAfterRestart ==
    /\ phase = "serving"
    /\ Spend("mark")
    /\ marker' = TRUE
    /\ restarting' = TRUE
    /\ UNCHANGED <<rows, working, interrupted, phase, live, token, op, history>>

\* The exec failed: the old binary keeps serving and takes the promise back.
restartAfterUpgradeFails ==
    /\ phase = "serving" /\ restarting
    /\ restarting' = FALSE
    /\ marker' = FALSE
    /\ UNCHANGED <<rows, working, interrupted, phase, live, token, op, history, left>>

-----------------------------------------------------------------------------
(* A user's send: AcceptUserMessage under the lifecycle lock.  A manager    *)
(* whose working flag is up queues the message instead.                    *)

\* A loop given a turn runs it, unless its goroutine has returned.
Given(c) == IF live[c] = "dead" THEN "stuck" ELSE "turn"

\* A flag that is up for a turn no loop runs has no owner.
OwnerOf(c) == IF live[c] = "dead" THEN unowned \cup {c} ELSE unowned \ {c}

\* The results of orphaned calls are committed before the turn starts; without
\* an interruption bit there is nothing to close.
AcceptRepairs(c) ==
    /\ Free(c)
    /\ live[c] \in {"none", "idle", "dead"}
    /\ Spend("send")
    /\ rows' = [rows EXCEPT ![c] = ClosedCalls(c)]
    /\ abandoned' = IF interrupted[c] THEN abandoned
                    ELSE abandoned \cup {<<c, i>> : i \in PendingCalls(rows[c])}
    /\ op' = [op EXCEPT ![c] = "accepting"]
    /\ UNCHANGED <<working, interrupted, marker, phase, restarting, live, token,
                   turn, open, dropped, unowned>>

\* The user row and the flags are one transaction; then the loop gets the turn.
RecordTurnStart(c) ==
    /\ op[c] = "accepting"
    /\ rows' = [rows EXCEPT ![c] = Append(@, "user")]
    /\ working' = [working EXCEPT ![c] = TRUE]
    /\ interrupted' = [interrupted EXCEPT ![c] = FALSE]
    /\ live' = [live EXCEPT ![c] = Given(c)]
    /\ op' = [op EXCEPT ![c] = "free"]
    /\ turn' = [turn EXCEPT ![c] = @ + 1]
    /\ open' = [open EXCEPT ![c] = TRUE]
    /\ dropped' = dropped \ {c}
    /\ unowned' = OwnerOf(c)
    /\ UNCHANGED <<marker, phase, restarting, token, abandoned, left>>

\* A step before the insert fails: the request is refused, nothing else changes.
AcceptAborts(c) ==
    /\ op[c] = "accepting"
    /\ Spend("upset")
    /\ op' = [op EXCEPT ![c] = "free"]
    /\ UNCHANGED <<durable, phase, restarting, live, token, history>>

\* The insert fails: the working flag is written FALSE, whatever it was; when
\* that write is lost too, this is only logged.
RejectTurnStart(c, lost) ==
    /\ op[c] = "accepting"
    /\ Spend("upset")
    /\ working' = [working EXCEPT ![c] = @ /\ lost]
    /\ op' = [op EXCEPT ![c] = "free"]
    /\ dropped' = IF working[c] /\ ~interrupted[c] /\ ~lost THEN dropped \cup {c} ELSE dropped
    /\ unowned' = IF lost THEN unowned ELSE unowned \ {c}
    /\ UNCHANGED <<rows, interrupted, marker, phase, restarting, live, token,
                   turn, open, abandoned>>

-----------------------------------------------------------------------------
(* The loop of a running turn.                                             *)

RecordToolCall(c) ==
    /\ live[c] = "turn"
    /\ Spend("call")
    /\ rows' = [rows EXCEPT ![c] = Append(@, "call")]
    /\ live' = [live EXCEPT ![c] = "tools"]
    /\ UNCHANGED <<working, interrupted, marker, phase, restarting, token, op, history>>

RecordToolResults(c) ==
    /\ live[c] = "tools"
    /\ rows' = [rows EXCEPT ![c] = Append(@, "result")]
    /\ live' = [live EXCEPT ![c] = "turn"]
    /\ UNCHANGED <<working, interrupted, marker, phase, restarting, token, op, history, left>>

\* A tool call, its results or the end marker of a tool cannot be written: the
\* loop gives up (errMessagePersistence).
RecordFails(c) ==
    /\ live[c] \in Busy
    /\ Spend("upset")
    /\ live' = [live EXCEPT ![c] = "failed"]
    /\ UNCHANGED <<durable, phase, restarting, token, op, history>>

\* It clears the working flag, with no row that ends the turn and no mark of an
\* interruption; a flag that cannot be written either is only logged.
handleFatalLoopExit(c, lost) ==
    /\ Free(c)
    /\ live[c] = "failed"
    /\ live' = [live EXCEPT ![c] = "none"]
    /\ working' = [working EXCEPT ![c] = @ /\ lost]
    /\ dropped' = IF lost THEN dropped ELSE dropped \cup {c}
    /\ unowned' = IF lost THEN unowned \cup {c} ELSE unowned \ {c}
    /\ UNCHANGED <<rows, interrupted, marker, phase, restarting, token, op,
                   turn, open, abandoned, left>>

\* The loop's context expires.  At rest the goroutine just returns; in a turn it
\* returns once its tools are recorded, and nobody clears the working flag.
LoopExpires(c) ==
    /\ live[c] \in {"idle"} \cup Busy
    /\ Spend("upset")
    /\ rows' = [rows EXCEPT ![c] = IF live[c] = "tools" THEN Append(@, "result") ELSE @]
    /\ live' = [live EXCEPT ![c] = IF @ = "idle" THEN "dead" ELSE "stuck"]
    /\ unowned' = IF live[c] = "idle" THEN unowned ELSE unowned \cup {c}
    /\ UNCHANGED <<working, interrupted, marker, phase, restarting, token, op,
                   turn, open, abandoned, dropped>>

\* The row that ends a turn and the working flag are one transaction.
EndTurn(c, row) ==
    /\ rows' = [rows EXCEPT ![c] = Append(@, row)]
    /\ working' = [working EXCEPT ![c] = FALSE]
    /\ open' = [open EXCEPT ![c] = FALSE]
    /\ dropped' = dropped \ {c}
    /\ unowned' = unowned \ {c}
    /\ UNCHANGED <<interrupted, marker, phase, restarting, token, turn, abandoned>>

TurnCompletes(c) ==
    /\ live[c] = "turn"
    /\ EndTurn(c, "end")
    /\ live' = [live EXCEPT ![c] = "idle"]
    /\ UNCHANGED <<op, left>>

TurnErrors(c) ==
    /\ live[c] = "turn"
    /\ Spend("upset")
    /\ EndTurn(c, "error")
    /\ live' = [live EXCEPT ![c] = "idle"]
    /\ UNCHANGED op

\* The reply or error that ends the turn cannot be written: the failure is
\* ignored, the loop rests and the flags stay up.
EndRecordFails(c) ==
    /\ live[c] = "turn"
    /\ Spend("upset")
    /\ live' = [live EXCEPT ![c] = "stuck"]
    /\ unowned' = unowned \cup {c}
    /\ UNCHANGED <<durable, phase, restarting, token, op, turn, open, abandoned, dropped>>

\* The user's Retry below a terminal error adds no row.
RetryLastLLMRequest(c) ==
    /\ Free(c)
    /\ live[c] \in {"idle", "dead"}
    /\ rows[c] # <<>> /\ rows[c][Len(rows[c])] = "error"
    /\ working' = [working EXCEPT ![c] = TRUE]
    /\ interrupted' = [interrupted EXCEPT ![c] = FALSE]
    /\ live' = [live EXCEPT ![c] = Given(c)]
    /\ open' = [open EXCEPT ![c] = TRUE]
    /\ dropped' = dropped \ {c}
    /\ unowned' = OwnerOf(c)
    /\ UNCHANGED <<rows, marker, phase, restarting, token, op, turn, abandoned, left>>

\* Its working flag cannot be written: this is only logged, and the turn runs.
RetryUnrecorded(c) ==
    /\ Free(c)
    /\ live[c] \in {"idle", "dead"}
    /\ rows[c] # <<>> /\ rows[c][Len(rows[c])] = "error"
    /\ Spend("upset")
    /\ live' = [live EXCEPT ![c] = Given(c)]
    /\ open' = [open EXCEPT ![c] = TRUE]
    /\ dropped' = dropped \cup {c}
    /\ UNCHANGED <<durable, phase, restarting, token, op, turn, abandoned, unowned>>

-----------------------------------------------------------------------------
(* Stop.                                                                   *)

\* With a loop: it is detached, and records its tool batch before it returns.  A
\* loop that could not record it leaves its calls unanswered.
StopDetaches(c) ==
    /\ Free(c)
    /\ live[c] # "none"
    /\ Spend("upset")
    /\ rows' = [rows EXCEPT ![c] = IF live[c] = "tools" THEN Append(@, "result") ELSE @]
    /\ live' = [live EXCEPT ![c] = "none"]
    /\ op' = [op EXCEPT ![c] = "stopping"]
    /\ abandoned' = IF live[c] = "failed"
                    THEN abandoned \cup {<<c, i>> : i \in PendingCalls(rows[c])}
                    ELSE abandoned
    /\ UNCHANGED <<working, interrupted, marker, phase, restarting, token,
                   turn, open, dropped, unowned>>

StopEndsTurn(c) ==
    /\ op[c] = "stopping"
    /\ EndTurn(c, "end")
    /\ op' = [op EXCEPT ![c] = "free"]
    /\ UNCHANGED <<live, left>>

\* The end marker cannot be written: Stop reports it and leaves the flag alone.
StopFails(c) ==
    /\ op[c] = "stopping"
    /\ Spend("upset")
    /\ op' = [op EXCEPT ![c] = "free"]
    /\ unowned' = IF working[c] THEN unowned \cup {c} ELSE unowned
    /\ UNCHANGED <<durable, phase, restarting, live, token, turn, open, abandoned, dropped>>

\* Without a loop: ClearConversationRuntimeState, one transaction.
StopIdle(c) ==
    /\ Free(c)
    /\ live[c] = "none"
    /\ Spend("upset")
    /\ working' = [working EXCEPT ![c] = FALSE]
    /\ interrupted' = [interrupted EXCEPT ![c] = FALSE]
    /\ open' = [open EXCEPT ![c] = FALSE]
    /\ dropped' = dropped \ {c}
    /\ unowned' = unowned \ {c}
    /\ UNCHANGED <<rows, marker, phase, restarting, live, token, op, turn, abandoned>>

-----------------------------------------------------------------------------
(* The worker that resumes a turn after an upgrade.                        *)

Holding(c) == token[c] # NoToken

ClaimUpgradeInterruptedTurn(c) ==
    /\ Free(c) /\ Holding(c)
    /\ TokenCurrent(c) /\ ~interrupted[c]
    /\ interrupted' = [interrupted EXCEPT ![c] = TRUE]
    /\ op' = [op EXCEPT ![c] = "claimed"]
    /\ UNCHANGED <<rows, working, marker, phase, restarting, live, token, history, left>>

\* Newer work or a Stop won: the worker goes away.
ClaimIsRejected(c) ==
    /\ Free(c) /\ Holding(c)
    /\ ~(TokenCurrent(c) /\ ~interrupted[c])
    /\ token' = [token EXCEPT ![c] = NoToken]
    /\ UNCHANGED <<durable, phase, restarting, live, op, history, left>>

\* Mutant: the token keeps the version from before the repair.
RecordResultsStaleToken(c) ==
    /\ op[c] = "claimed"
    /\ rows' = [rows EXCEPT ![c] = ClosedCalls(c)]
    /\ op' = [op EXCEPT ![c] = "repaired"]
    /\ UNCHANGED <<working, interrupted, marker, phase, restarting, live, token, history, left>>

\* Orphaned calls get their results; the result advances the turn's version.
RecordInterruptedToolResults(c) ==
    /\ op[c] = "claimed"
    /\ rows' = [rows EXCEPT ![c] = ClosedCalls(c)]
    /\ token' = [token EXCEPT ![c].user =
          IF ClosedCalls(c) # rows[c] THEN Len(ClosedCalls(c)) ELSE @]
    /\ op' = [op EXCEPT ![c] = "repaired"]
    /\ UNCHANGED <<working, interrupted, marker, phase, restarting, live, history, left>>

FinishUpgradeInterruptedTurn(c) ==
    /\ op[c] = "repaired"
    /\ working[c] /\ interrupted[c]
    /\ interrupted' = [interrupted EXCEPT ![c] = FALSE]
    /\ op' = [op EXCEPT ![c] = "finished"]
    /\ UNCHANGED <<rows, working, marker, phase, restarting, live, token, history, left>>

recordWarning(c) ==
    /\ op[c] = "finished"
    /\ rows' = [rows EXCEPT ![c] = Append(@, "warning")]
    /\ op' = [op EXCEPT ![c] = "warned"]
    /\ UNCHANGED <<working, interrupted, marker, phase, restarting, live, token, history, left>>

ResumeFires(c) ==
    /\ op[c] = "warned"
    /\ live' = [live EXCEPT ![c] = "turn"]
    /\ token' = [token EXCEPT ![c] = NoToken]
    /\ op' = [op EXCEPT ![c] = "free"]
    /\ UNCHANGED <<durable, phase, restarting, history, left>>

\* Mutant: the interruption is recorded, the working flag stays.
MarkKeepsWorking(c) ==
    /\ interrupted' = [interrupted EXCEPT ![c] = IF TokenCurrent(c) THEN c \in Top ELSE @]
    /\ token' = [token EXCEPT ![c] = NoToken]
    /\ UNCHANGED <<working, unowned>>

\* MarkUpgradeResumeInterrupted: only while the token names the current turn.
MarkUpgradeResumeInterrupted(c) ==
    /\ working' = [working EXCEPT ![c] = @ /\ ~TokenCurrent(c)]
    /\ interrupted' = [interrupted EXCEPT ![c] = IF TokenCurrent(c) THEN c \in Top ELSE @]
    /\ token' = [token EXCEPT ![c] = NoToken]
    /\ unowned' = IF TokenCurrent(c) THEN unowned \ {c} ELSE unowned

\* A step between the claim and the retry fails.
recoverFailedUpgradeResume(c) ==
    /\ op[c] \in AutoStages \ {"warned"}
    /\ Spend("upset")
    /\ MarkUpgradeResumeInterrupted(c)
    /\ op' = [op EXCEPT ![c] = "free"]
    /\ UNCHANGED <<rows, marker, phase, restarting, live, turn, open, abandoned, dropped>>

\* The worker gets no manager: it marks the turn without the lifecycle lock.
ManagerUnavailable(c) ==
    /\ phase = "serving" /\ Holding(c)
    /\ op[c] \notin AutoStages
    /\ Spend("upset")
    /\ MarkUpgradeResumeInterrupted(c)
    /\ UNCHANGED <<rows, marker, phase, restarting, live, op, turn, open, abandoned, dropped>>

\* checkProjectTurn refuses before the failure handler is installed.
TurnIsRefused(c) ==
    /\ Free(c) /\ Holding(c)
    /\ Spend("upset")
    /\ token' = [token EXCEPT ![c] = NoToken]
    /\ unowned' = IF TokenCurrent(c) THEN unowned \cup {c} ELSE unowned
    /\ UNCHANGED <<durable, phase, restarting, live, op, turn, open, abandoned, dropped>>

(* The user's Continue.                                                    *)

ContinueInterruptedTurn(c) ==
    /\ Free(c)
    /\ c \in Top /\ interrupted[c] /\ ~working[c]
    /\ op' = [op EXCEPT ![c] = "continuing"]
    /\ UNCHANGED <<durable, phase, restarting, live, token, history, left>>

ContinueRepairs(c) ==
    /\ op[c] = "continuing"
    /\ rows' = [rows EXCEPT ![c] = ClosedCalls(c)]
    /\ op' = [op EXCEPT ![c] = "prepared"]
    /\ UNCHANGED <<working, interrupted, marker, phase, restarting, live, token, history, left>>

ClaimInterruptedTurn(c) ==
    /\ op[c] = "prepared"
    /\ interrupted[c] /\ ~working[c]
    /\ working' = [working EXCEPT ![c] = TRUE]
    /\ interrupted' = [interrupted EXCEPT ![c] = FALSE]
    /\ live' = [live EXCEPT ![c] = "turn"]
    /\ op' = [op EXCEPT ![c] = "free"]
    /\ UNCHANGED <<rows, marker, phase, restarting, token, history, left>>

ContinueFails(c) ==
    /\ op[c] \in {"continuing", "prepared"}
    /\ Spend("upset")
    /\ op' = [op EXCEPT ![c] = "free"]
    /\ UNCHANGED <<durable, phase, restarting, live, token, history>>

-----------------------------------------------------------------------------
Worker(c) ==
    \/ ClaimUpgradeInterruptedTurn(c)
    \/ ClaimIsRejected(c)
    \/ RecordInterruptedToolResults(c)
    \/ FinishUpgradeInterruptedTurn(c)
    \/ recordWarning(c)
    \/ ResumeFires(c)

\* What a request does once it holds the lifecycle lock.
Handler(c) ==
    \/ RecordTurnStart(c)
    \/ StopEndsTurn(c)
    \/ ContinueRepairs(c)
    \/ ClaimInterruptedTurn(c)

Next ==
    \/ ConsumeResumeAfterUpgrade
    \/ ServeAnyway
    \/ Die
    \/ markResumeAfterRestart
    \/ restartAfterUpgradeFails
    \/ \E c \in Convs :
          \/ Worker(c)
          \/ Handler(c)
          \/ AcceptRepairs(c)
          \/ AcceptAborts(c)
          \/ \E lost \in BOOLEAN : RejectTurnStart(c, lost)
          \/ RecordToolCall(c)
          \/ RecordToolResults(c)
          \/ RecordFails(c)
          \/ \E lost \in BOOLEAN : handleFatalLoopExit(c, lost)
          \/ LoopExpires(c)
          \/ TurnCompletes(c)
          \/ TurnErrors(c)
          \/ EndRecordFails(c)
          \/ RetryLastLLMRequest(c)
          \/ RetryUnrecorded(c)
          \/ StopDetaches(c)
          \/ StopFails(c)
          \/ StopIdle(c)
          \/ recoverFailedUpgradeResume(c)
          \/ ManagerUnavailable(c)
          \/ TurnIsRefused(c)
          \/ ContinueInterruptedTurn(c)
          \/ ContinueFails(c)

Spec == Init /\ [][Next]_vars

\* A goroutine that holds the lock runs on, and a worker gets the free lock.
FairSpec == Spec /\ \A c \in Convs : WF_vars(Worker(c)) /\ WF_vars(Handler(c))

-----------------------------------------------------------------------------
(* Properties.                                                             *)

\* Every variable has its type.
TypeOK ==
    /\ rows \in [Convs -> Seq(RowKinds)]
    /\ working \in [Convs -> BOOLEAN]
    /\ interrupted \in [Convs -> BOOLEAN]
    /\ marker \in BOOLEAN /\ restarting \in BOOLEAN
    /\ phase \in {"down", "serving"}
    /\ live \in [Convs -> LoopStates]
    /\ token \in [Convs -> [user : Nat, turn : Nat]]
    /\ op \in [Convs -> Stages]
    /\ turn \in [Convs -> Nat]
    /\ open \in [Convs -> BOOLEAN]
    /\ abandoned \subseteq Convs \X Nat
    /\ dropped \subseteq Convs
    /\ unowned \subseteq Convs
    /\ left \in [Events -> Nat]

\* A top-level turn that was neither finished nor stopped stays recorded in the
\* database, as running or as interrupted, wherever the process dies.  Three
\* failed writes lose one: a send whose insert failed (rejectTurnStart), a record
\* the loop could not write (handleFatalLoopExit) and the flag of a Retry.
TurnNotForgotten ==
    \A c \in Top : open[c] => working[c] \/ interrupted[c] \/ c \in dropped

\* While the process serves, a conversation that looks busy has a loop in a turn or
\* on its way out of one, a resume worker on its way, or a request at work on it.
\* The flag stays up without an owner (unowned) when startup, Stop, a fatal exit or
\* the end of a turn could not write, when a resume is refused before its recovery
\* is set up, and when the loop's context expires in a turn or before it gets one.
NoPhantomWork ==
    \A c \in Convs :
        phase = "serving" /\ working[c] =>
            \/ live[c] \in Busy \cup {"failed"}
            \/ Holding(c) \/ op[c] # "free" \/ c \in unowned

\* A resume worker past its claim acts on the very turn that was running at the
\* restart, and that turn is still open and has no loop: a late worker never
\* touches newer work, never revives a stopped turn and never runs it twice.
LateResumeHarmless ==
    \A c \in Convs :
        op[c] \in AutoStages =>
            Holding(c) /\ token[c].turn = turn[c] /\ open[c] /\ live[c] = "none"

\* In a top-level transcript a tool call is followed by its results, or by the
\* rows of a turn that started when no interruption was recorded, or by the end of
\* a turn whose results could not be written: recovery never leaves an unanswered
\* call behind (RecordInterruptedToolResults).
CallsClosed ==
    \A c \in Top : \A i \in Actionable(rows[c]) :
        rows[c][i] = "call" =>
            LET later == {j \in Actionable(rows[c]) : j > i} IN
            \/ later = {}
            \/ rows[c][CHOOSE j \in later : \A k \in later : j <= k] = "result"
            \/ <<c, i>> \in abandoned

\* No automatic resume hangs: the turn runs again, becomes a visible interruption,
\* or is overtaken by newer work, a stop or another restart.
ResumeSettles ==
    \A c \in Top : \A n \in 1 .. Limits["send"] :
        Holding(c) /\ token[c].turn = n
            ~> \/ live[c] \in Busy
               \/ interrupted[c] /\ ~working[c]
               \/ ~open[c] \/ turn[c] # n \/ phase = "down"
               \/ c \in dropped \cup unowned

=============================================================================
