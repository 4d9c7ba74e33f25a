------------------------- MODULE ConversationProofs -------------------------
(***************************************************************************)
(* What every run of the conversation manager keeps, for any number of     *)
(* messages, loops and failures.  First the control state (IInv): at most  *)
(* one agent loop runs, and the two records of "the agent is working"      *)
(* never contradict a turn or each other.  Then the messages (MsgInv):     *)
(* each is queued or recorded once, tool calls have their results, and the *)
(* live loop's context is the transcript's.                                *)
(***************************************************************************)
EXTENDS Conversation, TLAPS, SequenceTheorems, WellFoundedInduction

(* The control state; transcripts, queues and histories are left open.     *)
ControlOK ==
  /\ dbWorking \in BOOLEAN /\ agentWorking \in BOOLEAN
  /\ loop \in Gens \cup {0} /\ gen \in 0..MaxGen
  /\ DOMAIN loops = Gens
  /\ \A g \in Gens : DOMAIN loops[g] = DOMAIN NoLoop /\ loops[g].pc \in PCs

(* The writes of the flag that can still be lost.                          *)
LeftInv == left \in [Events -> Nat] /\ left["flag"] <= Limits["flag"]

(* A loop is being built: its history is read, it is not installed yet.    *)
Building == lock = "install" \/ drainer = "install"

(* Which loops there are.                                                  *)
InstallInv ==
  /\ loop # 0 => loop = gen
  /\ tear # "none" => boundary = gen /\ victim \in Gens
  /\ \A g \in Gens : g > gen => At(g, "none") \/ At(g, "loaded")
  /\ \A g \in Gens : At(g, "loaded") <=> Building /\ g = gen + 1
  /\ OneLoop

(* What the holder of loopLifecycleMu relies on.                           *)
LockInv ==
  /\ lock \in {"install", "record", "hand", "drain"} => tear = "none"
  /\ lock \in {"record", "hand"} => loop # 0
  /\ Building => loop = 0 /\ gen < MaxGen
  /\ lock = "drain" <=> drainer \in {"look", "install", "record"}
  /\ drainer = "record" => loop # 0

(* While a turn start is recorded the loop is not in a turn, nor between   *)
(* the end row and the notification that follows it.                       *)
QuietInv ==
  /\ lock = "record" => agentWorking
  /\ lock = "record" \/ drainer = "record" => ~MidTurn(loop) /\ ~At(loop, "ending")

(* Between an end row and its notification the column is cleared already,  *)
(* and the manager's flag of the installed loop not yet.                   *)
EndingInv ==
  \A g \in Gens : At(g, "ending") => ~dbWorking /\ (g = loop => agentWorking)

(* The flags agree but for a turn start or an end being recorded.          *)
AgreeInv ==
  FlagWritten /\ lock # "record" /\ (\A g \in Gens : ~At(g, "ending"))
    => agentWorking = dbWorking

FlagInv == QuietInv /\ EndingInv /\ AgreeInv /\ TurnIsWorking

(* The inductive invariant.                                                *)
IInv == ControlOK /\ LeftInv /\ InstallInv /\ LockInv /\ FlagInv

-----------------------------------------------------------------------------
(* A lost write of the flag is counted: while none is, FlagWritten holds.  *)
LEMMA SpendLeft ==
  ASSUME LeftInv, NEW E, Spend(E)
  PROVE  LeftInv' /\ (FlagWritten' => FlagWritten /\ "flag" \notin E)
<1>1. "flag" \in Events
  BY DEF Events
<1>2. left' \in [Events -> Nat]
  BY DEF LeftInv, Spend
<1>3. left'["flag"] = IF "flag" \in E THEN left["flag"] - 1 ELSE left["flag"]
  BY <1>1 DEF Spend
<1>4. left["flag"] \in Nat /\ Limits["flag"] \in Nat
  BY <1>1, LimitsAssumption DEF LeftInv
<1> QED
  BY <1>2, <1>3, <1>4 DEF LeftInv, FlagWritten

(* A step without a failure leaves the account of lost writes alone.       *)
LEMMA SameLeft ==
  ASSUME LeftInv, UNCHANGED left
  PROVE  LeftInv' /\ (FlagWritten' => FlagWritten)
  BY DEF LeftInv, FlagWritten

-----------------------------------------------------------------------------
(* A request handler that enters under loopLifecycleMu, and SetCwd, which  *)
(* does not take it, keep the invariant.                                   *)
LEMMA RequestsStep ==
  ASSUME IInv, Requests
  PROVE  IInv'
<1> USE SpendLeft, SameLeft, MaxGenAssumption DEF IInv, FlagInv, Gens,
        ControlOK, InstallInv, OneLoop, LockInv, At, Running, MidTurn, Building,
        NoLoop, NewLoop
<1> USE DEF Entered, installVars, lockVars, tearVars, drainVars, dbVars
<1>1. ASSUME NEW m \in Msgs, AcceptQueues(m) PROVE IInv'
  BY <1>1 DEF AcceptQueues, QuietInv, EndingInv, AgreeInv, TurnIsWorking
<1>2. ASSUME NEW m \in Msgs, AcceptStarts(m) PROVE IInv'
  <2>1. ControlOK' /\ LeftInv'
    <3>1. UNCHANGED <<dbWorking, loop, gen, left>> /\ agentWorking' \in BOOLEAN
      BY <1>2 DEF AcceptStarts
    <3>2. CASE UNCHANGED loops
      BY <3>1, <3>2
    <3>3. CASE LoadHistory
      BY <3>1, <3>3 DEF LoadHistory, LoadedLoop, PCs
    <3> QED
      BY <1>2, <3>2, <3>3 DEF AcceptStarts
  <2>2. InstallInv' /\ LockInv'
    BY <1>2 DEF AcceptStarts, LoadHistory, LoadedLoop
  <2>3. FlagInv'
    BY <1>2 DEF AcceptStarts, LoadHistory, LoadedLoop, QuietInv, EndingInv, AgreeInv,
       TurnIsWorking
  <2> QED
    BY <2>1, <2>2, <2>3
<1>3. ASSUME NEW m \in Msgs, CancelQueuedMessage(m) PROVE IInv'
  BY <1>3 DEF CancelQueuedMessage, QuietInv, EndingInv, AgreeInv,
     TurnIsWorking
<1>4. ASSUME NEW m \in Msgs, NEW inject \in BOOLEAN, QueueMessage(m, inject)
      PROVE IInv'
  BY <1>4 DEF QueueMessage, QuietInv, EndingInv, AgreeInv, TurnIsWorking
<1>5. ASSUME NEW lost \in BOOLEAN, RetryLastLLMRequest(lost) PROVE IInv'
  BY <1>5 DEF RetryLastLLMRequest, SetAgentWorking, Lost, QuietInv,
     EndingInv, AgreeInv, TurnIsWorking
<1>6. CASE CancelQueuedMessages
  BY <1>6 DEF CancelQueuedMessages, QuietInv, EndingInv, AgreeInv,
     TurnIsWorking
<1>7. CASE CancelConversation
  <2>1. CASE loop = 0
    <3>1. ControlOK' /\ LeftInv'
      BY <1>7, <2>1 DEF CancelConversation, Detach, PCs
    <3>2. InstallInv' /\ LockInv'
      BY <1>7, <2>1 DEF CancelConversation, Detach
    <3>3. QuietInv' /\ EndingInv'
      BY <1>7, <2>1 DEF CancelConversation, Detach, QuietInv, EndingInv,
         TurnIsWorking
    <3>4. AgreeInv' /\ TurnIsWorking'
      BY <1>7, <2>1 DEF CancelConversation, Detach, QuietInv, EndingInv,
         AgreeInv, TurnIsWorking
    <3> QED
      BY <3>1, <3>2, <3>3, <3>4
  <2>2. CASE loop # 0
    <3>1. ControlOK' /\ LeftInv'
      BY <1>7, <2>2 DEF CancelConversation, Detach, PCs
    <3>2. InstallInv' /\ LockInv'
      BY <1>7, <2>2 DEF CancelConversation, Detach
    <3>3. QuietInv' /\ EndingInv'
      BY <1>7, <2>2 DEF CancelConversation, Detach, QuietInv, EndingInv,
         TurnIsWorking
    <3>4. AgreeInv' /\ TurnIsWorking'
      BY <1>7, <2>2 DEF CancelConversation, Detach, QuietInv, EndingInv,
         AgreeInv, TurnIsWorking
    <3> QED
      BY <3>1, <3>2, <3>3, <3>4
  <2> QED
    BY <2>1, <2>2
<1>8. CASE CancelIdleFails
  <2>1. ControlOK' /\ LeftInv'
    BY <1>8 DEF CancelIdleFails, PCs
  <2>2. InstallInv' /\ LockInv'
    BY <1>8 DEF CancelIdleFails
  <2>3. QuietInv' /\ EndingInv'
    BY <1>8 DEF CancelIdleFails, QuietInv, EndingInv, TurnIsWorking
  <2>4. AgreeInv' /\ TurnIsWorking'
    BY <1>8 DEF CancelIdleFails, QuietInv, EndingInv, AgreeInv, TurnIsWorking
  <2> QED
    BY <2>1, <2>2, <2>3, <2>4
<1>9. CASE SendQueuedNow
  <2>1. CASE agentWorking /\ loop # 0
    <3>1. ControlOK' /\ LeftInv'
      BY <1>9, <2>1 DEF SendQueuedNow, Detach, PCs
    <3>2. InstallInv' /\ LockInv'
      BY <1>9, <2>1 DEF SendQueuedNow, Detach
    <3>3. QuietInv' /\ EndingInv'
      BY <1>9, <2>1 DEF SendQueuedNow, Detach, QuietInv, EndingInv,
         TurnIsWorking
    <3>4. AgreeInv' /\ TurnIsWorking'
      BY <1>9, <2>1 DEF SendQueuedNow, Detach, QuietInv, EndingInv, AgreeInv,
         TurnIsWorking
    <3> QED
      BY <3>1, <3>2, <3>3, <3>4
  <2>2. CASE ~(agentWorking /\ loop # 0)
    <3>1. ControlOK' /\ LeftInv'
      BY <1>9, <2>2 DEF SendQueuedNow, Detach, PCs
    <3>2. InstallInv' /\ LockInv'
      BY <1>9, <2>2 DEF SendQueuedNow, Detach
    <3>3. QuietInv' /\ EndingInv'
      BY <1>9, <2>2 DEF SendQueuedNow, Detach, QuietInv, EndingInv,
         TurnIsWorking
    <3>4. AgreeInv' /\ TurnIsWorking'
      BY <1>9, <2>2 DEF SendQueuedNow, Detach, QuietInv, EndingInv, AgreeInv,
         TurnIsWorking
    <3> QED
      BY <3>1, <3>2, <3>3, <3>4
  <2> QED
    BY <2>1, <2>2
<1>10. CASE ResetLoop
  BY <1>10 DEF ResetLoop, Detach, QuietInv, EndingInv, AgreeInv,
     TurnIsWorking
<1>11. CASE SetCwd
  BY <1>11 DEF SetCwd, QuietInv, EndingInv, AgreeInv, TurnIsWorking
<1> QED
  BY <1>1, <1>2, <1>3, <1>4, <1>5, <1>6, <1>7, <1>8, <1>9, <1>10,
     <1>11 DEF Requests

-----------------------------------------------------------------------------
(* The request that holds loopLifecycleMu keeps it until it lets go:       *)
(* recordTurnStartMessage, rejectTurnStart, QueueTurn, drainQueueIfIdle.   *)
LEMMA HolderStep ==
  ASSUME IInv, Holder
  PROVE  IInv'
<1> USE SpendLeft, SameLeft, MaxGenAssumption DEF IInv, FlagInv, Gens,
        ControlOK, InstallInv, OneLoop, LockInv, At, Running, MidTurn, Building,
        NoLoop, NewLoop
<1> USE DEF Entered, installVars, lockVars, tearVars, drainVars, dbVars
<1>1. CASE RecordTurnStart
  BY <1>1 DEF RecordTurnStart, QuietInv, EndingInv, AgreeInv, TurnIsWorking
<1>2. ASSUME NEW lost \in BOOLEAN, RejectTurnStart(lost) PROVE IInv'
  <2>1. /\ lock = "record" /\ lock' = "free" /\ UNCHANGED <<drainer, loops>>
        /\ agentWorking' = FALSE /\ dbWorking' \in BOOLEAN
        /\ loop # 0 /\ loop \in Gens /\ tear = "none"
    BY <1>2 DEF RejectTurnStart, SetAgentWorking
  <2>2. LeftInv' /\ (FlagWritten' => ~lost)
    BY <1>2 DEF RejectTurnStart, Lost
  <2>3. FlagWritten' => dbWorking' = FALSE
    BY <1>2, <2>2 DEF RejectTurnStart, SetAgentWorking, QuietInv
  <2>4. \/ UNCHANGED <<installVars, tearVars>>
        \/ /\ gen' = gen + 1 /\ gen < MaxGen /\ loop' = 0
           /\ victim' = loop /\ boundary' = gen + 1 /\ tear' = "stop"
    BY <1>2 DEF RejectTurnStart, Detach
  <2>5. ControlOK'
    <3>1. gen' \in 0..MaxGen /\ loop' \in Gens \cup {0}
      BY <2>4
    <3> QED
      BY <2>1, <3>1
  <2>6. InstallInv' /\ LockInv'
    BY <2>1, <2>4
  <2>7. FlagInv'
    BY <2>1, <2>3, <2>4 DEF QuietInv, EndingInv, AgreeInv, TurnIsWorking
  <2> QED
    BY <2>2, <2>5, <2>6, <2>7
<1>3. CASE QueueTurn
  BY <1>3 DEF QueueTurn, Hand, QuietInv, EndingInv, AgreeInv, TurnIsWorking
<1>4. CASE DrainQueueIfIdle
  BY <1>4 DEF DrainQueueIfIdle, QuietInv, EndingInv, AgreeInv, TurnIsWorking
<1>5. CASE AcceptInstalls
  <2>1. ControlOK' /\ LeftInv'
    BY <1>5 DEF AcceptInstalls, InstallLoop, PCs
  <2>2. InstallInv' /\ LockInv'
    BY <1>5 DEF AcceptInstalls, InstallLoop
  <2>3. FlagInv'
    BY <1>5 DEF AcceptInstalls, InstallLoop, QuietInv, EndingInv, AgreeInv, TurnIsWorking
  <2> QED
    BY <2>1, <2>2, <2>3
<1> QED
  BY <1>1, <1>2, <1>3, <1>4, <1>5 DEF Holder

-----------------------------------------------------------------------------
(* The drain goroutine (drainPendingMessages) keeps it.                    *)
LEMMA DrainStep ==
  ASSUME IInv, Drain
  PROVE  IInv'
<1> USE SpendLeft, SameLeft, MaxGenAssumption DEF IInv, FlagInv, Gens,
        ControlOK, InstallInv, OneLoop, LockInv, At, Running, MidTurn, Building,
        NoLoop, NewLoop
<1> USE DEF Entered, installVars, lockVars, tearVars, drainVars, dbVars
<1>1. CASE BeginPendingDrain
  BY <1>1 DEF BeginPendingDrain, QuietInv, EndingInv, AgreeInv, TurnIsWorking
<1>2. CASE DrainEnter
  BY <1>2 DEF DrainEnter, QuietInv, EndingInv, AgreeInv, TurnIsWorking
<1>3. CASE DrainLeave
  BY <1>3 DEF DrainLeave, QuietInv, EndingInv, AgreeInv, TurnIsWorking
<1>4. CASE DrainStart
  <2>1. ControlOK' /\ LeftInv'
    BY <1>4 DEF DrainStart, LoadHistory, LoadedLoop, PCs
  <2>2. InstallInv' /\ LockInv'
    BY <1>4 DEF DrainStart, LoadHistory, LoadedLoop
  <2>3. FlagInv'
    BY <1>4 DEF DrainStart, LoadHistory, LoadedLoop, QuietInv, EndingInv, AgreeInv,
       TurnIsWorking
  <2> QED
    BY <2>1, <2>2, <2>3
<1>5. CASE DrainRecord
  BY <1>5 DEF DrainRecord, QuietInv, EndingInv, AgreeInv, TurnIsWorking
<1>6. CASE DrainRecordFails
  BY <1>6 DEF DrainRecordFails, Hand, QuietInv, EndingInv, AgreeInv,
     TurnIsWorking
<1>7. CASE DrainHand
  BY <1>7 DEF DrainHand, Hand, QuietInv, EndingInv, AgreeInv, TurnIsWorking
<1>8. CASE FinishPendingDrainPass
  BY <1>8 DEF FinishPendingDrainPass, QuietInv, EndingInv, AgreeInv,
     TurnIsWorking
<1>9. CASE DrainInstalls
  <2>1. ControlOK' /\ LeftInv'
    BY <1>9 DEF DrainInstalls, InstallLoop, PCs
  <2>2. InstallInv' /\ LockInv'
    BY <1>9 DEF DrainInstalls, InstallLoop
  <2>3. FlagInv'
    BY <1>9 DEF DrainInstalls, InstallLoop, QuietInv, EndingInv, AgreeInv, TurnIsWorking
  <2> QED
    BY <2>1, <2>2, <2>3
<1> QED
  BY <1>1, <1>2, <1>3, <1>4, <1>5, <1>6, <1>7, <1>8, <1>9 DEF Drain

-----------------------------------------------------------------------------
(* The owner of a teardown keeps it: detachedLoop.stop, the row that ends  *)
(* the turn and finishLoopTeardownLocked.                                  *)
LEMMA TeardownStep ==
  ASSUME IInv, Teardown
  PROVE  IInv'
<1> USE SpendLeft, SameLeft, MaxGenAssumption DEF IInv, FlagInv, Gens,
        ControlOK, InstallInv, OneLoop, LockInv, At, Running, MidTurn, Building,
        NoLoop, NewLoop
<1> USE DEF Entered, installVars, lockVars, tearVars, drainVars, dbVars
<1>1. CASE TeardownClears
  BY <1>1 DEF TeardownClears, QuietInv, EndingInv, AgreeInv, TurnIsWorking
<1>2. CASE TeardownStops
  BY <1>2 DEF TeardownStops, QuietInv, EndingInv, AgreeInv, TurnIsWorking
<1>3. CASE TeardownCloses
  BY <1>3 DEF TeardownCloses, Joined, CloseBoundary, QuietInv, EndingInv,
     AgreeInv, TurnIsWorking
<1>4. CASE TeardownRecords
  <2>1. ControlOK' /\ LeftInv'
    BY <1>4 DEF TeardownRecords, Joined, CloseBoundary, PCs
  <2>2. InstallInv' /\ LockInv'
    BY <1>4 DEF TeardownRecords, Joined, CloseBoundary
  <2>3. QuietInv' /\ EndingInv'
    BY <1>4 DEF TeardownRecords, Joined, CloseBoundary, QuietInv, EndingInv,
       TurnIsWorking
  <2>4. AgreeInv' /\ TurnIsWorking'
    BY <1>4 DEF TeardownRecords, Joined, CloseBoundary, QuietInv, EndingInv,
       AgreeInv, TurnIsWorking
  <2> QED
    BY <2>1, <2>2, <2>3, <2>4
<1>5. CASE TeardownRecordFails
  BY <1>5 DEF TeardownRecordFails, Joined, CloseBoundary, QuietInv,
     EndingInv, AgreeInv, TurnIsWorking
<1> QED
  BY <1>1, <1>2, <1>3, <1>4, <1>5 DEF Teardown

-----------------------------------------------------------------------------
(* SetCwd, once it has looked at agentWorking, keeps it.                   *)
LEMMA NoticeStep ==
  ASSUME IInv, Notice
  PROVE  IInv'
<1> USE SpendLeft, SameLeft, MaxGenAssumption DEF IInv, FlagInv, Gens,
        ControlOK, InstallInv, OneLoop, LockInv, At, Running, MidTurn, Building,
        NoLoop, NewLoop
<1> USE DEF Entered, installVars, lockVars, tearVars, drainVars, dbVars
<1>1. CASE RecordCwdChangeNotice
  BY <1>1 DEF RecordCwdChangeNotice, QuietInv, EndingInv, AgreeInv,
     TurnIsWorking
<1>2. CASE NoticeFails
  BY <1>2 DEF NoticeFails, QuietInv, EndingInv, AgreeInv, TurnIsWorking
<1>3. CASE AppendHistory
  <2>1. /\ DOMAIN loops' = Gens
        /\ \A g \in Gens : loops'[g].pc = loops[g].pc /\ DOMAIN loops'[g] = DOMAIN loops[g]
    BY <1>3 DEF AppendHistory, Spliced
  <2>2. UNCHANGED <<loop, gen, lock, drainer, tear, victim, boundary, agentWorking,
                    dbWorking, left>>
    BY <1>3 DEF AppendHistory
  <2> QED
    BY <2>1, <2>2 DEF QuietInv, EndingInv, AgreeInv, TurnIsWorking
<1> QED
  BY <1>1, <1>2, <1>3 DEF Notice

-----------------------------------------------------------------------------
(* The goroutine of any loop, installed or being torn down, keeps it.      *)
LEMMA LoopStep ==
  ASSUME IInv, NEW g \in Gens, Run(g) \/ Expire(g)
  PROVE  IInv'
<1> USE SpendLeft, SameLeft, MaxGenAssumption DEF IInv, FlagInv, Gens,
        ControlOK, InstallInv, OneLoop, LockInv, At, Running, MidTurn, Building,
        NoLoop, NewLoop
<1> USE DEF Entered, installVars, lockVars, tearVars, drainVars, dbVars,
        OnlyLoop, ManagerUnchanged, Exit, DeadLoop, Goto, Live
<1>1. CASE LoopStops(g)
  <2>1. ControlOK' /\ LeftInv'
    BY <1>1 DEF LoopStops, PCs
  <2>2. InstallInv' /\ LockInv'
    BY <1>1 DEF LoopStops
  <2>3. FlagInv'
    BY <1>1 DEF LoopStops, QuietInv, EndingInv, AgreeInv, TurnIsWorking
  <2> QED
    BY <2>1, <2>2, <2>3
<1>2. CASE LoopTakes(g)
  <2>1. /\ At(g, "top") /\ DOMAIN loops' = Gens
        /\ loops'[g].pc = "start" /\ DOMAIN loops'[g] = DOMAIN NoLoop
        /\ \A h \in Gens \ {g} : loops'[h] = loops[h]
    BY <1>2 DEF LoopTakes
  <2>2. UNCHANGED <<loop, gen, lock, drainer, tear, victim, boundary, agentWorking,
                    dbWorking, left>>
    BY <1>2 DEF LoopTakes
  <2>3. ControlOK' /\ LeftInv'
    BY <2>1, <2>2 DEF PCs
  <2>4. InstallInv' /\ LockInv'
    BY <2>1, <2>2
  <2>5. FlagInv'
    BY <2>1, <2>2, <2>3 DEF QuietInv, EndingInv, AgreeInv, TurnIsWorking
  <2> QED
    BY <2>3, <2>4, <2>5
<1>3. CASE LoopRests(g)
  <2>1. ControlOK' /\ LeftInv'
    BY <1>3 DEF LoopRests, PCs
  <2>2. InstallInv' /\ LockInv'
    BY <1>3 DEF LoopRests
  <2>3. FlagInv'
    BY <1>3 DEF LoopRests, QuietInv, EndingInv, AgreeInv, TurnIsWorking
  <2> QED
    BY <2>1, <2>2, <2>3
<1>4. CASE LoopWakes(g)
  BY <1>4 DEF LoopWakes, QuietInv, EndingInv, AgreeInv, TurnIsWorking
<1>5. CASE TakeNothing(g)
  <2>1. ControlOK' /\ LeftInv'
    BY <1>5 DEF TakeNothing, Current, PCs
  <2>2. InstallInv' /\ LockInv'
    BY <1>5 DEF TakeNothing, Current
  <2>3. FlagInv'
    BY <1>5 DEF TakeNothing, Current, QuietInv, EndingInv, AgreeInv,
       TurnIsWorking
  <2> QED
    BY <2>1, <2>2, <2>3
<1>6. CASE PendingFails(g)
  <2>1. ControlOK' /\ LeftInv'
    BY <1>6 DEF PendingFails, Current, RecordInjected, PCs
  <2>2. InstallInv' /\ LockInv'
    BY <1>6 DEF PendingFails, Current, RecordInjected
  <2>3. FlagInv'
    BY <1>6 DEF PendingFails, Current, RecordInjected, QuietInv, EndingInv,
       AgreeInv, TurnIsWorking
  <2> QED
    BY <2>1, <2>2, <2>3
<1>7. CASE RecordToolUse(g)
  BY <1>7 DEF RecordToolUse, QuietInv, EndingInv, AgreeInv, TurnIsWorking
<1>8. CASE PersistenceFails(g)
  <2>1. ControlOK' /\ LeftInv'
    BY <1>8 DEF PersistenceFails, PCs
  <2>2. InstallInv' /\ LockInv'
    BY <1>8 DEF PersistenceFails
  <2>3. FlagInv'
    BY <1>8 DEF PersistenceFails, QuietInv, EndingInv, AgreeInv,
       TurnIsWorking
  <2> QED
    BY <2>1, <2>2, <2>3
<1>9. CASE RequestAborted(g)
  <2>1. ControlOK' /\ LeftInv'
    BY <1>9 DEF RequestAborted, PCs
  <2>2. InstallInv' /\ LockInv'
    BY <1>9 DEF RequestAborted
  <2>3. FlagInv'
    BY <1>9 DEF RequestAborted, QuietInv, EndingInv, AgreeInv, TurnIsWorking
  <2> QED
    BY <2>1, <2>2, <2>3
<1>10. CASE RequestExpired(g)
  <2>1. ControlOK' /\ LeftInv'
    BY <1>10 DEF RequestExpired, PCs
  <2>2. InstallInv' /\ LockInv'
    BY <1>10 DEF RequestExpired
  <2>3. FlagInv'
    BY <1>10 DEF RequestExpired, QuietInv, EndingInv, AgreeInv, TurnIsWorking
  <2> QED
    BY <2>1, <2>2, <2>3
<1>11. CASE RecordReply(g)
  BY <1>11 DEF RecordReply, RecordEnd, QuietInv, EndingInv, AgreeInv,
     TurnIsWorking
<1>12. CASE EndUnrecorded(g)
  <2>1. ControlOK' /\ LeftInv'
    BY <1>12 DEF EndUnrecorded, PCs
  <2>2. InstallInv' /\ LockInv'
    BY <1>12 DEF EndUnrecorded
  <2>3. FlagInv'
    BY <1>12 DEF EndUnrecorded, QuietInv, EndingInv, AgreeInv, TurnIsWorking
  <2> QED
    BY <2>1, <2>2, <2>3
<1>13. CASE RecordMarker(g)
  BY <1>13 DEF RecordMarker, RecordEnd, QuietInv, EndingInv, AgreeInv,
     TurnIsWorking
<1>14. CASE SyncIdle(g)
  <2>1. ControlOK' /\ LeftInv'
    BY <1>14 DEF SyncIdle, PCs
  <2>2. InstallInv' /\ LockInv'
    BY <1>14 DEF SyncIdle
  <2>3. QuietInv' /\ EndingInv'
    BY <1>14 DEF SyncIdle, QuietInv, EndingInv, TurnIsWorking
  <2>4. AgreeInv' /\ TurnIsWorking'
    BY <1>14 DEF SyncIdle, QuietInv, EndingInv, AgreeInv, TurnIsWorking
  <2> QED
    BY <2>1, <2>2, <2>3, <2>4
<1>15. CASE MirrorEnd(g)
  <2>1. ControlOK' /\ LeftInv'
    BY <1>15 DEF MirrorEnd, PCs
  <2>2. InstallInv' /\ LockInv'
    BY <1>15 DEF MirrorEnd
  <2>3. FlagInv'
    BY <1>15 DEF MirrorEnd, QuietInv, EndingInv, AgreeInv, TurnIsWorking
  <2> QED
    BY <2>1, <2>2, <2>3
<1>16. CASE Expire(g)
  BY <1>16 DEF Expire, QuietInv, EndingInv, AgreeInv, TurnIsWorking
<1>17. ASSUME NEW lost \in BOOLEAN, OnTurnStart(g, lost) PROVE IInv'
  <2>1. ControlOK' /\ LeftInv'
    BY <1>17 DEF OnTurnStart, Current, SetAgentWorking, Lost, PCs
  <2>2. InstallInv' /\ LockInv'
    BY <1>17 DEF OnTurnStart, Current, SetAgentWorking, Lost
  <2>3. FlagInv'
    BY <1>17 DEF OnTurnStart, Current, SetAgentWorking, Lost, QuietInv,
       EndingInv, AgreeInv, TurnIsWorking
  <2> QED
    BY <2>1, <2>2, <2>3
<1>18. ASSUME NEW lost \in BOOLEAN, HandleFatalLoopExit(g, lost) PROVE IInv'
  <2>1. At(g, "fatal") /\ loops' = [loops EXCEPT ![g] = DeadLoop]
        /\ lock = "free" /\ UNCHANGED <<lock, drainer, tear, victim, boundary>>
    BY <1>18 DEF HandleFatalLoopExit
  <2>2. CASE loop = g
    <3>0. gen = g
      BY <2>2
    <3>1. /\ gen < MaxGen /\ gen' = gen + 1 /\ loop' = 0
          /\ SetAgentWorking(FALSE, lost) /\ Spend(Lost(lost))
      BY <1>18, <2>2, <3>0 DEF HandleFatalLoopExit
    <3>2. LeftInv' /\ (FlagWritten' => FlagWritten /\ ~lost)
      BY <3>1 DEF Lost
    <3>3. ControlOK'
      <4>1. gen' \in 0..MaxGen /\ loop' \in Gens \cup {0}
        BY <3>1
      <4>2. agentWorking' \in BOOLEAN /\ dbWorking' \in BOOLEAN
        BY <3>1 DEF SetAgentWorking
      <4> QED
        BY <2>1, <4>1, <4>2 DEF PCs
    <3>4. InstallInv' /\ LockInv'
      BY <2>1, <2>2, <3>1
    <3>5. FlagInv'
      BY <2>1, <2>2, <3>1, <3>2 DEF SetAgentWorking, QuietInv, EndingInv,
         AgreeInv, TurnIsWorking
    <3> QED
      BY <3>2, <3>3, <3>4, <3>5
  <2>3. CASE loop # g
    <3>1. UNCHANGED <<loop, gen, agentWorking, dbWorking, left>>
      BY <1>18, <2>3 DEF HandleFatalLoopExit
    <3>2. ControlOK' /\ LeftInv'
      BY <2>1, <3>1 DEF PCs
    <3>3. InstallInv' /\ LockInv'
      BY <2>1, <2>3, <3>1
    <3>4. FlagInv'
      BY <2>1, <2>3, <3>1, <3>2 DEF QuietInv, EndingInv, AgreeInv,
         TurnIsWorking
    <3> QED
      BY <3>2, <3>3, <3>4
  <2> QED
    BY <2>2, <2>3
<1>19. ASSUME NEW failed \in Msgs \cup {None}, TakeInjectable(g, failed)
      PROVE IInv'
  <2>1. ControlOK' /\ LeftInv'
    BY <1>19 DEF TakeInjectable, Current, RecordInjected, PCs
  <2>2. InstallInv' /\ LockInv'
    BY <1>19 DEF TakeInjectable, Current, RecordInjected
  <2>3. FlagInv'
    BY <1>19 DEF TakeInjectable, Current, RecordInjected, QuietInv,
       EndingInv, AgreeInv, TurnIsWorking
  <2> QED
    BY <2>1, <2>2, <2>3
<1>20. ASSUME NEW kind \in {"error", "refusal", "truncated"}, FailTurn(g, kind)
      PROVE IInv'
  BY <1>20 DEF FailTurn, RecordEnd, QuietInv, EndingInv, AgreeInv,
     TurnIsWorking
<1>21. ASSUME NEW endsTurn \in BOOLEAN, RecordToolResults(g, endsTurn)
      PROVE IInv'
  <2>1. /\ At(g, "tools") /\ DOMAIN loops' = Gens
        /\ loops'[g].pc \in {"marker", "pending", "dead"}
        /\ DOMAIN loops'[g] = DOMAIN NoLoop
        /\ \A h \in Gens \ {g} : loops'[h] = loops[h]
    BY <1>21 DEF RecordToolResults
  <2>2. UNCHANGED <<loop, gen, lock, drainer, tear, victim, boundary, agentWorking,
                    dbWorking, left>>
    BY <1>21 DEF RecordToolResults
  <2>3. ControlOK' /\ LeftInv'
    BY <2>1, <2>2 DEF PCs
  <2>4. InstallInv' /\ LockInv'
    BY <2>1, <2>2
  <2>5. FlagInv'
    BY <2>1, <2>2, <2>3 DEF QuietInv, EndingInv, AgreeInv, TurnIsWorking
  <2> QED
    BY <2>3, <2>4, <2>5
<1> QED
  BY <1>1, <1>2, <1>3, <1>4, <1>5, <1>6, <1>7, <1>8, <1>9, <1>10, <1>11,
     <1>12, <1>13, <1>14, <1>15, <1>16, <1>17, <1>18, <1>19, <1>20, <1>21 DEF Run

-----------------------------------------------------------------------------
(* A manager that has not built a loop yet satisfies the invariant.        *)
LEMMA InitInv == Init => IInv
<1> SUFFICES ASSUME Init PROVE IInv
  OBVIOUS
<1> USE MaxGenAssumption, LimitsAssumption DEF Init, Gens, At, Running, MidTurn
<1>1. ControlOK
  <2>1. NoLoop.pc = "none"
    BY DEF NoLoop, NewLoop
  <2>2. \A g \in Gens : loops[g] = NoLoop
    OBVIOUS
  <2>3. NoLoop.pc \in PCs
    BY <2>1 DEF PCs
  <2>4. DOMAIN loops = Gens
    OBVIOUS
  <2>5. dbWorking \in BOOLEAN /\ agentWorking \in BOOLEAN
    OBVIOUS
  <2>6. loop \in Gens \cup {0}
    OBVIOUS
  <2>7. gen = 0 /\ 0 \in 0..MaxGen
    OBVIOUS
  <2> HIDE DEF Init
  <2> QED
    BY <2>2, <2>3, <2>4, <2>5, <2>6, <2>7 DEF ControlOK
<1>2. LeftInv
  <2>1. "flag" \in Events
    BY DEF Events
  <2>2. Limits["flag"] \in Nat
    BY <2>1
  <2> QED
    BY <2>2 DEF LeftInv
<1>3. InstallInv /\ LockInv
  BY DEF InstallInv, OneLoop, LockInv, Building, NoLoop, NewLoop
<1>4. FlagInv
  BY DEF FlagInv, QuietInv, EndingInv, AgreeInv, TurnIsWorking, NoLoop, NewLoop
<1> QED
  BY <1>1, <1>2, <1>3, <1>4 DEF IInv

(* Every step of every actor keeps the invariant.                          *)
LEMMA StepInv == IInv /\ [Next]_vars => IInv'
<1> SUFFICES ASSUME IInv, [Next]_vars PROVE IInv'
  OBVIOUS
<1>1. CASE UNCHANGED vars
  BY <1>1 DEF IInv, ControlOK, LeftInv, InstallInv, OneLoop, LockInv, FlagInv,
     QuietInv, EndingInv, AgreeInv, TurnIsWorking, FlagWritten, At, Running,
     Building, MidTurn, vars, dbVars, installVars, lockVars, tearVars, drainVars
<1>2. ASSUME NEW g \in Gens, Run(g) \/ Expire(g) PROVE IInv'
  BY <1>2, LoopStep
<1> QED
  BY <1>1, <1>2, RequestsStep, HolderStep, DrainStep, TeardownStep, NoticeStep
     DEF Next

(* Every state the manager and its loops reach satisfies IInv.             *)
THEOREM Invariance == Spec => []IInv
  BY InitInv, StepInv, PTL DEF Spec

(* However handlers, drains, teardowns, fatal exits and loops interleave,  *)
(* one conversation never has two agent goroutines at work.                *)
THEOREM AtMostOneLoop == Spec => []OneLoop
<1>1. IInv => OneLoop
  BY DEF IInv, InstallInv
<1> QED
  BY <1>1, Invariance, PTL

(* A conversation whose loop is in a turn is shown as working: no handler, *)
(* drain or late end of another turn clears the flag under a running turn. *)
THEOREM WorkingInTurn == Spec => []TurnIsWorking
<1>1. IInv => TurnIsWorking
  BY DEF IInv, FlagInv
<1> QED
  BY <1>1, Invariance, PTL

(* The agent_working column and the manager's flag agree when nothing is   *)
(* under way, so that a restart shows what the running server showed.      *)
THEOREM FlagsNeverDrift == Spec => []FlagsAgree
<1>1. IInv => FlagsAgree
  BY DEF IInv, FlagInv, AgreeInv, FlagsAgree
<1> QED
  BY <1>1, Invariance, PTL

-----------------------------------------------------------------------------
(* A set of natural numbers that is not empty has a least element.         *)
LEMMA Least ==
  ASSUME NEW T \in SUBSET Nat, T # {}
  PROVE  \E n \in T : \A k \in T : n <= k
<1>1. \E R : IsWellFoundedOn(R, Nat) /\ \A k, n \in Nat : k < n => <<k, n>> \in R
  <2>1. \A k, n \in Nat : k < n => <<k, n>> \in OpToRel(<, Nat)
    BY Zenon DEF OpToRel
  <2> QED
    BY <2>1, NatLessThanWellFounded, Zenon
<1>2. PICK R : IsWellFoundedOn(R, Nat) /\ \A k, n \in Nat : k < n => <<k, n>> \in R
  BY <1>1
<1>3. \E n \in T : \A k \in T : ~(<<k, n>> \in R)
  <2>1. T \subseteq Nat /\ IsWellFoundedOn(R, Nat)
    BY <1>2
  <2> QED
    BY <2>1, WFMin, Zenon
<1>4. PICK n \in T : \A k \in T : ~(<<k, n>> \in R)
  BY <1>3
<1>5. ASSUME NEW k \in T PROVE n <= k
  <2>1. k \in Nat /\ n \in Nat
    OBVIOUS
  <2>2. ~(k < n)
    BY <1>2, <1>4, <2>1, Zenon
  <2> QED
    BY <2>1, <2>2
<1> QED
  BY <1>4, <1>5

(* Induction, over a set instead of a predicate.                           *)
LEMMA NatInductionOver ==
  ASSUME NEW P, 0 \in P, \A n \in Nat : n \in P => n + 1 \in P
  PROVE  Nat \subseteq P
<1> DEFINE T == Nat \ P
<1> SUFFICES ASSUME T # {} PROVE FALSE
  OBVIOUS
<1>1. PICK n \in T : \A k \in T : n <= k
  <2> HIDE DEF T
  <2>1. T \in SUBSET Nat
    BY DEF T
  <2> QED
    BY <2>1, Least
<1>2. n \in Nat /\ n # 0 /\ n - 1 \notin T
  BY <1>1
<1>3. n - 1 \in Nat /\ n - 1 \in P
  BY <1>2
<1>4. (n - 1) + 1 \in P
  BY <1>3, Zenon
<1> QED
  BY <1>1, <1>2, <1>4

(* The same over the sequences of a set.                                   *)
LEMMA SeqInductionOver ==
  ASSUME NEW A, NEW P, <<>> \in P,
         \A s \in Seq(A), e \in A : s \in P => Append(s, e) \in P
  PROVE  Seq(A) \subseteq P
<1> DEFINE N == {n \in Nat : \A s \in Seq(A) : Len(s) = n => s \in P}
<1>1. 0 \in N
  OBVIOUS
<1>2. ASSUME NEW n \in Nat, n \in N PROVE n + 1 \in N
  <2>1. ASSUME NEW s \in Seq(A), Len(s) = n + 1 PROVE s \in P
    <3>1. s # <<>>
      BY <2>1
    <3>2. PICK t \in Seq(A), e \in A : s = Append(t, e)
      BY <3>1, SequenceEmptyOrAppend
    <3>3. Len(t) = n
      BY <2>1, <3>2, AppendProperties
    <3>4. t \in P
      BY <1>2, <3>3
    <3> QED
      BY <3>2, <3>4
  <2> QED
    BY <2>1
<1>3. Nat \subseteq N
  <2> HIDE DEF N
  <2> QED
    BY <1>1, <1>2, NatInductionOver
<1>4. ASSUME NEW s \in Seq(A) PROVE s \in P
  <2>1. Len(s) \in Nat
    OBVIOUS
  <2> QED
    BY <1>3, <2>1
<1> QED
  BY <1>4

-----------------------------------------------------------------------------
(* The recursion by which Filter is defined, over the first n entries.     *)
IsKept(f, s, S, n) ==
  f = [k \in 0..n |-> IF k = 0 THEN <<>>
                      ELSE IF s[k] \in S THEN Append(f[k - 1], s[k]) ELSE f[k - 1]]

(* That recursion has a solution.                                          *)
LEMMA KeptExists ==
  ASSUME NEW s, NEW S
  PROVE  \A n \in Nat : \E f : IsKept(f, s, S, n)
<1> DEFINE P == {n \in Nat : \E f : IsKept(f, s, S, n)}
<1>1. 0 \in P
  <2> DEFINE f == [k \in 0..0 |-> <<>>]
  <2>1. IsKept(f, s, S, 0)
    BY DEF IsKept
  <2> QED
    BY <2>1
<1>2. ASSUME NEW n \in Nat, n \in P PROVE n + 1 \in P
  <2>1. PICK f : IsKept(f, s, S, n)
    BY <1>2
  <2> DEFINE g == [k \in 0..(n + 1) |->
                     IF k = n + 1
                     THEN IF s[n + 1] \in S THEN Append(f[n], s[n + 1]) ELSE f[n]
                     ELSE f[k]]
             h == [k \in 0..(n + 1) |-> IF k = 0 THEN <<>>
                     ELSE IF s[k] \in S THEN Append(g[k - 1], s[k]) ELSE g[k - 1]]
  <2>2. ASSUME NEW k \in 0..(n + 1) PROVE g[k] = h[k]
    <3>1. CASE k = n + 1
      <4>1. k # 0 /\ k - 1 = n /\ n \in 0..(n + 1) /\ n # n + 1
        BY <3>1
      <4> QED
        BY <3>1, <4>1
    <3>2. CASE k # n + 1 /\ k # 0
      <4>1. k \in 0..n /\ k - 1 \in 0..(n + 1) /\ k - 1 # n + 1
        BY <3>2
      <4>2. g[k] = f[k] /\ g[k - 1] = f[k - 1]
        BY <3>2, <4>1
      <4>3. f[k] = IF s[k] \in S THEN Append(f[k - 1], s[k]) ELSE f[k - 1]
        BY <2>1, <3>2, <4>1 DEF IsKept
      <4> QED
        BY <3>2, <4>2, <4>3
    <3>3. CASE k = 0
      <4>1. 0 \in 0..n /\ 0 # n + 1
        OBVIOUS
      <4>2. f[0] = <<>>
        BY <2>1, <4>1 DEF IsKept
      <4> QED
        BY <3>3, <4>1, <4>2
    <3> QED
      BY <3>1, <3>2, <3>3
  <2>3. g = h
    <3>1. DOMAIN g = 0..(n + 1) /\ DOMAIN h = 0..(n + 1)
      OBVIOUS
    <3> HIDE DEF g, h
    <3>2. g = [k \in 0..(n + 1) |-> g[k]] /\ h = [k \in 0..(n + 1) |-> h[k]]
      BY <3>1 DEF g, h
    <3> QED
      BY <2>2, <3>2
  <2>4. IsKept(g, s, S, n + 1)
    BY <2>3, Zenon DEF IsKept
  <2> HIDE DEF g
  <2> QED
    BY <2>4
<1>3. Nat \subseteq P
  <2> HIDE DEF P
  <2> QED
    BY <1>1, <1>2, NatInductionOver
<1> QED
  BY <1>3

(* Filter is what that solution ends in.                                   *)
LEMMA FilterKept ==
  ASSUME NEW s, NEW S, Len(s) \in Nat
  PROVE  \E f : IsKept(f, s, S, Len(s)) /\ Filter(s, S) = f[Len(s)]
<1> DEFINE f == CHOOSE f : IsKept(f, s, S, Len(s))
<1>1. IsKept(f, s, S, Len(s))
  BY KeptExists, Zenon
<1>2. Filter(s, S) = f[Len(s)]
  BY DEF Filter, IsKept
<1> QED
  BY <1>1, <1>2, Zenon

(* Filter of nothing, ...                                                  *)
LEMMA FilterEmpty == \A S : Filter(<<>>, S) = <<>>
<1> SUFFICES ASSUME NEW S PROVE Filter(<<>>, S) = <<>>
  OBVIOUS
<1>1. Len(<<>>) = 0
  OBVIOUS
<1>2. PICK f : IsKept(f, <<>>, S, 0) /\ Filter(<<>>, S) = f[0]
  BY <1>1, FilterKept
<1> QED
  BY <1>2 DEF IsKept

(* ... of one entry more, ...                                              *)
LEMMA FilterAppend ==
  ASSUME NEW A, NEW s \in Seq(A), NEW x \in A, NEW S
  PROVE  Filter(Append(s, x), S) = IF x \in S THEN Append(Filter(s, S), x) ELSE Filter(s, S)
<1> DEFINE t == Append(s, x)
           n == Len(s)
<1>1. t \in Seq(A) /\ n \in Nat /\ Len(t) = n + 1 /\ t[n + 1] = x
      /\ \A k \in 1..n : t[k] = s[k]
  BY AppendProperties
<1>2. PICK f : IsKept(f, s, S, n) /\ Filter(s, S) = f[n]
  BY FilterKept
<1> HIDE DEF t
<1>3. PICK g : IsKept(g, t, S, n + 1) /\ Filter(t, S) = g[n + 1]
  BY <1>1, FilterKept
<1> HIDE DEF n
<1> DEFINE P == {k \in Nat : k <= n => f[k] = g[k]}
<1>4. 0 \in P
  BY <1>1, <1>2, <1>3 DEF IsKept
<1>5. ASSUME NEW k \in Nat, k \in P PROVE k + 1 \in P
  <2>1. CASE k + 1 <= n
    <3>1. k + 1 \in 0..n /\ k + 1 \in 0..(n + 1) /\ k + 1 # 0 /\ (k + 1) - 1 = k
          /\ k + 1 \in 1..n
      BY <1>1, <2>1
    <3>2. f[k] = g[k] /\ t[k + 1] = s[k + 1]
      BY <1>1, <1>5, <2>1
    <3>3. f[k + 1] = IF s[k + 1] \in S THEN Append(f[k], s[k + 1]) ELSE f[k]
      BY <1>2, <3>1 DEF IsKept
    <3>4. g[k + 1] = IF t[k + 1] \in S THEN Append(g[k], t[k + 1]) ELSE g[k]
      BY <1>3, <3>1 DEF IsKept
    <3> QED
      BY <3>2, <3>3, <3>4
  <2> QED
    BY <2>1
<1>6. Nat \subseteq P
  <2> HIDE DEF P
  <2> QED
    BY <1>4, <1>5, NatInductionOver
<1>7. f[n] = g[n]
  BY <1>1, <1>6
<1>8. g[n + 1] = IF t[n + 1] \in S THEN Append(g[n], t[n + 1]) ELSE g[n]
  <2>1. n + 1 \in 0..(n + 1) /\ n + 1 # 0 /\ (n + 1) - 1 = n
    BY <1>1
  <2> QED
    BY <1>3, <2>1 DEF IsKept
<1>9. Filter(t, S) = IF x \in S THEN Append(Filter(s, S), x) ELSE Filter(s, S)
  BY <1>1, <1>2, <1>3, <1>7, <1>8
<1> QED
  BY <1>9 DEF t

(* The entries of a sequence, and that no two of them have the same        *)
(* message.                                                                *)
Elems(s) == {s[i] : i \in DOMAIN s}
Apart(s) == \A i, j \in DOMAIN s : s[i].msg = s[j].msg => i = j

(* The entries of the empty sequence, ...                                  *)
LEMMA ElemsEmpty == Elems(<<>>) = {} /\ Apart(<<>>)
  BY DEF Elems, Apart

(* ... of one entry more, ...                                              *)
LEMMA ElemsAppend ==
  ASSUME NEW A, NEW s \in Seq(A), NEW x \in A
  PROVE  /\ Append(s, x) \in Seq(A)
         /\ Elems(Append(s, x)) = Elems(s) \cup {x}
         /\ Apart(Append(s, x)) <=> Apart(s) /\ \A y \in Elems(s) : y.msg # x.msg
<1> DEFINE t == Append(s, x)
           n == Len(s)
<1>1. /\ t \in Seq(A) /\ n \in Nat /\ Len(t) = n + 1 /\ t[n + 1] = x
      /\ \A k \in 1..n : t[k] = s[k]
      /\ DOMAIN s = 1..n /\ DOMAIN t = 1..(n + 1)
  BY AppendProperties, LenProperties
<1> HIDE DEF t, n
<1>2. \A k \in 1..(n + 1) : k \in 1..n \/ k = n + 1
  BY <1>1
<1>3. n + 1 \in 1..(n + 1) /\ 1..n \subseteq 1..(n + 1) /\ n + 1 \notin 1..n
  BY <1>1
<1>4. Elems(t) = Elems(s) \cup {x}
  <2>1. \A y : y \in Elems(t) => y \in Elems(s) \cup {x}
    BY <1>1, <1>2 DEF Elems
  <2>2. \A y : y \in Elems(s) => y \in Elems(t)
    BY <1>1, <1>3 DEF Elems
  <2>3. x \in Elems(t)
    BY <1>1, <1>3 DEF Elems
  <2> QED
    BY <2>1, <2>2, <2>3
<1>5. Apart(t) => Apart(s) /\ \A y \in Elems(s) : y.msg # x.msg
  <2> SUFFICES ASSUME Apart(t) PROVE Apart(s) /\ \A y \in Elems(s) : y.msg # x.msg
    OBVIOUS
  <2>1. \A i, j \in 1..(n + 1) : t[i].msg = t[j].msg => i = j
    BY <1>1 DEF Apart
  <2>2. Apart(s)
    BY <1>1, <1>3, <2>1 DEF Apart
  <2>3. \A i \in 1..n : s[i].msg # x.msg
    BY <1>1, <1>3, <2>1
  <2> QED
    BY <1>1, <2>2, <2>3 DEF Elems
<1>6. ASSUME Apart(s), \A y \in Elems(s) : y.msg # x.msg PROVE Apart(t)
  <2>1. \A i \in 1..n : s[i].msg # x.msg
    BY <1>1, <1>6 DEF Elems
  <2>2. ASSUME NEW i \in 1..(n + 1), NEW j \in 1..(n + 1), t[i].msg = t[j].msg
        PROVE  i = j
    <3>1. CASE i \in 1..n /\ j \in 1..n
      BY <1>1, <1>6, <2>2, <3>1 DEF Apart
    <3>2. CASE i = n + 1 /\ j \in 1..n
      BY <1>1, <2>1, <2>2, <3>2
    <3>3. CASE i \in 1..n /\ j = n + 1
      BY <1>1, <2>1, <2>2, <3>3
    <3> QED
      BY <1>2, <3>1, <3>2, <3>3
  <2> QED
    BY <1>1, <2>2 DEF Apart
<1> QED
  BY <1>1, <1>4, <1>5, <1>6 DEF t

(* ... and of two pieces.                                                  *)
LEMMA ElemsConcat ==
  ASSUME NEW A, NEW s \in Seq(A), NEW t \in Seq(A)
  PROVE  s \o t \in Seq(A) /\ Elems(s \o t) = Elems(s) \cup Elems(t)
<1> DEFINE u == s \o t
           m == Len(s)
           n == Len(t)
<1>1. /\ u \in Seq(A) /\ m \in Nat /\ n \in Nat
      /\ DOMAIN s = 1..m /\ DOMAIN t = 1..n /\ DOMAIN u = 1..(m + n)
      /\ \A k \in 1..(m + n) : u[k] = IF k <= m THEN s[k] ELSE t[k - m]
  BY ConcatProperties, LenProperties
<1> HIDE DEF u, m, n
<1>2. ASSUME NEW k \in 1..(m + n) PROVE u[k] \in Elems(s) \cup Elems(t)
  <2>1. CASE k <= m
    BY <1>1, <2>1 DEF Elems
  <2>2. CASE ~(k <= m)
    <3>1. k - m \in 1..n
      BY <1>1, <2>2
    <3> QED
      BY <1>1, <2>2, <3>1 DEF Elems
  <2> QED
    BY <2>1, <2>2
<1>3. ASSUME NEW k \in 1..m PROVE s[k] \in Elems(u)
  <2>1. k \in 1..(m + n) /\ k <= m
    BY <1>1
  <2> QED
    BY <1>1, <2>1 DEF Elems
<1>4. ASSUME NEW k \in 1..n PROVE t[k] \in Elems(u)
  <2>1. m + k \in 1..(m + n) /\ ~(m + k <= m) /\ (m + k) - m = k
    BY <1>1
  <2>2. u[m + k] = t[k]
    BY <1>1, <2>1
  <2> QED
    BY <1>1, <2>1, <2>2 DEF Elems
<1>5. \A y : y \in Elems(u) => y \in Elems(s) \cup Elems(t)
  BY <1>1, <1>2 DEF Elems
<1>6. \A y : y \in Elems(s) => y \in Elems(u)
  BY <1>1, <1>3 DEF Elems
<1>7. \A y : y \in Elems(t) => y \in Elems(u)
  BY <1>1, <1>4 DEF Elems
<1>8. Elems(u) = Elems(s) \cup Elems(t)
  BY <1>5, <1>6, <1>7
<1> QED
  BY <1>1, <1>8 DEF u

(* Filter keeps exactly the entries in S, and repeats none.                *)
LEMMA FilterElems ==
  ASSUME NEW A, NEW S
  PROVE  \A s \in Seq(A) : /\ Filter(s, S) \in Seq(A)
                           /\ Elems(Filter(s, S)) = Elems(s) \cap S
                           /\ Apart(s) => Apart(Filter(s, S))
<1> DEFINE P == {s \in Seq(A) : /\ Filter(s, S) \in Seq(A)
                                /\ Elems(Filter(s, S)) = Elems(s) \cap S
                                /\ Apart(s) => Apart(Filter(s, S))}
<1>1. <<>> \in P
  <2>1. Filter(<<>>, S) = <<>> /\ <<>> \in Seq(A) /\ Elems(<<>>) = {}
    BY FilterEmpty, ElemsEmpty
  <2>2. Elems(<<>>) = Elems(<<>>) \cap S
    BY <2>1
  <2> QED
    BY <2>1, <2>2
<1>2. ASSUME NEW s \in Seq(A), NEW x \in A, s \in P PROVE Append(s, x) \in P
  <2>1. /\ Filter(s, S) \in Seq(A)
        /\ Elems(Filter(s, S)) = Elems(s) \cap S
        /\ Apart(s) => Apart(Filter(s, S))
    BY <1>2
  <2>2. /\ Append(s, x) \in Seq(A) /\ Elems(Append(s, x)) = Elems(s) \cup {x}
        /\ Apart(Append(s, x)) <=> Apart(s) /\ \A y \in Elems(s) : y.msg # x.msg
    BY ElemsAppend
  <2>3. CASE x \in S
    <3>1. Filter(Append(s, x), S) = Append(Filter(s, S), x)
      BY <2>3, FilterAppend
    <3>2. /\ Append(Filter(s, S), x) \in Seq(A)
          /\ Elems(Append(Filter(s, S), x)) = Elems(Filter(s, S)) \cup {x}
          /\ Apart(Append(Filter(s, S), x))
               <=> Apart(Filter(s, S)) /\ \A y \in Elems(Filter(s, S)) : y.msg # x.msg
      BY <2>1, ElemsAppend
    <3>3. Elems(Filter(Append(s, x), S)) = Elems(Append(s, x)) \cap S
      BY <2>1, <2>2, <2>3, <3>1, <3>2
    <3>4. Apart(Append(s, x)) => Apart(Filter(Append(s, x), S))
      BY <2>1, <2>2, <3>1, <3>2
    <3> QED
      BY <2>2, <3>1, <3>2, <3>3, <3>4
  <2>4. CASE x \notin S
    <3>1. Filter(Append(s, x), S) = Filter(s, S)
      BY <2>4, FilterAppend
    <3>2. Elems(Filter(Append(s, x), S)) = Elems(Append(s, x)) \cap S
      BY <2>1, <2>2, <2>4, <3>1
    <3> QED
      BY <2>1, <2>2, <3>1, <3>2
  <2> QED
    BY <2>3, <2>4
<1>3. Seq(A) \subseteq P
  <2> HIDE DEF P
  <2> QED
    BY <1>1, <1>2, SeqInductionOver
<1> QED
  BY <1>3

(* Filtering two pieces is filtering the whole.                            *)
LEMMA FilterConcat ==
  ASSUME NEW A, NEW S, NEW s \in Seq(A)
  PROVE  \A t \in Seq(A) : Filter(s \o t, S) = Filter(s, S) \o Filter(t, S)
<1> DEFINE P == {t \in Seq(A) : Filter(s \o t, S) = Filter(s, S) \o Filter(t, S)}
<1>0. Filter(s, S) \in Seq(A)
  BY FilterElems
<1>1. <<>> \in P
  <2>1. s \o <<>> = s /\ Filter(s, S) \o <<>> = Filter(s, S) /\ <<>> \in Seq(A)
    BY <1>0, ConcatEmptySeq
  <2> QED
    BY <2>1, FilterEmpty
<1>2. ASSUME NEW t \in Seq(A), NEW x \in A, t \in P PROVE Append(t, x) \in P
  <2>1. Filter(t, S) \in Seq(A) /\ s \o t \in Seq(A) /\ Append(t, x) \in Seq(A)
    BY FilterElems
  <2>2. s \o Append(t, x) = Append(s \o t, x)
    OBVIOUS
  <2>3. Filter(s, S) \o Append(Filter(t, S), x) = Append(Filter(s, S) \o Filter(t, S), x)
    <3> DEFINE fs == Filter(s, S)
               ft == Filter(t, S)
    <3>1. fs \in Seq(A) /\ ft \in Seq(A)
      BY <1>0, <2>1
    <3> HIDE DEF fs, ft
    <3>2. fs \o Append(ft, x) = Append(fs \o ft, x)
      BY <3>1
    <3> QED
      BY <3>2 DEF fs, ft
  <2>4. Filter(s \o t, S) = Filter(s, S) \o Filter(t, S)
    BY <1>2
  <2>5. Filter(Append(s \o t, x), S)
          = IF x \in S THEN Append(Filter(s \o t, S), x) ELSE Filter(s \o t, S)
    BY <2>1, FilterAppend
  <2>6. Filter(Append(t, x), S) = IF x \in S THEN Append(Filter(t, S), x) ELSE Filter(t, S)
    BY FilterAppend
  <2>7. Filter(s \o Append(t, x), S) = Filter(s, S) \o Filter(Append(t, x), S)
    BY <2>2, <2>3, <2>4, <2>5, <2>6
  <2> QED
    BY <2>1, <2>7
<1>3. Seq(A) \subseteq P
  <2> HIDE DEF P
  <2> QED
    BY <1>1, <1>2, SeqInductionOver
<1> QED
  BY <1>3

-----------------------------------------------------------------------------
(* What the rows, queue and loops are made of.                             *)
DataOK ==
  /\ rows \in Seq(Rows) /\ queue \in Seq(Items) /\ batch \in Seq(Rows)
  /\ arg \in Msgs \cup {None} /\ sent \subseteq Msgs
  /\ lock \in {"install", "record", "hand"} => arg \in Msgs
  /\ loops \in [Gens -> Loops]

(* What a row and a loop are made of.                                      *)
LEMMA RowTypes ==
  /\ \A k \in Kinds : Row(k) \in Rows
  /\ \A m \in Msgs : UserRow(m) \in Rows
  /\ \A m \in Msgs, inject \in BOOLEAN : [msg |-> m, inject |-> inject] \in Items
  BY DEF Rows, Row, UserRow, Kinds, Items

(* A loop that is created, being built, absent or gone is a loop.          *)
LEMMA LoopTypes ==
  /\ \A h \in Seq(Rows) : NewLoop(h) \in Loops /\ LoadedLoop(h) \in Loops
  /\ NoLoop \in Loops /\ DeadLoop \in Loops
<1>1. Row("reply") \in Rows
  BY RowTypes DEF Kinds, EndKinds
<1>2. ASSUME NEW h \in Seq(Rows) PROVE NewLoop(h) \in Loops
  BY <1>1, <1>2 DEF NewLoop, Loops, PCs
<1>7. ASSUME NEW h \in Seq(Rows) PROVE LoadedLoop(h) \in Loops
  <2> DEFINE n == NewLoop(h)
  <2>1. n \in Loops /\ "loaded" \in PCs
    BY <1>2, <1>7 DEF PCs
  <2> HIDE DEF n
  <2>2. [n EXCEPT !.pc = "loaded"] \in Loops
    BY <2>1 DEF Loops
  <2> QED
    BY <2>2 DEF n, LoadedLoop
<1>3. <<>> \in Seq(Rows)
  OBVIOUS
<1>4. NewLoop(<<>>) \in Loops
  BY <1>2, <1>3
<1>5. "none" \in PCs /\ "dead" \in PCs
  BY DEF PCs
<1>6. NoLoop \in Loops /\ DeadLoop \in Loops
  <2> DEFINE n == NewLoop(<<>>)
  <2> HIDE DEF n
  <2>1. [n EXCEPT !.pc = "none"] \in Loops /\ [n EXCEPT !.pc = "dead"] \in Loops
    BY <1>4, <1>5 DEF n, Loops
  <2> QED
    BY <2>1 DEF n, NoLoop, DeadLoop
<1> QED
  BY <1>2, <1>6, <1>7

(* A loop stays one when a field gets a value of its kind.                 *)
LEMMA LoopUpdates ==
  ASSUME NEW l \in Loops, NEW f
  PROVE  /\ f \in PCs => [l EXCEPT !.pc = f] \in Loops
         /\ f \in {"live", "cancelled", "expired"} => [l EXCEPT !.ctx = f] \in Loops
         /\ f \in Seq(Rows) => [l EXCEPT !.messageQueue = f] \in Loops
         /\ f \in Seq(Rows) => [l EXCEPT !.history = f] \in Loops
         /\ f \in BOOLEAN => [l EXCEPT !.retryPending = f] \in Loops
         /\ f \in BOOLEAN => [l EXCEPT !.notify = f] \in Loops
         /\ f \in Rows => [l EXCEPT !.last = f] \in Loops
         /\ f \in BOOLEAN => [l EXCEPT !.late = f] \in Loops
<1>1. f \in PCs => [l EXCEPT !.pc = f] \in Loops
  BY DEF Loops
<1>2. f \in {"live", "cancelled", "expired"} => [l EXCEPT !.ctx = f] \in Loops
  BY DEF Loops
<1>3. f \in Seq(Rows) => [l EXCEPT !.messageQueue = f] \in Loops
  BY DEF Loops
<1>4. f \in Seq(Rows) => [l EXCEPT !.history = f] \in Loops
  BY DEF Loops
<1>5. f \in BOOLEAN => [l EXCEPT !.retryPending = f] \in Loops
  BY Zenon DEF Loops
<1>6. f \in BOOLEAN => [l EXCEPT !.notify = f] \in Loops
  BY Zenon DEF Loops
<1>7. f \in Rows => [l EXCEPT !.last = f] \in Loops
  BY DEF Loops
<1>8. f \in BOOLEAN => [l EXCEPT !.late = f] \in Loops
  BY Zenon DEF Loops
<1> QED
  BY <1>1, <1>2, <1>3, <1>4, <1>5, <1>6, <1>7, <1>8

(* What takeInjectable records: the user rows of the items it takes.       *)
LEMMA InjectedTypes ==
  ASSUME DataOK, NEW failed
  PROVE  /\ Injected(failed) \in Seq(Rows)
         /\ Elems(Injected(failed)) = {UserRow(q.msg) : q \in Elems(queue) \cap Taken(failed)}
<1> DEFINE taken == Filter(queue, Taken(failed))
<1>1. taken \in Seq(Items) /\ Elems(taken) = Elems(queue) \cap Taken(failed)
  BY FilterElems DEF DataOK
<1>2. Injected(failed) = [k \in DOMAIN taken |-> UserRow(taken[k].msg)]
  BY DEF Injected
<1> HIDE DEF taken
<1>3. DOMAIN taken = 1..Len(taken) /\ Len(taken) \in Nat
      /\ \A k \in 1..Len(taken) : taken[k] \in Items
  BY <1>1
<1>4. \A k \in 1..Len(taken) : UserRow(taken[k].msg) \in Rows
  BY <1>3, RowTypes DEF Items
<1>5. Injected(failed) \in Seq(Rows)
  BY <1>2, <1>3, <1>4
<1>6. Elems(Injected(failed)) = {UserRow(q.msg) : q \in Elems(taken)}
  BY <1>2 DEF Elems
<1> QED
  BY <1>1, <1>5, <1>6

-----------------------------------------------------------------------------
(* After an injection the transcript and the queue are well formed.        *)
LEMMA InjectTypes ==
  ASSUME DataOK, NEW failed, RecordInjected(failed)
  PROVE  rows' \in Seq(Rows) /\ queue' \in Seq(Items)
<1>1. Injected(failed) \in Seq(Rows)
  BY InjectedTypes
<1>2. Filter(queue, Items \ Taken(failed)) \in Seq(Items)
  BY FilterElems DEF DataOK
<1>3. rows' = rows \o Injected(failed) /\ queue' = Filter(queue, Items \ Taken(failed))
  BY DEF RecordInjected
<1>4. rows \in Seq(Rows)
  BY DEF DataOK
<1> QED
  BY <1>1, <1>2, <1>3, <1>4

(* Every step of a loop keeps the data well formed, ...                    *)
LEMMA DataRun ==
  ASSUME DataOK, NEW g \in Gens, Run(g) \/ Expire(g)
  PROVE  DataOK'
<1> DEFINE l == loops[g]
<1>0. /\ loops \in [Gens -> Loops] /\ l \in Loops
      /\ l.history \in Seq(Rows) /\ l.messageQueue \in Seq(Rows) /\ l.last \in Rows
      /\ rows \in Seq(Rows) /\ queue \in Seq(Items)
  BY DEF DataOK, Loops
<1>l. DeadLoop \in Loops
  BY LoopTypes
<1>u. ASSUME NEW p \in PCs, loops' = [loops EXCEPT ![g].pc = p] PROVE loops' \in [Gens -> Loops]
  <2>1. loops' = [loops EXCEPT ![g] = [l EXCEPT !.pc = p]]
    BY <1>u
  <2>2. [l EXCEPT !.pc = p] \in Loops
    BY <1>0, LoopUpdates
  <2> HIDE DEF l
  <2> QED
    BY <1>0, <2>1, <2>2
<1>h. ASSUME NEW p \in PCs, NEW h \in Seq(Rows),
             loops' = [loops EXCEPT ![g].history = h, ![g].pc = p]
      PROVE  loops' \in [Gens -> Loops]
  <2> DEFINE l1 == [l EXCEPT !.history = h]
             l2 == [l1 EXCEPT !.pc = p]
  <2>1. loops' = [loops EXCEPT ![g] = l2]
    BY <1>0, <1>h
  <2>2. l1 \in Loops
    BY <1>0, LoopUpdates
  <2>3. l2 \in Loops
    <3> HIDE DEF l1
    <3> QED
      BY <2>2, LoopUpdates
  <2> HIDE DEF l2
  <2> QED
    BY <1>0, <2>1, <2>3
<1>d. ASSUME loops' = [loops EXCEPT ![g] = DeadLoop] PROVE loops' \in [Gens -> Loops]
  BY <1>0, <1>l, <1>d
<1>p. {"top", "wait", "start", "pending", "request", "tools", "marker", "ending", "ended",
       "fatal"} \subseteq PCs
  BY DEF PCs
<1>r. \A k \in Kinds : Row(k) \in Rows
  BY RowTypes
<1>k. {"use", "result", "reply", "marker", "error", "refusal", "truncated"} \subseteq Kinds
  BY DEF Kinds, EndKinds
<1>i. \A failed : Injected(failed) \in Seq(Rows)
  BY InjectedTypes
<1>f. /\ UNCHANGED <<queue, batch, lock, arg, sent>>
      /\ rows' \in Seq(Rows) /\ loops' \in [Gens -> Loops]
      => DataOK'
  BY DEF DataOK
<1>e. ASSUME NEW kind \in {"reply", "marker", "error", "refusal", "truncated"},
             RecordEnd(g, kind)
      PROVE  DataOK'
  <2> DEFINE l1 == [l EXCEPT !.last = Row(kind)]
             l2 == [l1 EXCEPT !.pc = "ending"]
  <2>1. loops' = [loops EXCEPT ![g] = l2]
    BY <1>0, <1>e DEF RecordEnd
  <2>2. l1 \in Loops /\ Row(kind) \in Rows
    BY <1>0, <1>r, <1>k, LoopUpdates
  <2>3. l2 \in Loops
    <3> HIDE DEF l1
    <3> QED
      BY <2>2, <1>p, LoopUpdates
  <2>4. loops' \in [Gens -> Loops]
    <3> HIDE DEF l2
    <3> QED
      BY <1>0, <2>1, <2>3
  <2>5. rows' \in Seq(Rows) /\ UNCHANGED <<queue, batch, lock, arg, sent>>
    BY <1>0, <1>e, <2>2 DEF RecordEnd, ManagerUnchanged, drainVars, lockVars
  <2> QED
    BY <1>f, <2>4, <2>5
<1> USE DEF OnlyLoop, ManagerUnchanged, Exit, Goto, dbVars, lockVars, drainVars
<1> HIDE DEF l
<1>1. CASE LoopStops(g)
  BY <1>0, <1>1, <1>d, <1>f DEF LoopStops
<1>2. CASE LoopTakes(g)
  <2> DEFINE h == loops[g].history \o loops[g].messageQueue
             l1 == [l EXCEPT !.history = h]
             l2 == [l1 EXCEPT !.messageQueue = <<>>]
             l3 == [l2 EXCEPT !.retryPending = FALSE]
             l4 == [l3 EXCEPT !.pc = "start"]
  <2>1. loops' = [loops EXCEPT ![g] = l4]
    BY <1>0, <1>2 DEF LoopTakes, l
  <2>2. h \in Seq(Rows) /\ <<>> \in Seq(Rows)
    BY <1>0 DEF l
  <2>3. l1 \in Loops
    BY <1>0, <2>2, LoopUpdates
  <2>4. l2 \in Loops
    <3> HIDE DEF l1
    <3> QED
      BY <2>2, <2>3, LoopUpdates
  <2>5. l3 \in Loops
    <3> HIDE DEF l2
    <3> QED
      BY <2>4, LoopUpdates
  <2>6. l4 \in Loops
    <3> HIDE DEF l3
    <3> QED
      BY <1>p, <2>5, LoopUpdates
  <2>7. loops' \in [Gens -> Loops]
    <3> HIDE DEF l4
    <3> QED
      BY <1>0, <2>1, <2>6
  <2> QED
    BY <1>0, <1>2, <1>f, <2>7 DEF LoopTakes
<1>3. CASE LoopRests(g)
  BY <1>0, <1>3, <1>u, <1>p, <1>f DEF LoopRests
<1>4. CASE LoopWakes(g)
  <2> DEFINE l1 == [l EXCEPT !.notify = FALSE]
             l2 == [l1 EXCEPT !.pc = "top"]
  <2>1. loops' = [loops EXCEPT ![g] = l2]
    BY <1>0, <1>4 DEF LoopWakes, l
  <2>2. l1 \in Loops
    BY <1>0, LoopUpdates
  <2>3. l2 \in Loops
    <3> HIDE DEF l1
    <3> QED
      BY <1>p, <2>2, LoopUpdates
  <2>4. loops' \in [Gens -> Loops]
    <3> HIDE DEF l2
    <3> QED
      BY <1>0, <2>1, <2>3
  <2> QED
    BY <1>0, <1>4, <1>f, <2>4 DEF LoopWakes
<1>5. CASE TakeNothing(g)
  BY <1>0, <1>5, <1>u, <1>p, <1>f DEF TakeNothing
<1>6. CASE PendingFails(g)
  <2>1. loops' \in [Gens -> Loops]
    BY <1>6, <1>u, <1>p DEF PendingFails
  <2>2. rows' \in Seq(Rows) /\ queue' \in Seq(Items)
    BY <1>6, InjectTypes DEF PendingFails
  <2> QED
    BY <1>6, <2>1, <2>2 DEF PendingFails, DataOK
<1>7. CASE RecordToolUse(g)
  <2>1. Append(loops[g].history, Row("use")) \in Seq(Rows) /\ rows' \in Seq(Rows)
    BY <1>0, <1>7, <1>r, <1>k DEF RecordToolUse, l
  <2>2. loops' \in [Gens -> Loops]
    BY <1>7, <1>h, <1>p, <2>1 DEF RecordToolUse
  <2> QED
    BY <1>7, <1>f, <2>1, <2>2 DEF RecordToolUse
<1>8. CASE PersistenceFails(g)
  BY <1>0, <1>8, <1>u, <1>p, <1>f DEF PersistenceFails
<1>9. CASE RequestAborted(g)
  BY <1>0, <1>9, <1>d, <1>f DEF RequestAborted
<1>10. CASE RequestExpired(g)
  BY <1>0, <1>10, <1>d, <1>f DEF RequestExpired
<1>11. CASE RecordReply(g)
  BY <1>11, <1>e DEF RecordReply
<1>12. CASE EndUnrecorded(g)
  BY <1>0, <1>12, <1>u, <1>p, <1>f DEF EndUnrecorded
<1>13. CASE RecordMarker(g)
  BY <1>13, <1>e DEF RecordMarker
<1>14. CASE SyncIdle(g)
  BY <1>0, <1>14, <1>u, <1>p, <1>f DEF SyncIdle
<1>15. CASE MirrorEnd(g)
  <2> DEFINE h == IF Mirrored(loops[g].last) THEN Append(loops[g].history, loops[g].last)
                  ELSE loops[g].history
  <2>1. h \in Seq(Rows)
    BY <1>0 DEF l
  <2>2. loops' = [loops EXCEPT ![g].history = h, ![g].pc = "top"]
    BY <1>0, <1>15 DEF MirrorEnd
  <2> HIDE DEF h
  <2>3. loops' \in [Gens -> Loops]
    BY <1>h, <1>p, <2>1, <2>2
  <2> QED
    BY <1>0, <1>15, <1>f, <2>3 DEF MirrorEnd
<1>16. CASE Expire(g)
  <2>1. loops' = [loops EXCEPT ![g] = [l EXCEPT !.ctx = "expired"]]
    BY <1>16 DEF Expire, l
  <2>2. [l EXCEPT !.ctx = "expired"] \in Loops
    BY <1>0, LoopUpdates
  <2>3. loops' \in [Gens -> Loops]
    BY <1>0, <2>1, <2>2
  <2> QED
    BY <1>0, <1>16, <1>f, <2>3 DEF Expire
<1>17. ASSUME NEW lost \in BOOLEAN, OnTurnStart(g, lost) PROVE DataOK'
  BY <1>0, <1>17, <1>u, <1>p, <1>f DEF OnTurnStart
<1>18. ASSUME NEW lost \in BOOLEAN, HandleFatalLoopExit(g, lost) PROVE DataOK'
  BY <1>0, <1>18, <1>d, <1>f DEF HandleFatalLoopExit
<1>19. ASSUME NEW failed \in Msgs \cup {None}, TakeInjectable(g, failed) PROVE DataOK'
  <2>1. loops[g].history \o Injected(failed) \in Seq(Rows)
    BY <1>0, <1>i DEF l
  <2>2. loops' \in [Gens -> Loops]
    BY <1>19, <1>h, <1>p, <2>1 DEF TakeInjectable
  <2>3. rows' \in Seq(Rows) /\ queue' \in Seq(Items)
    BY <1>19, InjectTypes DEF TakeInjectable
  <2> QED
    BY <1>19, <2>2, <2>3 DEF TakeInjectable, DataOK
<1>20. ASSUME NEW kind \in {"error", "refusal", "truncated"}, FailTurn(g, kind) PROVE DataOK'
  BY <1>20, <1>e DEF FailTurn
<1>21. ASSUME NEW endsTurn \in BOOLEAN, RecordToolResults(g, endsTurn) PROVE DataOK'
  <2>1. Append(loops[g].history, Row("result")) \in Seq(Rows) /\ rows' \in Seq(Rows)
    BY <1>0, <1>21, <1>r, <1>k DEF RecordToolResults, l
  <2>2. loops' \in [Gens -> Loops]
    BY <1>21, <1>h, <1>d, <1>p, <2>1 DEF RecordToolResults
  <2> QED
    BY <1>21, <1>f, <2>1, <2>2 DEF RecordToolResults
<1> QED
  BY <1>1, <1>2, <1>3, <1>4, <1>5, <1>6, <1>7, <1>8, <1>9, <1>10, <1>11,
     <1>12, <1>13, <1>14, <1>15, <1>16, <1>17, <1>18, <1>19, <1>20, <1>21 DEF Run

-----------------------------------------------------------------------------
(* ensureLoopLocked leaves proper loops behind, at both of its steps.      *)
LEMMA BuildTypes ==
  ASSUME DataOK, gen \in 0..MaxGen, LoadHistory \/ (InstallLoop /\ gen < MaxGen)
  PROVE  /\ loops' \in [Gens -> Loops]
         /\ gen + 1 \in Gens
         /\ \A g \in Gens : g # gen + 1 => loops'[g] = loops[g]
         /\ LoadHistory => loops'[gen + 1] = LoadedLoop(Context(rows))
         /\ InstallLoop => loops'[gen + 1] = [loops[gen + 1] EXCEPT !.pc = "top"]
<1>0. loops \in [Gens -> Loops] /\ gen + 1 \in Gens
  BY MaxGenAssumption DEF DataOK, LoadHistory, Gens
<1>1. CASE LoadHistory
  <2>1. Context(rows) \in Seq(Rows)
    BY FilterElems DEF DataOK, Context
  <2>2. LoadedLoop(Context(rows)) \in Loops
    BY <2>1, LoopTypes
  <2>3. loops' = [loops EXCEPT ![gen + 1] = LoadedLoop(Context(rows))]
    BY <1>1 DEF LoadHistory
  <2>4. loops' \in [Gens -> Loops] /\ loops'[gen + 1] = LoadedLoop(Context(rows))
        /\ \A g \in Gens : g # gen + 1 => loops'[g] = loops[g]
    BY <1>0, <2>2, <2>3
  <2>5. loops' = [loops EXCEPT ![gen + 1].pc = "top"] => loops'[gen + 1] = [loops[gen + 1] EXCEPT !.pc = "top"]
    BY <1>0
  <2> QED
    BY <1>0, <2>4, <2>5 DEF InstallLoop
<1>2. CASE InstallLoop /\ ~LoadHistory
  <2> DEFINE l == [loops[gen + 1] EXCEPT !.pc = "top"]
  <2>1. "top" \in PCs /\ loops[gen + 1] \in Loops
    BY <1>0 DEF PCs
  <2>2. l \in Loops
    BY <2>1, LoopUpdates
  <2>3. loops' = [loops EXCEPT ![gen + 1] = l]
    BY <1>2 DEF InstallLoop
  <2> HIDE DEF l
  <2>4. loops' \in [Gens -> Loops] /\ loops'[gen + 1] = l
        /\ \A g \in Gens : g # gen + 1 => loops'[g] = loops[g]
    BY <1>0, <2>2, <2>3
  <2> QED
    BY <1>0, <1>2, <2>4 DEF l
<1> QED
  BY <1>1, <1>2

(* A notice is spliced into the installed loop, or marks the one that is   *)
(* being built.                                                            *)
LEMMA SplicedTypes ==
  ASSUME DataOK, gen \in 0..MaxGen, loop \in Gens \cup {0}
  PROVE  /\ Spliced \in [Gens -> Loops]
         /\ loop # 0 => Spliced = [loops EXCEPT ![loop] =
              [loops[loop] EXCEPT !.history = Append(loops[loop].history, Row("notice"))]]
         /\ loop = 0 => \A g \in Gens : \/ Spliced[g] = loops[g]
                                         \/ /\ g = gen + 1
                                            /\ Spliced[g] = [loops[g] EXCEPT !.late = TRUE]
         /\ loop = 0 => \A g \in Gens :
              g = gen + 1 /\ At(g, "loaded") => Spliced[g] = [loops[g] EXCEPT !.late = TRUE]
<1>0. loops \in [Gens -> Loops]
  BY DEF DataOK
<1>1. CASE loop # 0
  <2> DEFINE l == loops[loop]
             h == Append(loops[loop].history, Row("notice"))
  <2>1. l \in Loops /\ Row("notice") \in Rows
    BY <1>0, <1>1, RowTypes DEF Kinds
  <2>2. h \in Seq(Rows)
    BY <2>1 DEF Loops
  <2>3. Spliced = [loops EXCEPT ![loop] = [l EXCEPT !.history = h]]
    BY <1>0, <1>1 DEF Spliced
  <2>4. [l EXCEPT !.history = h] \in Loops
    <3> HIDE DEF l, h
    <3> QED
      BY <2>1, <2>2, LoopUpdates
  <2>5. Spliced \in [Gens -> Loops]
    <3> HIDE DEF l, h
    <3> QED
      BY <1>0, <1>1, <2>3, <2>4
  <2> QED
    BY <1>1, <2>3, <2>5
<1>2. CASE loop = 0 /\ gen < MaxGen /\ loops[gen + 1].pc = "loaded"
  <2> DEFINE l == [loops[gen + 1] EXCEPT !.late = TRUE]
  <2>1. gen + 1 \in Gens
    BY <1>2, MaxGenAssumption DEF Gens
  <2>2. l \in Loops
    BY <1>0, <2>1, LoopUpdates
  <2>3. Spliced = [loops EXCEPT ![gen + 1] = l]
    BY <1>0, <1>2, <2>1 DEF Spliced
  <2>4. \A g \in Gens : IF g = gen + 1 THEN Spliced[g] = l ELSE Spliced[g] = loops[g]
    <3> HIDE DEF l
    <3> QED
      BY <1>0, <2>3
  <2>5. Spliced \in [Gens -> Loops]
    <3> HIDE DEF l
    <3> QED
      BY <1>0, <2>1, <2>2, <2>3
  <2> QED
    BY <1>2, <2>4, <2>5
<1>3. CASE loop = 0 /\ ~(gen < MaxGen /\ loops[gen + 1].pc = "loaded")
  <2>1. Spliced = loops
    BY <1>3 DEF Spliced
  <2>2. \A g \in Gens : ~(g = gen + 1 /\ At(g, "loaded"))
    BY <1>3, MaxGenAssumption DEF Gens, At
  <2> QED
    BY <1>0, <1>3, <2>1, <2>2
<1> QED
  BY <1>1, <1>2, <1>3

(* The same for a turn that is handed over.                                *)
LEMMA HandTypes ==
  ASSUME DataOK, loop \in Gens, NEW s \in Seq(Rows), Hand(s)
  PROVE  loops' \in [Gens -> Loops]
<1> DEFINE l == loops[loop]
           q == loops[loop].messageQueue \o s
           l1 == [l EXCEPT !.messageQueue = q]
           l2 == [l1 EXCEPT !.notify = TRUE]
<1>1. loops \in [Gens -> Loops] /\ l \in Loops /\ l.messageQueue \in Seq(Rows)
  BY DEF DataOK, Loops
<1>2. CASE loops' = loops
  BY <1>1, <1>2
<1>3. CASE loops' # loops
  <2>1. loops' = [loops EXCEPT ![loop] = l2]
    BY <1>1, <1>3 DEF Hand
  <2>2. q \in Seq(Rows)
    BY <1>1
  <2>3. l1 \in Loops
    <3> HIDE DEF l, q
    <3> QED
      BY <1>1, <2>2, LoopUpdates
  <2>4. l2 \in Loops
    <3> HIDE DEF l1
    <3> QED
      BY <2>3, LoopUpdates
  <2> HIDE DEF l2
  <2> QED
    BY <1>1, <2>1, <2>4
<1> QED
  BY <1>2, <1>3

(* ... and so does every step of the manager.                              *)
LEMMA DataManager ==
  ASSUME IInv, DataOK, Requests \/ Holder \/ Drain \/ Teardown \/ Notice
  PROVE  DataOK'
<1>0. /\ rows \in Seq(Rows) /\ queue \in Seq(Items) /\ batch \in Seq(Rows)
      /\ arg \in Msgs \cup {None} /\ sent \subseteq Msgs
      /\ loops \in [Gens -> Loops]
      /\ lock \in {"install", "record", "hand"} => arg \in Msgs
      /\ gen \in 0..MaxGen /\ <<>> \in Seq(Items) /\ <<>> \in Seq(Rows)
      /\ loop # 0 => loop \in Gens
  BY DEF DataOK, IInv, ControlOK
<1>s. ASSUME UNCHANGED <<rows, queue, batch, arg, sent, loops>>,
             lock' = lock \/ lock' \in {"free", "poke", "drain"}
      PROVE  DataOK'
  BY <1>s DEF DataOK
<1>r. \A k \in Kinds : Append(rows, Row(k)) \in Seq(Rows)
  <2>1. \A k \in Kinds : Row(k) \in Rows
    BY RowTypes
  <2> QED
    BY <1>0, <2>1
<1>q. ASSUME NEW m \in Msgs, NEW inject \in BOOLEAN
      PROVE  Append(queue, [msg |-> m, inject |-> inject]) \in Seq(Items)
  <2>1. [msg |-> m, inject |-> inject] \in Items
    BY RowTypes
  <2> HIDE DEF Items
  <2> QED
    BY <1>0, <2>1
<1>u. \A m \in Msgs : UserRow(m) \in Rows
  BY RowTypes
<1>k. {"stopped", "interrupted", "notice"} \subseteq Kinds
  BY DEF Kinds, EndKinds
<1> USE DEF dbVars, lockVars, tearVars, drainVars
<1>1. ASSUME NEW m \in Msgs, AcceptQueues(m) PROVE DataOK'
  BY <1>0, <1>1, <1>q DEF AcceptQueues, DataOK
<1>2. ASSUME NEW m \in Msgs, AcceptStarts(m) PROVE DataOK'
  <2>1. loops' \in [Gens -> Loops]
    BY <1>0, <1>2, BuildTypes DEF AcceptStarts
  <2> QED
    BY <1>0, <1>2, <2>1 DEF AcceptStarts, DataOK
<1>3. ASSUME NEW m \in Msgs, CancelQueuedMessage(m) PROVE DataOK'
  <2>1. queue' \in Seq(Items)
    BY <1>0, <1>3, FilterElems DEF CancelQueuedMessage
  <2> QED
    BY <1>0, <1>3, <2>1 DEF CancelQueuedMessage, DataOK
<1>4. ASSUME NEW m \in Msgs, NEW inject \in BOOLEAN, QueueMessage(m, inject)
      PROVE DataOK'
  BY <1>0, <1>4, <1>q DEF QueueMessage, DataOK
<1>5. ASSUME NEW lost \in BOOLEAN, RetryLastLLMRequest(lost) PROVE DataOK'
  <2> DEFINE l == loops[loop]
             l1 == [l EXCEPT !.retryPending = TRUE]
             l2 == [l1 EXCEPT !.notify = TRUE]
  <2>1. loop \in Gens /\ loops' = [loops EXCEPT ![loop] = l2]
    BY <1>0, <1>5 DEF RetryLastLLMRequest
  <2>2. l1 \in Loops
    <3>1. l \in Loops
      BY <1>0, <2>1
    <3> HIDE DEF l
    <3> QED
      BY <3>1, LoopUpdates
  <2>3. l2 \in Loops
    <3> HIDE DEF l1
    <3> QED
      BY <2>2, LoopUpdates
  <2> HIDE DEF l2
  <2> QED
    BY <1>0, <1>5, <2>1, <2>3 DEF RetryLastLLMRequest, DataOK
<1>6. CASE CancelQueuedMessages
  BY <1>0, <1>6 DEF CancelQueuedMessages, DataOK
<1>7. CASE CancelConversation
  BY <1>0, <1>7 DEF CancelConversation, DataOK
<1>8. CASE CancelIdleFails \/ SendQueuedNow \/ ResetLoop \/ SetCwd
  BY <1>8, <1>s DEF CancelIdleFails, SendQueuedNow, ResetLoop, SetCwd
<1>9. CASE Requests
  BY <1>1, <1>2, <1>3, <1>4, <1>5, <1>6, <1>7, <1>8, <1>9 DEF Requests
<1>10. CASE RecordTurnStart
  <2>1. rows' \in Seq(Rows)
    BY <1>0, <1>10, <1>u DEF RecordTurnStart
  <2> QED
    BY <1>0, <1>10, <2>1 DEF RecordTurnStart, DataOK
<1>11. ASSUME NEW lost \in BOOLEAN, RejectTurnStart(lost) PROVE DataOK'
  BY <1>11, <1>s DEF RejectTurnStart
<1>12. CASE QueueTurn
  <2>1. loop \in Gens
    BY <1>0, <1>12 DEF QueueTurn, IInv, LockInv
  <2>2. <<UserRow(arg)>> \in Seq(Rows)
    <3>1. UserRow(arg) \in Rows
      BY <1>0, <1>12, <1>u DEF QueueTurn
    <3> QED
      BY <3>1
  <2>3. loops' \in [Gens -> Loops]
    BY <1>12, <2>1, <2>2, HandTypes DEF QueueTurn
  <2> QED
    BY <1>0, <1>12, <2>3 DEF QueueTurn, DataOK
<1>13. CASE DrainQueueIfIdle
  BY <1>13, <1>s DEF DrainQueueIfIdle
<1>29. CASE AcceptInstalls
  <2>1. loops' \in [Gens -> Loops]
    BY <1>0, <1>29, BuildTypes DEF AcceptInstalls, IInv, LockInv, Building
  <2> QED
    BY <1>0, <1>29, <2>1 DEF AcceptInstalls, DataOK
<1>14. CASE Holder
  BY <1>10, <1>11, <1>12, <1>13, <1>14, <1>29 DEF Holder
<1>15. CASE BeginPendingDrain \/ DrainEnter \/ DrainLeave \/ FinishPendingDrainPass
  BY <1>15, <1>s DEF BeginPendingDrain, DrainEnter, DrainLeave, FinishPendingDrainPass
<1>16. CASE DrainStart
  <2>1. loops' \in [Gens -> Loops] /\ batch' \in Seq(Rows)
    BY <1>0, <1>16, BuildTypes DEF DrainStart
  <2> QED
    BY <1>0, <1>16, <2>1 DEF DrainStart, DataOK
<1>30. CASE DrainInstalls
  <2>1. loops' \in [Gens -> Loops]
    BY <1>0, <1>30, BuildTypes DEF DrainInstalls, IInv, LockInv, Building
  <2> QED
    BY <1>0, <1>30, <2>1 DEF DrainInstalls, DataOK
<1>17. CASE DrainRecord
  <2>1. Head(queue) \in Items /\ Tail(queue) \in Seq(Items)
    BY <1>0, <1>17, HeadTailProperties DEF DrainRecord
  <2>2. UserRow(Head(queue).msg) \in Rows
    BY <1>u, <2>1 DEF Items
  <2>3. rows' \in Seq(Rows) /\ batch' \in Seq(Rows) /\ queue' \in Seq(Items)
    BY <1>0, <1>17, <2>1, <2>2 DEF DrainRecord
  <2> QED
    BY <1>0, <1>17, <2>3 DEF DrainRecord, DataOK
<1>18. CASE DrainRecordFails \/ DrainHand
  <2>1. loop \in Gens /\ Hand(batch)
    BY <1>0, <1>18 DEF DrainRecordFails, DrainHand, IInv, LockInv
  <2>2. loops' \in [Gens -> Loops]
    BY <1>0, <2>1, HandTypes
  <2>3. batch' \in Seq(Rows) /\ lock' \in {lock, "free"}
        /\ UNCHANGED <<rows, queue, arg, sent>>
    BY <1>0, <1>18 DEF DrainRecordFails, DrainHand
  <2> QED
    BY <1>0, <2>2, <2>3 DEF DataOK
<1>19. CASE Drain
  BY <1>15, <1>16, <1>17, <1>18, <1>19, <1>30 DEF Drain
<1>20. CASE TeardownClears
  BY <1>0, <1>20 DEF TeardownClears, DataOK
<1>21. CASE TeardownStops
  <2> DEFINE l == loops[victim]
             c == IF l.ctx = "live" THEN "cancelled" ELSE l.ctx
  <2>1. victim \in Gens
    BY <1>21 DEF TeardownStops, IInv, InstallInv
  <2>2. l \in Loops /\ c \in {"live", "cancelled", "expired"}
    BY <1>0, <2>1 DEF Loops
  <2>3. loops' = [loops EXCEPT ![victim] = [l EXCEPT !.ctx = c]]
    BY <1>0, <1>21, <2>1 DEF TeardownStops
  <2> HIDE DEF l, c
  <2>4. [l EXCEPT !.ctx = c] \in Loops
    BY <2>2, LoopUpdates
  <2>5. loops' \in [Gens -> Loops]
    BY <1>0, <2>1, <2>3, <2>4
  <2> QED
    BY <1>0, <1>21, <2>5 DEF TeardownStops, DataOK
<1>22. CASE TeardownRecords
  <2>1. rows' \in Seq(Rows)
    BY <1>22, <1>r, <1>k DEF TeardownRecords
  <2> QED
    BY <1>0, <1>22, <2>1 DEF TeardownRecords, DataOK
<1>23. CASE TeardownCloses \/ TeardownRecordFails
  BY <1>23, <1>s DEF TeardownCloses, TeardownRecordFails
<1>24. CASE Teardown
  BY <1>20, <1>21, <1>22, <1>23, <1>24 DEF Teardown
<1>25. CASE RecordCwdChangeNotice
  <2>1. rows' \in Seq(Rows)
    BY <1>25, <1>r, <1>k DEF RecordCwdChangeNotice
  <2> QED
    BY <1>0, <1>25, <2>1 DEF RecordCwdChangeNotice, DataOK
<1>26. CASE NoticeFails
  BY <1>26, <1>s DEF NoticeFails
<1>27. CASE AppendHistory
  <2>1. loops' \in [Gens -> Loops]
    BY <1>27, SplicedTypes DEF AppendHistory, IInv, ControlOK
  <2> QED
    BY <1>0, <1>27, <2>1 DEF AppendHistory, DataOK
<1>28. CASE Notice
  BY <1>25, <1>26, <1>27, <1>28 DEF Notice
<1> QED
  BY <1>9, <1>14, <1>19, <1>24, <1>28

-----------------------------------------------------------------------------
(* A transcript with no user message twice.                                *)
Unrepeated(s) == \A i, j \in DOMAIN s : s[i].kind = "user" /\ s[i] = s[j] => i = j

(* Transcript r and queue q hold each message that was sent (set s) at     *)
(* most once between them, and no other.                                   *)
Once(r, q, s) ==
  /\ Unrepeated(r) /\ Apart(q)
  /\ \A x \in Elems(q) : x.msg \in s /\ UserRow(x.msg) \notin Elems(r)
  /\ \A m \in Msgs : UserRow(m) \in Elems(r) => m \in s

(* A turn start holds a message that is neither queued nor recorded yet;   *)
(* when it hands it to the loop it is recorded.                            *)
ArgInv ==
  /\ lock \in {"install", "record"} =>
       /\ arg \in sent /\ UserRow(arg) \notin Elems(rows)
       /\ \A x \in Elems(queue) : x.msg # arg
  /\ lock = "hand" => UserRow(arg) \in Elems(rows)

(* What is handed to a loop is recorded.                                   *)
HandedInv ==
  /\ Elems(batch) \subseteq Elems(rows)
  /\ \A g \in Gens : Elems(loops[g].messageQueue) \subseteq Elems(rows)

(* All three.                                                              *)
OnceInv == Once(rows, queue, sent) /\ ArgInv /\ HandedInv

(* A row that is not there yet repeats none, ...                           *)
LEMMA UnrepeatedAppend ==
  ASSUME NEW A, NEW s \in Seq(A), NEW x \in A, Unrepeated(s),
         x.kind = "user" => x \notin Elems(s)
  PROVE  Unrepeated(Append(s, x))
<1> DEFINE t == Append(s, x)
           n == Len(s)
<1>1. /\ n \in Nat /\ t[n + 1] = x /\ DOMAIN s = 1..n /\ DOMAIN t = 1..(n + 1)
      /\ \A k \in 1..n : t[k] = s[k]
  BY AppendProperties, LenProperties
<1> HIDE DEF t, n
<1>2. ASSUME NEW i \in 1..(n + 1), NEW j \in 1..(n + 1), t[i].kind = "user", t[i] = t[j]
      PROVE  i = j
  <2>1. (i \in 1..n \/ i = n + 1) /\ (j \in 1..n \/ j = n + 1)
    BY <1>1
  <2>2. \A k \in 1..n : s[k] \in Elems(s)
    BY <1>1 DEF Elems
  <2>3. CASE i \in 1..n /\ j \in 1..n
    BY <1>1, <1>2, <2>3 DEF Unrepeated
  <2>4. CASE i \in 1..n /\ j = n + 1
    BY <1>1, <1>2, <2>2, <2>4
  <2>5. CASE i = n + 1 /\ j \in 1..n
    BY <1>1, <1>2, <2>2, <2>5
  <2> QED
    BY <2>1, <2>3, <2>4, <2>5
<1>3. Unrepeated(t)
  BY <1>1, <1>2 DEF Unrepeated
<1> QED
  BY <1>3 DEF t

(* ... nor does a piece that shares no user row with the transcript.       *)
LEMMA UnrepeatedConcat ==
  ASSUME NEW A, NEW s \in Seq(A), NEW t \in Seq(A), Unrepeated(s), Unrepeated(t),
         \A x \in Elems(t) : x.kind = "user" => x \notin Elems(s)
  PROVE  Unrepeated(s \o t)
<1> DEFINE u == s \o t
           m == Len(s)
           n == Len(t)
<1>1. /\ m \in Nat /\ n \in Nat
      /\ DOMAIN s = 1..m /\ DOMAIN t = 1..n /\ DOMAIN u = 1..(m + n)
      /\ \A k \in 1..(m + n) : u[k] = IF k <= m THEN s[k] ELSE t[k - m]
  BY ConcatProperties, LenProperties
<1> HIDE DEF u, m, n
<1>2. \A k \in 1..(m + n) : k \in 1..m \/ (~(k <= m) /\ k - m \in 1..n)
  BY <1>1
<1>3. \A k \in 1..m : u[k] = s[k] /\ s[k] \in Elems(s)
  <2>1. \A k \in 1..m : k \in 1..(m + n) /\ k <= m
    BY <1>1
  <2> QED
    BY <1>1, <2>1 DEF Elems
<1>4. \A k \in 1..(m + n) : ~(k <= m) => u[k] = t[k - m] /\ t[k - m] \in Elems(t)
  BY <1>1, <1>2 DEF Elems
<1>5. ASSUME NEW i \in 1..(m + n), NEW j \in 1..(m + n), u[i].kind = "user", u[i] = u[j]
      PROVE  i = j
  <2>1. CASE i \in 1..m /\ j \in 1..m
    BY <1>1, <1>3, <1>5, <2>1 DEF Unrepeated
  <2>2. CASE i \in 1..m /\ ~(j <= m)
    BY <1>3, <1>4, <1>5, <2>2
  <2>3. CASE ~(i <= m) /\ j \in 1..m
    BY <1>3, <1>4, <1>5, <2>3
  <2>4. CASE ~(i <= m) /\ ~(j <= m)
    <3>1. i - m \in 1..n /\ j - m \in 1..n /\ t[i - m] = t[j - m] /\ t[i - m].kind = "user"
      BY <1>2, <1>4, <1>5, <2>4, <1>1
    <3>2. i - m = j - m
      BY <1>1, <3>1 DEF Unrepeated
    <3> QED
      BY <1>1, <3>2
  <2> QED
    BY <1>2, <2>1, <2>2, <2>3, <2>4
<1>6. Unrepeated(u)
  BY <1>1, <1>5 DEF Unrepeated
<1> QED
  BY <1>6 DEF u

(* A row that is no user message can be recorded, ...                      *)
LEMMA OnceRow ==
  ASSUME NEW r \in Seq(Rows), NEW q, NEW s, Once(r, q, s), NEW x \in Rows,
         x.kind # "user"
  PROVE  Once(Append(r, x), q, s)
<1>1. Elems(Append(r, x)) = Elems(r) \cup {x}
  BY ElemsAppend
<1>2. \A m : UserRow(m) # x
  BY DEF UserRow
<1>3. Unrepeated(Append(r, x))
  BY UnrepeatedAppend DEF Once
<1> QED
  BY <1>1, <1>2, <1>3 DEF Once

(* ... a message that was sent and is nowhere too, ...                     *)
LEMMA OnceUserRow ==
  ASSUME NEW r \in Seq(Rows), NEW q \in Seq(Items), NEW s \in SUBSET Msgs, Once(r, q, s),
         NEW m \in s, UserRow(m) \notin Elems(r), \A x \in Elems(q) : x.msg # m
  PROVE  Once(Append(r, UserRow(m)), q, s)
<1>0. UserRow(m) \in Rows
  BY RowTypes
<1>1. Elems(Append(r, UserRow(m))) = Elems(r) \cup {UserRow(m)}
  BY <1>0, ElemsAppend
<1>2. \A k : UserRow(k) = UserRow(m) => k = m
  BY DEF UserRow
<1>3. Unrepeated(Append(r, UserRow(m)))
  BY <1>0, UnrepeatedAppend DEF Once
<1> QED
  BY <1>1, <1>2, <1>3 DEF Once

(* ... or it is queued, ...                                                *)
LEMMA OnceEnqueue ==
  ASSUME NEW r \in Seq(Rows), NEW q \in Seq(Items), NEW s \in SUBSET Msgs, Once(r, q, s),
         NEW m \in Msgs, m \notin s, NEW inject \in BOOLEAN
  PROVE  Once(r, Append(q, [msg |-> m, inject |-> inject]), s \cup {m})
<1> DEFINE x == [msg |-> m, inject |-> inject]
<1>1. x \in Items /\ x.msg = m
  BY RowTypes
<1> HIDE DEF x
<1>2. \A y \in Elems(q) : y.msg # x.msg
  BY <1>1 DEF Once
<1>3. Elems(Append(q, x)) = Elems(q) \cup {x} /\ Apart(Append(q, x))
  BY <1>1, <1>2, ElemsAppend DEF Once
<1>4. Once(r, Append(q, x), s \cup {m})
  BY <1>1, <1>3 DEF Once
<1> QED
  BY <1>4 DEF x

(* ... queued items may go, ...                                            *)
LEMMA OnceFewer ==
  ASSUME NEW r, NEW q, NEW s, Once(r, q, s),
         NEW p, Elems(p) \subseteq Elems(q), Apart(p)
  PROVE  Once(r, p, s)
  BY DEF Once

(* ... and a message may be sent.                                          *)
LEMMA OnceSent ==
  ASSUME NEW r, NEW q, NEW s, Once(r, q, s), NEW t, s \subseteq t
  PROVE  Once(r, q, t)
  BY DEF Once

(* The rest of a queue has the other items.                                *)
LEMMA TailElems ==
  ASSUME NEW A, NEW q \in Seq(A), q # <<>>
  PROVE  /\ Elems(q) = Elems(Tail(q)) \cup {Head(q)}
         /\ Apart(q) => Apart(Tail(q)) /\ \A x \in Elems(Tail(q)) : x.msg # Head(q).msg
<1> DEFINE t == Tail(q)
           n == Len(q)
<1>1. /\ n \in Nat /\ n >= 1 /\ Head(q) = q[1] /\ DOMAIN q = 1..n
      /\ DOMAIN t = 1..(n - 1) /\ \A i \in 1..(n - 1) : t[i] = q[i + 1]
  <2>1. n \in Nat \ {0} /\ DOMAIN q = 1..n
    BY LenProperties, EmptySeq
  <2>2. /\ t \in Seq(A) /\ Len(t) = n - 1
        /\ \A i \in 1..Len(t) : t[i] = q[i + 1]
    BY HeadTailProperties
  <2>3. Head(q) = q[1]
    OBVIOUS
  <2>4. DOMAIN t = 1..Len(t)
    BY <2>2
  <2> HIDE DEF t, n
  <2> QED
    BY <2>1, <2>2, <2>3, <2>4
<1> HIDE DEF t, n
<1>2. \A i \in 1..(n - 1) : i + 1 \in 1..n /\ i + 1 # 1
  BY <1>1
<1>3. \A k \in 1..n : k = 1 \/ (k - 1 \in 1..(n - 1) /\ (k - 1) + 1 = k)
  BY <1>1
<1>4. \A x \in Elems(t) : x \in Elems(q)
  <2>1. ASSUME NEW i \in 1..(n - 1) PROVE t[i] \in Elems(q)
    <3>1. t[i] = q[i + 1] /\ i + 1 \in DOMAIN q
      BY <1>1, <1>2
    <3> QED
      BY <3>1 DEF Elems
  <2> QED
    BY <1>1, <2>1 DEF Elems
<1>5. Head(q) \in Elems(q)
  BY <1>1 DEF Elems
<1>6. \A x \in Elems(q) : x \in Elems(t) \cup {Head(q)}
  <2>1. ASSUME NEW k \in 1..n, k # 1 PROVE q[k] \in Elems(t)
    <3>1. k - 1 \in 1..(n - 1) /\ (k - 1) + 1 = k
      BY <1>3, <2>1
    <3>2. t[k - 1] = q[(k - 1) + 1]
      BY <1>1, <3>1
    <3>3. t[k - 1] = q[k] /\ k - 1 \in DOMAIN t
      BY <1>1, <3>1, <3>2
    <3> QED
      BY <3>3 DEF Elems
  <2> QED
    BY <1>1, <2>1 DEF Elems
<1>7. ASSUME Apart(q) PROVE Apart(t) /\ \A x \in Elems(t) : x.msg # Head(q).msg
  <2>1. \A i, j \in 1..n : q[i].msg = q[j].msg => i = j
    BY <1>1, <1>7 DEF Apart
  <2>2. ASSUME NEW i \in 1..(n - 1), NEW j \in 1..(n - 1), t[i].msg = t[j].msg PROVE i = j
    <3>1. i + 1 = j + 1
      BY <1>1, <1>2, <2>1, <2>2
    <3> QED
      BY <3>1
  <2>3. ASSUME NEW i \in 1..(n - 1) PROVE t[i].msg # Head(q).msg
    BY <1>1, <1>2, <2>1
  <2>4. Apart(t)
    BY <1>1, <2>2 DEF Apart
  <2>5. \A x \in Elems(t) : x.msg # Head(q).msg
    BY <1>1, <2>3 DEF Elems
  <2> QED
    BY <2>4, <2>5
<1>8. Elems(q) = Elems(t) \cup {Head(q)}
  BY <1>4, <1>5, <1>6
<1> QED
  BY <1>7, <1>8 DEF t

(* takeInjectable moves each item it takes from the queue to the           *)
(* transcript.                                                             *)
LEMMA OnceInject ==
  ASSUME DataOK, Once(rows, queue, sent), NEW failed, RecordInjected(failed)
  PROVE  Once(rows', queue', sent) /\ Elems(rows) \subseteq Elems(rows')
<1> DEFINE taken == Filter(queue, Taken(failed))
           inj == Injected(failed)
<1>0. rows \in Seq(Rows) /\ queue \in Seq(Items)
  BY DEF DataOK
<1>1. taken \in Seq(Items) /\ Apart(taken) /\ Elems(taken) = Elems(queue) \cap Taken(failed)
  BY <1>0, FilterElems DEF Once
<1>2. inj \in Seq(Rows) /\ Elems(inj) = {UserRow(q.msg) : q \in Elems(queue) \cap Taken(failed)}
  BY InjectedTypes
<1>3. inj = [k \in DOMAIN taken |-> UserRow(taken[k].msg)]
  BY DEF Injected
<1>4. rows' = rows \o inj /\ queue' = Filter(queue, Items \ Taken(failed))
  BY DEF RecordInjected
<1> HIDE DEF taken, inj
<1>5. /\ Apart(queue')
      /\ Elems(queue') = Elems(queue) \cap (Items \ Taken(failed))
  BY <1>0, <1>4, FilterElems DEF Once
<1>6. \A a, b : UserRow(a) = UserRow(b) => a = b
  BY DEF UserRow
<1>7. Unrepeated(inj)
  <2>1. ASSUME NEW i \in DOMAIN taken, NEW j \in DOMAIN taken, inj[i] = inj[j] PROVE i = j
    <3>1. taken[i].msg = taken[j].msg
      BY <1>3, <1>6, <2>1
    <3> QED
      BY <1>1, <3>1 DEF Apart
  <2> QED
    BY <1>3, <2>1 DEF Unrepeated
<1>8. \A x \in Elems(inj) : x \notin Elems(rows)
  BY <1>2 DEF Once
<1>9. Unrepeated(rows')
  BY <1>0, <1>2, <1>4, <1>7, <1>8, UnrepeatedConcat DEF Once
<1>10. Elems(rows') = Elems(rows) \cup Elems(inj)
  BY <1>0, <1>2, <1>4, ElemsConcat
<1>11. ASSUME NEW x \in Elems(queue')
       PROVE  x.msg \in sent /\ UserRow(x.msg) \notin Elems(rows')
  <2>1. x \in Elems(queue) /\ x \notin Taken(failed)
    BY <1>5
  <2>2. UserRow(x.msg) \notin Elems(inj)
    <3>1. SUFFICES ASSUME UserRow(x.msg) \in Elems(inj) PROVE FALSE
      OBVIOUS
    <3>2. PICK q \in Elems(queue) \cap Taken(failed) : UserRow(q.msg) = UserRow(x.msg)
      BY <1>2, <3>1
    <3>3. q.msg = x.msg
      BY <1>6, <3>2
    <3>4. q = x
      BY <2>1, <3>2, <3>3 DEF Once, Apart, Elems
    <3> QED
      BY <2>1, <3>2, <3>4
  <2> QED
    BY <1>10, <2>1, <2>2 DEF Once
<1>12. ASSUME NEW m \in Msgs, UserRow(m) \in Elems(rows') PROVE m \in sent
  <2>1. CASE UserRow(m) \in Elems(rows)
    BY <2>1 DEF Once
  <2>2. CASE UserRow(m) \in Elems(inj)
    <3>1. PICK q \in Elems(queue) : UserRow(q.msg) = UserRow(m)
      BY <1>2, <2>2
    <3> QED
      BY <1>6, <3>1 DEF Once
  <2> QED
    BY <1>10, <1>12, <2>1, <2>2
<1> QED
  BY <1>5, <1>9, <1>10, <1>11, <1>12 DEF Once

-----------------------------------------------------------------------------
(* A step that takes from the queues at most keeps the invariant, ...      *)
LEMMA OnceLess ==
  ASSUME OnceInv, UNCHANGED <<rows, arg>>,
         sent \subseteq sent', Elems(queue') \subseteq Elems(queue), Apart(queue'),
         lock' = lock \/ lock' \in {"free", "poke", "drain"},
         Elems(batch') \subseteq Elems(rows),
         \A h \in Gens : Elems(loops'[h].messageQueue) \subseteq Elems(rows)
  PROVE  OnceInv'
<1>1. Once(rows, queue', sent)
  BY OnceFewer DEF OnceInv
<1>2. Once(rows, queue', sent')
  BY <1>1, OnceSent
<1>3. Once(rows, queue, sent)'
  BY <1>2
<1>4. ArgInv'
  BY DEF OnceInv, ArgInv
<1>5. HandedInv'
  BY DEF HandedInv
<1> QED
  BY <1>3, <1>4, <1>5 DEF OnceInv

(* ... and so does one that records a row other than a user message.       *)
LEMMA OnceOther ==
  ASSUME OnceInv, DataOK, UNCHANGED <<queue, sent, batch, lock, arg>>,
         NEW x \in Rows, x.kind # "user", rows' = Append(rows, x),
         \A h \in Gens : \/ loops'[h].messageQueue = loops[h].messageQueue
                         \/ loops'[h].messageQueue = <<>>
  PROVE  OnceInv'
<1>0. rows \in Seq(Rows)
  BY DEF DataOK
<1>1. Elems(rows') = Elems(rows) \cup {x}
  BY <1>0, ElemsAppend
<1>2. Once(rows', queue, sent)
  BY <1>0, OnceRow DEF OnceInv
<1>3. Once(rows, queue, sent)'
  BY <1>2
<1>4. \A m : UserRow(m) # x
  BY DEF UserRow
<1>5. ArgInv'
  BY <1>1, <1>4 DEF OnceInv, ArgInv
<1>6. HandedInv'
  <2>1. Elems(<<>>) = {}
    BY ElemsEmpty
  <2> QED
    BY <1>1, <2>1 DEF OnceInv, HandedInv
<1> QED
  BY <1>3, <1>5, <1>6 DEF OnceInv

(* Every step of a loop keeps each message once, ...                       *)
LEMMA OnceRun ==
  ASSUME DataOK, OnceInv, NEW g \in Gens, Run(g) \/ Expire(g)
  PROVE  OnceInv'
<1> DEFINE Same(h) == loops'[h].messageQueue = loops[h].messageQueue
           Kept == \A h \in Gens : Same(h) \/ loops'[h].messageQueue = <<>>
           Still == UNCHANGED <<rows, queue, sent, batch, lock, arg>> /\ Kept
<1>0. loops \in [Gens -> Loops]
  BY DEF DataOK
<1>d. ASSUME loops' = [loops EXCEPT ![g] = DeadLoop] PROVE Kept
  BY <1>0, <1>d DEF DeadLoop, NewLoop
<1>p. ASSUME NEW p, loops' = [loops EXCEPT ![g].pc = p] PROVE Kept
  BY <1>0, <1>p DEF Loops
<1>h. ASSUME NEW p, NEW h, loops' = [loops EXCEPT ![g].history = h, ![g].pc = p] PROVE Kept
  BY <1>0, <1>h DEF Loops
<1>s. ASSUME Still PROVE OnceInv'
  <2>1. Elems(<<>>) = {}
    BY ElemsEmpty
  <2>2. \A h \in Gens : Elems(loops'[h].messageQueue) \subseteq Elems(rows)
    BY <1>s, <2>1 DEF OnceInv, HandedInv
  <2> QED
    BY <1>s, <2>2, OnceLess DEF OnceInv, Once, HandedInv
<1>i. ASSUME NEW failed, RecordInjected(failed), lock = "free", Kept,
             UNCHANGED <<sent, batch, lock, arg>>
      PROVE  OnceInv'
  <2>1. Once(rows', queue', sent) /\ Elems(rows) \subseteq Elems(rows')
    BY <1>i, OnceInject DEF OnceInv
  <2>2. Once(rows, queue, sent)'
    BY <1>i, <2>1
  <2>3. ArgInv'
    BY <1>i DEF ArgInv
  <2>4. HandedInv'
    <3>1. Elems(<<>>) = {}
      BY ElemsEmpty
    <3> QED
      BY <1>i, <2>1, <3>1 DEF OnceInv, HandedInv
  <2> QED
    BY <2>2, <2>3, <2>4 DEF OnceInv
<1>r. ASSUME NEW k \in {"use", "result", "reply", "marker", "error", "refusal", "truncated"},
             rows' = Append(rows, Row(k)), Kept,
             UNCHANGED <<queue, sent, batch, lock, arg>>
      PROVE  OnceInv'
  <2>1. k \in Kinds
    BY DEF Kinds, EndKinds
  <2>2. Row(k) \in Rows /\ Row(k).kind # "user"
    BY <2>1, RowTypes DEF Row
  <2> QED
    BY <1>r, <2>2, OnceOther
<1>e. ASSUME NEW k \in {"reply", "marker", "error", "refusal", "truncated"}, RecordEnd(g, k)
      PROVE  OnceInv'
  <2>1. Kept
    BY <1>0, <1>e DEF RecordEnd, Loops
  <2> HIDE DEF Kept
  <2> QED
    BY <1>e, <1>r, <2>1 DEF RecordEnd, ManagerUnchanged, drainVars, lockVars
<1> USE DEF OnlyLoop, ManagerUnchanged, Exit, Goto, dbVars, lockVars, drainVars
<1> HIDE DEF Kept
<1>1. CASE LoopStops(g) \/ RequestAborted(g) \/ RequestExpired(g)
  BY <1>1, <1>d, <1>s DEF LoopStops, RequestAborted, RequestExpired
<1>2. CASE LoopTakes(g)
  <2>1. Kept
    BY <1>0, <1>2 DEF LoopTakes, Loops, Kept
  <2> QED
    BY <1>2, <1>s, <2>1 DEF LoopTakes
<1>3. CASE LoopRests(g) \/ TakeNothing(g) \/ PersistenceFails(g) \/ EndUnrecorded(g)
           \/ SyncIdle(g)
  BY <1>3, <1>p, <1>s DEF LoopRests, TakeNothing, PersistenceFails, EndUnrecorded, SyncIdle
<1>4. CASE LoopWakes(g) \/ Expire(g)
  <2>1. Kept
    <3>1. CASE LoopWakes(g)
      BY <1>0, <3>1 DEF LoopWakes, Loops, Kept
    <3>2. CASE Expire(g)
      <4>1. loops' = [loops EXCEPT ![g].ctx = "expired"]
        BY <3>2 DEF Expire
      <4> QED
        BY <1>0, <4>1 DEF Loops, Kept
    <3> QED
      BY <1>4, <3>1, <3>2
  <2>2. UNCHANGED <<rows, queue, sent, batch, lock, arg>>
    BY <1>4 DEF LoopWakes, Expire
  <2> QED
    BY <1>s, <2>1, <2>2
<1>6. CASE PendingFails(g)
  BY <1>6, <1>p, <1>i DEF PendingFails
<1>7. CASE RecordToolUse(g)
  BY <1>7, <1>h, <1>r DEF RecordToolUse
<1>8. CASE RecordReply(g) \/ RecordMarker(g)
  BY <1>8, <1>e DEF RecordReply, RecordMarker
<1>9. CASE MirrorEnd(g)
  <2>1. Kept
    BY <1>0, <1>9 DEF MirrorEnd, Loops, Kept
  <2> QED
    BY <1>9, <1>s, <2>1 DEF MirrorEnd
<1>17. ASSUME NEW lost \in BOOLEAN, OnTurnStart(g, lost) PROVE OnceInv'
  BY <1>17, <1>p, <1>s DEF OnTurnStart
<1>18. ASSUME NEW lost \in BOOLEAN, HandleFatalLoopExit(g, lost) PROVE OnceInv'
  BY <1>18, <1>d, <1>s DEF HandleFatalLoopExit
<1>19. ASSUME NEW failed \in Msgs \cup {None}, TakeInjectable(g, failed) PROVE OnceInv'
  BY <1>19, <1>h, <1>i DEF TakeInjectable
<1>20. ASSUME NEW kind \in {"error", "refusal", "truncated"}, FailTurn(g, kind) PROVE OnceInv'
  BY <1>20, <1>e DEF FailTurn
<1>21. ASSUME NEW endsTurn \in BOOLEAN, RecordToolResults(g, endsTurn) PROVE OnceInv'
  BY <1>21, <1>h, <1>d, <1>r DEF RecordToolResults
<1> QED
  BY <1>1, <1>2, <1>3, <1>4, <1>6, <1>7, <1>8, <1>9, <1>17, <1>18, <1>19, <1>20, <1>21
     DEF Run

(* ... and so does every step of the manager.                              *)
LEMMA OnceManager ==
  ASSUME IInv, DataOK, OnceInv, Requests \/ Holder \/ Drain \/ Teardown \/ Notice
  PROVE  OnceInv'
<1> DEFINE Kept == \A h \in Gens : Elems(loops'[h].messageQueue) \subseteq Elems(rows)
<1>0. /\ rows \in Seq(Rows) /\ queue \in Seq(Items) /\ batch \in Seq(Rows)
      /\ sent \in SUBSET Msgs /\ loops \in [Gens -> Loops]
      /\ gen \in 0..MaxGen
      /\ loop # 0 => loop \in Gens
      /\ \A h \in Gens : loops[h].messageQueue \in Seq(Rows)
  BY DEF DataOK, IInv, ControlOK, Loops
<1>o. /\ Once(rows, queue, sent) /\ ArgInv /\ Apart(queue)
      /\ Elems(batch) \subseteq Elems(rows)
      /\ \A h \in Gens : Elems(loops[h].messageQueue) \subseteq Elems(rows)
  BY DEF OnceInv, Once, HandedInv
<1>n. Elems(<<>>) = {} /\ Apart(<<>>)
  BY ElemsEmpty
<1>l. ASSUME UNCHANGED loops PROVE Kept
  BY <1>l, <1>o
<1>e. ASSUME LoadHistory \/ (InstallLoop /\ gen < MaxGen) PROVE Kept
  <2>1. \A h \in Gens : h # gen + 1 => loops'[h] = loops[h]
    BY <1>0, <1>e, BuildTypes
  <2>2. gen + 1 \in Gens /\ loops[gen + 1] \in Loops
    BY <1>0, <1>e, BuildTypes
  <2>3. \/ loops'[gen + 1] = LoadedLoop(Context(rows))
        \/ loops'[gen + 1] = [loops[gen + 1] EXCEPT !.pc = "top"]
    BY <1>0, <1>e, BuildTypes
  <2>4. loops'[gen + 1].messageQueue \in {<<>>, loops[gen + 1].messageQueue}
    BY <2>2, <2>3 DEF LoadedLoop, NewLoop, Loops
  <2> QED
    BY <1>o, <1>n, <2>1, <2>2, <2>4
<1>h. ASSUME NEW s \in Seq(Rows), Elems(s) \subseteq Elems(rows), loop \in Gens, Hand(s)
      PROVE  Kept
  <2>1. Elems(loops[loop].messageQueue \o s) = Elems(loops[loop].messageQueue) \cup Elems(s)
    BY <1>0, <1>h, ElemsConcat
  <2>2. \A h \in Gens : loops'[h].messageQueue = loops[h].messageQueue
                        \/ (h = loop /\ loops'[h].messageQueue = loops[loop].messageQueue \o s)
    BY <1>0, <1>h DEF Hand, Loops
  <2> QED
    BY <1>h, <1>o, <2>1, <2>2
<1>s. ASSUME UNCHANGED <<rows, queue, batch, arg, sent>>, Kept,
             lock' = lock \/ lock' \in {"free", "poke", "drain"}
      PROVE  OnceInv'
  BY <1>s, <1>o, OnceLess
<1>f. ASSUME UNCHANGED <<rows, batch, arg, sent, loops>>, queue' = queue \/ queue' = <<>>,
             lock' = lock \/ lock' \in {"free", "poke", "drain"}
      PROVE  OnceInv'
  <2>1. Elems(queue') \subseteq Elems(queue) /\ Apart(queue')
    BY <1>f, <1>n, <1>o
  <2> QED
    BY <1>f, <1>l, <1>o, <2>1, OnceLess
<1>q. ASSUME NEW m \in Msgs, m \notin sent, NEW inject \in BOOLEAN,
             queue' = Append(queue, [msg |-> m, inject |-> inject]),
             sent' = sent \cup {m}, lock' = "poke",
             UNCHANGED <<rows, batch, arg, loops>>
      PROVE  OnceInv'
  <2>1. Once(rows, queue', sent')
    BY <1>0, <1>q, <1>o, OnceEnqueue
  <2>2. Once(rows, queue, sent)'
    BY <1>q, <2>1
  <2>3. ArgInv' /\ HandedInv'
    BY <1>q, <1>o DEF ArgInv, HandedInv
  <2> QED
    BY <2>2, <2>3 DEF OnceInv
<1>r. ASSUME NEW k \in {"stopped", "interrupted", "notice"}, rows' = Append(rows, Row(k)),
             UNCHANGED <<queue, sent, batch, lock, arg, loops>>
      PROVE  OnceInv'
  <2>1. k \in Kinds
    BY DEF Kinds, EndKinds
  <2>2. Row(k) \in Rows /\ Row(k).kind # "user"
    BY <2>1, RowTypes DEF Row
  <2> QED
    BY <1>r, <2>2, OnceOther
<1> USE DEF dbVars, lockVars, tearVars, drainVars
<1> HIDE DEF Kept
<1>1. ASSUME NEW m \in Msgs, AcceptQueues(m) PROVE OnceInv'
  BY <1>1, <1>q DEF AcceptQueues
<1>2. ASSUME NEW m \in Msgs, AcceptStarts(m) PROVE OnceInv'
  <2>1. Kept
    BY <1>2, <1>e, <1>l DEF AcceptStarts
  <2>2. UNCHANGED <<rows, queue, batch>> /\ sent' = sent \cup {m}
        /\ lock' \in {"install", "record"} /\ arg' = m /\ m \notin sent
    BY <1>2 DEF AcceptStarts
  <2>3. Once(rows, queue, sent')
    BY <1>o, <2>2, OnceSent
  <2>4. Once(rows, queue, sent)'
    BY <2>2, <2>3
  <2>5. ArgInv'
    BY <1>o, <2>2 DEF ArgInv, Once
  <2>6. HandedInv'
    BY <1>o, <2>1, <2>2 DEF HandedInv, Kept
  <2> QED
    BY <2>4, <2>5, <2>6 DEF OnceInv
<1>3. ASSUME NEW m \in Msgs, CancelQueuedMessage(m) PROVE OnceInv'
  <2>1. Elems(queue') \subseteq Elems(queue) /\ Apart(queue')
    BY <1>0, <1>3, <1>o, FilterElems DEF CancelQueuedMessage
  <2>2. UNCHANGED <<rows, arg, sent, batch, loops>> /\ lock' = "poke"
    BY <1>3 DEF CancelQueuedMessage
  <2> QED
    BY <1>o, <2>1, <2>2, OnceLess
<1>4. ASSUME NEW m \in Msgs, NEW inject \in BOOLEAN, QueueMessage(m, inject)
      PROVE OnceInv'
  BY <1>4, <1>q DEF QueueMessage
<1>5. ASSUME NEW lost \in BOOLEAN, RetryLastLLMRequest(lost) PROVE OnceInv'
  <2>1. \A h \in Gens : loops'[h].messageQueue = loops[h].messageQueue
    BY <1>0, <1>5 DEF RetryLastLLMRequest, Loops
  <2>2. Kept
    BY <1>o, <2>1 DEF Kept
  <2> QED
    BY <1>5, <1>s, <2>2 DEF RetryLastLLMRequest
<1>6. CASE CancelQueuedMessages \/ CancelConversation
  BY <1>6, <1>f DEF CancelQueuedMessages, CancelConversation
<1>8. CASE CancelIdleFails \/ SendQueuedNow \/ ResetLoop \/ SetCwd
  BY <1>8, <1>f DEF CancelIdleFails, SendQueuedNow, ResetLoop, SetCwd
<1>9. CASE Requests
  BY <1>1, <1>2, <1>3, <1>4, <1>5, <1>6, <1>8, <1>9 DEF Requests
<1>10. CASE RecordTurnStart
  <2>1. /\ lock = "record" /\ lock' = "hand" /\ rows' = Append(rows, UserRow(arg))
        /\ UNCHANGED <<queue, sent, arg, batch, loops>>
    BY <1>10 DEF RecordTurnStart
  <2>2. /\ arg \in sent /\ UserRow(arg) \notin Elems(rows)
        /\ \A x \in Elems(queue) : x.msg # arg
    BY <1>o, <2>1 DEF ArgInv
  <2>3. Once(rows', queue, sent)
    BY <1>0, <1>o, <2>1, <2>2, OnceUserRow
  <2>4. Once(rows, queue, sent)'
    BY <2>1, <2>3
  <2>5. UserRow(arg) \in Rows
    BY <1>0, <2>2, RowTypes
  <2>6. Elems(rows') = Elems(rows) \cup {UserRow(arg)}
    BY <1>0, <2>1, <2>5, ElemsAppend
  <2>7. ArgInv' /\ HandedInv'
    BY <1>o, <2>1, <2>6 DEF ArgInv, HandedInv
  <2> QED
    BY <2>4, <2>7 DEF OnceInv
<1>11. ASSUME NEW lost \in BOOLEAN, RejectTurnStart(lost) PROVE OnceInv'
  BY <1>11, <1>f DEF RejectTurnStart
<1>12. CASE QueueTurn
  <2>1. loop \in Gens /\ lock = "hand"
    BY <1>0, <1>12 DEF QueueTurn, IInv, LockInv
  <2>2. UserRow(arg) \in Rows /\ UserRow(arg) \in Elems(rows)
    BY <1>o, <2>1, RowTypes DEF ArgInv, DataOK
  <2>3. <<UserRow(arg)>> \in Seq(Rows) /\ Elems(<<UserRow(arg)>>) \subseteq Elems(rows)
    BY <2>2 DEF Elems
  <2>4. Kept
    BY <1>12, <1>h, <2>1, <2>3 DEF QueueTurn
  <2> QED
    BY <1>12, <1>s, <2>4 DEF QueueTurn
<1>13. CASE DrainQueueIfIdle
  BY <1>13, <1>f DEF DrainQueueIfIdle
<1>29. CASE AcceptInstalls
  <2>1. Kept
    BY <1>29, <1>e DEF AcceptInstalls, IInv, LockInv, Building
  <2>2. UNCHANGED <<rows, queue, arg, sent, batch>> /\ lock = "install" /\ lock' = "record"
    BY <1>29 DEF AcceptInstalls
  <2>3. Once(rows, queue, sent)'
    BY <1>o, <2>2
  <2>4. ArgInv'
    BY <1>o, <2>2 DEF ArgInv
  <2>5. HandedInv'
    BY <1>o, <2>1, <2>2 DEF HandedInv, Kept
  <2> QED
    BY <2>3, <2>4, <2>5 DEF OnceInv
<1>14. CASE Holder
  BY <1>10, <1>11, <1>12, <1>13, <1>14, <1>29 DEF Holder
<1>15. CASE BeginPendingDrain \/ DrainEnter \/ DrainLeave \/ FinishPendingDrainPass
  BY <1>15, <1>f DEF BeginPendingDrain, DrainEnter, DrainLeave, FinishPendingDrainPass
<1>16. CASE DrainStart
  <2>1. Kept
    BY <1>16, <1>e, <1>l DEF DrainStart
  <2>2. Elems(batch') \subseteq Elems(rows)
    BY <1>16, <1>n DEF DrainStart
  <2>3. UNCHANGED <<rows, queue, arg, sent, lock>>
    BY <1>16 DEF DrainStart
  <2> QED
    BY <1>o, <2>1, <2>2, <2>3, OnceLess DEF Kept
<1>30. CASE DrainInstalls
  <2>1. Kept
    BY <1>30, <1>e DEF DrainInstalls, IInv, LockInv, Building
  <2> QED
    BY <1>30, <1>s, <2>1 DEF DrainInstalls
<1>17. CASE DrainRecord
  <2> DEFINE m == Head(queue).msg
  <2>1. /\ drainer = "record" /\ queue # <<>> /\ queue' = Tail(queue)
        /\ rows' = Append(rows, UserRow(m)) /\ batch' = Append(batch, UserRow(m))
        /\ UNCHANGED <<sent, lock, arg, loops>>
    BY <1>17 DEF DrainRecord
  <2>2. lock = "drain"
    BY <2>1 DEF IInv, LockInv
  <2>3. /\ Elems(queue) = Elems(queue') \cup {Head(queue)} /\ Apart(queue')
        /\ \A x \in Elems(queue') : x.msg # m
        /\ queue' \in Seq(Items) /\ Head(queue) \in Items
    BY <1>0, <1>o, <2>1, TailElems, HeadTailProperties
  <2>4. m \in sent /\ UserRow(m) \notin Elems(rows)
    BY <1>o, <2>3 DEF Once
  <2> HIDE DEF m
  <2>5. Once(rows, queue', sent)
    BY <1>o, <2>3, OnceFewer
  <2>6. Once(rows', queue', sent)
    BY <1>0, <2>1, <2>3, <2>4, <2>5, OnceUserRow
  <2>7. Once(rows, queue, sent)'
    BY <2>1, <2>6
  <2>8. UserRow(m) \in Rows
    BY <1>0, <2>4, RowTypes
  <2>9. Elems(rows') = Elems(rows) \cup {UserRow(m)}
        /\ Elems(batch') = Elems(batch) \cup {UserRow(m)}
    BY <1>0, <2>1, <2>8, ElemsAppend
  <2>10. ArgInv' /\ HandedInv'
    BY <1>o, <2>1, <2>2, <2>9 DEF ArgInv, HandedInv
  <2> QED
    BY <2>7, <2>10 DEF OnceInv
<1>18. CASE DrainRecordFails \/ DrainHand
  <2>1. loop \in Gens /\ Hand(batch)
    BY <1>0, <1>18 DEF DrainRecordFails, DrainHand, IInv, LockInv
  <2>2. Kept
    BY <1>0, <1>h, <1>o, <2>1
  <2>3. batch' = <<>> /\ lock' \in {lock, "free"} /\ UNCHANGED <<rows, queue, arg, sent>>
    BY <1>18 DEF DrainRecordFails, DrainHand
  <2>4. Elems(batch') \subseteq Elems(rows)
    BY <1>n, <2>3
  <2> QED
    BY <1>o, <2>2, <2>3, <2>4, OnceLess DEF Kept
<1>19. CASE Drain
  BY <1>15, <1>16, <1>17, <1>18, <1>19, <1>30 DEF Drain
<1>20. CASE TeardownClears
  BY <1>20, <1>f DEF TeardownClears
<1>21. CASE TeardownStops
  <2>1. \A h \in Gens : loops'[h].messageQueue = loops[h].messageQueue
    BY <1>0, <1>21 DEF TeardownStops, Loops
  <2>2. Kept
    BY <1>o, <2>1 DEF Kept
  <2> QED
    BY <1>21, <1>s, <2>2 DEF TeardownStops
<1>22. CASE TeardownRecords
  BY <1>22, <1>r DEF TeardownRecords
<1>23. CASE TeardownCloses \/ TeardownRecordFails
  BY <1>23, <1>f DEF TeardownCloses, TeardownRecordFails
<1>24. CASE Teardown
  BY <1>20, <1>21, <1>22, <1>23, <1>24 DEF Teardown
<1>25. CASE RecordCwdChangeNotice
  BY <1>25, <1>r DEF RecordCwdChangeNotice
<1>26. CASE NoticeFails
  BY <1>26, <1>f DEF NoticeFails
<1>27. CASE AppendHistory
  <2>1. \A h \in Gens : loops'[h].messageQueue = loops[h].messageQueue
    <3>1. loop \in Gens \cup {0}
      BY DEF IInv, ControlOK
    <3>2. CASE loop # 0
      <4> DEFINE h == Append(loops[loop].history, Row("notice"))
      <4>1. loops' = [loops EXCEPT ![loop] = [loops[loop] EXCEPT !.history = h]]
        BY <1>0, <1>27, <3>1, <3>2, SplicedTypes DEF AppendHistory
      <4> HIDE DEF h
      <4> QED
        BY <1>0, <3>1, <3>2, <4>1 DEF Loops
    <3>3. CASE loop = 0
      <4>1. \A h \in Gens : loops'[h] = loops[h] \/ loops'[h] = [loops[h] EXCEPT !.late = TRUE]
        BY <1>0, <1>27, <3>1, <3>3, SplicedTypes DEF AppendHistory
      <4> QED
        BY <1>0, <4>1 DEF Loops
    <3> QED
      BY <3>2, <3>3
  <2>2. Kept
    BY <1>o, <2>1 DEF Kept
  <2> QED
    BY <1>27, <1>s, <2>2 DEF AppendHistory
<1>28. CASE Notice
  BY <1>25, <1>26, <1>27, <1>28 DEF Notice
<1> QED
  BY <1>9, <1>14, <1>19, <1>24, <1>28

-----------------------------------------------------------------------------
(* A transcript or history with a cwd notice.                              *)
Noticed(s) == \E x \in Elems(s) : x.kind = "notice"

(* A loop knows of the notice, or was being built when one was spliced.    *)
Informed(g) == Noticed(loops[g].history) \/ loops[g].late

(* But while SetCwd splices it in, a recorded notice is known to the       *)
(* installed loop, and to the one that is being built.                     *)
NoticeInv ==
  mover # "append" /\ Noticed(rows) =>
    \A g \in Gens : (g = loop /\ Running(g)) \/ At(g, "loaded") => Informed(g)

(* A notice is in a longer transcript, and in its context.                 *)
LEMMA NoticedMore ==
  ASSUME NEW s \in Seq(Rows)
  PROVE  /\ \A x \in Rows : Noticed(Append(s, x)) <=> Noticed(s) \/ x.kind = "notice"
         /\ \A t \in Seq(Rows) : Noticed(s \o t) <=> Noticed(s) \/ Noticed(t)
         /\ Noticed(s) => Noticed(Context(s))
<1>1. ASSUME NEW x \in Rows PROVE Noticed(Append(s, x)) <=> Noticed(s) \/ x.kind = "notice"
  <2>1. Elems(Append(s, x)) = Elems(s) \cup {x}
    BY ElemsAppend
  <2> QED
    BY <2>1 DEF Noticed
<1>2. ASSUME NEW t \in Seq(Rows) PROVE Noticed(s \o t) <=> Noticed(s) \/ Noticed(t)
  <2>1. Elems(s \o t) = Elems(s) \cup Elems(t)
    BY ElemsConcat
  <2> QED
    BY <2>1 DEF Noticed
<1>3. ASSUME Noticed(s) PROVE Noticed(Context(s))
  <2>1. PICK x \in Elems(s) : x.kind = "notice"
    BY <1>3 DEF Noticed
  <2>2. x \in Rows
    BY DEF Elems
  <2>3. x \in ContextRows
    BY <2>1, <2>2 DEF ContextRows, InContext
  <2>4. Elems(Filter(s, ContextRows)) = Elems(s) \cap ContextRows
    BY FilterElems
  <2> QED
    BY <2>1, <2>3, <2>4 DEF Noticed, Context
<1> QED
  BY <1>1, <1>2, <1>3

(* Loops that only gain history, and a transcript without a new notice.    *)
Gains(h) ==
  \/ loops'[h].pc \in {"none", "dead"}
  \/ /\ loops[h].pc \notin {"none", "dead"}
     /\ loops[h].pc = "loaded" <=> loops'[h].pc = "loaded"
     /\ Noticed(loops[h].history) => Noticed(loops'[h].history)
     /\ loops[h].late => loops'[h].late

(* A step that records no notice and only adds to histories.               *)
LEMMA NoticeKept ==
  ASSUME NoticeInv, mover' = mover,
         loop' = loop \/ loop' = 0, loop \in Gens \cup {0},
         Noticed(rows') => Noticed(rows),
         \A h \in Gens : Gains(h)
  PROVE  NoticeInv'
<1>1. ASSUME NEW g \in Gens, loops[g].pc \notin {"none", "dead"}, Gains(g),
             loops'[g].pc \notin {"none", "dead"}, Informed(g)
      PROVE  Informed(g)'
  BY <1>1, Zenon DEF Gains, Informed
<1>2. ASSUME NEW g \in Gens, (g = loop' /\ Running(g)') \/ At(g, "loaded")'
      PROVE  /\ loops'[g].pc \notin {"none", "dead"} /\ loops[g].pc \notin {"none", "dead"}
             /\ (g = loop /\ Running(g)) \/ At(g, "loaded")
  BY <1>2 DEF Gains, Running, At, Gens
<1> QED
  BY <1>1, <1>2 DEF NoticeInv

(* Every step of a loop keeps the notice known, ...                        *)
LEMMA NoticeRun ==
  ASSUME IInv, DataOK, NoticeInv, NEW g \in Gens, Run(g) \/ Expire(g)
  PROVE  NoticeInv'
<1> DEFINE l == loops[g]
           Kept == \A h \in Gens : Gains(h)
<1>0. /\ loops \in [Gens -> Loops] /\ rows \in Seq(Rows) /\ loop \in Gens \cup {0}
      /\ l \in Loops /\ l.history \in Seq(Rows) /\ l.messageQueue \in Seq(Rows)
      /\ l.last \in Rows
  BY DEF DataOK, IInv, ControlOK, Loops
<1>a. \A h \in Gens \ {g} : loops'[h] = loops[h] => Gains(h)
  BY DEF Gains
<1>d. ASSUME loops' = [loops EXCEPT ![g] = DeadLoop] PROVE Kept
  BY <1>0, <1>a, <1>d DEF DeadLoop, NewLoop, Gains
<1>p. ASSUME NEW p, p # "loaded", loops' = [loops EXCEPT ![g].pc = p],
             Running(g)
      PROVE  Kept
  BY <1>0, <1>a, <1>p DEF Loops, Gains, Running
<1>h. ASSUME NEW p, p # "loaded", NEW h,
             loops' = [loops EXCEPT ![g].history = h, ![g].pc = p],
             Running(g), Noticed(l.history) => Noticed(h)
      PROVE  Kept
  BY <1>0, <1>a, <1>h DEF Loops, Gains, Running
<1>s. ASSUME UNCHANGED <<rows, mover>>, loop' = loop \/ loop' = 0, Kept PROVE NoticeInv'
  BY <1>0, <1>s, NoticeKept
<1>r. ASSUME NEW k \in {"use", "result", "reply", "marker", "error", "refusal", "truncated"},
             rows' = Append(rows, Row(k)), UNCHANGED <<mover, loop>>, Kept
      PROVE  NoticeInv'
  <2>1. Row(k) \in Rows /\ Row(k).kind # "notice"
    BY RowTypes DEF Row, Kinds, EndKinds
  <2>2. Noticed(rows') => Noticed(rows)
    BY <1>0, <1>r, <2>1, NoticedMore
  <2> QED
    BY <1>0, <1>r, <2>2, NoticeKept
<1>i. ASSUME NEW failed, RecordInjected(failed), UNCHANGED <<mover, loop>>, Kept
      PROVE  NoticeInv'
  <2>1. /\ Injected(failed) \in Seq(Rows)
        /\ Elems(Injected(failed)) = {UserRow(q.msg) : q \in Elems(queue) \cap Taken(failed)}
    BY InjectedTypes
  <2>2. ~Noticed(Injected(failed))
    BY <2>1 DEF Noticed, UserRow
  <2>3. rows' = rows \o Injected(failed)
    BY <1>i DEF RecordInjected
  <2>4. Noticed(rows') => Noticed(rows)
    BY <1>0, <2>1, <2>2, <2>3, NoticedMore
  <2> QED
    BY <1>0, <1>i, <2>4, NoticeKept
<1>e. ASSUME NEW k \in {"reply", "marker", "error", "refusal", "truncated"}, RecordEnd(g, k),
             Running(g)
      PROVE  NoticeInv'
  <2>1. Kept
    BY <1>0, <1>a, <1>e DEF RecordEnd, Loops, Gains, Running
  <2> HIDE DEF Kept
  <2> QED
    BY <1>e, <1>r, <2>1 DEF RecordEnd, ManagerUnchanged, installVars
<1>n. ASSUME NEW x \in Rows PROVE Noticed(l.history) => Noticed(Append(l.history, x))
  BY <1>0, NoticedMore
<1> USE DEF OnlyLoop, ManagerUnchanged, Exit, Goto, dbVars, installVars
<1> HIDE DEF Kept
<1>1. CASE LoopStops(g) \/ RequestAborted(g) \/ RequestExpired(g)
  BY <1>1, <1>d, <1>s DEF LoopStops, RequestAborted, RequestExpired
<1>2. CASE LoopTakes(g)
  <2>1. At(g, "top") /\ loops'[g].history = l.history \o l.messageQueue
        /\ loops'[g].pc = "start" /\ loops'[g].late = l.late
        /\ \A h \in Gens \ {g} : loops'[h] = loops[h]
    BY <1>0, <1>2 DEF LoopTakes, Loops
  <2>2. Noticed(l.history) => Noticed(loops'[g].history)
    BY <1>0, <2>1, NoticedMore
  <2>3. Kept
    BY <1>a, <2>1, <2>2 DEF Kept, Gains, At
  <2> QED
    BY <1>2, <1>s, <2>3 DEF LoopTakes
<1>3. CASE LoopRests(g) \/ TakeNothing(g) \/ PersistenceFails(g) \/ EndUnrecorded(g)
           \/ SyncIdle(g)
  <2>1. Running(g)
    BY <1>3 DEF LoopRests, TakeNothing, PersistenceFails, EndUnrecorded, SyncIdle, At, Running
  <2> QED
    BY <1>3, <1>p, <1>s, <2>1 DEF LoopRests, TakeNothing, PersistenceFails, EndUnrecorded, SyncIdle
<1>4. CASE LoopWakes(g)
  <2>1. At(g, "wait") /\ loops'[g].history = l.history
        /\ loops'[g].pc = "top" /\ loops'[g].late = l.late
        /\ \A h \in Gens \ {g} : loops'[h] = loops[h]
    BY <1>0, <1>4 DEF LoopWakes, Loops
  <2>2. Kept
    BY <1>a, <2>1 DEF Kept, Gains, At
  <2> QED
    BY <1>4, <1>s, <2>2 DEF LoopWakes
<1>5. CASE Expire(g)
  <2>1. Running(g) /\ loops' = [loops EXCEPT ![g].ctx = "expired"]
    BY <1>5 DEF Expire
  <2>2. loops'[g].history = l.history /\ loops'[g].pc = l.pc /\ loops'[g].late = l.late
        /\ \A h \in Gens \ {g} : loops'[h] = loops[h]
    BY <1>0, <2>1 DEF Loops
  <2>3. Kept
    BY <1>a, <2>1, <2>2 DEF Kept, Gains, Running
  <2> QED
    BY <1>5, <1>s, <2>3 DEF Expire
<1>6. CASE PendingFails(g)
  <2>1. Kept
    BY <1>6, <1>p DEF PendingFails, At, Running
  <2> QED
    BY <1>6, <1>i, <2>1 DEF PendingFails
<1>7. CASE RecordToolUse(g)
  <2>1. Row("use") \in Rows
    BY RowTypes DEF Kinds
  <2>2. Kept
    BY <1>7, <1>h, <1>n, <2>1 DEF RecordToolUse, At, Running
  <2> QED
    BY <1>7, <1>r, <2>2 DEF RecordToolUse
<1>8. CASE RecordReply(g) \/ RecordMarker(g)
  BY <1>8, <1>e DEF RecordReply, RecordMarker, At, Running
<1>9. CASE MirrorEnd(g)
  <2>1. At(g, "ended")
        /\ loops'[g].history \in {l.history, Append(l.history, l.last)}
        /\ loops'[g].pc = "top" /\ loops'[g].late = l.late
        /\ \A h \in Gens \ {g} : loops'[h] = loops[h]
    BY <1>0, <1>9 DEF MirrorEnd, Loops
  <2>2. Noticed(l.history) => Noticed(loops'[g].history)
    BY <1>0, <1>n, <2>1
  <2>3. Kept
    BY <1>a, <2>1, <2>2 DEF Kept, Gains, At
  <2> QED
    BY <1>9, <1>s, <2>3 DEF MirrorEnd
<1>17. ASSUME NEW lost \in BOOLEAN, OnTurnStart(g, lost) PROVE NoticeInv'
  <2>1. Kept
    BY <1>17, <1>p DEF OnTurnStart, At, Running
  <2> QED
    BY <1>17, <1>s, <2>1 DEF OnTurnStart
<1>18. ASSUME NEW lost \in BOOLEAN, HandleFatalLoopExit(g, lost) PROVE NoticeInv'
  <2>1. Kept
    BY <1>18, <1>d DEF HandleFatalLoopExit
  <2> QED
    BY <1>18, <1>s, <2>1 DEF HandleFatalLoopExit
<1>19. ASSUME NEW failed \in Msgs \cup {None}, TakeInjectable(g, failed) PROVE NoticeInv'
  <2>1. Injected(failed) \in Seq(Rows)
    BY InjectedTypes
  <2>2. Noticed(l.history) => Noticed(l.history \o Injected(failed))
    BY <1>0, <2>1, NoticedMore
  <2>3. Kept
    BY <1>19, <1>h, <2>2 DEF TakeInjectable, At, Running
  <2> QED
    BY <1>19, <1>i, <2>3 DEF TakeInjectable
<1>20. ASSUME NEW kind \in {"error", "refusal", "truncated"}, FailTurn(g, kind) PROVE NoticeInv'
  BY <1>20, <1>e DEF FailTurn, At, Running
<1>21. ASSUME NEW endsTurn \in BOOLEAN, RecordToolResults(g, endsTurn) PROVE NoticeInv'
  <2>1. Row("result") \in Rows
    BY RowTypes DEF Kinds
  <2>2. Kept
    BY <1>21, <1>d, <1>h, <1>n, <2>1 DEF RecordToolResults, At, Running
  <2> QED
    BY <1>21, <1>r, <2>2 DEF RecordToolResults
<1> QED
  BY <1>1, <1>2, <1>3, <1>4, <1>5, <1>6, <1>7, <1>8, <1>9, <1>17, <1>18, <1>19, <1>20, <1>21
     DEF Run

(* ... and so does every step of the manager.                              *)
LEMMA NoticeManager ==
  ASSUME IInv, DataOK, NoticeInv, Requests \/ Holder \/ Drain \/ Teardown \/ Notice
  PROVE  NoticeInv'
<1> DEFINE Kept == \A h \in Gens : Gains(h)
<1>0. /\ rows \in Seq(Rows) /\ queue \in Seq(Items)
      /\ loops \in [Gens -> Loops] /\ loop \in Gens \cup {0}
      /\ gen \in 0..MaxGen /\ MaxGen \in Nat
      /\ \A h \in Gens : loops[h] \in Loops /\ loops[h].history \in Seq(Rows)
  BY MaxGenAssumption DEF DataOK, IInv, ControlOK, Loops
<1> DEFINE Same(h) == /\ loops'[h].history = loops[h].history /\ loops'[h].pc = loops[h].pc
                      /\ loops'[h].late = loops[h].late
<1>l. ASSUME \A h \in Gens : Same(h) PROVE Kept
  BY <1>l DEF Gains
<1>s. ASSUME UNCHANGED <<rows, mover>>, loop' = loop \/ loop' = 0,
             \A h \in Gens : Same(h)
      PROVE  NoticeInv'
  BY <1>0, <1>l, <1>s, NoticeKept
<1>e. ASSUME LoadHistory, UNCHANGED <<rows, mover, loop>> PROVE NoticeInv'
  <2>1. loop = 0 /\ \A h \in Gens : h # gen + 1 => loops'[h] = loops[h]
    BY <1>0, <1>e, BuildTypes DEF LoadHistory
  <2>2. loops'[gen + 1].history = Context(rows)
    BY <1>0, <1>e, BuildTypes DEF LoadedLoop, NewLoop
  <2>3. Noticed(rows) => Noticed(Context(rows))
    BY <1>0, NoticedMore
  <2> QED
    <3>1. ASSUME NEW h \in Gens, h # gen + 1, Informed(h) PROVE Informed(h)'
      <4>1. loops'[h] = loops[h]
        BY <2>1, <3>1
      <4> QED
        BY <3>1, <4>1, Zenon DEF Informed
    <3>2. ASSUME NEW h \in Gens, h = gen + 1, Noticed(rows) PROVE Informed(h)'
      BY <2>2, <2>3, <3>2, Zenon DEF Informed
    <3>3. \A h \in Gens : h # loop'
      BY <1>e, <2>1 DEF Gens
    <3>4. \A h \in Gens : h # gen + 1 => (At(h, "loaded") <=> At(h, "loaded")')
      BY <2>1 DEF At
    <3> QED
      BY <1>e, <3>1, <3>2, <3>3, <3>4 DEF NoticeInv
<1>b. ASSUME InstallLoop, Building, UNCHANGED <<rows, mover>> PROVE NoticeInv'
  <2>1. gen < MaxGen /\ loop' = gen + 1 /\ gen + 1 \in Gens /\ At(gen + 1, "loaded")
        /\ \A h \in Gens : h # gen + 1 => ~At(h, "loaded")
    BY <1>0, <1>b DEF InstallLoop, IInv, LockInv, InstallInv, Gens
  <2>2. loops'[gen + 1] = [loops[gen + 1] EXCEPT !.pc = "top"]
        /\ \A h \in Gens : h # gen + 1 => loops'[h] = loops[h]
    BY <1>0, <1>b, <2>1, BuildTypes
  <2>3. Same(gen + 1) \/ (/\ loops'[gen + 1].history = loops[gen + 1].history
                         /\ loops'[gen + 1].late = loops[gen + 1].late
                         /\ loops'[gen + 1].pc = "top")
    BY <1>0, <2>1, <2>2 DEF Loops
  <2> QED
    BY <1>b, <2>1, <2>2, <2>3 DEF NoticeInv, Informed, At
<1>h. ASSUME NEW s, Hand(s)
      PROVE  \A h \in Gens : Same(h)
  BY <1>0, <1>h DEF Hand, Loops
<1>r. ASSUME NEW x \in Rows, x.kind # "notice", rows' = Append(rows, x),
             UNCHANGED <<mover, loop, loops>>
      PROVE  NoticeInv'
  <2>1. Noticed(rows') => Noticed(rows)
    BY <1>0, <1>r, NoticedMore
  <2> QED
    BY <1>0, <1>l, <1>r, <2>1, NoticeKept
<1> USE DEF dbVars, installVars, tearVars
<1> HIDE DEF Kept
<1>1. ASSUME NEW m \in Msgs, AcceptQueues(m) PROVE NoticeInv'
  BY <1>1, <1>s DEF AcceptQueues
<1>2. ASSUME NEW m \in Msgs, AcceptStarts(m) PROVE NoticeInv'
  BY <1>2, <1>e, <1>s DEF AcceptStarts
<1>3. ASSUME NEW m \in Msgs, CancelQueuedMessage(m) PROVE NoticeInv'
  BY <1>3, <1>s DEF CancelQueuedMessage
<1>4. ASSUME NEW m \in Msgs, NEW inject \in BOOLEAN, QueueMessage(m, inject) PROVE NoticeInv'
  BY <1>4, <1>s DEF QueueMessage
<1>5. ASSUME NEW lost \in BOOLEAN, RetryLastLLMRequest(lost) PROVE NoticeInv'
  <2>1. \A h \in Gens : Same(h)
    BY <1>0, <1>5 DEF RetryLastLLMRequest, Loops
  <2> QED
    BY <1>5, <1>s, <2>1 DEF RetryLastLLMRequest
<1>6. CASE CancelQueuedMessages
  BY <1>6, <1>s DEF CancelQueuedMessages
<1>7. CASE CancelConversation
  BY <1>7, <1>s DEF CancelConversation, Detach
<1>8. CASE CancelIdleFails
  BY <1>8, <1>s DEF CancelIdleFails
<1>9. CASE SendQueuedNow \/ ResetLoop
  BY <1>9, <1>s DEF SendQueuedNow, ResetLoop, Detach
<1>10. CASE SetCwd
  BY <1>10 DEF SetCwd, NoticeInv, Running, Informed, At
<1>11. CASE Requests
  BY <1>1, <1>2, <1>3, <1>4, <1>5, <1>6, <1>7, <1>8, <1>9, <1>10, <1>11 DEF Requests
<1>12. CASE RecordTurnStart
  <2>1. UserRow(arg) \in Rows /\ UserRow(arg).kind # "notice"
    BY <1>12, RowTypes DEF RecordTurnStart, DataOK, UserRow
  <2> QED
    BY <1>12, <1>r, <2>1 DEF RecordTurnStart
<1>13. ASSUME NEW lost \in BOOLEAN, RejectTurnStart(lost) PROVE NoticeInv'
  BY <1>13, <1>s DEF RejectTurnStart, Detach
<1>14. CASE QueueTurn
  BY <1>14, <1>h, <1>s DEF QueueTurn
<1>15. CASE DrainQueueIfIdle
  BY <1>15, <1>s DEF DrainQueueIfIdle
<1>31. CASE AcceptInstalls
  BY <1>31, <1>b DEF AcceptInstalls, Building
<1>16. CASE Holder
  BY <1>12, <1>13, <1>14, <1>15, <1>16, <1>31 DEF Holder
<1>17. CASE BeginPendingDrain \/ DrainEnter \/ DrainLeave \/ FinishPendingDrainPass
  BY <1>17, <1>s DEF BeginPendingDrain, DrainEnter, DrainLeave, FinishPendingDrainPass
<1>18. CASE DrainStart
  BY <1>18, <1>e, <1>s DEF DrainStart
<1>32. CASE DrainInstalls
  BY <1>32, <1>b DEF DrainInstalls, Building
<1>19. CASE DrainRecord
  <2>1. Head(queue) \in Items
    BY <1>0, <1>19, HeadTailProperties DEF DrainRecord
  <2>2. UserRow(Head(queue).msg) \in Rows /\ UserRow(Head(queue).msg).kind # "notice"
    BY <2>1, RowTypes DEF Items, UserRow
  <2> QED
    BY <1>19, <1>r, <2>2 DEF DrainRecord
<1>20. CASE DrainRecordFails \/ DrainHand
  <2>1. Hand(batch) /\ UNCHANGED <<rows, mover, loop>>
    BY <1>20 DEF DrainRecordFails, DrainHand
  <2> QED
    BY <1>h, <1>s, <2>1
<1>21. CASE Drain
  BY <1>17, <1>18, <1>19, <1>20, <1>21, <1>32 DEF Drain
<1>22. CASE TeardownClears
  BY <1>22, <1>s DEF TeardownClears
<1>23. CASE TeardownStops
  <2>1. \A h \in Gens : Same(h)
    BY <1>0, <1>23 DEF TeardownStops, Loops
  <2> QED
    BY <1>23, <1>s, <2>1 DEF TeardownStops
<1>24. CASE TeardownRecords
  <2> DEFINE k == IF why = "cancel" THEN "stopped" ELSE "interrupted"
  <2>1. Row(k) \in Rows /\ Row(k).kind # "notice"
    BY RowTypes DEF Row, Kinds, EndKinds
  <2> QED
    BY <1>24, <1>r, <2>1 DEF TeardownRecords
<1>25. CASE TeardownCloses \/ TeardownRecordFails
  BY <1>25, <1>s DEF TeardownCloses, TeardownRecordFails
<1>26. CASE Teardown
  BY <1>22, <1>23, <1>24, <1>25, <1>26 DEF Teardown
<1>27. CASE RecordCwdChangeNotice
  BY <1>27 DEF RecordCwdChangeNotice, NoticeInv
<1>28. CASE NoticeFails
  BY <1>28 DEF NoticeFails, NoticeInv, Running, Informed, At
<1>29. CASE AppendHistory
  <2>0. loops' = Spliced /\ UNCHANGED <<rows, loop>>
    BY <1>29 DEF AppendHistory
  <2>1. CASE loop = 0
    <3>1. \A h \in Gens : \/ loops'[h] = loops[h]
                          \/ h = gen + 1 /\ loops'[h] = [loops[h] EXCEPT !.late = TRUE]
      BY <1>0, <2>0, <2>1, SplicedTypes
    <3>2. \A h \in Gens : h = gen + 1 /\ At(h, "loaded") => loops'[h] = [loops[h] EXCEPT !.late = TRUE]
      BY <1>0, <2>0, <2>1, SplicedTypes
    <3>3. \A h \in Gens : loops'[h].pc = loops[h].pc
      BY <1>0, <3>1 DEF Loops
    <3>4. \A h \in Gens : At(h, "loaded") => h = gen + 1
      BY DEF IInv, InstallInv
    <3>5. \A h \in Gens : At(h, "loaded") => loops'[h].late = TRUE
      BY <1>0, <3>2, <3>4 DEF Loops
    <3>6. \A h \in Gens : At(h, "loaded") => Informed(h)'
      BY <3>5, Zenon DEF Informed
    <3> QED
      BY <2>0, <2>1, <3>3, <3>6 DEF NoticeInv, At, Gens
  <2>2. CASE loop # 0
    <3>1. Row("notice") \in Rows /\ Row("notice").kind = "notice"
      BY RowTypes DEF Row, Kinds
    <3>2. loops' = [loops EXCEPT ![loop] =
                      [loops[loop] EXCEPT !.history = Append(loops[loop].history, Row("notice"))]]
      BY <1>0, <2>0, <2>2, SplicedTypes
    <3>3. /\ loops'[loop].history = Append(loops[loop].history, Row("notice"))
          /\ \A h \in Gens : loops'[h].pc = loops[h].pc
      BY <1>0, <2>2, <3>2 DEF Loops
    <3>4. Noticed(loops'[loop].history)
      BY <1>0, <2>2, <3>1, <3>3, NoticedMore
    <3>5. \A h \in Gens : ~At(h, "loaded")
      BY <2>2 DEF IInv, InstallInv, LockInv
    <3> QED
      BY <2>0, <3>3, <3>4, <3>5 DEF NoticeInv, Informed, At
  <2> QED
    BY <2>1, <2>2
<1>30. CASE Notice
  BY <1>27, <1>28, <1>29, <1>30 DEF Notice
<1> QED
  BY <1>11, <1>16, <1>21, <1>26, <1>30

-----------------------------------------------------------------------------
(* No event of this kind has happened yet.                                 *)
Untouched(e) == left[e] = Limits[e]

(* What is left never exceeds the bounds; SetCwd is at rest until the      *)
(* first move.                                                             *)
BudgetInv ==
  /\ left \in [Events -> Nat]
  /\ \A e \in Events : left[e] <= Limits[e]
  /\ Untouched("move") => mover = "idle"

(* An event that happens is counted.                                       *)
LEMMA SpendBudget ==
  ASSUME left \in [Events -> Nat], \A e \in Events : left[e] <= Limits[e],
         NEW E, Spend(E)
  PROVE  /\ left' \in [Events -> Nat]
         /\ \A e \in Events : left'[e] <= Limits[e]
         /\ \A e \in Events : Untouched(e)' => Untouched(e) /\ e \notin E
<1>1. left' \in [Events -> Nat]
  BY DEF Spend
<1>2. \A e \in Events : left[e] \in Nat /\ Limits[e] \in Nat
  BY LimitsAssumption
<1>3. \A e \in Events : left'[e] = IF e \in E THEN left[e] - 1 ELSE left[e]
  BY DEF Spend
<1> QED
  BY <1>1, <1>2, <1>3 DEF Untouched

(* Every step counts its events, or has none.                              *)
LEMMA SpendsOrNot ==
  ASSUME NEW g,
         Requests \/ Holder \/ Drain \/ Teardown \/ Notice \/ Run(g) \/ Expire(g)
  PROVE  UNCHANGED left \/ \E E : Spend(E)
<1>1. CASE Requests
  <2>1. ASSUME NEW m \in Msgs, AcceptQueues(m) \/ AcceptStarts(m) \/ CancelQueuedMessage(m)
        PROVE  UNCHANGED left
    BY <2>1 DEF AcceptQueues, AcceptStarts, CancelQueuedMessage
  <2>2. ASSUME NEW m \in Msgs, NEW inject \in BOOLEAN, QueueMessage(m, inject)
        PROVE  UNCHANGED left
    BY <2>2 DEF QueueMessage
  <2>3. ASSUME NEW lost \in BOOLEAN, RetryLastLLMRequest(lost) PROVE \E E : Spend(E)
    BY <2>3, Zenon DEF RetryLastLLMRequest
  <2>4. CASE CancelQueuedMessages
    BY <2>4 DEF CancelQueuedMessages
  <2>5. CASE CancelConversation \/ CancelIdleFails \/ SendQueuedNow \/ ResetLoop \/ SetCwd
    BY <2>5, Zenon DEF CancelConversation, CancelIdleFails, SendQueuedNow, ResetLoop, SetCwd
  <2> QED
    BY <1>1, <2>1, <2>2, <2>3, <2>4, <2>5 DEF Requests
<1>2. CASE Holder
  <2>1. CASE AcceptInstalls \/ RecordTurnStart \/ QueueTurn \/ DrainQueueIfIdle
    BY <2>1 DEF AcceptInstalls, RecordTurnStart, QueueTurn, DrainQueueIfIdle
  <2>2. ASSUME NEW lost \in BOOLEAN, RejectTurnStart(lost) PROVE \E E : Spend(E)
    BY <2>2, Zenon DEF RejectTurnStart
  <2> QED
    BY <1>2, <2>1, <2>2 DEF Holder
<1>3. CASE Drain
  BY <1>3, Zenon DEF Drain, BeginPendingDrain, DrainEnter, DrainLeave, DrainStart, DrainInstalls,
     DrainRecord, DrainRecordFails, DrainHand, FinishPendingDrainPass
<1>4. CASE Teardown \/ Notice
  BY <1>4, Zenon DEF Teardown, TeardownClears, TeardownStops, TeardownCloses, TeardownRecords,
     TeardownRecordFails, Notice, RecordCwdChangeNotice, NoticeFails, AppendHistory
<1>5. CASE Run(g) \/ Expire(g)
  <2>1. CASE LoopStops(g) \/ LoopTakes(g) \/ LoopRests(g) \/ LoopWakes(g) \/ TakeNothing(g)
             \/ RequestAborted(g) \/ RequestExpired(g) \/ RecordReply(g) \/ RecordMarker(g)
             \/ SyncIdle(g) \/ MirrorEnd(g)
    BY <2>1 DEF LoopStops, LoopTakes, LoopRests, LoopWakes, TakeNothing, RequestAborted,
       RequestExpired, RecordReply, RecordMarker, SyncIdle, MirrorEnd
  <2>2. CASE PendingFails(g) \/ RecordToolUse(g) \/ PersistenceFails(g) \/ Expire(g)
    BY <2>2, Zenon DEF PendingFails, RecordToolUse, PersistenceFails, Expire
  <2>3. CASE EndUnrecorded(g)
    BY <2>3, Zenon DEF EndUnrecorded
  <2>4. ASSUME NEW lost \in BOOLEAN, OnTurnStart(g, lost) \/ HandleFatalLoopExit(g, lost)
        PROVE  UNCHANGED left \/ \E E : Spend(E)
    BY <2>4, Zenon DEF OnTurnStart, HandleFatalLoopExit
  <2>5. ASSUME NEW failed \in Msgs \cup {None}, TakeInjectable(g, failed)
        PROVE  UNCHANGED left \/ \E E : Spend(E)
    BY <2>5, Zenon DEF TakeInjectable
  <2>6. ASSUME NEW kind \in {"error", "refusal", "truncated"}, FailTurn(g, kind)
        PROVE  UNCHANGED left \/ \E E : Spend(E)
    BY <2>6, Zenon DEF FailTurn
  <2>7. ASSUME NEW endsTurn \in BOOLEAN, RecordToolResults(g, endsTurn) PROVE UNCHANGED left
    BY <2>7 DEF RecordToolResults
  <2> QED
    BY <1>5, <2>1, <2>2, <2>3, <2>4, <2>5, <2>6, <2>7 DEF Run
<1> QED
  BY <1>1, <1>2, <1>3, <1>4, <1>5

(* Only SetCwd starts a move.                                              *)
LEMMA MoverRests ==
  ASSUME NEW g, mover = "idle",
         Requests \/ Holder \/ Drain \/ Teardown \/ Notice \/ Run(g) \/ Expire(g)
  PROVE  UNCHANGED mover \/ SetCwd
<1>1. CASE Requests
  BY <1>1 DEF Requests, AcceptQueues, AcceptStarts, CancelQueuedMessage, QueueMessage,
     RetryLastLLMRequest, CancelQueuedMessages, CancelConversation, CancelIdleFails,
     SendQueuedNow, ResetLoop
<1>2. CASE Holder
  BY <1>2 DEF Holder, AcceptInstalls, RecordTurnStart, RejectTurnStart, QueueTurn, DrainQueueIfIdle
<1>3. CASE Drain
  BY <1>3 DEF Drain, BeginPendingDrain, DrainEnter, DrainLeave, DrainStart, DrainInstalls,
     DrainRecord, DrainRecordFails, DrainHand, FinishPendingDrainPass
<1>4. CASE Teardown
  BY <1>4 DEF Teardown, TeardownClears, TeardownStops, TeardownCloses, TeardownRecords,
     TeardownRecordFails
<1>5. CASE Notice
  BY <1>5 DEF Notice, RecordCwdChangeNotice, NoticeFails, AppendHistory
<1>6. CASE Run(g) \/ Expire(g)
  <2> USE DEF OnlyLoop, ManagerUnchanged
  <2>1. LoopStops(g) \/ LoopTakes(g) \/ LoopRests(g) \/ LoopWakes(g) => UNCHANGED mover
    BY DEF LoopStops, LoopTakes, LoopRests, LoopWakes
  <2>2. \A lost \in BOOLEAN : OnTurnStart(g, lost) \/ HandleFatalLoopExit(g, lost)
                            => UNCHANGED mover
    BY DEF OnTurnStart, HandleFatalLoopExit
  <2>3. \A failed \in Msgs \cup {None} : TakeInjectable(g, failed) => UNCHANGED mover
    BY DEF TakeInjectable
  <2>4. TakeNothing(g) \/ PendingFails(g) \/ RecordToolUse(g) \/ PersistenceFails(g)
        \/ RequestAborted(g) \/ RequestExpired(g) \/ EndUnrecorded(g) \/ SyncIdle(g)
        \/ MirrorEnd(g) => UNCHANGED mover
    BY DEF TakeNothing, PendingFails, RecordToolUse, PersistenceFails, RequestAborted,
       RequestExpired, EndUnrecorded, SyncIdle, MirrorEnd
  <2>5. RecordReply(g) \/ RecordMarker(g) => UNCHANGED mover
    BY DEF RecordReply, RecordMarker, RecordEnd
  <2>6. \A kind \in {"error", "refusal", "truncated"} : FailTurn(g, kind) => UNCHANGED mover
    BY DEF FailTurn, RecordEnd
  <2>7. \A endsTurn \in BOOLEAN : RecordToolResults(g, endsTurn) => UNCHANGED mover
    BY DEF RecordToolResults
  <2>8. Expire(g) => UNCHANGED mover
    BY DEF Expire
  <2> QED
    BY <1>6, <2>1, <2>2, <2>3, <2>4, <2>5, <2>6, <2>7, <2>8, Zenon DEF Run
<1> QED
  BY <1>1, <1>2, <1>3, <1>4, <1>5, <1>6

(* Every step keeps BudgetInv, and no event is forgotten.                  *)
LEMMA BudgetStep ==
  ASSUME BudgetInv, NEW g,
         Requests \/ Holder \/ Drain \/ Teardown \/ Notice \/ Run(g) \/ Expire(g)
  PROVE  BudgetInv' /\ \A e \in Events : Untouched(e)' => Untouched(e)
<1>1. /\ left' \in [Events -> Nat]
      /\ \A e \in Events : left'[e] <= Limits[e]
      /\ \A e \in Events : Untouched(e)' => Untouched(e)
  <2>1. CASE UNCHANGED left
    BY <2>1 DEF BudgetInv, Untouched
  <2>2. ASSUME NEW E, Spend(E) 
        PROVE  /\ left' \in [Events -> Nat]
               /\ \A e \in Events : left'[e] <= Limits[e]
               /\ \A e \in Events : Untouched(e)' => Untouched(e)
    BY <2>2, SpendBudget DEF BudgetInv
  <2> QED
    BY <2>1, <2>2, SpendsOrNot
<1>2. "move" \in Events
  BY DEF Events
<1>3. ASSUME Untouched("move")' PROVE mover' = "idle"
  <2>1. Untouched("move") /\ mover = "idle"
    BY <1>1, <1>2, <1>3 DEF BudgetInv
  <2>2. ~SetCwd
    <3>1. SUFFICES ASSUME SetCwd PROVE FALSE
      OBVIOUS
    <3>2. Spend({"move"})
      BY <3>1 DEF SetCwd
    <3> QED
      BY <1>2, <1>3, <3>2, SpendBudget DEF BudgetInv
  <2> QED
    BY <2>1, <2>2, MoverRests
<1> QED
  BY <1>1, <1>3 DEF BudgetInv

-----------------------------------------------------------------------------
(* Every tool call but the last row has its results right behind it.       *)
Paired(s) == \A i \in 1..(Len(s) - 1) : s[i].kind = "use" => s[i + 1].kind = "result"
OpenUse(s) == s # <<>> /\ s[Len(s)].kind = "use"

(* Until a write fails or the working directory changes.                   *)
PairInv ==
  Untouched("move") /\ Untouched("fault") =>
    Paired(rows) /\ (OpenUse(rows) => \E g \in Gens : At(g, "tools"))

(* A row after an answered transcript, or the results of the last call,    *)
(* ...                                                                     *)
LEMMA PairedAppend ==
  ASSUME NEW s \in Seq(Rows), NEW x \in Rows, Paired(s), OpenUse(s) => x.kind = "result"
  PROVE  Paired(Append(s, x)) /\ (OpenUse(Append(s, x)) => x.kind = "use")
<1> DEFINE t == Append(s, x)
           n == Len(s)
<1>1. /\ n \in Nat /\ Len(t) = n + 1 /\ t[n + 1] = x
      /\ \A k \in 1..n : t[k] = s[k]
      /\ n # 0 => s # <<>>
  BY AppendProperties, LenProperties
<1> HIDE DEF t
<1>2. ASSUME NEW i \in 1..(Len(t) - 1), t[i].kind = "use" PROVE t[i + 1].kind = "result"
  <2>0. i \in 1..n /\ i \in Nat
    BY <1>1
  <2>1. CASE i = n
    <3>1. t[i] = s[n] /\ s # <<>>
      BY <1>1, <2>0, <2>1
    <3>2. OpenUse(s)
      BY <1>2, <3>1 DEF OpenUse
    <3> QED
      BY <1>1, <2>1, <3>2
  <2>2. CASE i # n
    <3>1. i \in 1..(Len(s) - 1) /\ i + 1 \in 1..n
      BY <1>1, <2>0, <2>2
    <3>2. s[i].kind = "use"
      BY <1>1, <1>2, <2>0
    <3> QED
      BY <1>1, <3>1, <3>2 DEF Paired
  <2> QED
    BY <2>1, <2>2
<1>3. Paired(t)
  BY <1>2 DEF Paired
<1>4. OpenUse(t) => x.kind = "use"
  BY <1>1 DEF OpenUse
<1> QED
  BY <1>3, <1>4 DEF t

(* ... and a piece without tool calls.                                     *)
LEMMA PairedConcat ==
  ASSUME NEW s \in Seq(Rows), NEW t \in Seq(Rows), Paired(s), ~OpenUse(s),
         \A x \in Elems(t) : x.kind # "use"
  PROVE  Paired(s \o t) /\ ~OpenUse(s \o t)
<1> DEFINE P == {u \in Seq(Rows) :
                   (\A x \in Elems(u) : x.kind # "use") => Paired(s \o u) /\ ~OpenUse(s \o u)}
<1>1. <<>> \in P
  <2>1. s \o <<>> = s /\ <<>> \in Seq(Rows)
    BY ConcatEmptySeq
  <2> QED
    BY <2>1
<1>2. ASSUME NEW u \in Seq(Rows), NEW x \in Rows, u \in P PROVE Append(u, x) \in P
  <2>1. Append(u, x) \in Seq(Rows) /\ Elems(Append(u, x)) = Elems(u) \cup {x}
        /\ s \o u \in Seq(Rows) /\ s \o Append(u, x) = Append(s \o u, x)
    BY ElemsAppend
  <2>2. ASSUME \A y \in Elems(Append(u, x)) : y.kind # "use"
        PROVE  Paired(s \o Append(u, x)) /\ ~OpenUse(s \o Append(u, x))
    <3>1. Paired(s \o u) /\ ~OpenUse(s \o u) /\ x.kind # "use"
      BY <1>2, <2>1, <2>2
    <3> QED
      BY <2>1, <3>1, PairedAppend
  <2> QED
    BY <2>1, <2>2
<1>3. Seq(Rows) \subseteq P
  <2> HIDE DEF P
  <2> QED
    BY <1>1, <1>2, SeqInductionOver
<1> QED
  BY <1>3

(* One loop runs at a time.                                                *)
LEMMA OnlyRunner ==
  ASSUME IInv, NEW g \in Gens, Running(g), NEW h \in Gens, h # g
  PROVE  ~Running(h)
<1>1. 0 \notin Gens
  BY DEF Gens
<1> QED
  BY <1>1 DEF IInv, InstallInv, OneLoop

(* A row that is no result is recorded while no loop runs tools.           *)
LEMMA PairOther ==
  ASSUME DataOK, PairInv, Untouched("move")' => Untouched("move"),
         Untouched("fault")' => Untouched("fault"),
         \A h \in Gens : ~At(h, "tools"),
         NEW x \in Rows, x.kind # "use", rows' = Append(rows, x)
  PROVE  PairInv'
<1>1. SUFFICES ASSUME Untouched("move")', Untouched("fault")'
               PROVE  Paired(rows') /\ ~OpenUse(rows')
  BY DEF PairInv
<1>2. Paired(rows) /\ ~OpenUse(rows) /\ rows \in Seq(Rows)
  BY <1>1 DEF PairInv, DataOK
<1> QED
  BY <1>2, PairedAppend

(* A step that records nothing and leaves no tool behind.                  *)
LEMMA PairSame ==
  ASSUME PairInv, Untouched("move")' => Untouched("move"),
         Untouched("fault")' => Untouched("fault"), UNCHANGED rows,
         \A h \in Gens : At(h, "tools") => At(h, "tools")' \/ ~Untouched("fault")'
  PROVE  PairInv'
  BY DEF PairInv

(* Every step of a loop keeps calls and results paired, ...                *)
LEMMA PairRun ==
  ASSUME IInv, DataOK, BudgetInv, PairInv, NEW g \in Gens, Run(g) \/ Expire(g)
  PROVE  PairInv'
<1>0. loops \in [Gens -> Loops] /\ rows \in Seq(Rows)
  BY DEF DataOK
<1>b. /\ Untouched("move")' => Untouched("move")
      /\ Untouched("fault")' => Untouched("fault")
  BY BudgetStep DEF Events
<1>o. ASSUME Running(g), ~At(g, "tools") PROVE \A h \in Gens : ~At(h, "tools")
  <2>1. \A h \in Gens : At(h, "tools") => Running(h)
    BY DEF At, Running
  <2> QED
    BY <1>o, <2>1, OnlyRunner
<1>s. ASSUME UNCHANGED rows, Running(g), ~At(g, "tools") PROVE PairInv'
  BY <1>b, <1>o, <1>s, PairSame
<1>r. ASSUME NEW k \in {"reply", "marker", "error", "refusal", "truncated"},
             rows' = Append(rows, Row(k)), Running(g), ~At(g, "tools")
      PROVE  PairInv'
  <2>1. Row(k) \in Rows /\ Row(k).kind # "use"
    BY RowTypes DEF Row, Kinds, EndKinds
  <2> QED
    BY <1>b, <1>o, <1>r, <2>1, PairOther
<1>i. ASSUME NEW failed, RecordInjected(failed), Running(g), ~At(g, "tools")
      PROVE  PairInv'
  <2>1. /\ Injected(failed) \in Seq(Rows)
        /\ Elems(Injected(failed)) = {UserRow(q.msg) : q \in Elems(queue) \cap Taken(failed)}
    BY InjectedTypes
  <2>2. \A x \in Elems(Injected(failed)) : x.kind # "use"
    BY <2>1 DEF UserRow
  <2>3. rows' = rows \o Injected(failed)
    BY <1>i DEF RecordInjected
  <2>4. SUFFICES ASSUME Untouched("move")', Untouched("fault")'
                 PROVE  Paired(rows') /\ ~OpenUse(rows')
    BY DEF PairInv
  <2>5. Paired(rows) /\ ~OpenUse(rows)
    BY <1>b, <1>i, <1>o, <2>4 DEF PairInv
  <2> QED
    BY <1>0, <2>1, <2>2, <2>3, <2>5, PairedConcat
<1> USE DEF OnlyLoop, ManagerUnchanged, Exit, Goto, dbVars, At, Running
<1>1. CASE LoopStops(g) \/ LoopTakes(g) \/ LoopRests(g) \/ LoopWakes(g) \/ TakeNothing(g)
  BY <1>1, <1>s DEF LoopStops, LoopTakes, LoopRests, LoopWakes, TakeNothing
<1>2. CASE RequestAborted(g) \/ RequestExpired(g) \/ EndUnrecorded(g) \/ SyncIdle(g)
           \/ MirrorEnd(g)
  BY <1>2, <1>s DEF RequestAborted, RequestExpired, EndUnrecorded, SyncIdle, MirrorEnd
<1>3. CASE PersistenceFails(g)
  <2>1. Spend({"fault"}) /\ UNCHANGED rows
    BY <1>3 DEF PersistenceFails
  <2>2. ~Untouched("fault")'
    BY <2>1, SpendBudget DEF BudgetInv, Events
  <2> QED
    BY <2>2 DEF PairInv
<1>4. CASE Expire(g)
  <2>1. loops' = [loops EXCEPT ![g].ctx = "expired"] /\ UNCHANGED rows
    BY <1>4 DEF Expire
  <2>2. \A h \in Gens : loops'[h].pc = loops[h].pc
    BY <1>0, <2>1 DEF Loops
  <2> QED
    BY <1>b, <2>1, <2>2, PairSame
<1>5. CASE PendingFails(g)
  BY <1>5, <1>i DEF PendingFails
<1>6. CASE RecordToolUse(g)
  <2>1. Row("use") \in Rows
    BY RowTypes DEF Kinds
  <2>2. At(g, "request") /\ rows' = Append(rows, Row("use")) /\ loops'[g].pc = "tools"
    BY <1>0, <1>6 DEF RecordToolUse, Loops
  <2>3. SUFFICES ASSUME Untouched("move")', Untouched("fault")' PROVE Paired(rows')
    BY <2>2 DEF PairInv
  <2>4. Paired(rows) /\ ~OpenUse(rows)
    BY <1>b, <1>o, <2>2, <2>3 DEF PairInv
  <2> QED
    BY <1>0, <2>1, <2>2, <2>4, PairedAppend
<1>7. CASE RecordReply(g) \/ RecordMarker(g)
  BY <1>7, <1>r DEF RecordReply, RecordMarker, RecordEnd
<1>8. ASSUME NEW lost \in BOOLEAN, OnTurnStart(g, lost) PROVE PairInv'
  BY <1>8, <1>s DEF OnTurnStart
<1>9. ASSUME NEW lost \in BOOLEAN, HandleFatalLoopExit(g, lost) PROVE PairInv'
  BY <1>9, <1>s DEF HandleFatalLoopExit
<1>10. ASSUME NEW failed \in Msgs \cup {None}, TakeInjectable(g, failed) PROVE PairInv'
  BY <1>10, <1>i DEF TakeInjectable
<1>11. ASSUME NEW kind \in {"error", "refusal", "truncated"}, FailTurn(g, kind) PROVE PairInv'
  BY <1>11, <1>r DEF FailTurn, RecordEnd
<1>12. ASSUME NEW endsTurn \in BOOLEAN, RecordToolResults(g, endsTurn) PROVE PairInv'
  <2>1. Row("result") \in Rows /\ Row("result").kind = "result"
    BY RowTypes DEF Row, Kinds
  <2>2. rows' = Append(rows, Row("result"))
    BY <1>12 DEF RecordToolResults
  <2>3. SUFFICES ASSUME Untouched("move")', Untouched("fault")'
                 PROVE  Paired(rows') /\ ~OpenUse(rows')
    BY DEF PairInv
  <2>4. Paired(rows)
    BY <1>b, <2>3 DEF PairInv
  <2> QED
    BY <1>0, <2>1, <2>2, <2>4, PairedAppend
<1> QED
  BY <1>1, <1>2, <1>3, <1>4, <1>5, <1>6, <1>7, <1>8, <1>9, <1>10, <1>11, <1>12 DEF Run

(* ... and so does every step of the manager.                              *)
LEMMA PairManager ==
  ASSUME IInv, DataOK, BudgetInv, PairInv, Requests \/ Holder \/ Drain \/ Teardown \/ Notice
  PROVE  PairInv'
<1>0. /\ loops \in [Gens -> Loops] /\ rows \in Seq(Rows) /\ queue \in Seq(Items)
      /\ gen \in 0..MaxGen /\ MaxGen \in Nat
  BY MaxGenAssumption DEF DataOK, IInv, ControlOK
<1>b. /\ Untouched("move")' => Untouched("move")
      /\ Untouched("fault")' => Untouched("fault")
  BY BudgetStep DEF Events
<1>s. ASSUME UNCHANGED rows, \A h \in Gens : At(h, "tools") => At(h, "tools")' PROVE PairInv'
  BY <1>b, <1>s, PairSame
<1>u. ASSUME UNCHANGED <<rows, loops>> PROVE PairInv'
  BY <1>s, <1>u DEF At
<1>e. ASSUME LoadHistory \/ (InstallLoop /\ Building), UNCHANGED rows PROVE PairInv'
  <2>1. gen < MaxGen /\ gen + 1 \in Gens /\ gen + 1 > gen
    BY <1>0, <1>e DEF LoadHistory, IInv, LockInv, Gens
  <2>2. ~At(gen + 1, "tools")
    BY <2>1 DEF IInv, InstallInv, At
  <2>3. \A h \in Gens : h # gen + 1 => loops'[h] = loops[h]
    BY <1>0, <1>e, <2>1, BuildTypes
  <2>4. \A h \in Gens : At(h, "tools") => At(h, "tools")'
    BY <2>2, <2>3 DEF At
  <2> QED
    BY <1>e, <1>s, <2>4
<1>h. ASSUME NEW s, Hand(s), UNCHANGED rows PROVE PairInv'
  <2>1. \A h \in Gens : loops'[h].pc = loops[h].pc
    BY <1>0, <1>h DEF Hand, Loops
  <2> QED
    BY <1>h, <1>s, <2>1 DEF At
<1>q. ASSUME tear = "none", ~MidTurn(loop) PROVE \A h \in Gens : ~At(h, "tools")
  BY <1>q DEF IInv, InstallInv, OneLoop, Running, MidTurn, At
<1> USE DEF dbVars
<1>1. ASSUME NEW m \in Msgs, AcceptQueues(m) PROVE PairInv'
  BY <1>1, <1>u DEF AcceptQueues
<1>2. ASSUME NEW m \in Msgs, AcceptStarts(m) PROVE PairInv'
  BY <1>2, <1>e, <1>u DEF AcceptStarts
<1>3. ASSUME NEW m \in Msgs, CancelQueuedMessage(m) PROVE PairInv'
  BY <1>3, <1>u DEF CancelQueuedMessage
<1>4. ASSUME NEW m \in Msgs, NEW inject \in BOOLEAN, QueueMessage(m, inject) PROVE PairInv'
  BY <1>4, <1>u DEF QueueMessage
<1>5. ASSUME NEW lost \in BOOLEAN, RetryLastLLMRequest(lost) PROVE PairInv'
  <2>1. \A h \in Gens : loops'[h].pc = loops[h].pc
    BY <1>0, <1>5 DEF RetryLastLLMRequest, Loops
  <2> QED
    BY <1>5, <1>s, <2>1 DEF RetryLastLLMRequest, At
<1>6. CASE CancelQueuedMessages \/ CancelConversation \/ CancelIdleFails \/ SendQueuedNow
           \/ ResetLoop \/ SetCwd
  BY <1>6, <1>u DEF CancelQueuedMessages, CancelConversation, CancelIdleFails, SendQueuedNow,
     ResetLoop, SetCwd
<1>7. CASE Requests
  BY <1>1, <1>2, <1>3, <1>4, <1>5, <1>6, <1>7 DEF Requests
<1>8. CASE RecordTurnStart
  <2>1. UserRow(arg) \in Rows /\ UserRow(arg).kind # "use"
    BY <1>8, RowTypes DEF RecordTurnStart, DataOK, UserRow
  <2>2. tear = "none" /\ ~MidTurn(loop)
    BY <1>8 DEF RecordTurnStart, IInv, LockInv, FlagInv, QuietInv
  <2> QED
    BY <1>8, <1>b, <1>q, <2>1, <2>2, PairOther DEF RecordTurnStart
<1>9. ASSUME NEW lost \in BOOLEAN, RejectTurnStart(lost) PROVE PairInv'
  BY <1>9, <1>u DEF RejectTurnStart
<1>10. CASE QueueTurn
  BY <1>10, <1>h DEF QueueTurn
<1>11. CASE DrainQueueIfIdle
  BY <1>11, <1>u DEF DrainQueueIfIdle
<1>23. CASE AcceptInstalls
  BY <1>23, <1>e DEF AcceptInstalls, Building
<1>12. CASE Holder
  BY <1>8, <1>9, <1>10, <1>11, <1>12, <1>23 DEF Holder
<1>13. CASE BeginPendingDrain \/ DrainEnter \/ DrainLeave \/ FinishPendingDrainPass
  BY <1>13, <1>u DEF BeginPendingDrain, DrainEnter, DrainLeave, FinishPendingDrainPass
<1>14. CASE DrainStart
  BY <1>14, <1>e, <1>u DEF DrainStart
<1>24. CASE DrainInstalls
  BY <1>24, <1>e DEF DrainInstalls, Building
<1>15. CASE DrainRecord
  <2>1. Head(queue) \in Items
    BY <1>0, <1>15, HeadTailProperties DEF DrainRecord
  <2>2. UserRow(Head(queue).msg) \in Rows /\ UserRow(Head(queue).msg).kind # "use"
    BY <2>1, RowTypes DEF Items, UserRow
  <2>3. tear = "none" /\ ~MidTurn(loop)
    BY <1>15 DEF DrainRecord, IInv, LockInv, FlagInv, QuietInv
  <2>4. rows' = Append(rows, UserRow(Head(queue).msg))
    BY <1>15 DEF DrainRecord
  <2> QED
    BY <1>b, <1>q, <2>2, <2>3, <2>4, PairOther
<1>16. CASE DrainRecordFails \/ DrainHand
  BY <1>16, <1>h DEF DrainRecordFails, DrainHand
<1>17. CASE Drain
  BY <1>13, <1>14, <1>15, <1>16, <1>17, <1>24 DEF Drain
<1>18. CASE TeardownClears \/ TeardownCloses \/ TeardownRecordFails
  BY <1>18, <1>u DEF TeardownClears, TeardownCloses, TeardownRecordFails
<1>19. CASE TeardownStops
  <2>1. \A h \in Gens : loops'[h].pc = loops[h].pc
    BY <1>0, <1>19 DEF TeardownStops, Loops
  <2> QED
    BY <1>19, <1>s, <2>1 DEF TeardownStops, At
<1>20. CASE TeardownRecords
  <2> DEFINE k == IF why = "cancel" THEN "stopped" ELSE "interrupted"
  <2>1. Row(k) \in Rows /\ Row(k).kind # "use"
    BY RowTypes DEF Row, Kinds, EndKinds
  <2>2. \A h \in Gens : ~At(h, "tools")
    <3>1. tear # "none" /\ loops[victim].pc = "dead"
      BY <1>20 DEF TeardownRecords, Joined
    <3>2. 0 \notin Gens
      BY DEF Gens
    <3> QED
      BY <3>1, <3>2 DEF IInv, InstallInv, OneLoop, Running, At
  <2>3. rows' = Append(rows, Row(k))
    BY <1>20 DEF TeardownRecords
  <2> HIDE DEF k
  <2> QED
    BY <1>b, <2>1, <2>2, <2>3, PairOther
<1>21. CASE Teardown
  BY <1>18, <1>19, <1>20, <1>21 DEF Teardown
<1>22. CASE Notice
  <2>1. ~Untouched("move")
    BY <1>22 DEF Notice, RecordCwdChangeNotice, NoticeFails, AppendHistory, BudgetInv
  <2> QED
    BY <1>b, <2>1 DEF PairInv
<1> QED
  BY <1>7, <1>12, <1>17, <1>21, <1>22

-----------------------------------------------------------------------------
(* A loop with nothing to take, and a loop between taking and finishing.   *)
Idle(l) == l.messageQueue = <<>> /\ ~l.retryPending
InTurn(l) == l.pc \in {"start", "pending", "request", "tools", "marker", "ending"}

(* A turn is handed to a loop only when the one before is over, and the    *)
(* manager says it is working from the hand-over on.                       *)
CalmInv ==
  /\ drainer # "record" => batch = <<>>
  /\ loop # 0 /\ InTurn(loops[loop]) => Idle(loops[loop])
  /\ lock \in {"record", "hand"} \/ drainer = "record"
       => Idle(loops[loop]) /\ ~InTurn(loops[loop])
  /\ loop # 0 /\ (~Idle(loops[loop]) \/ At(loop, "start")) => agentWorking
  /\ lock = "hand" \/ batch # <<>> => agentWorking

(* A failing turn is over with a row.                                      *)
LEMMA FailTurnEnds ==
  \A g, kind : FailTurn(g, kind) => At(g, "request") /\ RecordEnd(g, kind)
  BY DEF FailTurn

(* The goroutine that takes a step belongs to the installed loop, unless   *)
(* there is none.                                                          *)
LEMMA RunnerInstalled ==
  ASSUME IInv, NEW g \in Gens, Run(g) \/ Expire(g)
  PROVE  Running(g) /\ (g = loop \/ loop = 0)
<1>1. Running(g)
  <2>1. CASE Expire(g)
    BY <2>1 DEF Expire, Running, At
  <2>2. CASE Run(g)
    BY <2>2, FailTurnEnds DEF Run, Running, At, LoopStops, LoopTakes, LoopRests,
       LoopWakes, TakeNothing, RequestAborted, RequestExpired, RecordReply, RecordMarker,
       SyncIdle, MirrorEnd, PendingFails, RecordToolUse, PersistenceFails,
       EndUnrecorded, OnTurnStart, HandleFatalLoopExit, TakeInjectable,
       RecordToolResults
  <2> QED
    BY <2>1, <2>2
<1> QED
  BY <1>1 DEF IInv, InstallInv, OneLoop

(* A loop's step leaves the mutex and the drain alone.                     *)
LEMMA RunLeaves ==
  ASSUME NEW g \in Gens, Run(g) \/ Expire(g)
  PROVE  UNCHANGED <<lock, arg, drainer, batch>> /\ (loop' = loop \/ loop' = 0)
  BY FailTurnEnds DEF Run, Expire, OnlyLoop, ManagerUnchanged, installVars, lockVars, drainVars,
     LoopStops, LoopTakes, LoopRests, LoopWakes, TakeNothing, RequestAborted, RequestExpired,
     RecordReply, RecordMarker, RecordEnd, SyncIdle, MirrorEnd, PendingFails,
     RecordToolUse, PersistenceFails, EndUnrecorded, OnTurnStart, HandleFatalLoopExit,
     TakeInjectable, RecordToolResults

(* Every step of a loop keeps CalmInv, ...                                 *)
LEMMA CalmRun ==
  ASSUME IInv, DataOK, CalmInv, NEW g \in Gens, Run(g) \/ Expire(g)
  PROVE  CalmInv'
<1>0. loops \in [Gens -> Loops] /\ loops[g] \in Loops
  BY DEF DataOK
<1>k. UNCHANGED <<lock, drainer, batch>> /\ (loop' = loop \/ loop' = 0)
  BY RunLeaves
<1>z. ASSUME loop = 0 PROVE CalmInv'
  <2>1. loop' = 0 /\ lock \notin {"record", "hand"} /\ drainer # "record"
    BY <1>k, <1>z DEF IInv, LockInv
  <2>2. batch = <<>>
    BY <2>1 DEF CalmInv
  <2> QED
    BY <1>k, <2>1, <2>2 DEF CalmInv
<1>n. SUFFICES ASSUME g = loop, loop # 0 PROVE CalmInv'
  <2>1. g # 0
    BY DEF Gens
  <2> QED
    BY <1>z, <2>1, RunnerInstalled
<1>w. (agentWorking => agentWorking') => (lock = "hand" \/ batch # <<>> => agentWorking')
  BY DEF CalmInv
<1>f. ASSUME loop' = loop, lock = "hand" \/ batch # <<>> => agentWorking',
             \/ Idle(loops'[g]) /\ ~InTurn(loops'[g])
             \/ /\ loops'[g].messageQueue = loops[g].messageQueue
                /\ loops'[g].retryPending = loops[g].retryPending
                /\ InTurn(loops'[g]) => InTurn(loops[g])
                /\ At(g, "start")' => At(g, "start")
                /\ agentWorking => agentWorking'
      PROVE  CalmInv'
  BY <1>f, <1>k, <1>n DEF CalmInv, Idle, InTurn, At
<1>d. ASSUME UNCHANGED <<loop, agentWorking>>, loops' = [loops EXCEPT ![g] = DeadLoop]
      PROVE  CalmInv'
  <2>1. Idle(loops'[g]) /\ ~InTurn(loops'[g])
    BY <1>0, <1>d DEF DeadLoop, NewLoop, Idle, InTurn
  <2> QED
    BY <1>d, <1>f, <1>w, <2>1
<1>p. ASSUME loop' = loop, NEW p, loops' = [loops EXCEPT ![g].pc = p],
             InTurn(loops[g]) \/ p \in {"top", "wait", "fatal"}, p # "start",
             agentWorking => agentWorking'
      PROVE  CalmInv'
  <2>1. /\ loops'[g].messageQueue = loops[g].messageQueue /\ loops'[g].pc = p
        /\ loops'[g].retryPending = loops[g].retryPending
    BY <1>0, <1>p DEF Loops
  <2> QED
    BY <1>f, <1>w, <1>p, <2>1 DEF InTurn, At
<1>h. ASSUME loop' = loop, NEW p, NEW h, loops' = [loops EXCEPT ![g].history = h, ![g].pc = p],
             InTurn(loops[g]) \/ p = "top", p # "start", agentWorking => agentWorking'
      PROVE  CalmInv'
  <2>1. /\ loops'[g].messageQueue = loops[g].messageQueue /\ loops'[g].pc = p
        /\ loops'[g].retryPending = loops[g].retryPending
    BY <1>0, <1>h DEF Loops
  <2> QED
    BY <1>f, <1>w, <1>h, <2>1 DEF InTurn, At
<1>e. ASSUME NEW k, RecordEnd(g, k), InTurn(loops[g]) PROVE CalmInv'
  <2>1. /\ loops'[g].messageQueue = loops[g].messageQueue /\ loops'[g].pc = "ending"
        /\ loops'[g].retryPending = loops[g].retryPending
    BY <1>0, <1>e DEF RecordEnd, Loops
  <2>2. UNCHANGED <<loop, agentWorking>>
    BY <1>e DEF RecordEnd, ManagerUnchanged, installVars
  <2> QED
    BY <1>e, <1>f, <1>w, <2>1, <2>2 DEF At
<1> USE DEF OnlyLoop, ManagerUnchanged, Exit, Goto, installVars
<1>1. CASE LoopStops(g) \/ RequestAborted(g) \/ RequestExpired(g)
  BY <1>1, <1>d DEF LoopStops, RequestAborted, RequestExpired
<1>2. CASE LoopTakes(g)
  <2>1. /\ loops'[g].messageQueue = <<>> /\ loops'[g].retryPending = FALSE
        /\ loops'[g].pc = "start"
    BY <1>0, <1>2 DEF LoopTakes, Loops
  <2>2. ~Idle(loops[g]) /\ UNCHANGED <<agentWorking, loop>>
    BY <1>2 DEF LoopTakes, Idle
  <2> QED
    BY <1>k, <1>n, <2>1, <2>2 DEF CalmInv, Idle, InTurn, At
<1>3. CASE LoopRests(g) \/ EndUnrecorded(g) \/ PersistenceFails(g)
  <2>1. /\ UNCHANGED <<loop, agentWorking>>
        /\ \/ loops' = [loops EXCEPT ![g].pc = "wait"]
           \/ loops' = [loops EXCEPT ![g].pc = "top"]
           \/ loops' = [loops EXCEPT ![g].pc = "fatal"]
    BY <1>3 DEF LoopRests, EndUnrecorded, PersistenceFails
  <2>2. CASE loops' = [loops EXCEPT ![g].pc = "wait"]
    BY <1>p, <2>1, <2>2
  <2>3. CASE loops' = [loops EXCEPT ![g].pc = "top"]
    BY <1>p, <2>1, <2>3
  <2>4. CASE loops' = [loops EXCEPT ![g].pc = "fatal"]
    BY <1>p, <2>1, <2>4
  <2> QED
    BY <2>1, <2>2, <2>3, <2>4
<1>4. CASE LoopWakes(g)
  <2>1. /\ loops'[g].messageQueue = loops[g].messageQueue /\ loops'[g].pc = "top"
        /\ loops'[g].retryPending = loops[g].retryPending
    BY <1>0, <1>4 DEF LoopWakes, Loops
  <2> QED
    BY <1>4, <1>f, <1>w, <2>1 DEF LoopWakes, InTurn, At
<1>5. CASE Expire(g)
  <2>1. loops' = [loops EXCEPT ![g].ctx = "expired"] /\ UNCHANGED <<loop, agentWorking>>
    BY <1>5 DEF Expire
  <2>2. /\ loops'[g].messageQueue = loops[g].messageQueue /\ loops'[g].pc = loops[g].pc
        /\ loops'[g].retryPending = loops[g].retryPending
    BY <1>0, <2>1 DEF Loops
  <2> QED
    BY <1>f, <1>w, <2>1, <2>2 DEF InTurn, At
<1>6. CASE TakeNothing(g)
  BY <1>6, <1>p DEF TakeNothing, At, InTurn
<1>7. CASE PendingFails(g)
  <2>1. agentWorking => agentWorking'
    BY <1>7 DEF PendingFails, RecordInjected
  <2> QED
    BY <1>7, <1>p, <2>1 DEF PendingFails
<1>8. CASE RecordToolUse(g)
  BY <1>8, <1>h DEF RecordToolUse, At, InTurn
<1>9. CASE RecordReply(g) \/ RecordMarker(g)
  BY <1>9, <1>e DEF RecordReply, RecordMarker, At, InTurn
<1>10. CASE SyncIdle(g)
  <2>1. /\ loops'[g].messageQueue = loops[g].messageQueue /\ loops'[g].pc = "ended"
        /\ loops'[g].retryPending = loops[g].retryPending
    BY <1>0, <1>10 DEF SyncIdle, Loops
  <2>2. /\ Idle(loops[g]) /\ lock \notin {"record", "hand"} /\ drainer # "record"
        /\ batch = <<>>
    BY <1>10, <1>n DEF SyncIdle, CalmInv, At, InTurn
  <2> QED
    BY <1>10, <1>f, <1>w, <2>1, <2>2 DEF SyncIdle, Idle, InTurn
<1>11. CASE MirrorEnd(g)
  <2>1. /\ loops'[g].messageQueue = loops[g].messageQueue /\ loops'[g].pc = "top"
        /\ loops'[g].retryPending = loops[g].retryPending
    BY <1>0, <1>11 DEF MirrorEnd, Loops
  <2> QED
    BY <1>11, <1>f, <1>w, <2>1 DEF MirrorEnd, InTurn, At
<1>12. ASSUME NEW lost \in BOOLEAN, OnTurnStart(g, lost) PROVE CalmInv'
  <2>1. agentWorking => agentWorking'
    BY <1>12 DEF OnTurnStart, SetAgentWorking
  <2> QED
    BY <1>12, <1>p, <2>1 DEF OnTurnStart, At, InTurn
<1>13. ASSUME NEW lost \in BOOLEAN, HandleFatalLoopExit(g, lost) PROVE CalmInv'
  <2>1. loop = gen
    BY <1>n DEF IInv, InstallInv
  <2>2. lock = "free" /\ loop' = 0
    BY <1>13, <1>n, <2>1 DEF HandleFatalLoopExit
  <2>3. drainer # "record"
    BY <2>2 DEF IInv, LockInv
  <2>4. batch = <<>>
    BY <2>3 DEF CalmInv
  <2> QED
    BY <1>k, <2>2, <2>3, <2>4 DEF CalmInv
<1>14. ASSUME NEW failed \in Msgs \cup {None}, TakeInjectable(g, failed) PROVE CalmInv'
  <2>1. agentWorking => agentWorking'
    BY <1>14 DEF TakeInjectable, RecordInjected
  <2> QED
    BY <1>14, <1>h, <2>1 DEF TakeInjectable, At, InTurn
<1>15. ASSUME NEW kind \in {"error", "refusal", "truncated"}, FailTurn(g, kind) PROVE CalmInv'
  BY <1>15, <1>e DEF FailTurn, At, InTurn
<1>16. ASSUME NEW endsTurn \in BOOLEAN, RecordToolResults(g, endsTurn) PROVE CalmInv'
  BY <1>16, <1>d, <1>h DEF RecordToolResults, At, InTurn
<1> QED
  BY <1>1, <1>2, <1>3, <1>4, <1>5, <1>6, <1>7, <1>8, <1>9, <1>10, <1>11, <1>12, <1>13,
     <1>14, <1>15, <1>16 DEF Run

(* While a loop is being built nothing is recorded, and no loop changes,   *)
(* but for a notice.                                                       *)
LEMMA WhileBuilding ==
  ASSUME IInv, Building, NEW g,
         \/ Requests \/ Holder \/ Drain \/ Teardown \/ Notice
         \/ g \in Gens /\ (Run(g) \/ Expire(g))
  PROVE  (InstallLoop /\ ~Building') \/ Notice \/ UNCHANGED <<rows, loops>>
<1>0. /\ lock \in {"install", "drain"} /\ tear = "none" /\ loop = 0
      /\ lock = "drain" <=> drainer = "install"
      /\ drainer \notin {"look", "record"}
  BY DEF IInv, LockInv, Building
<1>1. ASSUME g \in Gens, Run(g) \/ Expire(g) PROVE FALSE
  <2>1. Running(g)
    BY <1>1, RunnerInstalled
  <2> QED
    BY <1>0, <1>1, <2>1 DEF IInv, InstallInv, OneLoop, Gens
<1>2. CASE Requests
  <2>1. ~Entered
    BY <1>0 DEF Entered
  <2>2. \A m \in Msgs : ~AcceptQueues(m) /\ ~AcceptStarts(m) /\ ~CancelQueuedMessage(m)
    BY <2>1 DEF AcceptQueues, AcceptStarts, CancelQueuedMessage
  <2>3. \A m \in Msgs, inject \in BOOLEAN : ~QueueMessage(m, inject)
    BY <2>1 DEF QueueMessage
  <2>4. \A lost \in BOOLEAN : ~RetryLastLLMRequest(lost)
    BY <2>1, Zenon DEF RetryLastLLMRequest
  <2>5. SetCwd
    BY <1>2, <2>1, <2>2, <2>3, <2>4 DEF Requests, CancelQueuedMessages, CancelConversation,
       CancelIdleFails, SendQueuedNow, ResetLoop
  <2> QED
    BY <2>5 DEF SetCwd, dbVars
<1>3. CASE Holder
  BY <1>0, <1>3 DEF Holder, AcceptInstalls, RecordTurnStart, RejectTurnStart, QueueTurn,
     DrainQueueIfIdle, drainVars, Building
<1>4. CASE Drain
  BY <1>0, <1>4 DEF Drain, BeginPendingDrain, DrainEnter, DrainLeave, DrainStart, DrainInstalls,
     DrainRecord, DrainRecordFails, DrainHand, FinishPendingDrainPass, Entered, lockVars,
     Building, dbVars
<1>5. CASE Teardown
  BY <1>0, <1>5 DEF Teardown, TeardownClears, TeardownStops, TeardownCloses, TeardownRecords,
     TeardownRecordFails, Joined
<1> QED
  BY <1>1, <1>2, <1>3, <1>4, <1>5

(* A loop that is being built has nothing to take yet, and until the       *)
(* working directory changes it has the transcript's context.              *)
BuiltInv ==
  \A g \in Gens : At(g, "loaded") =>
    /\ Idle(loops[g])
    /\ Untouched("move") => loops[g].history = Context(rows)

(* Every step keeps that.                                                  *)
LEMMA BuiltStep ==
  ASSUME IInv, DataOK, BudgetInv, BuiltInv, NEW g,
         \/ Requests \/ Holder \/ Drain \/ Teardown \/ Notice
         \/ g \in Gens /\ (Run(g) \/ Expire(g))
  PROVE  BuiltInv'
<1>0. /\ loops \in [Gens -> Loops] /\ loop \in Gens \cup {0}
      /\ gen \in 0..MaxGen
  BY DEF DataOK, IInv, ControlOK
<1>b. BudgetInv' /\ (Untouched("move")' => Untouched("move"))
  BY BudgetStep DEF Events
<1>i. IInv'
  BY StepInv, Zenon DEF Next
<1>1. SUFFICES ASSUME Building', NEW h \in Gens, At(h, "loaded")'
               PROVE  /\ Idle(loops'[h])
                      /\ Untouched("move")' => loops'[h].history = Context(rows')
  BY <1>i DEF BuiltInv, IInv, InstallInv
<1>2. CASE ~Building
  <2>1. CASE ~At(h, "loaded")
    <3>1. LoadHistory /\ UNCHANGED rows
      <4>1. ~(g \in Gens /\ (Run(g) \/ Expire(g)))
        BY <1>1, <1>2, RunLeaves DEF Building
      <4>2. CASE Requests
        BY <1>1, <1>2, <4>2 DEF Building, Requests, lockVars, drainVars, dbVars, AcceptQueues,
           AcceptStarts, CancelQueuedMessage, QueueMessage, RetryLastLLMRequest,
           CancelQueuedMessages, CancelConversation, CancelIdleFails, SendQueuedNow,
           ResetLoop, SetCwd
      <4>3. CASE Holder
        BY <1>1, <1>2, <4>3 DEF Building, Holder, drainVars, AcceptInstalls,
           RecordTurnStart, RejectTurnStart, QueueTurn, DrainQueueIfIdle
      <4>4. CASE Drain
        BY <1>1, <1>2, <4>4 DEF Building, Drain, lockVars, dbVars, BeginPendingDrain,
           DrainEnter, DrainLeave, DrainStart, DrainInstalls, DrainRecord,
           DrainRecordFails, DrainHand, FinishPendingDrainPass
      <4>5. CASE Teardown \/ Notice
        BY <1>1, <1>2, <4>5 DEF Building, Teardown, Notice, lockVars, drainVars,
           TeardownClears, TeardownStops, TeardownCloses, TeardownRecords,
           TeardownRecordFails, RecordCwdChangeNotice, NoticeFails, AppendHistory
      <4> QED
        BY <4>1, <4>2, <4>3, <4>4, <4>5
    <3>2. /\ \A k \in Gens : k # gen + 1 => loops'[k] = loops[k]
          /\ loops'[gen + 1] = LoadedLoop(Context(rows))
      BY <1>0, <3>1, BuildTypes
    <3>3. h = gen + 1
      BY <1>1, <2>1, <3>2 DEF At
    <3> QED
      BY <3>1, <3>2, <3>3 DEF LoadedLoop, NewLoop, Idle
  <2>2. CASE At(h, "loaded")
    BY <1>2, <2>2 DEF IInv, InstallInv
  <2> QED
    BY <2>1, <2>2
<1>3. CASE Building
  <2>1. CASE UNCHANGED <<rows, loops>>
    BY <1>1, <1>b, <2>1 DEF BuiltInv, At
  <2>2. CASE Notice
    <3>1. ~Untouched("move")'
      <4>1. ~Untouched("move")
        BY <2>2 DEF Notice, RecordCwdChangeNotice, NoticeFails, AppendHistory, BudgetInv
      <4> QED
        BY <1>b, <4>1
    <3>2. loops'[h] = loops[h] \/ loops'[h] = [loops[h] EXCEPT !.late = TRUE]
      <4>1. UNCHANGED loops \/ loops' = Spliced
        BY <2>2 DEF Notice, RecordCwdChangeNotice, NoticeFails, AppendHistory
      <4>2. loop = 0
        BY <1>3 DEF IInv, LockInv
      <4> QED
        BY <1>0, <4>1, <4>2, SplicedTypes
    <3>3. loops'[h].pc = loops[h].pc /\ Idle(loops'[h]) = Idle(loops[h])
      BY <1>0, <3>2 DEF Loops, Idle
    <3> QED
      BY <1>1, <3>1, <3>3 DEF BuiltInv, At
  <2> QED
    BY <1>1, <1>3, <2>1, <2>2, WhileBuilding
<1> QED
  BY <1>2, <1>3

(* ... and so does every step of the manager.                              *)
LEMMA CalmManager ==
  ASSUME IInv, DataOK, BuiltInv, CalmInv,
         Requests \/ Holder \/ Drain \/ Teardown \/ Notice
  PROVE  CalmInv'
<1> DEFINE Same(h) == /\ loops'[h].messageQueue = loops[h].messageQueue
                      /\ loops'[h].retryPending = loops[h].retryPending
                      /\ loops'[h].pc = loops[h].pc
           Calm(h) == Idle(loops[h]) /\ ~InTurn(loops[h])
<1>0. /\ loops \in [Gens -> Loops] /\ loop \in Gens \cup {0} /\ agentWorking \in BOOLEAN
      /\ gen \in 0..MaxGen /\ MaxGen \in Nat
  BY MaxGenAssumption DEF DataOK, IInv, ControlOK
<1>i. /\ lock = "drain" <=> drainer \in {"look", "install", "record"}
      /\ lock = "install" => loop = 0
  BY DEF Building, IInv, LockInv
<1>t. loop # 0 /\ InTurn(loops[loop]) => agentWorking
  BY <1>0 DEF CalmInv, IInv, FlagInv, TurnIsWorking, EndingInv, InTurn, MidTurn, At
<1>c. loop # 0 /\ ~agentWorking => Calm(loop)
  BY <1>t DEF CalmInv
\* The loops stay as they are, or the installed one is detached.
<1>s. ASSUME loop' = loop \/ loop' = 0, \A h \in Gens : Same(h),
             loop' # 0 /\ agentWorking => agentWorking' \/ Calm(loop),
             lock' \in {"record", "hand"} \/ drainer' = "record"
               => loop' = loop /\ loop # 0 /\ Calm(loop),
             drainer' # "record" => batch' = <<>>,
             lock' # "hand" /\ batch' = <<>>
      PROVE  CalmInv'
  <2>1. CASE loop' = 0
    BY <1>s, <2>1 DEF CalmInv
  <2>2. CASE loop' = loop /\ loop # 0
    <3>1. Same(loop)
      BY <1>0, <1>s, <2>2
    <3>2. Idle(loops'[loop]) = Idle(loops[loop]) /\ InTurn(loops'[loop]) = InTurn(loops[loop])
      BY <3>1 DEF Idle, InTurn
    <3> QED
      BY <1>s, <2>2, <3>1, <3>2 DEF CalmInv, At, InTurn
  <2> QED
    BY <1>s, <2>1, <2>2
<1>u. ASSUME UNCHANGED <<lock, drainer, batch, loops, agentWorking, loop>> PROVE CalmInv'
  BY <1>u DEF CalmInv, At
<1>l. UNCHANGED loops => \A h \in Gens : Same(h)
  OBVIOUS
<1>b. drainer # "record" => batch = <<>>
  BY DEF CalmInv
\* ensureLoopLocked installs the loop it has built.
<1>e. ASSUME InstallLoop, Building,
             lock' = "record" \/ drainer' = "record",
             lock' # "hand", batch' = <<>>
      PROVE  CalmInv'
  <2>1. gen < MaxGen /\ loop' = gen + 1 /\ gen + 1 \in Gens /\ At(gen + 1, "loaded")
    BY <1>0, <1>e DEF InstallLoop, IInv, LockInv, InstallInv, Gens
  <2>2. loops'[gen + 1] = [loops[gen + 1] EXCEPT !.pc = "top"]
    BY <1>0, <1>e, <2>1, BuildTypes
  <2>3. Idle(loops'[loop']) /\ loops'[loop'].pc = "top"
    BY <1>0, <2>1, <2>2 DEF Loops, Idle, BuiltInv
  <2> QED
    BY <1>e, <2>3 DEF CalmInv, InTurn, At
\* Loop.QueueTurn, QueueMessages: the manager has said it is working.
<1>h. ASSUME NEW s, Hand(s), loop \in Gens, loop' = loop, Calm(loop), s # <<>> => agentWorking',
             lock' \notin {"record", "hand"}, drainer' # "record", batch' = <<>>
      PROVE  CalmInv'
  <2>1. loops'[loop].pc = loops[loop].pc
        /\ loops'[loop].retryPending = loops[loop].retryPending
        /\ (s = <<>> => loops' = loops)
    BY <1>0, <1>h DEF Hand, Loops
  <2> QED
    BY <1>h, <2>1 DEF CalmInv, Idle, InTurn, At
<1> USE DEF lockVars, drainVars, installVars
<1>1. ASSUME NEW m \in Msgs, AcceptQueues(m) PROVE CalmInv'
  BY <1>1, <1>b, <1>i, <1>l, <1>s DEF AcceptQueues, Entered
<1>2. ASSUME NEW m \in Msgs, AcceptStarts(m) PROVE CalmInv'
  <2>1. /\ lock = "free" /\ UNCHANGED <<drainer, batch, loop>>
        /\ \/ loop # 0 /\ ~agentWorking /\ UNCHANGED loops
           \/ loop = 0 /\ lock' = "install"
        /\ lock' \in {"install", "record"}
    BY <1>2 DEF AcceptStarts, Entered, LoadHistory
  <2>2. batch' = <<>> /\ drainer' # "record"
    BY <1>b, <1>i, <2>1
  <2>3. CASE loop = 0 /\ lock' = "install"
    BY <2>1, <2>2, <2>3 DEF CalmInv
  <2> QED
    BY <1>c, <1>l, <1>s, <2>1, <2>2, <2>3
<1>3. ASSUME NEW m \in Msgs, CancelQueuedMessage(m) PROVE CalmInv'
  BY <1>3, <1>b, <1>i, <1>l, <1>s DEF CancelQueuedMessage, Entered
<1>4. ASSUME NEW m \in Msgs, NEW inject \in BOOLEAN, QueueMessage(m, inject) PROVE CalmInv'
  BY <1>4, <1>b, <1>i, <1>l, <1>s DEF QueueMessage, Entered
<1>5. ASSUME NEW lost \in BOOLEAN, RetryLastLLMRequest(lost) PROVE CalmInv'
  <2>1. /\ loop \in Gens /\ loop' = loop /\ lock = "free" /\ agentWorking' = TRUE
        /\ ~agentWorking /\ UNCHANGED <<lock, drainer, batch>>
    BY <1>0, <1>5 DEF RetryLastLLMRequest, Entered, SetAgentWorking
  <2>2. loops'[loop].pc = loops[loop].pc
    BY <1>0, <1>5, <2>1 DEF RetryLastLLMRequest, Loops
  <2> QED
    BY <1>b, <1>c, <1>i, <2>1, <2>2 DEF CalmInv, InTurn, At
<1>6. CASE CancelQueuedMessages
  BY <1>6, <1>u DEF CancelQueuedMessages
<1>7. CASE CancelConversation
  <2>1. /\ lock = "free" /\ UNCHANGED <<lock, drainer, batch, loops>>
        /\ loop' = 0
    BY <1>7 DEF CancelConversation, Entered, Detach
  <2> QED
    BY <1>b, <1>i, <1>l, <1>s, <2>1
<1>8. CASE CancelIdleFails
  BY <1>8, <1>b, <1>i, <1>l, <1>s DEF CancelIdleFails, Entered
<1>9. CASE SendQueuedNow
  <2>1. /\ lock = "free" /\ UNCHANGED <<lock, drainer, batch, loops>>
        /\ loop' = 0 \/ (loop' = loop /\ ~(agentWorking /\ loop # 0))
    BY <1>9 DEF SendQueuedNow, Entered, Detach
  <2> QED
    BY <1>b, <1>i, <1>l, <1>s, <2>1
<1>10. CASE ResetLoop
  <2>1. lock = "free" /\ UNCHANGED <<lock, drainer, batch, loops>> /\ loop' = 0
    BY <1>10 DEF ResetLoop, Entered, Detach
  <2> QED
    BY <1>b, <1>i, <1>l, <1>s, <2>1
<1>11. CASE SetCwd
  BY <1>11, <1>u DEF SetCwd
<1>12. CASE Requests
  BY <1>1, <1>2, <1>3, <1>4, <1>5, <1>6, <1>7, <1>8, <1>9, <1>10, <1>11, <1>12 DEF Requests
<1>13. CASE RecordTurnStart
  BY <1>13 DEF RecordTurnStart, CalmInv, IInv, LockInv, At
<1>14. ASSUME NEW lost \in BOOLEAN, RejectTurnStart(lost) PROVE CalmInv'
  <2>1. /\ lock = "record" /\ lock' = "free" /\ UNCHANGED <<drainer, batch, loops>>
        /\ loop' \in {0, loop}
    BY <1>14 DEF RejectTurnStart, Detach
  <2>2. Calm(loop) /\ drainer # "record"
    BY <1>i, <2>1 DEF CalmInv
  <2> QED
    BY <1>b, <1>l, <1>s, <2>1, <2>2
<1>15. CASE QueueTurn
  <2>1. /\ lock = "hand" /\ Hand(<<UserRow(arg)>>) /\ loop' = loop /\ lock' = "free"
        /\ UNCHANGED <<agentWorking, drainer, batch>>
    BY <1>15 DEF QueueTurn
  <2>2. Calm(loop) /\ drainer # "record" /\ loop \in Gens
    BY <1>0, <1>i, <2>1 DEF CalmInv, IInv, LockInv
  <2>3. agentWorking
    BY <2>1 DEF CalmInv
  <2> QED
    BY <1>b, <1>h, <2>1, <2>2, <2>3
<1>16. CASE DrainQueueIfIdle
  BY <1>16, <1>b, <1>i, <1>l, <1>s DEF DrainQueueIfIdle
<1>29. CASE AcceptInstalls
  <2>1. InstallLoop /\ lock = "install" /\ lock' = "record" /\ UNCHANGED <<drainer, batch>>
    BY <1>29 DEF AcceptInstalls
  <2>2. batch' = <<>>
    BY <1>b, <1>i, <2>1
  <2> QED
    BY <1>e, <2>1, <2>2 DEF Building
<1>17. CASE Holder
  BY <1>13, <1>14, <1>15, <1>16, <1>17, <1>29 DEF Holder
<1>18. CASE BeginPendingDrain
  <2>1. UNCHANGED <<lock, batch, loops, agentWorking, loop>>
        /\ (drainer' = "record" <=> drainer = "record")
    BY <1>18 DEF BeginPendingDrain
  <2> QED
    BY <2>1 DEF CalmInv, At
<1>19. CASE DrainEnter \/ DrainLeave
  <2>1. /\ UNCHANGED <<batch, loops, agentWorking, loop>> /\ lock' \in {"drain", "free"}
        /\ drainer # "record" /\ drainer' # "record"
    BY <1>19 DEF DrainEnter, DrainLeave
  <2> QED
    BY <1>b, <1>l, <1>s, <2>1
<1>20. CASE DrainStart
  <2>1. /\ ~agentWorking /\ batch' = <<>> /\ lock = "drain" /\ lock' = lock /\ loop' = loop
        /\ \/ loop # 0 /\ drainer' = "record" /\ UNCHANGED loops
           \/ loop = 0 /\ drainer' = "install"
    BY <1>20, <1>i DEF DrainStart, LoadHistory
  <2>2. CASE loop = 0 /\ drainer' = "install"
    BY <2>1, <2>2 DEF CalmInv
  <2> QED
    BY <1>c, <1>l, <1>s, <2>1, <2>2
<1>30. CASE DrainInstalls
  <2>1. InstallLoop /\ drainer = "install" /\ drainer' = "record" /\ UNCHANGED <<lock, batch>>
        /\ lock = "drain"
    BY <1>30, <1>i DEF DrainInstalls
  <2>2. batch' = <<>>
    BY <1>b, <2>1
  <2> QED
    BY <1>e, <2>1, <2>2 DEF Building
<1>21. CASE DrainRecord
  BY <1>21 DEF DrainRecord, CalmInv, At
<1>22. CASE DrainRecordFails \/ DrainHand
  <2>1. /\ drainer = "record" /\ Hand(batch) /\ loop' = loop /\ lock' \in {"free", lock}
        /\ drainer' \in {"finish", "look"} /\ batch' = <<>> /\ UNCHANGED agentWorking
    BY <1>22 DEF DrainRecordFails, DrainHand
  <2>2. Calm(loop) /\ lock = "drain" /\ loop \in Gens
    BY <1>0, <1>i, <2>1 DEF CalmInv, IInv, LockInv
  <2>3. batch # <<>> => agentWorking'
    BY <2>1 DEF CalmInv
  <2> QED
    BY <1>h, <2>1, <2>2, <2>3
<1>23. CASE FinishPendingDrainPass
  <2>1. UNCHANGED <<lock, batch, loops, agentWorking, loop>>
        /\ drainer # "record" /\ drainer' # "record"
    BY <1>23 DEF FinishPendingDrainPass
  <2> QED
    BY <2>1 DEF CalmInv, At
<1>24. CASE Drain
  BY <1>18, <1>19, <1>20, <1>21, <1>22, <1>23, <1>24, <1>30 DEF Drain
<1>25. CASE Teardown
  <2>1. tear # "none" /\ UNCHANGED <<lock, drainer, batch, loop>>
    BY <1>25 DEF Teardown, TeardownClears, TeardownStops, TeardownCloses, TeardownRecords,
       TeardownRecordFails, Joined
  <2>2. loop = 0 /\ lock \notin {"record", "hand", "drain"} /\ drainer # "record"
    BY <1>i, <2>1 DEF IInv, InstallInv, OneLoop, LockInv
  <2> QED
    BY <1>b, <2>1, <2>2 DEF CalmInv
<1>26. CASE RecordCwdChangeNotice \/ NoticeFails
  BY <1>26, <1>u DEF RecordCwdChangeNotice, NoticeFails
<1>27. CASE AppendHistory
  <2>1. UNCHANGED <<lock, drainer, batch, agentWorking, loop>> /\ loops' = Spliced
    BY <1>27 DEF AppendHistory
  <2>2. CASE loop = 0
    <3>1. lock \notin {"record", "hand"} /\ drainer # "record"
      BY <2>2 DEF IInv, LockInv
    <3> QED
      BY <1>b, <2>1, <2>2, <3>1 DEF CalmInv
  <2>3. CASE loop # 0
    <3>1. Same(loop)
      <4>1. loops' = [loops EXCEPT ![loop] =
                        [loops[loop] EXCEPT !.history = Append(loops[loop].history, Row("notice"))]]
        BY <1>0, <2>1, <2>3, SplicedTypes
      <4> QED
        BY <1>0, <2>3, <4>1 DEF Loops
    <3> QED
      BY <2>1, <2>3, <3>1 DEF CalmInv, Idle, InTurn, At
  <2> QED
    BY <2>2, <2>3
<1>28. CASE Notice
  BY <1>26, <1>27, <1>28 DEF Notice
<1> QED
  BY <1>12, <1>17, <1>24, <1>25, <1>28

-----------------------------------------------------------------------------
(* The end row a loop still has to append, and the turn the manager still  *)
(* has to hand over.                                                       *)
Owed(l) == IF l.pc \in {"ending", "ended"} /\ Mirrored(l.last) THEN <<l.last>> ELSE <<>>
Pend == IF lock = "hand" THEN <<UserRow(arg)>> ELSE batch

(* Everything a loop has of the transcript, or will have.                  *)
Line(l, p) == (l.history \o Owed(l)) \o (l.messageQueue \o p)

(* Until the working directory changes or a nudge is lost.                 *)
HistInv ==
  Untouched("move") /\ Untouched("nudge") /\ loop # 0 /\ ~At(loop, "dead")
    => Context(Line(loops[loop], Pend)) = Context(rows)

(* What a context keeps of a row, of two pieces and of another context.    *)
LEMMA ContextParts ==
  /\ Context(<<>>) = <<>>
  /\ \A s, t \in Seq(Rows) : Context(s \o t) = Context(s) \o Context(t)
  /\ \A s \in Seq(Rows), x \in Rows : ~InContext(x) => Context(Append(s, x)) = Context(s)
  /\ \A s \in Seq(Rows) : Context(s) \in Seq(Rows) /\ Context(Context(s)) = Context(s)
<1>1. Context(<<>>) = <<>>
  BY FilterEmpty DEF Context
<1>2. ASSUME NEW s \in Seq(Rows), NEW t \in Seq(Rows)
      PROVE  Context(s \o t) = Context(s) \o Context(t)
  BY FilterConcat DEF Context
<1>3. ASSUME NEW s \in Seq(Rows), NEW x \in Rows
      PROVE  Context(Append(s, x)) = IF InContext(x) THEN Append(Context(s), x) ELSE Context(s)
  <2>1. x \in ContextRows <=> InContext(x)
    BY DEF ContextRows
  <2> QED
    BY <2>1, FilterAppend DEF Context
<1>4. ASSUME NEW s \in Seq(Rows) PROVE Context(s) \in Seq(Rows)
  BY FilterElems DEF Context
<1>5. ASSUME NEW s \in Seq(Rows) PROVE Context(Context(s)) = Context(s)
  <2> DEFINE P == {u \in Seq(Rows) : Context(Context(u)) = Context(u)}
  <2>1. <<>> \in P
    BY <1>1
  <2>2. ASSUME NEW u \in Seq(Rows), NEW x \in Rows, u \in P PROVE Append(u, x) \in P
    <3>1. Append(u, x) \in Seq(Rows) /\ Context(u) \in Seq(Rows)
      BY <1>4
    <3>2. CASE InContext(x)
      <4>1. Context(Append(u, x)) = Append(Context(u), x)
        BY <1>3, <3>2
      <4>2. Context(Append(Context(u), x)) = Append(Context(Context(u)), x)
        BY <1>3, <3>1, <3>2
      <4> QED
        BY <2>2, <3>1, <4>1, <4>2
    <3>3. CASE ~InContext(x)
      <4>1. Context(Append(u, x)) = Context(u)
        BY <1>3, <3>3
      <4> QED
        BY <2>2, <3>1, <4>1
    <3> QED
      BY <3>2, <3>3
  <2>3. Seq(Rows) \subseteq P
    <3> HIDE DEF P
    <3> QED
      BY <2>1, <2>2, SeqInductionOver
  <2> QED
    BY <2>3
<1> QED
  BY <1>1, <1>2, <1>3, <1>4, <1>5

(* The ways in which a line is cut: the queued turn is taken into the      *)
(* history, ...                                                            *)
LEMMA JoinTaken ==
  ASSUME NEW A, NEW a \in Seq(A), NEW c \in Seq(A), NEW d \in Seq(A)
  PROVE  ((a \o c) \o <<>>) \o (<<>> \o d) = (a \o <<>>) \o (c \o d)
<1>1. a \o c \in Seq(A) /\ (a \o c) \o d = a \o (c \o d)
  OBVIOUS
<1>2. (a \o c) \o <<>> = a \o c /\ <<>> \o d = d /\ a \o <<>> = a
  BY <1>1, ConcatEmptySeq
<1> QED
  BY <1>1, <1>2

(* ... the end row too, or a pending turn goes to the queue, ...           *)
LEMMA JoinMoved ==
  ASSUME NEW A, NEW a \in Seq(A), NEW b \in Seq(A), NEW c \in Seq(A), NEW d \in Seq(A)
  PROVE  /\ ((a \o b) \o <<>>) \o (c \o d) = (a \o b) \o (c \o d)
         /\ (a \o b) \o ((c \o d) \o <<>>) = (a \o b) \o (c \o d)
<1>1. a \o b \in Seq(A) /\ c \o d \in Seq(A)
  OBVIOUS
<1>2. (a \o b) \o <<>> = a \o b /\ (c \o d) \o <<>> = c \o d
  BY <1>1, ConcatEmptySeq
<1> QED
  BY <1>2

(* ... or recorded in the middle of a turn, when nothing else waits.       *)
LEMMA JoinAlone ==
  ASSUME NEW A, NEW a \in Seq(A), NEW e \in Seq(A)
  PROVE  /\ ((a \o e) \o <<>>) \o (<<>> \o <<>>) = ((a \o <<>>) \o (<<>> \o <<>>)) \o e
         /\ (a \o e) \o (<<>> \o <<>>) = ((a \o <<>>) \o (<<>> \o <<>>)) \o e
         /\ (a \o <<>>) \o (<<>> \o <<>>) = a
<1>1. a \o e \in Seq(A) /\ <<>> \in Seq(A)
  OBVIOUS
<1>2. (a \o e) \o <<>> = a \o e /\ a \o <<>> = a /\ <<>> \o <<>> = <<>>
  BY <1>1, ConcatEmptySeq
<1> QED
  BY <1>2

(* Appending a row and joining a piece of one row.                         *)
LEMMA AppendOne ==
  ASSUME NEW A, NEW s \in Seq(A), NEW x \in A
  PROVE  Append(s, x) = s \o <<x>> /\ <<x>> \in Seq(A)
<1>1. Append(s, x) = s \o <<x>>
  BY AppendIsConcat
<1>2. <<x>> \in Seq(A)
  OBVIOUS
<1> QED
  BY <1>1, <1>2

(* What the parts of a line are made of; a turn that runs has nothing left *)
(* to take.                                                                *)
LEMMA LineParts ==
  ASSUME IInv, DataOK, CalmInv, loop # 0
  PROVE  /\ loops[loop] \in Loops /\ Pend \in Seq(Rows)
         /\ loops[loop].history \in Seq(Rows) /\ loops[loop].messageQueue \in Seq(Rows)
         /\ Owed(loops[loop]) \in Seq(Rows) /\ Line(loops[loop], Pend) \in Seq(Rows)
         /\ InTurn(loops[loop]) => loops[loop].messageQueue = <<>> /\ Pend = <<>>
         /\ lock \notin {"hand", "drain"} => Pend = <<>>
<1>1. loop \in Gens /\ loops \in [Gens -> Loops]
  BY DEF IInv, ControlOK, DataOK
<1>2. /\ loops[loop] \in Loops /\ loops[loop].history \in Seq(Rows)
      /\ loops[loop].messageQueue \in Seq(Rows) /\ loops[loop].last \in Rows
  BY <1>1 DEF Loops
<1>3. Owed(loops[loop]) \in Seq(Rows)
  BY <1>2 DEF Owed
<1>4. Pend \in Seq(Rows)
  <2>1. CASE lock = "hand"
    <3>1. UserRow(arg) \in Rows
      BY <2>1, RowTypes DEF DataOK
    <3> QED
      BY <2>1, <3>1 DEF Pend
  <2>2. CASE lock # "hand"
    BY <2>2 DEF Pend, DataOK
  <2> QED
    BY <2>1, <2>2
<1>5. Line(loops[loop], Pend) \in Seq(Rows)
  <2> DEFINE a == loops[loop].history
             b == Owed(loops[loop])
             c == loops[loop].messageQueue
             d == Pend
  <2>1. a \in Seq(Rows) /\ b \in Seq(Rows) /\ c \in Seq(Rows) /\ d \in Seq(Rows)
    BY <1>2, <1>3, <1>4
  <2>2. (a \o b) \o (c \o d) \in Seq(Rows)
    <3> HIDE DEF a, b, c, d
    <3> QED
      BY <2>1
  <2> QED
    BY <2>2 DEF Line
<1>6. lock \notin {"hand", "drain"} => Pend = <<>>
  BY DEF Pend, CalmInv, IInv, LockInv
<1>7. InTurn(loops[loop]) => loops[loop].messageQueue = <<>> /\ Pend = <<>>
  <2>1. InTurn(loops[loop]) => drainer # "record" /\ lock # "hand" /\ Idle(loops[loop])
    BY DEF CalmInv
  <2> QED
    BY <2>1 DEF CalmInv, Pend, Idle
<1> QED
  BY <1>2, <1>3, <1>4, <1>5, <1>6, <1>7

(* A step that cuts the line differently, or lengthens it by what it       *)
(* records.                                                                *)
LEMMA HistSame ==
  ASSUME HistInv, Untouched("move")' => Untouched("move"),
         Untouched("nudge")' => Untouched("nudge"),
         loop' = loop, At(loop, "dead") => At(loop, "dead")', Context(rows)' = Context(rows),
         ~At(loop, "dead") => Line(loops'[loop], Pend') = Line(loops[loop], Pend)
  PROVE  HistInv'
  BY DEF HistInv

(* The same for a step that lengthens it by what it records.               *)
LEMMA HistMore ==
  ASSUME IInv, DataOK, CalmInv, HistInv, Untouched("move")' => Untouched("move"),
         Untouched("nudge")' => Untouched("nudge"),
         loop' = loop, loop # 0, At(loop, "dead") => At(loop, "dead")',
         NEW t \in Seq(Rows), rows' = rows \o t,
         Line(loops'[loop], Pend') = Line(loops[loop], Pend) \o t
  PROVE  HistInv'
<1> DEFINE whole == Line(loops[loop], Pend)
<1>1. whole \in Seq(Rows) /\ rows \in Seq(Rows)
  BY LineParts DEF DataOK
<1> HIDE DEF whole
<1>2. /\ Context(whole \o t) = Context(whole) \o Context(t)
      /\ Context(rows \o t) = Context(rows) \o Context(t)
  BY <1>1, ContextParts
<1> QED
  BY <1>2 DEF HistInv, whole

-----------------------------------------------------------------------------
(* Every step of a loop keeps history and transcript together, ...         *)
LEMMA HistRun ==
  ASSUME IInv, DataOK, BudgetInv, CalmInv, HistInv, NEW g \in Gens, Run(g) \/ Expire(g)
  PROVE  HistInv'
<1>0. /\ loops \in [Gens -> Loops] /\ loops[g] \in Loops /\ rows \in Seq(Rows)
  BY DEF DataOK
<1>b. /\ Untouched("move")' => Untouched("move")
      /\ Untouched("nudge")' => Untouched("nudge")
  BY BudgetStep DEF Events
<1>k. UNCHANGED <<lock, arg, batch>> /\ (loop' = loop \/ loop' = 0)
  BY RunLeaves
<1>n. SUFFICES ASSUME g = loop, loop # 0, loop' = loop PROVE HistInv'
  <2>1. CASE loop' = 0
    BY <2>1 DEF HistInv
  <2>2. CASE loop' = loop /\ loop' # 0
    BY <1>n, <2>2, RunnerInstalled
  <2> QED
    BY <1>k, <2>1, <2>2
<1> DEFINE l == loops[g]
           m == loops'[g]
<1>r. ~At(loop, "dead") /\ Pend' = Pend
  BY <1>k, <1>n, RunnerInstalled DEF Running, At, Pend
<1>s. ASSUME UNCHANGED rows, m.history = l.history, m.messageQueue = l.messageQueue,
             Owed(m) = Owed(l)
      PROVE  HistInv'
  BY <1>b, <1>n, <1>r, <1>s, HistSame DEF Line
<1>p. ASSUME NEW p \in PCs, loops' = [loops EXCEPT ![g].pc = p], UNCHANGED rows,
             l.pc \notin {"ending", "ended"}, p \notin {"ending", "ended"}
      PROVE  HistInv'
  <2>1. m.history = l.history /\ m.messageQueue = l.messageQueue /\ m.pc = p
    BY <1>0, <1>p DEF Loops
  <2> QED
    BY <1>p, <1>s, <2>1 DEF Owed
<1>d. ASSUME loops' = [loops EXCEPT ![g] = DeadLoop] PROVE HistInv'
  <2>1. m.pc = "dead"
    BY <1>0, <1>d DEF DeadLoop, NewLoop
  <2> QED
    BY <1>n, <2>1 DEF HistInv, At
\* Inside a turn, what is recorded goes to the history.
<1>h. ASSUME NEW t \in Seq(Rows), NEW p \in PCs, p \notin {"ending", "ended"}, InTurn(l),
             l.pc \notin {"ending", "ended"}, rows' = rows \o t,
             loops' = [loops EXCEPT ![g].history = l.history \o t, ![g].pc = p]
      PROVE  HistInv'
  <2>1. m.history = l.history \o t /\ m.messageQueue = l.messageQueue /\ m.pc = p
    BY <1>0, <1>h DEF Loops
  <2>2. /\ l.history \in Seq(Rows) /\ l.messageQueue = <<>> /\ Pend = <<>>
        /\ Owed(l) = <<>> /\ Owed(m) = <<>>
    BY <1>h, <1>n, <2>1, LineParts DEF Owed
  <2>3. ((l.history \o t) \o <<>>) \o (<<>> \o <<>>)
          = ((l.history \o <<>>) \o (<<>> \o <<>>)) \o t
    BY <2>2, JoinAlone
  <2>4. Line(m, Pend) = Line(l, Pend) \o t
    BY <2>1, <2>2, <2>3 DEF Line
  <2> QED
    BY <1>b, <1>h, <1>n, <1>r, <2>4, HistMore
\* The row that ends the turn is owed from here on.
<1>e. ASSUME NEW k \in Kinds, RecordEnd(g, k), InTurn(l), l.pc # "ending"
      PROVE  HistInv'
  <2>1. /\ m.history = l.history /\ m.messageQueue = l.messageQueue
        /\ m.pc = "ending" /\ m.last = Row(k)
    BY <1>0, <1>e DEF RecordEnd, Loops
  <2>2. rows' = Append(rows, Row(k)) /\ Row(k) \in Rows
    BY <1>e, RowTypes DEF RecordEnd
  <2>3. /\ l.history \in Seq(Rows) /\ l.messageQueue = <<>> /\ Pend = <<>> /\ Owed(l) = <<>>
    BY <1>e, <1>n, LineParts DEF Owed, InTurn
  <2>4. CASE Mirrored(Row(k))
    <3> DEFINE t == <<Row(k)>>
    <3>1. Owed(m) = t /\ t \in Seq(Rows)
      BY <2>1, <2>2, <2>4 DEF Owed
    <3>2. (l.history \o t) \o (<<>> \o <<>>) = ((l.history \o <<>>) \o (<<>> \o <<>>)) \o t
      <4> HIDE DEF t
      <4> QED
        BY <2>3, <3>1, JoinAlone
    <3>3. Line(m, Pend) = Line(l, Pend) \o t
      BY <2>1, <2>3, <3>1, <3>2 DEF Line
    <3>4. rows' = rows \o t
      BY <1>0, <2>2, AppendOne
    <3> HIDE DEF t
    <3> QED
      BY <1>b, <1>n, <1>r, <3>1, <3>3, <3>4, HistMore
  <2>5. CASE ~Mirrored(Row(k))
    <3>1. Owed(m) = <<>> /\ ~InContext(Row(k))
      BY <2>1, <2>5 DEF Owed, Mirrored
    <3>2. Context(rows') = Context(rows)
      BY <1>0, <2>2, <3>1, ContextParts
    <3>3. Line(m, Pend) = Line(l, Pend)
      BY <2>1, <2>3, <3>1 DEF Line
    <3> QED
      BY <1>b, <1>n, <1>r, <3>2, <3>3, HistSame
  <2> QED
    BY <2>4, <2>5
<1>a. ASSUME NEW k \in Kinds, NEW p \in PCs, p \notin {"ending", "ended"}, InTurn(l),
             l.pc \notin {"ending", "ended"}, rows' = Append(rows, Row(k)),
             loops' = [loops EXCEPT ![g].history = Append(l.history, Row(k)), ![g].pc = p]
      PROVE  HistInv'
  <2>1. Row(k) \in Rows /\ l.history \in Seq(Rows)
    BY <1>0, <1>a, RowTypes DEF Loops
  <2>2. /\ Append(l.history, Row(k)) = l.history \o <<Row(k)>>
        /\ Append(rows, Row(k)) = rows \o <<Row(k)>> /\ <<Row(k)>> \in Seq(Rows)
    BY <1>0, <2>1, AppendOne
  <2> QED
    BY <1>a, <1>h, <2>2
<1>c. {"top", "wait", "pending", "request", "tools", "marker", "fatal"} \subseteq PCs
  BY DEF PCs
<1> USE DEF OnlyLoop, ManagerUnchanged, Exit, Goto, dbVars
<1>1. CASE LoopStops(g) \/ RequestAborted(g) \/ RequestExpired(g)
  BY <1>1, <1>d DEF LoopStops, RequestAborted, RequestExpired
<1>2. CASE LoopTakes(g)
  <2>1. /\ m.history = l.history \o l.messageQueue /\ m.messageQueue = <<>>
        /\ m.pc = "start" /\ l.pc = "top" /\ UNCHANGED rows
    BY <1>0, <1>2 DEF LoopTakes, Loops, At
  <2>2. /\ l.history \in Seq(Rows) /\ l.messageQueue \in Seq(Rows) /\ Pend \in Seq(Rows)
        /\ Owed(l) = <<>> /\ Owed(m) = <<>>
    BY <1>n, <2>1, LineParts DEF Owed
  <2>3. ((l.history \o l.messageQueue) \o <<>>) \o (<<>> \o Pend)
          = (l.history \o <<>>) \o (l.messageQueue \o Pend)
    <3> DEFINE a == l.history
               c == l.messageQueue
               d == Pend
    <3>1. a \in Seq(Rows) /\ c \in Seq(Rows) /\ d \in Seq(Rows)
      BY <2>2
    <3> HIDE DEF a, c, d
    <3>2. ((a \o c) \o <<>>) \o (<<>> \o d) = (a \o <<>>) \o (c \o d)
      BY <3>1, JoinTaken
    <3> QED
      BY <3>2 DEF a, c, d
  <2>4. Line(m, Pend) = Line(l, Pend)
    BY <2>1, <2>2, <2>3 DEF Line
  <2> QED
    BY <1>b, <1>n, <1>r, <2>1, <2>4, HistSame
<1>3. CASE LoopRests(g) \/ EndUnrecorded(g) \/ PersistenceFails(g) \/ TakeNothing(g)
  <2>1. /\ l.pc \in {"top", "pending", "request", "tools", "marker"} /\ UNCHANGED rows
        /\ \E p \in {"wait", "top", "fatal", "request"} : loops' = [loops EXCEPT ![g].pc = p]
    BY <1>3 DEF LoopRests, EndUnrecorded, PersistenceFails, TakeNothing, At
  <2> QED
    BY <1>c, <1>p, <2>1
<1>4. CASE LoopWakes(g)
  <2>1. /\ m.history = l.history /\ m.messageQueue = l.messageQueue
        /\ m.pc = "top" /\ l.pc = "wait" /\ UNCHANGED rows
    BY <1>0, <1>4 DEF LoopWakes, Loops, At
  <2> QED
    BY <1>s, <2>1 DEF Owed
<1>5. CASE Expire(g)
  <2>1. loops' = [loops EXCEPT ![g].ctx = "expired"] /\ UNCHANGED rows
    BY <1>5 DEF Expire
  <2>2. /\ m.history = l.history /\ m.messageQueue = l.messageQueue
        /\ m.pc = l.pc /\ m.last = l.last
    BY <1>0, <2>1 DEF Loops
  <2> QED
    BY <1>s, <2>1, <2>2 DEF Owed
<1>6. CASE PendingFails(g)
  <2>1. ~Untouched("nudge")'
    BY <1>6, SpendBudget DEF PendingFails, BudgetInv, Events
  <2> QED
    BY <2>1 DEF HistInv
<1>7. CASE RecordToolUse(g)
  <2>1. /\ l.pc = "request" /\ rows' = Append(rows, Row("use"))
        /\ loops' = [loops EXCEPT ![g].history = Append(l.history, Row("use")),
                                  ![g].pc = "tools"]
    BY <1>7 DEF RecordToolUse, At
  <2>2. InTurn(l) /\ "use" \in Kinds
    BY <2>1 DEF InTurn, Kinds
  <2> QED
    BY <1>a, <1>c, <2>1, <2>2
<1>8. CASE RecordReply(g) \/ RecordMarker(g)
  BY <1>8, <1>e DEF RecordReply, RecordMarker, At, InTurn, Kinds, EndKinds
<1>9. CASE SyncIdle(g)
  <2>1. /\ m.history = l.history /\ m.messageQueue = l.messageQueue /\ m.last = l.last
        /\ m.pc = "ended" /\ l.pc = "ending" /\ UNCHANGED rows
    BY <1>0, <1>9 DEF SyncIdle, Loops, At
  <2> QED
    BY <1>s, <2>1 DEF Owed
<1>10. CASE MirrorEnd(g)
  <2>1. /\ m.history = IF Mirrored(l.last) THEN Append(l.history, l.last) ELSE l.history
        /\ m.messageQueue = l.messageQueue
        /\ m.pc = "top" /\ l.pc = "ended" /\ UNCHANGED rows
    BY <1>0, <1>10 DEF MirrorEnd, Loops, At
  <2>2. /\ l.history \in Seq(Rows) /\ l.messageQueue \in Seq(Rows) /\ Pend \in Seq(Rows)
        /\ l.last \in Rows /\ Owed(l) \in Seq(Rows)
    BY <1>0, <1>n, LineParts DEF Loops
  <2>3. Append(l.history, l.last) = l.history \o <<l.last>> /\ l.history \o <<>> = l.history
    <3>1. Append(l.history, l.last) = l.history \o <<l.last>>
      BY <2>2, AppendOne
    <3>2. l.history \o <<>> = l.history
      BY <2>2, ConcatEmptySeq
    <3> QED
      BY <3>1, <3>2
  <2>4. m.history = l.history \o Owed(l) /\ Owed(m) = <<>>
    BY <2>1, <2>3 DEF Owed
  <2>5. ((l.history \o Owed(l)) \o <<>>) \o (l.messageQueue \o Pend)
          = (l.history \o Owed(l)) \o (l.messageQueue \o Pend)
    <3> DEFINE a == l.history
               b == Owed(l)
               c == l.messageQueue
               d == Pend
    <3>1. a \in Seq(Rows) /\ b \in Seq(Rows) /\ c \in Seq(Rows) /\ d \in Seq(Rows)
      BY <2>2
    <3> HIDE DEF a, b, c, d
    <3>2. ((a \o b) \o <<>>) \o (c \o d) = (a \o b) \o (c \o d)
      BY <3>1, JoinMoved
    <3> QED
      BY <3>2 DEF a, b, c, d
  <2>6. Line(m, Pend) = Line(l, Pend)
    BY <2>1, <2>4, <2>5 DEF Line
  <2> QED
    BY <1>b, <1>n, <1>r, <2>1, <2>6, HistSame
<1>11. ASSUME NEW lost \in BOOLEAN, OnTurnStart(g, lost) PROVE HistInv'
  <2>1. l.pc = "start" /\ UNCHANGED rows /\ loops' = [loops EXCEPT ![g].pc = "pending"]
    BY <1>11 DEF OnTurnStart, At
  <2> QED
    BY <1>c, <1>p, <2>1
<1>12. ASSUME NEW lost \in BOOLEAN, HandleFatalLoopExit(g, lost) PROVE HistInv'
  BY <1>12, <1>d DEF HandleFatalLoopExit
<1>13. ASSUME NEW failed \in Msgs \cup {None}, TakeInjectable(g, failed) PROVE HistInv'
  <2>1. Injected(failed) \in Seq(Rows)
    BY InjectedTypes
  <2>2. /\ rows' = rows \o Injected(failed) /\ l.pc = "pending"
        /\ loops' = [loops EXCEPT ![g].history = l.history \o Injected(failed),
                                  ![g].pc = "request"]
    BY <1>13 DEF TakeInjectable, RecordInjected, At
  <2>3. InTurn(l)
    BY <2>2 DEF InTurn
  <2> DEFINE t == Injected(failed)
  <2> HIDE DEF t
  <2>4. /\ t \in Seq(Rows) /\ rows' = rows \o t
        /\ loops' = [loops EXCEPT ![g].history = l.history \o t, ![g].pc = "request"]
    BY <2>1, <2>2 DEF t
  <2> QED
    BY <1>c, <1>h, <2>2, <2>3, <2>4
<1>14. ASSUME NEW kind \in {"error", "refusal", "truncated"}, FailTurn(g, kind) PROVE HistInv'
  BY <1>14, <1>e, FailTurnEnds DEF At, InTurn, Kinds, EndKinds
<1>15. ASSUME NEW endsTurn \in BOOLEAN, RecordToolResults(g, endsTurn) PROVE HistInv'
  <2>1. l.pc = "tools" /\ rows' = Append(rows, Row("result"))
    BY <1>15 DEF RecordToolResults, At
  <2>2. CASE Live(g)
    <3>1. PICK p \in {"marker", "pending"} :
            loops' = [loops EXCEPT ![g].history = Append(l.history, Row("result")), ![g].pc = p]
      BY <1>15, <2>2 DEF RecordToolResults
    <3> QED
      BY <1>a, <1>c, <2>1, <3>1 DEF InTurn, Kinds
  <2>3. CASE ~Live(g)
    BY <1>15, <1>d, <2>3 DEF RecordToolResults
  <2> QED
    BY <2>2, <2>3
<1> QED
  BY <1>1, <1>2, <1>3, <1>4, <1>5, <1>6, <1>7, <1>8, <1>9, <1>10, <1>11, <1>12, <1>13,
     <1>14, <1>15 DEF Run

-----------------------------------------------------------------------------
(* ... and so does every step of the manager.                              *)
LEMMA HistManager ==
  ASSUME IInv, DataOK, BudgetInv, BuiltInv, CalmInv, HistInv,
         Requests \/ Holder \/ Drain \/ Teardown \/ Notice
  PROVE  HistInv'
<1>0. /\ loops \in [Gens -> Loops] /\ loop \in Gens \cup {0} /\ rows \in Seq(Rows)
      /\ queue \in Seq(Items) /\ gen \in 0..MaxGen /\ MaxGen \in Nat
  BY MaxGenAssumption DEF DataOK, IInv, ControlOK
<1>b. /\ Untouched("move")' => Untouched("move")
      /\ Untouched("nudge")' => Untouched("nudge")
  BY BudgetStep DEF Events
<1>i. lock = "drain" <=> drainer \in {"look", "install", "record"}
  BY DEF IInv, LockInv
<1>z. ASSUME loop' = 0 PROVE HistInv'
  BY <1>z DEF HistInv
\* The installed loop stays as it is, or is detached.
<1>s. ASSUME UNCHANGED <<rows, loops, batch>>, loop' = loop \/ loop' = 0,
             lock # "hand", lock' # "hand"
      PROVE  HistInv'
  <2>1. Pend' = Pend
    BY <1>s DEF Pend
  <2> QED
    BY <1>b, <1>s, <1>z, <2>1, HistSame DEF At
\* A new loop has the context rows, and a context of these is the same.
<1>e. ASSUME InstallLoop, Building, UNCHANGED rows, lock' # "hand", batch' = <<>>
      PROVE  HistInv'
  <2> DEFINE h == Context(rows)
             l == loops[gen + 1]
             m == loops'[loop']
  <2>1. gen < MaxGen /\ loop' = gen + 1 /\ gen + 1 \in Gens /\ At(gen + 1, "loaded")
    BY <1>0, <1>e DEF InstallLoop, IInv, LockInv, InstallInv, Gens
  <2>2. m = [l EXCEPT !.pc = "top"]
    BY <1>0, <1>e, <2>1, BuildTypes
  <2>3. /\ m.pc = "top" /\ m.messageQueue = <<>>
        /\ Untouched("move") => m.history = h
    BY <1>0, <2>1, <2>2 DEF Loops, Idle, BuiltInv
  <2>4. h \in Seq(Rows) /\ Context(h) = h /\ Pend' = <<>>
    BY <1>0, <1>e, ContextParts DEF Pend
  <2> HIDE DEF h, m
  <2>5. Untouched("move") => Line(m, <<>>) = (h \o <<>>) \o (<<>> \o <<>>)
    BY <2>3 DEF Line, Owed
  <2>6. (h \o <<>>) \o (<<>> \o <<>>) = h
    BY <2>4, JoinAlone
  <2>7. Untouched("move") => Context(Line(m, Pend')) = h
    BY <2>4, <2>5, <2>6
  <2> QED
    BY <1>b, <1>e, <2>7 DEF HistInv, h, m
\* What was pending goes to the loop's queue.
<1>h. ASSUME Hand(Pend), loop # 0, loop' = loop, UNCHANGED rows, Pend' = <<>>
      PROVE  HistInv'
  <2> DEFINE l == loops[loop]
             m == loops'[loop]
  <2>1. /\ m.pc = l.pc /\ m.history = l.history /\ m.last = l.last
        /\ m.messageQueue = IF Pend = <<>> THEN l.messageQueue ELSE l.messageQueue \o Pend
    BY <1>0, <1>h DEF Hand, Loops
  <2>2. Owed(m) = Owed(l)
    BY <2>1 DEF Owed
  <2> DEFINE a == l.history
             b == Owed(l)
             c == l.messageQueue
             d == Pend
  <2>3. a \in Seq(Rows) /\ b \in Seq(Rows) /\ c \in Seq(Rows) /\ d \in Seq(Rows)
    BY <1>h, LineParts
  <2>4. Line(l, Pend) = (a \o b) \o (c \o d)
    BY DEF Line
  <2>5. CASE Pend = <<>>
    <3>1. Line(m, <<>>) = (a \o b) \o (c \o d)
      BY <2>1, <2>2, <2>5 DEF Line
    <3> HIDE DEF a, b, c, d
    <3> QED
      BY <1>b, <1>h, <2>1, <2>4, <3>1, HistSame DEF At
  <2>6. CASE Pend # <<>>
    <3>1. Line(m, <<>>) = (a \o b) \o ((c \o d) \o <<>>)
      BY <2>1, <2>2, <2>6 DEF Line
    <3> HIDE DEF a, b, c, d
    <3>2. (a \o b) \o ((c \o d) \o <<>>) = (a \o b) \o (c \o d)
      BY <2>3, JoinMoved
    <3>3. Line(m, <<>>) = Line(l, Pend)
      BY <2>4, <3>1, <3>2
    <3> QED
      BY <1>b, <1>h, <2>1, <3>3, HistSame DEF At
  <2> QED
    BY <2>5, <2>6
\* What is recorded is pending from then on.
<1>a. ASSUME NEW x \in Rows, rows' = Append(rows, x), loop # 0,
             UNCHANGED <<loop, loops>>, Pend' = Append(Pend, x)
      PROVE  HistInv'
  <2> DEFINE t == <<x>>
             a == loops[loop].history
             b == Owed(loops[loop])
             c == loops[loop].messageQueue
             d == Pend
  <2>1. a \in Seq(Rows) /\ b \in Seq(Rows) /\ c \in Seq(Rows) /\ d \in Seq(Rows)
    BY <1>a, LineParts
  <2>2. rows' = rows \o t /\ Pend' = d \o t /\ t \in Seq(Rows)
    <3>1. rows' = rows \o t /\ t \in Seq(Rows)
      BY <1>0, <1>a, AppendOne
    <3>2. Append(d, x) = d \o t
      <4> HIDE DEF d
      <4> QED
        BY <1>a, <2>1, AppendOne
    <3> QED
      BY <1>a, <3>1, <3>2
  <2>3. /\ Line(loops[loop], Pend) = (a \o b) \o (c \o d)
        /\ Line(loops'[loop], Pend') = (a \o b) \o (c \o (d \o t))
    <3>1. loops'[loop] = loops[loop]
      BY <1>a
    <3>2. \A p : Line(loops[loop], p) = (a \o b) \o (c \o p)
      BY DEF Line
    <3>3. Line(loops[loop], d) = (a \o b) \o (c \o d)
      BY <3>2
    <3>4. Line(loops[loop], d \o t) = (a \o b) \o (c \o (d \o t))
      BY <3>2
    <3> QED
      BY <2>2, <3>1, <3>3, <3>4, Zenon
  <2> HIDE DEF a, b, c, d, t
  <2>4. (a \o b) \o (c \o (d \o t)) = ((a \o b) \o (c \o d)) \o t
    <3>1. t \in Seq(Rows)
      BY <2>2
    <3> DEFINE ab == a \o b
               cd == c \o d
    <3>2. ab \in Seq(Rows) /\ cd \in Seq(Rows)
      BY <2>1
    <3>3. (c \o d) \o t = c \o (d \o t)
      BY <2>1, <3>1
    <3> HIDE DEF ab, cd
    <3>4. (ab \o cd) \o t = ab \o (cd \o t)
      BY <3>1, <3>2
    <3> QED
      BY <3>3, <3>4 DEF ab, cd
  <2>5. Line(loops'[loop], Pend') = Line(loops[loop], Pend) \o t
    BY <2>3, <2>4
  <2> QED
    BY <1>a, <1>b, <2>2, <2>5, HistMore DEF At
<1>w. drainer # "record" => batch = <<>>
  BY DEF CalmInv
<1> USE DEF dbVars, lockVars, drainVars, installVars
<1>1. ASSUME NEW m \in Msgs, AcceptQueues(m) PROVE HistInv'
  BY <1>1, <1>s DEF AcceptQueues, Entered
<1>2. ASSUME NEW m \in Msgs, AcceptStarts(m) PROVE HistInv'
  <2>1. /\ lock = "free" /\ lock' \in {"record", "install"} /\ UNCHANGED <<rows, loop, batch>>
        /\ loop = 0 \/ UNCHANGED loops
    BY <1>2 DEF AcceptStarts, Entered, LoadHistory
  <2> QED
    BY <1>s, <1>z, <2>1
<1>3. ASSUME NEW m \in Msgs, CancelQueuedMessage(m) PROVE HistInv'
  BY <1>3, <1>s DEF CancelQueuedMessage, Entered
<1>4. ASSUME NEW m \in Msgs, NEW inject \in BOOLEAN, QueueMessage(m, inject) PROVE HistInv'
  BY <1>4, <1>s DEF QueueMessage, Entered
<1>5. ASSUME NEW lost \in BOOLEAN, RetryLastLLMRequest(lost) PROVE HistInv'
  <2>1. /\ loop \in Gens /\ loop' = loop /\ UNCHANGED <<rows, lock, arg, batch>>
    BY <1>0, <1>5 DEF RetryLastLLMRequest
  <2>2. /\ loops'[loop].pc = loops[loop].pc /\ loops'[loop].history = loops[loop].history
        /\ loops'[loop].last = loops[loop].last
        /\ loops'[loop].messageQueue = loops[loop].messageQueue
    BY <1>0, <1>5, <2>1 DEF RetryLastLLMRequest, Loops
  <2>3. Line(loops'[loop], Pend') = Line(loops[loop], Pend)
    BY <2>1, <2>2 DEF Line, Owed, Pend
  <2> QED
    BY <1>b, <2>1, <2>2, <2>3, HistSame DEF At
<1>6. CASE CancelQueuedMessages \/ CancelIdleFails
  BY <1>6, <1>s DEF CancelQueuedMessages, CancelIdleFails, Entered
<1>7. CASE CancelConversation \/ SendQueuedNow \/ ResetLoop
  <2>1. /\ lock = "free" /\ UNCHANGED <<rows, lock, batch, loops>>
        /\ loop' = loop \/ loop' = 0
    BY <1>7 DEF CancelConversation, SendQueuedNow, ResetLoop, Entered, Detach
  <2> QED
    BY <1>s, <2>1
<1>8. CASE SetCwd
  <2>1. ~Untouched("move")'
    BY <1>8, SpendBudget DEF SetCwd, BudgetInv, Events
  <2> QED
    BY <2>1 DEF HistInv
<1>9. CASE Requests
  BY <1>1, <1>2, <1>3, <1>4, <1>5, <1>6, <1>7, <1>8, <1>9 DEF Requests
<1>10. CASE RecordTurnStart
  <2>1. /\ lock = "record" /\ rows' = Append(rows, UserRow(arg)) /\ lock' = "hand"
        /\ UNCHANGED <<loop, loops, arg, drainer, batch>>
    BY <1>10 DEF RecordTurnStart
  <2>2. loop # 0 /\ UserRow(arg) \in Rows /\ batch = <<>>
    BY <1>i, <1>w, <2>1, RowTypes DEF IInv, LockInv, DataOK
  <2>3. Pend = <<>> /\ Pend' = <<UserRow(arg)>>
    BY <2>1, <2>2 DEF Pend
  <2>4. Pend' = Append(Pend, UserRow(arg))
    BY <2>3
  <2> QED
    BY <1>a, <2>1, <2>2, <2>4
<1>11. ASSUME NEW lost \in BOOLEAN, RejectTurnStart(lost) PROVE HistInv'
  <2>1. /\ lock = "record" /\ lock' = "free" /\ UNCHANGED <<rows, batch, loops>>
        /\ loop' = loop \/ loop' = 0
    BY <1>11 DEF RejectTurnStart, Detach
  <2> QED
    BY <1>s, <2>1
<1>12. CASE QueueTurn
  <2>1. /\ lock = "hand" /\ Hand(<<UserRow(arg)>>) /\ loop' = loop /\ lock' = "free"
        /\ UNCHANGED <<rows, drainer, batch>>
    BY <1>12 DEF QueueTurn
  <2>2. loop # 0 /\ Pend = <<UserRow(arg)>> /\ Pend' = <<>>
    BY <1>i, <1>w, <2>1 DEF IInv, LockInv, Pend
  <2> QED
    BY <1>h, <2>1, <2>2
<1>13. CASE DrainQueueIfIdle
  BY <1>13, <1>s DEF DrainQueueIfIdle
<1>23. CASE AcceptInstalls
  <2>1. /\ InstallLoop /\ lock = "install" /\ lock' = "record"
        /\ UNCHANGED <<rows, drainer, batch>>
    BY <1>23 DEF AcceptInstalls
  <2>2. batch' = <<>>
    BY <1>i, <1>w, <2>1
  <2> QED
    BY <1>e, <2>1, <2>2 DEF Building
<1>14. CASE Holder
  BY <1>10, <1>11, <1>12, <1>13, <1>14, <1>23 DEF Holder
<1>15. CASE BeginPendingDrain \/ FinishPendingDrainPass
  <2>1. UNCHANGED <<rows, loops, loop, lock, arg, batch>>
    BY <1>15 DEF BeginPendingDrain, FinishPendingDrainPass
  <2> QED
    BY <1>b, <2>1, HistSame DEF Pend, At
<1>16. CASE DrainEnter \/ DrainLeave
  <2>1. /\ UNCHANGED <<rows, loops, loop, batch>> /\ lock' # "hand"
        /\ lock = "free" \/ drainer = "look"
    BY <1>16 DEF DrainEnter, DrainLeave, Entered
  <2> QED
    BY <1>i, <1>s, <2>1
<1>17. CASE DrainStart
  <2>1. /\ drainer = "look" /\ batch' = <<>> /\ UNCHANGED <<rows, lock, loop>>
        /\ loop = 0 \/ UNCHANGED loops
    BY <1>17 DEF DrainStart, LoadHistory
  <2>2. lock = "drain" /\ batch = <<>>
    BY <1>i, <1>w, <2>1
  <2> QED
    BY <1>s, <1>z, <2>1, <2>2
<1>24. CASE DrainInstalls
  <2>1. /\ InstallLoop /\ drainer = "install" /\ UNCHANGED <<rows, lock, batch>>
    BY <1>24 DEF DrainInstalls
  <2>2. batch' = <<>> /\ lock' = "drain"
    BY <1>i, <1>w, <2>1
  <2> QED
    BY <1>e, <2>1, <2>2 DEF Building
<1>18. CASE DrainRecord
  <2> DEFINE x == UserRow(Head(queue).msg)
  <2>1. Head(queue) \in Items
    BY <1>0, <1>18, HeadTailProperties DEF DrainRecord
  <2>2. x \in Rows
    BY <2>1, RowTypes DEF Items
  <2>3. /\ drainer = "record" /\ rows' = Append(rows, x) /\ batch' = Append(batch, x)
        /\ UNCHANGED <<loop, loops, lock>>
    BY <1>18 DEF DrainRecord
  <2> HIDE DEF x
  <2>4. loop # 0 /\ Pend = batch /\ Pend' = batch'
    BY <1>i, <2>3 DEF IInv, LockInv, Pend
  <2> QED
    BY <1>a, <2>2, <2>3, <2>4
<1>19. CASE DrainRecordFails \/ DrainHand
  <2>1. /\ drainer = "record" /\ Hand(batch) /\ loop' = loop /\ lock' \in {"free", lock}
        /\ batch' = <<>> /\ UNCHANGED rows
    BY <1>19 DEF DrainRecordFails, DrainHand
  <2>2. loop # 0 /\ Pend = batch /\ Pend' = <<>>
    BY <1>i, <2>1 DEF IInv, LockInv, Pend
  <2> QED
    BY <1>h, <2>1, <2>2
<1>20. CASE Drain
  BY <1>15, <1>16, <1>17, <1>18, <1>19, <1>20, <1>24 DEF Drain
<1>21. CASE Teardown
  <2>1. tear # "none" /\ UNCHANGED loop
    BY <1>21 DEF Teardown, TeardownClears, TeardownStops, TeardownCloses, TeardownRecords,
       TeardownRecordFails, Joined
  <2>2. loop' = 0
    BY <2>1 DEF IInv, InstallInv, OneLoop
  <2> QED
    BY <1>z, <2>2
<1>22. CASE Notice
  <2>1. ~Untouched("move")
    BY <1>22 DEF Notice, RecordCwdChangeNotice, NoticeFails, AppendHistory, BudgetInv
  <2> QED
    BY <1>b, <2>1 DEF HistInv
<1> QED
  BY <1>9, <1>14, <1>20, <1>21, <1>22

(* The line of an unlocked manager is what HistoryMatches looks at.        *)
LEMMA HistImplies ==
  ASSUME IInv, DataOK, CalmInv, HistInv, Untouched("move"), Untouched("nudge")
  PROVE  HistoryMatches
<1>1. SUFFICES ASSUME lock = "free", loop # 0, loops[loop].pc # "dead"
               PROVE  Context((loops[loop].history \o Owed(loops[loop]))
                                \o loops[loop].messageQueue) = Context(rows)
  BY DEF HistoryMatches, Owed
<1> DEFINE a == loops[loop].history
           b == Owed(loops[loop])
           c == loops[loop].messageQueue
<1>2. a \in Seq(Rows) /\ b \in Seq(Rows) /\ c \in Seq(Rows) /\ Pend = <<>>
  BY <1>1, LineParts
<1>3. Line(loops[loop], Pend) = (a \o b) \o (c \o <<>>)
  BY <1>2 DEF Line
<1>4. c \o <<>> = c
  <2> HIDE DEF a, b, c
  <2> QED
    BY <1>2, ConcatEmptySeq
<1> QED
  BY <1>1, <1>3, <1>4 DEF HistInv, At

-----------------------------------------------------------------------------
(* The control state IInv does not need.                                   *)
RestOK ==
  /\ lastRetried \in Nat /\ wakes \in Nat
  /\ lock \in {"free", "install", "record", "hand", "poke", "drain"} /\ fresh \in BOOLEAN
  /\ tear \in {"none", "clear", "stop", "wait"}
  /\ why \in {"none", "cancel", "send", "reset", "discard"}
  /\ victim \in Gens \cup {0} /\ boundary \in 0..MaxGen
  /\ drainer \in {"idle", "lock", "look", "install", "record", "finish"}
  /\ drainRequested \in BOOLEAN
  /\ mover \in {"idle", "record", "append"}

(* The handlers, the drain, the teardown and SetCwd keep it, ...           *)
LEMMA RestManager ==
  ASSUME IInv, DataOK, RestOK, Requests \/ Holder \/ Drain \/ Teardown \/ Notice
  PROVE  RestOK'
<1>0. /\ loop \in Gens \cup {0} /\ gen \in 0..MaxGen /\ MaxGen \in Nat /\ Len(rows) \in Nat
  BY MaxGenAssumption DEF IInv, ControlOK, DataOK
<1>d. ASSUME NEW p \in {"cancel", "send", "reset", "discard"}, NEW q \in {"clear", "stop"},
             Detach(p, q)
      PROVE  /\ victim' \in Gens \cup {0} /\ boundary' \in 0..MaxGen
             /\ tear' \in {"none", "clear", "stop", "wait"}
             /\ why' \in {"none", "cancel", "send", "reset", "discard"}
  BY <1>0, <1>d DEF Detach
<1> USE DEF dbVars, installVars, lockVars, tearVars, drainVars
<1>1. CASE Requests
  <2>1. ASSUME NEW m \in Msgs, AcceptQueues(m) PROVE RestOK'
    BY <2>1 DEF AcceptQueues, RestOK
  <2>2. ASSUME NEW m \in Msgs, AcceptStarts(m) PROVE RestOK'
    <3>1. (loop = 0) \in BOOLEAN
      OBVIOUS
    <3>2. fresh' \in BOOLEAN
      BY <2>2, <3>1, Zenon DEF AcceptStarts
    <3> QED
      BY <2>2, <3>2 DEF AcceptStarts, RestOK
  <2>3. ASSUME NEW m \in Msgs, CancelQueuedMessage(m) PROVE RestOK'
    BY <2>3 DEF CancelQueuedMessage, RestOK
  <2>4. ASSUME NEW m \in Msgs, NEW inject \in BOOLEAN, QueueMessage(m, inject) PROVE RestOK'
    BY <2>4 DEF QueueMessage, RestOK
  <2>5. ASSUME NEW lost \in BOOLEAN, RetryLastLLMRequest(lost) PROVE RestOK'
    BY <1>0, <2>5 DEF RetryLastLLMRequest, RestOK
  <2>6. CASE CancelQueuedMessages \/ CancelIdleFails
    BY <2>6 DEF CancelQueuedMessages, CancelIdleFails, RestOK
  <2>7. CASE CancelConversation
    <3>1. Detach("cancel", "clear") \/ UNCHANGED tearVars
      BY <2>7 DEF CancelConversation
    <3>2. UNCHANGED <<lastRetried, lockVars, wakes, drainVars, mover>>
      BY <2>7 DEF CancelConversation
    <3> QED
      BY <1>d, <3>1, <3>2 DEF RestOK
  <2>8. CASE SendQueuedNow
    <3>1. Detach("send", "stop") \/ UNCHANGED tearVars
      BY <2>8 DEF SendQueuedNow
    <3>2. UNCHANGED <<lastRetried, lockVars, drainVars, mover>> /\ wakes' \in {wakes, wakes + 1}
      BY <2>8 DEF SendQueuedNow
    <3> QED
      BY <1>d, <3>1, <3>2 DEF RestOK
  <2>9. CASE ResetLoop
    BY <1>d, <2>9 DEF ResetLoop, RestOK
  <2>10. CASE SetCwd
    BY <2>10 DEF SetCwd, RestOK
  <2> QED
    BY <1>1, <2>1, <2>2, <2>3, <2>4, <2>5, <2>6, <2>7, <2>8, <2>9, <2>10 DEF Requests
<1>2. CASE Holder
  <2>1. CASE AcceptInstalls \/ RecordTurnStart \/ QueueTurn \/ DrainQueueIfIdle
    BY <2>1 DEF AcceptInstalls, RecordTurnStart, QueueTurn, DrainQueueIfIdle, RestOK
  <2>2. ASSUME NEW lost \in BOOLEAN, RejectTurnStart(lost) PROVE RestOK'
    <3>1. Detach("discard", "stop") \/ UNCHANGED tearVars
      BY <2>2 DEF RejectTurnStart
    <3>2. /\ UNCHANGED <<lastRetried, fresh, drainVars, mover>> /\ wakes' = wakes + 1
          /\ lock' = "free"
      BY <2>2 DEF RejectTurnStart
    <3> QED
      BY <1>d, <3>1, <3>2 DEF RestOK
  <2> QED
    BY <1>2, <2>1, <2>2 DEF Holder
<1>3. CASE Drain
  <2>1. CASE BeginPendingDrain
    <3>1. UNCHANGED <<lastRetried, lockVars, tearVars, mover>> /\ wakes' = wakes - 1 /\ wakes > 0
      BY <2>1 DEF BeginPendingDrain
    <3>2. drainer' \in {"lock", drainer} /\ drainRequested' \in {TRUE, drainRequested}
      BY <2>1 DEF BeginPendingDrain
    <3>3. drainRequested' \in BOOLEAN
      BY <3>2, Zenon DEF RestOK
    <3> QED
      BY <3>1, <3>2, <3>3 DEF RestOK
  <2>2. CASE DrainEnter \/ DrainLeave \/ DrainStart \/ DrainInstalls
    BY <2>2 DEF DrainEnter, DrainLeave, DrainStart, DrainInstalls, RestOK
  <2>3. CASE DrainRecord \/ DrainRecordFails \/ DrainHand \/ FinishPendingDrainPass
    BY <2>3 DEF DrainRecord, DrainRecordFails, DrainHand, FinishPendingDrainPass, RestOK
  <2> QED
    BY <1>3, <2>1, <2>2, <2>3 DEF Drain
<1>4. CASE Teardown
  BY <1>4 DEF Teardown, TeardownClears, TeardownStops, TeardownCloses, TeardownRecords,
     TeardownRecordFails, CloseBoundary, RestOK
<1>5. CASE Notice
  BY <1>5 DEF Notice, RecordCwdChangeNotice, NoticeFails, AppendHistory, RestOK
<1> QED
  BY <1>1, <1>2, <1>3, <1>4, <1>5

(* ... and a loop changes at most the number of wake-ups.                  *)
LEMMA RestRun ==
  ASSUME RestOK, NEW g, Run(g) \/ Expire(g)
  PROVE  RestOK'
<1>1. UNCHANGED <<lastRetried, lockVars, tearVars, drainVars, mover>>
  BY FailTurnEnds DEF Run, Expire, OnlyLoop, ManagerUnchanged, LoopStops,
     LoopTakes, LoopRests, LoopWakes, TakeNothing, RequestAborted, RequestExpired,
     RecordReply, RecordMarker, RecordEnd, SyncIdle, MirrorEnd, PendingFails,
     RecordToolUse, PersistenceFails, EndUnrecorded, OnTurnStart, HandleFatalLoopExit,
     TakeInjectable, RecordToolResults
<1>2. wakes' = wakes \/ wakes' = wakes + 1
  BY FailTurnEnds DEF Run, Expire, OnlyLoop, ManagerUnchanged, LoopStops,
     LoopTakes, LoopRests, LoopWakes, TakeNothing, RequestAborted, RequestExpired,
     RecordReply, RecordMarker, RecordEnd, SyncIdle, MirrorEnd, PendingFails,
     RecordToolUse, PersistenceFails, EndUnrecorded, OnTurnStart, HandleFatalLoopExit,
     TakeInjectable, RecordToolResults
<1> QED
  BY <1>1, <1>2 DEF RestOK, lockVars, tearVars, drainVars

-----------------------------------------------------------------------------
(* What is known of the messages themselves, next to IInv.                 *)
MsgInv == DataOK /\ RestOK /\ OnceInv /\ NoticeInv /\ BudgetInv /\ PairInv /\ BuiltInv
          /\ CalmInv /\ HistInv

(* A conversation that was just created has no messages and no loop.       *)
LEMMA InitMsgs == Init => MsgInv
<1> SUFFICES ASSUME Init PROVE MsgInv
  OBVIOUS
<1>1. /\ rows = <<>> /\ queue = <<>> /\ batch = <<>> /\ arg = None /\ sent = {}
      /\ lock = "free" /\ drainer = "idle" /\ mover = "idle" /\ loop = 0 /\ left = Limits
      /\ loops = [g \in Gens |-> NoLoop]
  BY DEF Init
<1>2. DataOK
  <2>1. loops \in [Gens -> Loops]
    BY <1>1, LoopTypes
  <2> QED
    BY <1>1, <2>1 DEF DataOK
<1>7. RestOK
  <2>1. 0 \in 0..MaxGen /\ 0 \in Nat
    BY MaxGenAssumption
  <2>2. fresh = FALSE /\ drainRequested = FALSE
    BY DEF Init
  <2> QED
    BY <2>1, <2>2 DEF Init, RestOK
<1>3. OnceInv
  <2>1. Elems(<<>>) = {} /\ Apart(<<>>) /\ Unrepeated(<<>>)
    BY ElemsEmpty DEF Unrepeated
  <2>2. NoLoop.messageQueue = <<>>
    BY DEF NoLoop, NewLoop
  <2>3. \A g \in Gens : loops[g].messageQueue = <<>>
    BY <1>1, <2>2
  <2>4. Once(rows, queue, sent)
    BY <1>1, <2>1 DEF Once
  <2>5. ArgInv /\ HandedInv
    BY <1>1, <2>1, <2>3 DEF ArgInv, HandedInv
  <2> QED
    BY <2>4, <2>5 DEF OnceInv
<1>4. BudgetInv
  <2>1. \A e \in Events : Limits[e] \in Nat
    BY LimitsAssumption
  <2> QED
    BY <1>1, <2>1, LimitsAssumption DEF BudgetInv
<1>5. PairInv
  BY <1>1 DEF PairInv, Paired, OpenUse
<1>6. CalmInv /\ HistInv
  BY <1>1 DEF CalmInv, HistInv
<1>8. \A g \in Gens : At(g, "none")
  BY <1>1 DEF At, NoLoop, NewLoop
<1>9. BuiltInv /\ NoticeInv
  BY <1>8 DEF BuiltInv, NoticeInv, At, Running
<1> QED
  BY <1>2, <1>3, <1>4, <1>5, <1>6, <1>7, <1>9 DEF MsgInv

(* Every step keeps it.                                                    *)
LEMMA StepMsgs == IInv /\ MsgInv /\ [Next]_vars => MsgInv'
<1> SUFFICES ASSUME IInv, MsgInv, [Next]_vars PROVE MsgInv'
  OBVIOUS
<1>0. DataOK /\ RestOK /\ OnceInv /\ NoticeInv /\ BudgetInv /\ PairInv /\ BuiltInv /\ CalmInv
      /\ HistInv
  BY DEF MsgInv
<1>1. CASE UNCHANGED vars
  <2>1. /\ UNCHANGED <<rows, queue, batch, arg, sent, lock, drainer, mover, loop, left, loops>>
        /\ UNCHANGED agentWorking
    BY <1>1 DEF vars, dbVars, installVars, lockVars, drainVars
  <2>2. DataOK' /\ OnceInv'
    BY <1>0, <2>1 DEF DataOK, OnceInv, ArgInv, HandedInv
  <2>5. RestOK'
    BY <1>0, <1>1 DEF RestOK, vars, lockVars, tearVars, drainVars
  <2>3. BudgetInv' /\ PairInv'
    BY <1>0, <2>1 DEF BudgetInv, Untouched, PairInv, At
  <2>4. CalmInv' /\ HistInv'
    BY <1>0, <2>1 DEF CalmInv, HistInv, Untouched, At, Pend
  <2>6. NoticeInv' /\ BuiltInv'
    BY <1>0, <1>1, <2>1, Zenon DEF NoticeInv, Running, Informed, BuiltInv, Untouched, At
  <2> QED
    BY <2>2, <2>3, <2>4, <2>5, <2>6 DEF MsgInv
<1>2. ASSUME NEW g \in Gens, Run(g) \/ Expire(g) PROVE MsgInv'
  <2>1. DataOK' /\ RestOK' /\ OnceInv' /\ NoticeInv'
    BY <1>0, <1>2, DataRun, RestRun, OnceRun, NoticeRun
  <2>2. BudgetInv' /\ PairInv' /\ BuiltInv'
    BY <1>0, <1>2, BudgetStep, PairRun, BuiltStep
  <2>3. CalmInv' /\ HistInv'
    BY <1>0, <1>2, CalmRun, HistRun
  <2> QED
    BY <2>1, <2>2, <2>3 DEF MsgInv
<1>3. ASSUME Requests \/ Holder \/ Drain \/ Teardown \/ Notice PROVE MsgInv'
  <2>1. DataOK' /\ RestOK' /\ OnceInv' /\ NoticeInv'
    BY <1>0, <1>3, DataManager, RestManager, OnceManager, NoticeManager
  <2>2. BudgetInv' /\ PairInv' /\ BuiltInv'
    BY <1>0, <1>3, BudgetStep, PairManager, BuiltStep
  <2>3. CalmInv' /\ HistInv'
    BY <1>0, <1>3, CalmManager, HistManager
  <2> QED
    BY <2>1, <2>2, <2>3 DEF MsgInv
<1> QED
  BY <1>1, <1>2, <1>3 DEF Next

(* Every reachable state satisfies MsgInv.                                 *)
THEOREM MsgInvariance == Spec => []MsgInv
  BY InitMsgs, StepMsgs, Invariance, PTL DEF Spec

(* Every variable keeps its type, transcripts and histories included.      *)
THEOREM TypesHold == Spec => []TypeOK
<1>1. IInv /\ MsgInv => TypeOK
  BY DEF IInv, ControlOK, LeftInv, MsgInv, DataOK, RestOK, TypeOK
<1> QED
  BY <1>1, Invariance, MsgInvariance, PTL

(* However sends, drains, injections, cancellations and failed writes      *)
(* interleave, a message is queued or recorded at most once, and a loop is *)
(* handed only what is recorded.                                           *)
THEOREM EveryMessageOnce == Spec => []ExactlyOnce
<1>1. DataOK /\ OnceInv => ExactlyOnce
  <2> SUFFICES ASSUME DataOK, OnceInv PROVE ExactlyOnce
    OBVIOUS
  <2>1. Once(rows, queue, sent) /\ HandedInv
    BY DEF OnceInv
  <2>2. \A i, j \in DOMAIN rows : rows[i].kind = "user" /\ rows[i] = rows[j] => i = j
    BY <2>1 DEF Once, Unrepeated
  <2>3. \A i, j \in DOMAIN queue : queue[i].msg = queue[j].msg => i = j
    BY <2>1 DEF Once, Apart
  <2>4. ASSUME NEW m \in Msgs, Queued(m), Recorded(m) PROVE FALSE
    <3>1. PICK x \in Elems(queue) : x.msg = m
      BY <2>4 DEF Queued, Elems
    <3>2. UserRow(m) \in Elems(rows)
      BY <2>4 DEF Recorded, Elems
    <3> QED
      BY <2>1, <3>1, <3>2 DEF Once
  <2>5. \A g \in Gens : \A k \in DOMAIN loops[g].messageQueue :
          loops[g].messageQueue[k] \in {rows[i] : i \in DOMAIN rows}
    BY <2>1 DEF HandedInv, Elems
  <2> QED
    BY <2>2, <2>3, <2>4, <2>5 DEF ExactlyOnce
<1>2. MsgInv => ExactlyOnce
  BY <1>1 DEF MsgInv
<1> QED
  BY <1>2, MsgInvariance, PTL

(* Whatever SetCwd's write and splice are interleaved with, the live loop  *)
(* has been told of a recorded move by the time SetCwd returns, unless it  *)
(* was being built just when SetCwd looked for a loop to tell.             *)
THEOREM NoticeReachesLoop == Spec => []NoticeKnown
<1>1. IInv /\ NoticeInv => NoticeKnown
  <2>1. \A s : Noticed(s) <=> \E i \in DOMAIN s : s[i].kind = "notice"
    BY DEF Noticed, Elems
  <2>2. IInv => loop \in Gens \cup {0}
    BY DEF IInv, ControlOK
  <2>3. SUFFICES ASSUME IInv, NoticeInv, mover = "idle", loop # 0, Noticed(rows), Running(loop)
                 PROVE  Noticed(loops[loop].history) \/ loops[loop].late
    BY <2>1, Zenon DEF NoticeKnown
  <2>4. Informed(loop)
    BY <2>2, <2>3 DEF NoticeInv
  <2> QED
    BY <2>4, Zenon DEF Informed
<1>2. IInv /\ MsgInv => NoticeKnown
  BY <1>1 DEF MsgInv
<1> QED
  BY <1>2, Invariance, MsgInvariance, PTL

(* Until the working directory changes, each recorded tool call is         *)
(* followed by its results, cancelled and expired turns included.          *)
THEOREM ToolCallsPaired == Spec => [](Untouched("move") => ToolPairs)
<1>1. PairInv => (Untouched("move") => ToolPairs)
  BY DEF PairInv, Untouched, ToolPairs, Paired, OpenUse
<1>2. MsgInv => (Untouched("move") => ToolPairs)
  BY <1>1 DEF MsgInv
<1> QED
  BY <1>2, MsgInvariance, PTL

(* Until the working directory changes or a nudge cannot be recorded, the  *)
(* live loop's context is the transcript's, through injection, retry,      *)
(* cancellation, failed writes and rebuilt loops.                          *)
THEOREM HistoryIsTranscript ==
  Spec => [](Untouched("move") /\ Untouched("nudge") => HistoryMatches)
<1>1. IInv /\ MsgInv => (Untouched("move") /\ Untouched("nudge") => HistoryMatches)
  BY HistImplies DEF MsgInv
<1> QED
  BY <1>1, Invariance, MsgInvariance, PTL

=============================================================================
