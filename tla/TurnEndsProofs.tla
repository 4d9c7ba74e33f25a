--------------------------- MODULE TurnEndsProofs ---------------------------
(***************************************************************************)
(* Proofs about TurnEnds, for any jobs, goroutines and events: turn ends   *)
(* are announced in order and once, a process queues one notice per job,   *)
(* and a goroutine that announces has seen the conversation idle.          *)
(*                                                                         *)
(* The last result is about three reads made one after the other.  It      *)
(* holds because an owed turn end means that no turn is running, so nobody *)
(* can start a job, and because a new turn forgets what was owed before    *)
(* it could be compared: while the compared number is still owed, the      *)
(* first reading (no unfinished job) stays true, and only the queue moves. *)
(***************************************************************************)
EXTENDS TurnEnds, TLAPS

SettlerRec == [pc : {"rest", "start", "jobs", "conv", "loop", "drop"},
               owed : Nat, queue : Seq(Jobs \cup {User})]

(* TypeOK, with the flags one by one.                                      *)
Typed ==
    /\ job \in [Jobs -> {"none", "running", "exited", "notified"}]
    /\ proc \in [Jobs -> {"none", "live", "dead"}]
    /\ watch \in [Jobs -> BOOLEAN]
    /\ due \in [Jobs -> Nat] /\ queued \in [Jobs -> Nat] /\ noticed \in [Jobs -> Nat]
    /\ working \in BOOLEAN /\ serving \in BOOLEAN /\ loaded \in BOOLEAN
    /\ mem \in BOOLEAN /\ handed \in BOOLEAN /\ wake \in BOOLEAN
    /\ queue \in Seq(Jobs \cup {User})
    /\ loop \in {"none", "idle", "turn", "ending", "announcing"}
    /\ undrainable \in Jobs \cup {User, None}
    /\ owed \in Nat /\ seq \in Nat /\ sent \in Seq(Nat)
    /\ settler \in [Settlers -> SettlerRec]
    /\ gaveUp \subseteq Jobs /\ sawIdle \subseteq Settlers
    /\ left \in [Events -> Nat]

(* Only a turn that has ended is announced, and in order.                  *)
SentInv ==
    /\ owed # 0 => owed = seq
    /\ \A i \in DOMAIN sent : sent[i] <= seq /\ (owed # 0 => sent[i] < owed)
    /\ \A i, k \in DOMAIN sent : i < k => sent[i] < sent[k]

(* A notice is scheduled by the one call that marks the job exited.        *)
JobInv(j) ==
    /\ noticed[j] + due[j] <= 1
    /\ job[j] \in {"none", "running"} => noticed[j] + due[j] = 0
    /\ ~serving => noticed[j] = 0

(* The flags follow each other: what runs is loaded, a turn that has not   *)
(* ended is marked in memory, and an owed turn end is marked ended.        *)
FlagInv ==
    /\ ~serving => ~loaded /\ owed = 0
    /\ ~loaded => ~mem /\ ~wake /\ ~handed /\ loop = "none"
    /\ serving /\ ~mem => ~working /\ ~handed /\ loop \notin {"turn", "ending"}
    /\ loop \in {"turn", "ending"} => ~handed
    /\ loop = "ending" => ~working
    /\ mem => owed = 0

Checking(t) == settler[t].pc \in {"jobs", "conv", "loop", "drop"}

(* While the number that goroutine t read is still owed, what it has       *)
(* concluded so far is true, or was true of the queue at some moment.      *)
CheckInv(t) ==
    /\ settler[t].pc # "rest" => serving
    /\ Checking(t) => settler[t].owed > 0 /\ settler[t].owed <= seq
    /\ Checking(t) /\ settler[t].owed = owed =>
          /\ settler[t].pc # "jobs" => ~Unfinished
          /\ settler[t].pc = "loop" => t \in sawIdle \/ Drainable(settler[t].queue)
          /\ settler[t].pc = "drop" => t \in sawIdle

IInv ==
    /\ Typed
    /\ SentInv
    /\ FlagInv
    /\ \A j \in Jobs : JobInv(j)
    /\ \A t \in Settlers : CheckInv(t)
-----------------------------------------------------------------------------
(* Facts that several steps need.                                          *)

(* A new goroutine: the settlers in S start and the others stay.           *)
SettlersMove == \A t \in Settlers : settler'[t] = settler[t] \/ settler'[t] = Start

(* A goroutine at rest and one at its start are settlers.                  *)
LEMMA RecordFacts ==
    /\ AtRest \in SettlerRec /\ Start \in SettlerRec
    /\ AtRest.pc = "rest" /\ Start.pc = "start"
<1>1. AtRest \in SettlerRec /\ AtRest.pc = "rest"
  BY DEF AtRest, SettlerRec
<1>2. Start \in SettlerRec /\ Start.pc = "start"
  BY <1>1 DEF Start, SettlerRec
<1> QED
  BY <1>1, <1>2

(* Starting goroutines changes nothing about those that run.               *)
LEMMA BeginFacts ==
  ASSUME NEW S, settler \in [Settlers -> SettlerRec], Begin(S)
  PROVE  settler' \in [Settlers -> SettlerRec] /\ SettlersMove
<1>1. settler' = [t \in Settlers |-> IF t \in S THEN Start ELSE settler[t]]
  BY DEF Begin
<1>2. Start \in SettlerRec
  BY RecordFacts
<1>3. settler' \in [Settlers -> SettlerRec]
  BY <1>1, <1>2
<1>4. SettlersMove
  BY <1>1 DEF SettlersMove
<1> QED
  BY <1>3, <1>4

(* The same for the goroutine that settles at the end of a handler.        *)
LEMMA SettleFacts ==
  ASSUME settler \in [Settlers -> SettlerRec], settleTurnEnds
  PROVE  settler' \in [Settlers -> SettlerRec] /\ SettlersMove
BY BeginFacts DEF settleTurnEnds

(* A bounded event leaves a smaller bound.                                 *)
LEMMA SpendFacts ==
  ASSUME left \in [Events -> Nat], NEW e \in Events, Spend(e)
  PROVE  left' \in [Events -> Nat]
BY DEF Spend

(* The typed form of the flags says what TypeOK says.                      *)
LEMMA TypedIsTypeOK == Typed => TypeOK
BY DEF Typed, TypeOK, SettlerRec

-----------------------------------------------------------------------------
(* Every step keeps the types.                                             *)
LEMMA TypeStep ==
  ASSUME IInv, Next
  PROVE  Typed'
<1> USE TurnEndsAssumption
<1>1. Typed /\ settler \in [Settlers -> SettlerRec] /\ left \in [Events -> Nat]
  BY DEF IInv, Typed
<1>2. \A S : Begin(S) => settler' \in [Settlers -> SettlerRec]
  BY <1>1, BeginFacts
<1>3. settleTurnEnds => settler' \in [Settlers -> SettlerRec]
  BY <1>1, SettleFacts
<1>4. \A e \in Events : Spend(e) => left' \in [Events -> Nat]
  BY <1>1, SpendFacts
<1>5. Observe => sawIdle' \subseteq Settlers
  BY DEF Observe
<1>6. ASSUME NEW j \in Jobs, Background(j) PROVE Typed'
  <2> QED
    BY <1>1, <1>5, <1>6 DEF Typed, Background, durable, manager, jobWork, history
<1>7. ASSUME NEW j \in Jobs, ProcessExits(j) PROVE Typed'
  <2> QED
    BY <1>1, <1>5, <1>7 DEF Typed, ProcessExits, durable, manager, jobWork, history
<1>8. ASSUME NEW j \in Jobs, reportBackgroundJobExit(j) PROVE Typed'
  <2> QED
    BY <1>1, <1>5, <1>8, SMTT(60) DEF Typed, reportBackgroundJobExit, MarkBackgroundJobExited, durable, manager, jobWork, history
<1>9. ASSUME NEW j \in Jobs, deliverBackgroundJobNotice(j) PROVE Typed'
  <2>1. settler' \in [Settlers -> SettlerRec]
    BY <1>1, <1>2, <1>3, <1>9 DEF deliverBackgroundJobNotice, queueMessage, Typed
  <2>2. queue' \in Seq(Jobs \cup {User})
    BY <1>1, <1>9 DEF Typed, deliverBackgroundJobNotice, queueMessage, durable, manager, jobWork, history
  <2>3. mem' \in BOOLEAN
    BY <1>1, <1>9 DEF Typed, deliverBackgroundJobNotice, queueMessage, durable, manager, jobWork, history
  <2>4. loaded' \in BOOLEAN
    BY <1>9, Zenon DEF deliverBackgroundJobNotice, queueMessage
  <2>5. wake' \in BOOLEAN
    BY <1>9, Zenon DEF deliverBackgroundJobNotice, queueMessage
  <2>6. undrainable' \in Jobs \cup {User, None}
    BY <1>1, <1>9 DEF Typed, deliverBackgroundJobNotice, queueMessage, durable, manager, jobWork, history
  <2>7. due' \in [Jobs -> Nat] /\ queued' \in [Jobs -> Nat]
    BY <1>1, <1>9, SMTT(60) DEF Typed, deliverBackgroundJobNotice, queueMessage, durable, manager, jobWork, history
  <2>8. noticed' \in [Jobs -> Nat]
    BY <1>1, <1>9 DEF Typed, deliverBackgroundJobNotice, queueMessage, durable, manager, jobWork, history
  <2> QED
    BY <1>1, <1>5, <1>9, <2>1, <2>2, <2>3, <2>4, <2>5, <2>6, <2>7, <2>8 DEF Typed, deliverBackgroundJobNotice, queueMessage, durable, manager, jobWork, history
<1>10. ASSUME NEW j \in Jobs, MarkBackgroundJobNotified(j) PROVE Typed'
  <2>1. settler' \in [Settlers -> SettlerRec]
    BY <1>1, <1>2, <1>3, <1>10 DEF MarkBackgroundJobNotified, Typed
  <2> QED
    BY <1>1, <1>5, <1>10, <2>1 DEF Typed, MarkBackgroundJobNotified, durable, manager, jobWork, history
<1>11. ASSUME NEW j \in Jobs, ReportFails(j) PROVE Typed'
  <2>1. left' \in [Events -> Nat]
    BY <1>4, <1>11 DEF ReportFails, Events
  <2> QED
    BY <1>1, <1>5, <1>11, <2>1 DEF Typed, ReportFails, durable, manager, jobWork, history
<1>12. ASSUME NEW j \in Jobs, NoticeFails(j) PROVE Typed'
  <2>1. left' \in [Events -> Nat]
    BY <1>4, <1>12 DEF NoticeFails, Events
  <2>2. due' \in [Jobs -> Nat] /\ queued' \in [Jobs -> Nat]
    <3>1. \A f \in [Jobs -> Nat] : f[j] > 0 => [f EXCEPT ![j] = @ - 1] \in [Jobs -> Nat]
      OBVIOUS
    <3>2. due \in [Jobs -> Nat] /\ queued \in [Jobs -> Nat]
      BY <1>1 DEF Typed
    <3>3. CASE due[j] > 0 /\ due' = [due EXCEPT ![j] = @ - 1] /\ UNCHANGED queued
      BY <3>1, <3>2, <3>3
    <3>4. CASE queued[j] > 0 /\ queued' = [queued EXCEPT ![j] = @ - 1] /\ UNCHANGED due
      BY <3>1, <3>2, <3>4
    <3> QED
      BY <1>12, <3>3, <3>4 DEF NoticeFails
  <2> QED
    BY <1>1, <1>5, <1>12, <2>1, <2>2 DEF Typed, NoticeFails, durable, manager, jobWork, history
<1>13. ASSUME NEW j \in Jobs, handleKillBackgroundJob(j) PROVE Typed'
  <2> QED
    BY <1>1, <1>5, <1>13 DEF Typed, handleKillBackgroundJob, MarkBackgroundJobExited, durable, manager, jobWork, history
<1>14. ASSUME AcceptUserMessage PROVE Typed'
  <2>1. settler' \in [Settlers -> SettlerRec]
    BY <1>1, <1>2, <1>3, <1>14 DEF AcceptUserMessage, queueMessage, StartTurn, Typed
  <2>2. left' \in [Events -> Nat]
    BY <1>4, <1>14 DEF AcceptUserMessage, Events
  <2>3. queue' \in Seq(Jobs \cup {User})
    <3>1. UNCHANGED queue \/ queue' = Append(queue, User)
      BY <1>14 DEF AcceptUserMessage, queueMessage, StartTurn
    <3>2. queue \in Seq(Jobs \cup {User})
      BY <1>1 DEF Typed
    <3>3. Append(queue, User) \in Seq(Jobs \cup {User})
      BY <3>2
    <3> QED
      BY <3>1, <3>2, <3>3
  <2>4. owed' \in Nat
    BY <1>1, <1>14 DEF Typed, AcceptUserMessage, queueMessage, StartTurn, durable, manager, jobWork, history
  <2>5. loop' \in {"none", "idle", "turn", "ending", "announcing"}
    BY <1>1, <1>14 DEF Typed, AcceptUserMessage, queueMessage, StartTurn, durable, manager, jobWork, history
  <2>6. undrainable' \in Jobs \cup {User, None}
    BY <1>1, <1>14 DEF Typed, AcceptUserMessage, queueMessage, StartTurn, durable, manager, jobWork, history
  <2>7. mem' \in BOOLEAN
    BY <1>1, <1>14 DEF Typed, AcceptUserMessage, queueMessage, StartTurn, durable, manager, jobWork, history
  <2>8. loaded' \in BOOLEAN
    BY <1>14, Zenon DEF AcceptUserMessage, queueMessage, StartTurn
  <2>9. wake' \in BOOLEAN
    <3>1. (wake \/ ~mem') \in BOOLEAN
      BY Zenon
    <3> QED
      BY <1>1, <1>14, <3>1 DEF Typed, AcceptUserMessage, queueMessage, StartTurn, durable, manager, jobWork, history
  <2>10. working' \in BOOLEAN /\ handed' \in BOOLEAN
    BY <1>1, <1>14 DEF Typed, AcceptUserMessage, queueMessage, StartTurn, durable, manager, jobWork, history
  <2> QED
    BY <1>1, <1>5, <1>14, <2>1, <2>2, <2>3, <2>4, <2>5, <2>6, <2>7, <2>8, <2>9, <2>10 DEF Typed, AcceptUserMessage, queueMessage, StartTurn, durable, manager, jobWork, history
<1>15. ASSUME LoopStartsTurn PROVE Typed'
  <2> QED
    BY <1>1, <1>5, <1>15 DEF Typed, LoopStartsTurn, durable, manager, jobWork, history
<1>16. ASSUME syncAgentWorking PROVE Typed'
  <2>1. settler' \in [Settlers -> SettlerRec]
    BY <1>1, <1>2, <1>3, <1>16 DEF syncAgentWorking, announceTurnEnd, OweTurnEnd, Typed
  <2>2. seq' \in Nat /\ owed' \in Nat
    BY <1>1, <1>16 DEF Typed, syncAgentWorking, announceTurnEnd, OweTurnEnd, durable, manager, jobWork, history
  <2>3. mem' \in BOOLEAN
    BY <1>16, Zenon DEF syncAgentWorking, announceTurnEnd, OweTurnEnd
  <2>4. loop' \in {"none", "idle", "turn", "ending", "announcing"}
    BY <1>1, <1>16 DEF Typed, syncAgentWorking, announceTurnEnd, OweTurnEnd, durable, manager, jobWork, history
  <2> QED
    BY <1>1, <1>5, <1>16, <2>1, <2>2, <2>3, <2>4 DEF Typed, syncAgentWorking, announceTurnEnd, OweTurnEnd, durable, manager, jobWork, history
<1>17. ASSUME notifySubscribers PROVE Typed'
  <2> QED
    BY <1>1, <1>5, <1>17 DEF Typed, notifySubscribers, durable, manager, jobWork, history
<1>18. ASSUME takeInjectable PROVE Typed'
  <2> QED
    BY <1>1, <1>5, <1>18 DEF Typed, takeInjectable, durable, manager, jobWork, history
<1>19. ASSUME EndRowCommits PROVE Typed'
  <2> QED
    BY <1>1, <1>5, <1>19 DEF Typed, EndRowCommits, durable, manager, jobWork, history
<1>20. ASSUME NotifyFails PROVE Typed'
  <2>1. left' \in [Events -> Nat]
    BY <1>4, <1>20 DEF NotifyFails, Events
  <2> QED
    BY <1>1, <1>5, <1>20, <2>1 DEF Typed, NotifyFails, durable, manager, jobWork, history
<1>21. ASSUME DrainRests PROVE Typed'
  <2> QED
    BY <1>1, <1>5, <1>21 DEF Typed, DrainRests, durable, manager, jobWork, history
<1>22. ASSUME DrainStartsTurn PROVE Typed'
  <2>1. loop' \in {"none", "idle", "turn", "ending", "announcing"}
    BY <1>1, <1>22 DEF Typed, DrainStartsTurn, StartTurn, durable, manager, jobWork, history
  <2>2. working' \in BOOLEAN
    BY <1>22, Zenon DEF DrainStartsTurn, StartTurn
  <2>3. mem' \in BOOLEAN
    BY <1>22, Zenon DEF DrainStartsTurn, StartTurn
  <2>4. handed' \in BOOLEAN
    BY <1>22, Zenon DEF DrainStartsTurn, StartTurn
  <2>5. wake' \in BOOLEAN
    BY <1>22, Zenon DEF DrainStartsTurn, StartTurn
  <2>6. queue' \in Seq(Jobs \cup {User})
    BY <1>1, <1>22 DEF Typed, DrainStartsTurn, StartTurn, durable, manager, jobWork, history
  <2>7. undrainable' \in Jobs \cup {User, None}
    BY <1>1, <1>22 DEF Typed, DrainStartsTurn, StartTurn, durable, manager, jobWork, history
  <2> QED
    BY <1>1, <1>5, <1>22, <2>1, <2>2, <2>3, <2>4, <2>5, <2>6, <2>7 DEF Typed, DrainStartsTurn, StartTurn, durable, manager, jobWork, history
<1>23. ASSUME DrainFails PROVE Typed'
  <2>1. settler' \in [Settlers -> SettlerRec]
    BY <1>1, <1>2, <1>3, <1>23 DEF DrainFails, Typed
  <2>2. left' \in [Events -> Nat]
    BY <1>4, <1>23 DEF DrainFails, Events
  <2>3. undrainable' \in Jobs \cup {User, None}
    BY <1>1, <1>23 DEF Typed, DrainFails, durable, manager, jobWork, history
  <2>4. wake' \in BOOLEAN
    BY <1>23, Zenon DEF DrainFails
  <2> QED
    BY <1>1, <1>5, <1>23, <2>1, <2>2, <2>3, <2>4 DEF Typed, DrainFails, durable, manager, jobWork, history
<1>24. ASSUME handleFatalLoopExit PROVE Typed'
  <2>1. settler' \in [Settlers -> SettlerRec]
    BY <1>1, <1>2, <1>3, <1>24 DEF handleFatalLoopExit, announceTurnEnd, OweTurnEnd, Typed
  <2>2. left' \in [Events -> Nat]
    BY <1>4, <1>24 DEF handleFatalLoopExit, Events
  <2>3. seq' \in Nat /\ owed' \in Nat
    BY <1>1, <1>24 DEF Typed, handleFatalLoopExit, announceTurnEnd, OweTurnEnd, durable, manager, jobWork, history
  <2>4. undrainable' \in Jobs \cup {User, None}
    BY <1>1, <1>24 DEF Typed, handleFatalLoopExit, announceTurnEnd, OweTurnEnd, durable, manager, jobWork, history
  <2>5. loop' \in {"none", "idle", "turn", "ending", "announcing"}
    BY <1>1, <1>24 DEF Typed, handleFatalLoopExit, announceTurnEnd, OweTurnEnd, durable, manager, jobWork, history
  <2>6. working' \in BOOLEAN
    BY <1>24, Zenon DEF handleFatalLoopExit, announceTurnEnd, OweTurnEnd
  <2>7. mem' \in BOOLEAN
    BY <1>24, Zenon DEF handleFatalLoopExit, announceTurnEnd, OweTurnEnd
  <2> QED
    BY <1>1, <1>5, <1>24, <2>1, <2>2, <2>3, <2>4, <2>5, <2>6, <2>7 DEF Typed, handleFatalLoopExit, announceTurnEnd, OweTurnEnd, durable, manager, jobWork, history
<1>25. ASSUME CancelConversation PROVE Typed'
  <2>1. settler' \in [Settlers -> SettlerRec]
    BY <1>1, <1>2, <1>3, <1>25 DEF CancelConversation, OweTurnEnd, Typed
  <2>2. left' \in [Events -> Nat]
    BY <1>4, <1>25 DEF CancelConversation, Events
  <2>3. seq' \in Nat /\ owed' \in Nat
    BY <1>1, <1>25 DEF Typed, CancelConversation, OweTurnEnd, durable, manager, jobWork, history
  <2>4. queue' \in Seq(Jobs \cup {User})
    BY <1>1, <1>25 DEF Typed, CancelConversation, OweTurnEnd, durable, manager, jobWork, history
  <2>5. wake' \in BOOLEAN
    BY <1>25, Zenon DEF CancelConversation, OweTurnEnd
  <2>6. handed' \in BOOLEAN
    BY <1>25, Zenon DEF CancelConversation, OweTurnEnd
  <2>7. working' \in BOOLEAN
    BY <1>25, Zenon DEF CancelConversation, OweTurnEnd
  <2>8. mem' \in BOOLEAN
    BY <1>25, Zenon DEF CancelConversation, OweTurnEnd
  <2>9. loop' \in {"none", "idle", "turn", "ending", "announcing"}
    BY <1>1, <1>25 DEF Typed, CancelConversation, OweTurnEnd, durable, manager, jobWork, history
  <2> QED
    BY <1>1, <1>5, <1>25, <2>1, <2>2, <2>3, <2>4, <2>5, <2>6, <2>7, <2>8, <2>9 DEF Typed, CancelConversation, OweTurnEnd, durable, manager, jobWork, history
<1>26. ASSUME CancelQueuedMessages PROVE Typed'
  <2>1. settler' \in [Settlers -> SettlerRec]
    BY <1>1, <1>2, <1>3, <1>26 DEF CancelQueuedMessages, Typed
  <2>2. left' \in [Events -> Nat]
    BY <1>4, <1>26 DEF CancelQueuedMessages, Events
  <2> QED
    BY <1>1, <1>5, <1>26, <2>1, <2>2 DEF Typed, CancelQueuedMessages, durable, manager, jobWork, history
<1>27. ASSUME Cleanup PROVE Typed'
  <2>1. settler' \in [Settlers -> SettlerRec]
    BY <1>1, <1>2, <1>3, <1>27 DEF Cleanup, Typed
  <2> QED
    BY <1>1, <1>5, <1>27, <2>1 DEF Typed, Cleanup, durable, manager, jobWork, history
<1>28. ASSUME Die PROVE Typed'
  <2>1. left' \in [Events -> Nat]
    BY <1>4, <1>28 DEF Die, Events
  <2>2. serving' \in BOOLEAN
    BY <1>28, Zenon DEF Die
  <2>3. loaded' \in BOOLEAN
    BY <1>28, Zenon DEF Die
  <2>4. mem' \in BOOLEAN
    BY <1>28, Zenon DEF Die
  <2>5. handed' \in BOOLEAN
    BY <1>28, Zenon DEF Die
  <2>6. wake' \in BOOLEAN
    BY <1>28, Zenon DEF Die
  <2>7. due' \in [Jobs -> Nat] /\ queued' \in [Jobs -> Nat]
    BY <1>1, <1>28 DEF Typed, Die, durable, manager, jobWork, history
  <2>8. watch' \in [Jobs -> BOOLEAN] /\ noticed' \in [Jobs -> Nat]
    BY <1>1, <1>28 DEF Typed, Die, durable, manager, jobWork, history
  <2>9. settler' \in [Settlers -> SettlerRec]
    BY <1>28, RecordFacts DEF Die
  <2> QED
    BY <1>1, <1>5, <1>28, <2>1, <2>2, <2>3, <2>4, <2>5, <2>6, <2>7, <2>8, <2>9 DEF Typed, Die, durable, manager, jobWork, history
<1>29. ASSUME StartServing PROVE Typed'
  <2>1. left' \in [Events -> Nat]
    BY <1>1, <1>29, SpendFacts DEF Typed, StartServing, Events
  <2>2. PICK lost \in SUBSET Jobs : recoverBackgroundJobs(lost)
    BY <1>29 DEF StartServing, JobsIn
  <2>3. watch' \in [Jobs -> BOOLEAN] /\ due' \in [Jobs -> Nat] /\ gaveUp' \subseteq Jobs
    BY <2>2 DEF recoverBackgroundJobs
  <2>4. sawIdle' \subseteq Settlers
    BY <1>29 DEF StartServing, Observe
  <2> QED
    BY <1>1, <1>29, <2>1, <2>3, <2>4 DEF Typed, StartServing, manager
<1>30. ASSUME NEW t \in Settlers, takeOwedTurnEnd(t) PROVE Typed'
  <2>1. settler[t] \in SettlerRec /\ owed \in Nat /\ queue \in Seq(Jobs \cup {User})
    BY <1>1 DEF Typed
  <2>2. /\ [settler[t] EXCEPT !.pc = "jobs", !.owed = owed] \in SettlerRec
        /\ [settler[t] EXCEPT !.pc = "conv"] \in SettlerRec
        /\ [settler[t] EXCEPT !.pc = "loop", !.queue = queue] \in SettlerRec
        /\ [settler[t] EXCEPT !.pc = "drop"] \in SettlerRec
    BY <2>1 DEF SettlerRec
  <2>3. settler' \in [Settlers -> SettlerRec]
    BY <1>1, <1>30, <2>2, RecordFacts DEF takeOwedTurnEnd, SettleStarts, willWorkAgain, dropOwedTurnEnd
  <2>4. owed' \in Nat /\ sent' \in Seq(Nat)
    <3>1. (owed' = owed /\ sent' = sent) \/ (owed' = 0 /\ sent' = Append(sent, owed))
      BY <1>30 DEF takeOwedTurnEnd, SettleStarts, willWorkAgain, dropOwedTurnEnd
    <3>2. owed \in Nat /\ sent \in Seq(Nat)
      BY <1>1 DEF Typed
    <3>3. Append(sent, owed) \in Seq(Nat)
      BY <3>2
    <3>4. owed' \in Nat
      BY <3>1, <3>2
    <3>5. sent' \in Seq(Nat)
      BY <3>1, <3>2, <3>3, Zenon
    <3> QED
      BY <3>4, <3>5
  <2> QED
    BY <1>1, <1>5, <1>30, <2>3, <2>4 DEF Typed, takeOwedTurnEnd, durable, manager, jobWork, history
<1> QED
  BY <1>6, <1>7, <1>8, <1>9, <1>10, <1>11, <1>12, <1>13, <1>14, <1>15, <1>16, <1>17, <1>18, <1>19, <1>20, <1>21, <1>22, <1>23, <1>24, <1>25, <1>26, <1>27, <1>28, <1>29, <1>30 DEF Next, JobStep, Drain, LoopStep

(* Announcements stay in order: a turn end is owed under a new number, and *)
(* is sent only by the goroutine that takes it away.                       *)
LEMMA SentStep ==
  ASSUME IInv, Next
  PROVE  SentInv'
<1>1. /\ SentInv /\ owed \in Nat /\ seq \in Nat /\ sent \in Seq(Nat) /\ mem \in BOOLEAN
      /\ \A i \in DOMAIN sent : sent[i] \in Nat
  BY DEF IInv, Typed
<1>2. ASSUME UNCHANGED <<seq, sent>>, owed' = owed \/ owed' = 0
      PROVE  SentInv'
  BY <1>1, <1>2 DEF SentInv
<1>3. ASSUME OweTurnEnd, UNCHANGED sent
      PROVE  SentInv'
  BY <1>1, <1>3 DEF SentInv, OweTurnEnd
<1>4. ASSUME NEW j \in Jobs, Background(j) PROVE SentInv'
  BY <1>2, <1>4 DEF Background, history
<1>5. ASSUME NEW j \in Jobs, ProcessExits(j) PROVE SentInv'
  BY <1>2, <1>5 DEF ProcessExits, history
<1>6. ASSUME NEW j \in Jobs, reportBackgroundJobExit(j) PROVE SentInv'
  BY <1>2, <1>6 DEF reportBackgroundJobExit, history
<1>7. ASSUME NEW j \in Jobs, deliverBackgroundJobNotice(j) PROVE SentInv'
  BY <1>2, <1>7 DEF deliverBackgroundJobNotice, history
<1>8. ASSUME NEW j \in Jobs, MarkBackgroundJobNotified(j) PROVE SentInv'
  BY <1>2, <1>8 DEF MarkBackgroundJobNotified, history
<1>9. ASSUME NEW j \in Jobs, ReportFails(j) PROVE SentInv'
  BY <1>2, <1>9 DEF ReportFails, history
<1>10. ASSUME NEW j \in Jobs, NoticeFails(j) PROVE SentInv'
  BY <1>2, <1>10 DEF NoticeFails, history
<1>11. ASSUME NEW j \in Jobs, handleKillBackgroundJob(j) PROVE SentInv'
  BY <1>2, <1>11 DEF handleKillBackgroundJob, history
<1>12. ASSUME AcceptUserMessage PROVE SentInv'
  BY <1>2, <1>12 DEF AcceptUserMessage, StartTurn, history
<1>13. ASSUME LoopStartsTurn PROVE SentInv'
  BY <1>2, <1>13 DEF LoopStartsTurn, history
<1>14. ASSUME syncAgentWorking PROVE SentInv'
  BY <1>3, <1>14 DEF syncAgentWorking, announceTurnEnd
<1>15. ASSUME notifySubscribers PROVE SentInv'
  BY <1>2, <1>15 DEF notifySubscribers, history
<1>16. ASSUME takeInjectable PROVE SentInv'
  BY <1>2, <1>16 DEF takeInjectable, history
<1>17. ASSUME EndRowCommits PROVE SentInv'
  BY <1>2, <1>17 DEF EndRowCommits, history
<1>18. ASSUME NotifyFails PROVE SentInv'
  BY <1>2, <1>18 DEF NotifyFails, history
<1>19. ASSUME DrainRests PROVE SentInv'
  BY <1>2, <1>19 DEF DrainRests, history
<1>20. ASSUME DrainStartsTurn PROVE SentInv'
  BY <1>2, <1>20 DEF DrainStartsTurn, StartTurn, history
<1>21. ASSUME DrainFails PROVE SentInv'
  BY <1>2, <1>21 DEF DrainFails, history
<1>22. ASSUME handleFatalLoopExit PROVE SentInv'
  BY <1>3, <1>22 DEF handleFatalLoopExit, announceTurnEnd
<1>23. ASSUME CancelConversation PROVE SentInv'
  BY <1>3, <1>23 DEF CancelConversation
<1>24. ASSUME CancelQueuedMessages PROVE SentInv'
  BY <1>2, <1>24 DEF CancelQueuedMessages, history
<1>25. ASSUME Cleanup PROVE SentInv'
  BY <1>2, <1>25 DEF Cleanup, history
<1>26. ASSUME Die PROVE SentInv'
  BY <1>2, <1>26 DEF Die, history
<1>27. ASSUME StartServing PROVE SentInv'
  BY <1>2, <1>27 DEF StartServing, history
<1>28. ASSUME NEW t \in Settlers, takeOwedTurnEnd(t) PROVE SentInv'
  <2>1. seq' = seq
    BY <1>28 DEF takeOwedTurnEnd
  <2>2. CASE owed' = owed /\ sent' = sent
    BY <1>2, <2>1, <2>2
  <2>3. CASE settler[t].pc = "drop" /\ owed = settler[t].owed /\ owed' = 0 /\ sent' = Append(sent, owed)
    <3>1. owed > 0
      BY <2>3 DEF IInv, CheckInv, Checking
    <3>2. /\ \A i \in DOMAIN sent : sent[i] < owed /\ sent[i] <= seq
          /\ owed = seq
          /\ \A i, k \in DOMAIN sent : i < k => sent[i] < sent[k]
      BY <1>1, <3>1 DEF SentInv
    <3>3. /\ DOMAIN sent = 1..Len(sent) /\ DOMAIN sent' = 1..(Len(sent) + 1) /\ Len(sent) \in Nat
          /\ \A i \in DOMAIN sent : sent'[i] = sent[i]
          /\ sent'[Len(sent) + 1] = owed
      BY <1>1, <2>3
    <3>4. \A i \in DOMAIN sent' : sent'[i] <= seq
      BY <1>1, <3>2, <3>3
    <3>5. \A i, k \in DOMAIN sent' : i < k => sent'[i] < sent'[k]
      <4> TAKE i, k \in DOMAIN sent'
      <4>1. CASE k = Len(sent) + 1
        BY <3>2, <3>3, <4>1
      <4>2. CASE k # Len(sent) + 1
        BY <3>2, <3>3, <4>2
      <4> QED
        BY <4>1, <4>2
    <3> QED
      BY <2>1, <2>3, <3>4, <3>5 DEF SentInv
  <2> QED
    BY <1>28, <2>2, <2>3 DEF takeOwedTurnEnd, SettleStarts, willWorkAgain, dropOwedTurnEnd
<1> QED
  BY <1>4, <1>5, <1>6, <1>7, <1>8, <1>9, <1>10, <1>11, <1>12, <1>13, <1>14, <1>15, <1>16, <1>17, <1>18, <1>19, <1>20, <1>21, <1>22, <1>23, <1>24, <1>25, <1>26, <1>27, <1>28 DEF Next, JobStep, Drain, LoopStep

(* At most one notice per job and process: only the change from running to *)
(* exited, or a start that finds the job exited, schedules one.            *)
LEMMA JobsStep ==
  ASSUME IInv, Next
  PROVE  \A j \in Jobs : JobInv(j)'
<1>1. /\ job \in [Jobs -> {"none", "running", "exited", "notified"}]
      /\ due \in [Jobs -> Nat] /\ noticed \in [Jobs -> Nat]
      /\ \A j \in Jobs : JobInv(j)
  BY DEF IInv, Typed
<1>2. ASSUME UNCHANGED <<job, due, noticed>>, serving' = serving
      PROVE  \A j \in Jobs : JobInv(j)'
  BY <1>1, <1>2 DEF JobInv
<1>3. ASSUME NEW j \in Jobs, Background(j) PROVE \A i \in Jobs : JobInv(i)'
  <2> TAKE i \in Jobs
  <2>1. serving' = serving /\ (i # j => job'[i] = job[i] /\ due'[i] = due[i] /\ noticed'[i] = noticed[i])
    BY <1>1, <1>3 DEF Background, history, durable
  <2>2. CASE i = j
    <3>1. JobInv(j) /\ due[j] \in Nat /\ noticed[j] \in Nat
      BY <1>1
    <3> QED
      BY <1>1, <1>3, <2>1, <2>2, <3>1 DEF JobInv, Background, history, durable
  <2>3. CASE i # j
    BY <1>1, <2>1, <2>3 DEF JobInv
  <2> QED
    BY <2>2, <2>3
<1>4. ASSUME NEW j \in Jobs, ProcessExits(j) PROVE \A i \in Jobs : JobInv(i)'
  BY <1>2, <1>4 DEF ProcessExits, durable, jobWork, history
<1>5. ASSUME NEW j \in Jobs, reportBackgroundJobExit(j) PROVE \A i \in Jobs : JobInv(i)'
  <2> TAKE i \in Jobs
  <2>1. serving' = serving /\ (i # j => job'[i] = job[i] /\ due'[i] = due[i] /\ noticed'[i] = noticed[i])
    BY <1>1, <1>5 DEF reportBackgroundJobExit, MarkBackgroundJobExited, history, durable
  <2>2. CASE i = j
    <3>1. JobInv(j) /\ due[j] \in Nat /\ noticed[j] \in Nat
      BY <1>1
    <3> QED
      BY <1>1, <1>5, <2>1, <2>2, <3>1 DEF JobInv, reportBackgroundJobExit, MarkBackgroundJobExited, history, durable
  <2>3. CASE i # j
    BY <1>1, <2>1, <2>3 DEF JobInv
  <2> QED
    BY <2>2, <2>3
<1>6. ASSUME NEW j \in Jobs, deliverBackgroundJobNotice(j) PROVE \A i \in Jobs : JobInv(i)'
  <2> TAKE i \in Jobs
  <2>1. serving' = serving /\ (i # j => job'[i] = job[i] /\ due'[i] = due[i] /\ noticed'[i] = noticed[i])
    BY <1>1, <1>6 DEF deliverBackgroundJobNotice, history, durable
  <2>2. CASE i = j
    <3>1. JobInv(j) /\ due[j] \in Nat /\ noticed[j] \in Nat
      BY <1>1
    <3> QED
      BY <1>1, <1>6, <2>1, <2>2, <3>1 DEF JobInv, deliverBackgroundJobNotice, history, durable
  <2>3. CASE i # j
    BY <1>1, <2>1, <2>3 DEF JobInv
  <2> QED
    BY <2>2, <2>3
<1>7. ASSUME NEW j \in Jobs, MarkBackgroundJobNotified(j) PROVE \A i \in Jobs : JobInv(i)'
  <2> TAKE i \in Jobs
  <2>1. serving' = serving /\ (i # j => job'[i] = job[i] /\ due'[i] = due[i] /\ noticed'[i] = noticed[i])
    BY <1>1, <1>7 DEF MarkBackgroundJobNotified, history, durable
  <2>2. CASE i = j
    <3>1. JobInv(j) /\ due[j] \in Nat /\ noticed[j] \in Nat
      BY <1>1
    <3> QED
      BY <1>1, <1>7, <2>1, <2>2, <3>1 DEF JobInv, MarkBackgroundJobNotified, history, durable
  <2>3. CASE i # j
    BY <1>1, <2>1, <2>3 DEF JobInv
  <2> QED
    BY <2>2, <2>3
<1>8. ASSUME NEW j \in Jobs, ReportFails(j) PROVE \A i \in Jobs : JobInv(i)'
  BY <1>2, <1>8 DEF ReportFails, durable, jobWork, history
<1>9. ASSUME NEW j \in Jobs, NoticeFails(j) PROVE \A i \in Jobs : JobInv(i)'
  <2> TAKE i \in Jobs
  <2>1. serving' = serving /\ (i # j => job'[i] = job[i] /\ due'[i] = due[i] /\ noticed'[i] = noticed[i])
    BY <1>1, <1>9 DEF NoticeFails, history, durable
  <2>2. CASE i = j
    <3>1. JobInv(j) /\ due[j] \in Nat /\ noticed[j] \in Nat
      BY <1>1
    <3> QED
      BY <1>1, <1>9, <2>1, <2>2, <3>1 DEF JobInv, NoticeFails, history, durable
  <2>3. CASE i # j
    BY <1>1, <2>1, <2>3 DEF JobInv
  <2> QED
    BY <2>2, <2>3
<1>10. ASSUME NEW j \in Jobs, handleKillBackgroundJob(j) PROVE \A i \in Jobs : JobInv(i)'
  <2> TAKE i \in Jobs
  <2>1. serving' = serving /\ (i # j => job'[i] = job[i] /\ due'[i] = due[i] /\ noticed'[i] = noticed[i])
    BY <1>1, <1>10 DEF handleKillBackgroundJob, MarkBackgroundJobExited, history, durable
  <2>2. CASE i = j
    <3>1. JobInv(j) /\ due[j] \in Nat /\ noticed[j] \in Nat
      BY <1>1
    <3> QED
      BY <1>1, <1>10, <2>1, <2>2, <3>1 DEF JobInv, handleKillBackgroundJob, MarkBackgroundJobExited, history, durable
  <2>3. CASE i # j
    BY <1>1, <2>1, <2>3 DEF JobInv
  <2> QED
    BY <2>2, <2>3
<1>11. ASSUME AcceptUserMessage PROVE \A i \in Jobs : JobInv(i)'
  BY <1>2, <1>11 DEF AcceptUserMessage, durable, jobWork, history
<1>12. ASSUME LoopStartsTurn PROVE \A i \in Jobs : JobInv(i)'
  BY <1>2, <1>12 DEF LoopStartsTurn, durable, jobWork, history
<1>13. ASSUME syncAgentWorking PROVE \A i \in Jobs : JobInv(i)'
  BY <1>2, <1>13 DEF syncAgentWorking, durable, jobWork, history
<1>14. ASSUME notifySubscribers PROVE \A i \in Jobs : JobInv(i)'
  BY <1>2, <1>14 DEF notifySubscribers, durable, jobWork, history
<1>15. ASSUME takeInjectable PROVE \A i \in Jobs : JobInv(i)'
  BY <1>2, <1>15 DEF takeInjectable, durable, jobWork, history
<1>16. ASSUME EndRowCommits PROVE \A i \in Jobs : JobInv(i)'
  BY <1>2, <1>16 DEF EndRowCommits, durable, jobWork, history
<1>17. ASSUME NotifyFails PROVE \A i \in Jobs : JobInv(i)'
  BY <1>2, <1>17 DEF NotifyFails, durable, jobWork, history
<1>18. ASSUME DrainRests PROVE \A i \in Jobs : JobInv(i)'
  BY <1>2, <1>18 DEF DrainRests, durable, jobWork, history
<1>19. ASSUME DrainStartsTurn PROVE \A i \in Jobs : JobInv(i)'
  BY <1>2, <1>19 DEF DrainStartsTurn, durable, jobWork, history
<1>20. ASSUME DrainFails PROVE \A i \in Jobs : JobInv(i)'
  BY <1>2, <1>20 DEF DrainFails, durable, jobWork, history
<1>21. ASSUME handleFatalLoopExit PROVE \A i \in Jobs : JobInv(i)'
  BY <1>2, <1>21 DEF handleFatalLoopExit, durable, jobWork, history
<1>22. ASSUME CancelConversation PROVE \A i \in Jobs : JobInv(i)'
  BY <1>2, <1>22 DEF CancelConversation, durable, jobWork, history
<1>23. ASSUME CancelQueuedMessages PROVE \A i \in Jobs : JobInv(i)'
  BY <1>2, <1>23 DEF CancelQueuedMessages, durable, jobWork, history
<1>24. ASSUME Cleanup PROVE \A i \in Jobs : JobInv(i)'
  BY <1>2, <1>24 DEF Cleanup, durable, jobWork, history
<1>25. ASSUME Die PROVE \A i \in Jobs : JobInv(i)'
  BY <1>1, <1>25 DEF JobInv, Die, durable, history
<1>26. ASSUME StartServing PROVE \A i \in Jobs : JobInv(i)'
  BY <1>1, <1>26 DEF JobInv, StartServing, recoverBackgroundJobs, durable, history
<1>27. ASSUME NEW t \in Settlers, takeOwedTurnEnd(t) PROVE \A i \in Jobs : JobInv(i)'
  BY <1>2, <1>27 DEF takeOwedTurnEnd, durable, jobWork
<1> QED
  BY <1>3, <1>4, <1>5, <1>6, <1>7, <1>8, <1>9, <1>10, <1>11, <1>12, <1>13, <1>14, <1>15, <1>16, <1>17, <1>18, <1>19, <1>20, <1>21, <1>22, <1>23, <1>24, <1>25, <1>26, <1>27 DEF Next, JobStep, Drain, LoopStep

(* The flags keep following each other.                                    *)
LEMMA FlagStep ==
  ASSUME IInv, Next
  PROVE  FlagInv'
<1>1. /\ FlagInv
      /\ working \in BOOLEAN /\ serving \in BOOLEAN /\ loaded \in BOOLEAN
      /\ mem \in BOOLEAN /\ handed \in BOOLEAN /\ wake \in BOOLEAN
  BY DEF IInv, Typed
<1>2. ASSUME NEW j \in Jobs, Background(j) PROVE FlagInv'
  BY <1>1, <1>2 DEF FlagInv, Background, durable, manager
<1>3. ASSUME NEW j \in Jobs, ProcessExits(j) PROVE FlagInv'
  BY <1>1, <1>3 DEF FlagInv, ProcessExits, durable, manager
<1>4. ASSUME NEW j \in Jobs, reportBackgroundJobExit(j) PROVE FlagInv'
  BY <1>1, <1>4 DEF FlagInv, reportBackgroundJobExit, MarkBackgroundJobExited, durable, manager
<1>5. ASSUME NEW j \in Jobs, deliverBackgroundJobNotice(j) PROVE FlagInv'
  BY <1>1, <1>5 DEF FlagInv, deliverBackgroundJobNotice, queueMessage, durable, manager
<1>6. ASSUME NEW j \in Jobs, MarkBackgroundJobNotified(j) PROVE FlagInv'
  BY <1>1, <1>6 DEF FlagInv, MarkBackgroundJobNotified, durable, manager
<1>7. ASSUME NEW j \in Jobs, ReportFails(j) PROVE FlagInv'
  BY <1>1, <1>7 DEF FlagInv, ReportFails, durable, manager
<1>8. ASSUME NEW j \in Jobs, NoticeFails(j) PROVE FlagInv'
  BY <1>1, <1>8 DEF FlagInv, NoticeFails, durable, manager
<1>9. ASSUME NEW j \in Jobs, handleKillBackgroundJob(j) PROVE FlagInv'
  BY <1>1, <1>9 DEF FlagInv, handleKillBackgroundJob, MarkBackgroundJobExited, durable, manager
<1>10. ASSUME AcceptUserMessage PROVE FlagInv'
  BY <1>1, <1>10 DEF FlagInv, AcceptUserMessage, queueMessage, StartTurn, durable, manager
<1>11. ASSUME LoopStartsTurn PROVE FlagInv'
  BY <1>1, <1>11 DEF FlagInv, LoopStartsTurn, durable, manager
<1>12. ASSUME syncAgentWorking PROVE FlagInv'
  BY <1>1, <1>12 DEF FlagInv, syncAgentWorking, announceTurnEnd, OweTurnEnd, durable, manager
<1>13. ASSUME notifySubscribers PROVE FlagInv'
  BY <1>1, <1>13 DEF FlagInv, notifySubscribers, durable, manager
<1>14. ASSUME takeInjectable PROVE FlagInv'
  BY <1>1, <1>14 DEF FlagInv, takeInjectable, durable, manager
<1>15. ASSUME EndRowCommits PROVE FlagInv'
  BY <1>1, <1>15 DEF FlagInv, EndRowCommits, durable, manager
<1>16. ASSUME NotifyFails PROVE FlagInv'
  BY <1>1, <1>16 DEF FlagInv, NotifyFails, durable, manager
<1>17. ASSUME DrainRests PROVE FlagInv'
  BY <1>1, <1>17 DEF FlagInv, DrainRests, durable, manager
<1>18. ASSUME DrainStartsTurn PROVE FlagInv'
  BY <1>1, <1>18 DEF FlagInv, DrainStartsTurn, StartTurn, durable, manager
<1>19. ASSUME DrainFails PROVE FlagInv'
  BY <1>1, <1>19 DEF FlagInv, DrainFails, durable, manager
<1>20. ASSUME handleFatalLoopExit PROVE FlagInv'
  BY <1>1, <1>20 DEF FlagInv, handleFatalLoopExit, announceTurnEnd, OweTurnEnd, durable, manager
<1>21. ASSUME CancelConversation PROVE FlagInv'
  BY <1>1, <1>21 DEF FlagInv, CancelConversation, OweTurnEnd, durable, manager
<1>22. ASSUME CancelQueuedMessages PROVE FlagInv'
  BY <1>1, <1>22 DEF FlagInv, CancelQueuedMessages, durable, manager
<1>23. ASSUME Cleanup PROVE FlagInv'
  BY <1>1, <1>23 DEF FlagInv, Cleanup, durable, manager
<1>24. ASSUME Die PROVE FlagInv'
  BY <1>1, <1>24 DEF FlagInv, Die, durable, manager
<1>25. ASSUME StartServing PROVE FlagInv'
  BY <1>1, <1>25 DEF FlagInv, StartServing, recoverBackgroundJobs, durable, manager
<1>26. ASSUME NEW t \in Settlers, takeOwedTurnEnd(t) PROVE FlagInv'
  <2>1. (owed' = owed \/ owed' = 0)
    BY <1>26 DEF takeOwedTurnEnd, SettleStarts, willWorkAgain, dropOwedTurnEnd
  <2> QED
    BY <1>1, <1>26, <2>1 DEF FlagInv, takeOwedTurnEnd, durable, manager
<1> QED
  BY <1>2, <1>3, <1>4, <1>5, <1>6, <1>7, <1>8, <1>9, <1>10, <1>11, <1>12, <1>13, <1>14, <1>15, <1>16, <1>17, <1>18, <1>19, <1>20, <1>21, <1>22, <1>23, <1>24, <1>25, <1>26 DEF Next, JobStep, Drain, LoopStep
-----------------------------------------------------------------------------
(* The reads of a settling goroutine.                                      *)

(* No step that leaves the owed number alone makes work unfinished, and a  *)
(* queue that could be drained still can be, or else nothing can drain now.*)
Steady ==
    /\ Unfinished' => Unfinished
    /\ \/ (loaded => loaded') /\ undrainable' \in {undrainable, None}
       \/ ~Drainable(queue)'

(* What an owed turn end says about the flags.                             *)
LEMMA OwedFacts ==
  ASSUME FlagInv, owed # 0
  PROVE  serving /\ ~mem /\ ~working /\ ~handed /\ loop \notin {"turn", "ending"}
BY DEF FlagInv

(* A steady step keeps the conclusions of a goroutine that does not move:  *)
(* if the queue it read can no longer be drained, this is a moment at      *)
(* which nothing is pending.                                               *)
LEMMA CheckKept ==
  ASSUME IInv, Typed', FlagInv', Observe, NEW t \in Settlers,
         settler'[t] = settler[t] \/ settler'[t].pc \in {"rest", "start"},
         settler'[t].pc # "rest" => serving',
         seq <= seq', owed' = owed \/ owed' = 0 \/ owed' > seq,
         owed' = owed /\ owed # 0 => Steady
  PROVE  CheckInv(t)'
<1> USE TurnEndsAssumption
<1>1. /\ CheckInv(t) /\ settler[t] \in SettlerRec /\ settler'[t] \in SettlerRec
      /\ owed \in Nat /\ owed' \in Nat /\ seq \in Nat /\ seq' \in Nat
  BY DEF IInv, Typed
<1>2. settler[t].owed \in Nat /\ settler'[t].owed \in Nat /\ settler[t].queue \in Seq(Jobs \cup {User})
  BY <1>1 DEF SettlerRec
<1>3. CASE settler'[t].pc \in {"rest", "start"}
  BY <1>3 DEF CheckInv, Checking
<1>4. CASE settler'[t] = settler[t] /\ settler'[t].pc \notin {"rest", "start"}
  <2>1. Checking(t)
    BY <1>1, <1>4 DEF Checking, SettlerRec
  <2>2. settler[t].owed > 0 /\ settler[t].owed <= seq
    BY <1>1, <2>1 DEF CheckInv
  <2>3. ASSUME settler[t].owed = owed'
        PROVE  /\ settler[t].pc # "jobs" => ~Unfinished'
               /\ settler[t].pc = "loop" => t \in sawIdle' \/ Drainable(settler[t].queue)'
               /\ settler[t].pc = "drop" => t \in sawIdle'
    <3>1. owed' = owed /\ owed' # 0 /\ owed # 0
      BY <1>1, <1>2, <2>2, <2>3
    <3>2. Steady /\ ~working' /\ ~handed'
      BY <3>1 DEF FlagInv
    <3>3. /\ settler[t].pc # "jobs" => ~Unfinished
          /\ settler[t].pc = "loop" => t \in sawIdle \/ Drainable(settler[t].queue)
          /\ settler[t].pc = "drop" => t \in sawIdle
      BY <1>1, <2>1, <2>3, <3>1 DEF CheckInv
    <3>4. settler[t].pc # "jobs" => ~Unfinished'
      BY <3>2, <3>3 DEF Steady
    <3>5. t \in sawIdle => t \in sawIdle'
      BY <1>4 DEF Observe
    <3>6. ASSUME settler[t].pc = "loop", Drainable(settler[t].queue)
          PROVE  t \in sawIdle' \/ Drainable(settler[t].queue)'
      <4>1. CASE (loaded => loaded') /\ undrainable' \in {undrainable, None}
        <5>1. settler[t].queue # <<>> /\ loaded /\ undrainable # Head(settler[t].queue)
          BY <3>6 DEF Drainable
        <5>2. Head(settler[t].queue) # None
          BY <1>2, <5>1
        <5> QED
          BY <1>4, <4>1, <5>1, <5>2 DEF Drainable
      <4>2. CASE ~Drainable(queue)'
        <5>1. ~Unfinished'
          BY <3>4, <3>6
        <5>2. ~Pending'
          BY <3>2, <4>2, <5>1 DEF Pending
        <5> QED
          BY <1>4, <5>2 DEF Observe
      <4> QED
        BY <3>2, <4>1, <4>2 DEF Steady
    <3> QED
      BY <3>3, <3>4, <3>5, <3>6
  <2>4. CheckInv(t)'
    BY <1>1, <1>2, <1>4, <2>2, <2>3 DEF CheckInv, Checking
  <2> QED
    BY <2>4
<1> QED
  BY <1>3, <1>4

(* Hence a step that starts goroutines at most, and is steady while the    *)
(* same turn end is owed, keeps them for all goroutines.                   *)
LEMMA ChecksKept ==
  ASSUME IInv, Typed', FlagInv', Observe, SettlersMove, serving' = serving,
         settler' = settler \/ serving,
         seq <= seq', owed' = owed \/ owed' = 0 \/ owed' > seq,
         owed' = owed /\ owed # 0 => Steady
  PROVE  \A t \in Settlers : CheckInv(t)'
<1> TAKE t \in Settlers
<1>1. settler'[t] = settler[t] \/ settler'[t].pc \in {"rest", "start"}
  BY RecordFacts DEF SettlersMove
<1>2. settler'[t].pc # "rest" => serving'
  BY DEF IInv, CheckInv
<1> QED
  BY <1>1, <1>2, CheckKept

(* The conclusions of the settling goroutines survive every step.          *)
LEMMA CheckStep ==
  ASSUME IInv, Next, Typed', FlagInv'
  PROVE  \A t \in Settlers : CheckInv(t)'
<1>1. /\ job \in [Jobs -> {"none", "running", "exited", "notified"}]
      /\ settler \in [Settlers -> SettlerRec] /\ FlagInv /\ seq \in Nat /\ owed \in Nat
      /\ serving \in BOOLEAN /\ mem \in BOOLEAN /\ loaded \in BOOLEAN
  BY DEF IInv, Typed
<1>2. owed # 0 => serving /\ ~mem /\ ~working /\ ~handed /\ loop \notin {"turn", "ending"}
  BY <1>1, OwedFacts
<1>3. \A S : Begin(S) => SettlersMove
  BY <1>1, BeginFacts
<1>4. settleTurnEnds => SettlersMove
  BY <1>1, SettleFacts
<1>5. settler' = settler => SettlersMove
  BY DEF SettlersMove
<1>6. job' = job => (Unfinished' => Unfinished)
  BY DEF Unfinished
<1>7. ASSUME job' = job, loaded' = loaded, undrainable' = undrainable PROVE Steady
  BY <1>6, <1>7 DEF Steady
<1>8. loop \in {"turn", "ending"} => serving
  BY <1>1 DEF FlagInv
<1>9. ASSUME NEW j \in Jobs, Background(j) PROVE \A t \in Settlers : CheckInv(t)'
  <2>1. Observe /\ serving' = serving /\ SettlersMove /\ (settler' = settler \/ serving)
    BY <1>3, <1>4, <1>5, <1>8, <1>9 DEF Background
  <2>2. seq <= seq' /\ (owed' = owed \/ owed' = 0 \/ owed' > seq)
    BY <1>1, <1>9 DEF Background, history
  <2>3. owed = 0
    BY <1>2, <1>9 DEF Background
  <2> QED
    BY <2>1, <2>2, <2>3, ChecksKept
<1>10. ASSUME NEW j \in Jobs, ProcessExits(j) PROVE \A t \in Settlers : CheckInv(t)'
  <2>1. Observe /\ serving' = serving /\ SettlersMove /\ (settler' = settler \/ serving)
    BY <1>3, <1>4, <1>5, <1>8, <1>10 DEF ProcessExits
  <2>2. seq <= seq' /\ (owed' = owed \/ owed' = 0 \/ owed' > seq)
    BY <1>1, <1>10 DEF ProcessExits, history
  <2>3. Steady
    BY <1>7, <1>10 DEF ProcessExits, durable, manager
  <2> QED
    BY <2>1, <2>2, <2>3, ChecksKept
<1>11. ASSUME NEW j \in Jobs, reportBackgroundJobExit(j) PROVE \A t \in Settlers : CheckInv(t)'
  <2>1. Observe /\ serving' = serving /\ SettlersMove /\ (settler' = settler \/ serving)
    BY <1>3, <1>4, <1>5, <1>8, <1>11 DEF reportBackgroundJobExit, MarkBackgroundJobExited
  <2>2. seq <= seq' /\ (owed' = owed \/ owed' = 0 \/ owed' > seq)
    BY <1>1, <1>11 DEF reportBackgroundJobExit, MarkBackgroundJobExited, history
  <2>3. Unfinished' => Unfinished
    BY <1>1, <1>11 DEF Unfinished, reportBackgroundJobExit, MarkBackgroundJobExited
  <2>4. Steady
    BY <1>11, <2>3 DEF Steady, reportBackgroundJobExit, manager
  <2> QED
    BY <2>1, <2>2, <2>4, ChecksKept
<1>12. ASSUME NEW j \in Jobs, deliverBackgroundJobNotice(j) PROVE \A t \in Settlers : CheckInv(t)'
  <2>1. Observe /\ serving' = serving /\ SettlersMove /\ (settler' = settler \/ serving)
    BY <1>3, <1>4, <1>5, <1>8, <1>12 DEF deliverBackgroundJobNotice, queueMessage
  <2>2. seq <= seq' /\ (owed' = owed \/ owed' = 0 \/ owed' > seq)
    BY <1>1, <1>12 DEF deliverBackgroundJobNotice, queueMessage, history
  <2>3. job' = job /\ loaded' /\ undrainable' \in {undrainable, None}
    BY <1>12 DEF deliverBackgroundJobNotice, queueMessage
  <2>4. Steady
    BY <1>6, <2>3 DEF Steady
  <2> QED
    BY <2>1, <2>2, <2>4, ChecksKept
<1>13. ASSUME NEW j \in Jobs, MarkBackgroundJobNotified(j) PROVE \A t \in Settlers : CheckInv(t)'
  <2>1. Observe /\ serving' = serving /\ SettlersMove /\ (settler' = settler \/ serving)
    BY <1>3, <1>4, <1>5, <1>8, <1>13 DEF MarkBackgroundJobNotified
  <2>2. seq <= seq' /\ (owed' = owed \/ owed' = 0 \/ owed' > seq)
    BY <1>1, <1>13 DEF MarkBackgroundJobNotified, history
  <2>3. Unfinished' => Unfinished
    BY <1>1, <1>13 DEF Unfinished, MarkBackgroundJobNotified
  <2>4. Steady
    BY <1>13, <2>3 DEF Steady, MarkBackgroundJobNotified, manager
  <2> QED
    BY <2>1, <2>2, <2>4, ChecksKept
<1>14. ASSUME NEW j \in Jobs, ReportFails(j) PROVE \A t \in Settlers : CheckInv(t)'
  <2>1. Observe /\ serving' = serving /\ SettlersMove /\ (settler' = settler \/ serving)
    BY <1>3, <1>4, <1>5, <1>8, <1>14 DEF ReportFails
  <2>2. seq <= seq' /\ (owed' = owed \/ owed' = 0 \/ owed' > seq)
    BY <1>1, <1>14 DEF ReportFails, history
  <2>3. Steady
    BY <1>7, <1>14 DEF ReportFails, durable, manager
  <2> QED
    BY <2>1, <2>2, <2>3, ChecksKept
<1>15. ASSUME NEW j \in Jobs, NoticeFails(j) PROVE \A t \in Settlers : CheckInv(t)'
  <2>1. Observe /\ serving' = serving /\ SettlersMove /\ (settler' = settler \/ serving)
    BY <1>3, <1>4, <1>5, <1>8, <1>15 DEF NoticeFails
  <2>2. seq <= seq' /\ (owed' = owed \/ owed' = 0 \/ owed' > seq)
    BY <1>1, <1>15 DEF NoticeFails, history
  <2>3. Steady
    BY <1>7, <1>15 DEF NoticeFails, durable, manager
  <2> QED
    BY <2>1, <2>2, <2>3, ChecksKept
<1>16. ASSUME NEW j \in Jobs, handleKillBackgroundJob(j) PROVE \A t \in Settlers : CheckInv(t)'
  <2>1. Observe /\ serving' = serving /\ SettlersMove /\ (settler' = settler \/ serving)
    BY <1>3, <1>4, <1>5, <1>8, <1>16 DEF handleKillBackgroundJob, MarkBackgroundJobExited
  <2>2. seq <= seq' /\ (owed' = owed \/ owed' = 0 \/ owed' > seq)
    BY <1>1, <1>16 DEF handleKillBackgroundJob, MarkBackgroundJobExited, history
  <2>3. Unfinished' => Unfinished
    BY <1>1, <1>16 DEF Unfinished, handleKillBackgroundJob, MarkBackgroundJobExited
  <2>4. Steady
    BY <1>16, <2>3 DEF Steady, handleKillBackgroundJob, manager
  <2> QED
    BY <2>1, <2>2, <2>4, ChecksKept
<1>17. ASSUME AcceptUserMessage PROVE \A t \in Settlers : CheckInv(t)'
  <2>1. Observe /\ serving' = serving /\ SettlersMove /\ (settler' = settler \/ serving)
    BY <1>3, <1>4, <1>5, <1>8, <1>17 DEF AcceptUserMessage, queueMessage, StartTurn
  <2>2. seq <= seq' /\ (owed' = owed \/ owed' = 0 \/ owed' > seq)
    BY <1>1, <1>17 DEF AcceptUserMessage, queueMessage, StartTurn, history
  <2>3. owed' = 0 \/ owed = 0
    BY <1>2, <1>17 DEF AcceptUserMessage, queueMessage, StartTurn
  <2> QED
    BY <2>1, <2>2, <2>3, ChecksKept
<1>18. ASSUME LoopStartsTurn PROVE \A t \in Settlers : CheckInv(t)'
  <2>1. Observe /\ serving' = serving /\ SettlersMove /\ (settler' = settler \/ serving)
    BY <1>3, <1>4, <1>5, <1>8, <1>18 DEF LoopStartsTurn
  <2>2. seq <= seq' /\ (owed' = owed \/ owed' = 0 \/ owed' > seq)
    BY <1>1, <1>18 DEF LoopStartsTurn, history
  <2>3. Steady
    BY <1>7, <1>18 DEF LoopStartsTurn, durable, manager
  <2> QED
    BY <2>1, <2>2, <2>3, ChecksKept
<1>19. ASSUME syncAgentWorking PROVE \A t \in Settlers : CheckInv(t)'
  <2>1. Observe /\ serving' = serving /\ SettlersMove /\ (settler' = settler \/ serving)
    BY <1>3, <1>4, <1>5, <1>8, <1>19 DEF syncAgentWorking, announceTurnEnd, OweTurnEnd
  <2>2. seq <= seq' /\ (owed' = owed \/ owed' = 0 \/ owed' > seq)
    BY <1>1, <1>19 DEF syncAgentWorking, announceTurnEnd, OweTurnEnd, history
  <2>3. Steady
    BY <1>7, <1>19 DEF syncAgentWorking, durable, manager
  <2> QED
    BY <2>1, <2>2, <2>3, ChecksKept
<1>20. ASSUME notifySubscribers PROVE \A t \in Settlers : CheckInv(t)'
  <2>1. Observe /\ serving' = serving /\ SettlersMove /\ (settler' = settler \/ serving)
    BY <1>3, <1>4, <1>5, <1>8, <1>20 DEF notifySubscribers
  <2>2. seq <= seq' /\ (owed' = owed \/ owed' = 0 \/ owed' > seq)
    BY <1>1, <1>20 DEF notifySubscribers, history
  <2>3. Steady
    BY <1>7, <1>20 DEF notifySubscribers, durable, manager
  <2> QED
    BY <2>1, <2>2, <2>3, ChecksKept
<1>21. ASSUME takeInjectable PROVE \A t \in Settlers : CheckInv(t)'
  <2>1. Observe /\ serving' = serving /\ SettlersMove /\ (settler' = settler \/ serving)
    BY <1>3, <1>4, <1>5, <1>8, <1>21 DEF takeInjectable
  <2>2. seq <= seq' /\ (owed' = owed \/ owed' = 0 \/ owed' > seq)
    BY <1>1, <1>21 DEF takeInjectable, history
  <2>3. Steady
    BY <1>7, <1>21 DEF takeInjectable, durable, manager
  <2> QED
    BY <2>1, <2>2, <2>3, ChecksKept
<1>22. ASSUME EndRowCommits PROVE \A t \in Settlers : CheckInv(t)'
  <2>1. Observe /\ serving' = serving /\ SettlersMove /\ (settler' = settler \/ serving)
    BY <1>3, <1>4, <1>5, <1>8, <1>22 DEF EndRowCommits
  <2>2. seq <= seq' /\ (owed' = owed \/ owed' = 0 \/ owed' > seq)
    BY <1>1, <1>22 DEF EndRowCommits, history
  <2>3. Steady
    BY <1>7, <1>22 DEF EndRowCommits, durable, manager
  <2> QED
    BY <2>1, <2>2, <2>3, ChecksKept
<1>23. ASSUME NotifyFails PROVE \A t \in Settlers : CheckInv(t)'
  <2>1. Observe /\ serving' = serving /\ SettlersMove /\ (settler' = settler \/ serving)
    BY <1>3, <1>4, <1>5, <1>8, <1>23 DEF NotifyFails
  <2>2. seq <= seq' /\ (owed' = owed \/ owed' = 0 \/ owed' > seq)
    BY <1>1, <1>23 DEF NotifyFails, history
  <2>3. Steady
    BY <1>7, <1>23 DEF NotifyFails, durable, manager
  <2> QED
    BY <2>1, <2>2, <2>3, ChecksKept
<1>24. ASSUME DrainRests PROVE \A t \in Settlers : CheckInv(t)'
  <2>1. Observe /\ serving' = serving /\ SettlersMove /\ (settler' = settler \/ serving)
    BY <1>3, <1>4, <1>5, <1>8, <1>24 DEF DrainRests
  <2>2. seq <= seq' /\ (owed' = owed \/ owed' = 0 \/ owed' > seq)
    BY <1>1, <1>24 DEF DrainRests, history
  <2>3. Steady
    BY <1>7, <1>24 DEF DrainRests, durable, manager
  <2> QED
    BY <2>1, <2>2, <2>3, ChecksKept
<1>25. ASSUME DrainStartsTurn PROVE \A t \in Settlers : CheckInv(t)'
  <2>1. Observe /\ serving' = serving /\ SettlersMove /\ (settler' = settler \/ serving)
    BY <1>3, <1>4, <1>5, <1>8, <1>25 DEF DrainStartsTurn, StartTurn
  <2>2. seq <= seq' /\ (owed' = owed \/ owed' = 0 \/ owed' > seq)
    BY <1>1, <1>25 DEF DrainStartsTurn, StartTurn, history
  <2>3. owed' = 0 \/ owed = 0
    BY <1>2, <1>25 DEF DrainStartsTurn, StartTurn
  <2> QED
    BY <2>1, <2>2, <2>3, ChecksKept
<1>26. ASSUME DrainFails PROVE \A t \in Settlers : CheckInv(t)'
  <2>1. Observe /\ serving' = serving /\ SettlersMove /\ (settler' = settler \/ serving)
    BY <1>3, <1>4, <1>5, <1>8, <1>26 DEF DrainFails
  <2>2. seq <= seq' /\ (owed' = owed \/ owed' = 0 \/ owed' > seq)
    BY <1>1, <1>26 DEF DrainFails, history
  <2>3. job' = job /\ queue' = queue /\ undrainable' = Head(queue)
    BY <1>26 DEF DrainFails, durable
  <2>4. ~Drainable(queue)'
    BY <2>3 DEF Drainable
  <2>5. Steady
    BY <1>6, <2>3, <2>4 DEF Steady
  <2> QED
    BY <2>1, <2>2, <2>5, ChecksKept
<1>27. ASSUME handleFatalLoopExit PROVE \A t \in Settlers : CheckInv(t)'
  <2>1. Observe /\ serving' = serving /\ SettlersMove /\ (settler' = settler \/ serving)
    BY <1>3, <1>4, <1>5, <1>8, <1>27 DEF handleFatalLoopExit, announceTurnEnd, OweTurnEnd
  <2>2. seq <= seq' /\ (owed' = owed \/ owed' = 0 \/ owed' > seq)
    BY <1>1, <1>27 DEF handleFatalLoopExit, announceTurnEnd, OweTurnEnd, history
  <2>3. owed = 0
    BY <1>2, <1>27 DEF handleFatalLoopExit
  <2> QED
    BY <2>1, <2>2, <2>3, ChecksKept
<1>28. ASSUME CancelConversation PROVE \A t \in Settlers : CheckInv(t)'
  <2>1. Observe /\ serving' = serving /\ SettlersMove /\ (settler' = settler \/ serving)
    BY <1>3, <1>4, <1>5, <1>8, <1>28 DEF CancelConversation, OweTurnEnd
  <2>2. seq <= seq' /\ (owed' = owed \/ owed' = 0 \/ owed' > seq)
    BY <1>1, <1>28 DEF CancelConversation, OweTurnEnd, history
  <2>3. Steady
    BY <1>7, <1>28 DEF CancelConversation, durable, manager
  <2> QED
    BY <2>1, <2>2, <2>3, ChecksKept
<1>29. ASSUME CancelQueuedMessages PROVE \A t \in Settlers : CheckInv(t)'
  <2>1. Observe /\ serving' = serving /\ SettlersMove /\ (settler' = settler \/ serving)
    BY <1>3, <1>4, <1>5, <1>8, <1>29 DEF CancelQueuedMessages
  <2>2. seq <= seq' /\ (owed' = owed \/ owed' = 0 \/ owed' > seq)
    BY <1>1, <1>29 DEF CancelQueuedMessages, history
  <2>3. Steady
    BY <1>7, <1>29 DEF CancelQueuedMessages, durable, manager
  <2> QED
    BY <2>1, <2>2, <2>3, ChecksKept
<1>30. ASSUME Cleanup PROVE \A t \in Settlers : CheckInv(t)'
  <2>1. Observe /\ serving' = serving /\ SettlersMove /\ (settler' = settler \/ serving)
    BY <1>3, <1>4, <1>5, <1>8, <1>30 DEF Cleanup
  <2>2. seq <= seq' /\ (owed' = owed \/ owed' = 0 \/ owed' > seq)
    BY <1>1, <1>30 DEF Cleanup, history
  <2>3. job' = job /\ ~loaded'
    BY <1>30 DEF Cleanup, durable
  <2>4. ~Drainable(queue)'
    BY <2>3 DEF Drainable
  <2>5. Steady
    BY <1>6, <2>3, <2>4 DEF Steady
  <2> QED
    BY <2>1, <2>2, <2>5, ChecksKept
<1>31. ASSUME Die PROVE \A t \in Settlers : CheckInv(t)'
  BY <1>31, RecordFacts DEF Die, CheckInv, Checking
<1>32. ASSUME StartServing PROVE \A t \in Settlers : CheckInv(t)'
  <2> TAKE t \in Settlers
  <2>1. settler'[t] = settler[t] /\ settler[t].pc = "rest"
    BY <1>32 DEF StartServing, IInv, CheckInv
  <2> QED
    BY <2>1 DEF CheckInv, Checking
<1>33. ASSUME NEW u \in Settlers, takeOwedTurnEnd(u) PROVE \A t \in Settlers : CheckInv(t)'
  <2> TAKE t \in Settlers
  <2>1. /\ Observe /\ serving /\ serving' /\ seq' = seq /\ job' = job /\ loaded' = loaded
        /\ undrainable' = undrainable /\ queue' = queue /\ working' = working /\ handed' = handed
    BY <1>33 DEF takeOwedTurnEnd, durable, manager
  <2>2. owed' = owed \/ owed' = 0
    BY <1>33 DEF takeOwedTurnEnd, SettleStarts, willWorkAgain, dropOwedTurnEnd
  <2>3. Steady
    BY <1>7, <2>1
  <2>4. CASE t # u
    <3>1. settler'[t] = settler[t]
      BY <1>1, <1>33, <2>4 DEF takeOwedTurnEnd, SettleStarts, willWorkAgain, dropOwedTurnEnd
    <3> QED
      BY <1>1, <2>1, <2>2, <2>3, <3>1, CheckKept
  <2>5. CASE t = u
    <3>1. settler[t] \in SettlerRec /\ CheckInv(t)
      BY <1>1 DEF IInv
    <3>2. CASE settler'[t].pc \in {"rest", "start"}
      BY <2>1, <3>2 DEF CheckInv, Checking
    <3>3. CASE /\ settler[t].pc = "start" /\ owed # 0 /\ owed' = owed
               /\ settler'[t] = [settler[t] EXCEPT !.pc = "jobs", !.owed = owed]
      <4>1. settler'[t].pc = "jobs" /\ settler'[t].owed = owed
        BY <3>1, <3>3 DEF SettlerRec
      <4>2. owed > 0 /\ owed <= seq
        BY <1>1, <3>3 DEF IInv, SentInv
      <4> QED
        BY <2>1, <3>3, <4>1, <4>2 DEF CheckInv, Checking
    <3>4. CASE /\ settler[t].pc = "jobs" /\ ~Unfinished /\ owed' = owed
               /\ settler'[t] = [settler[t] EXCEPT !.pc = "conv"]
      <4>1. settler'[t].pc = "conv" /\ settler'[t].owed = settler[t].owed
        BY <3>1, <3>4 DEF SettlerRec
      <4>2. ~Unfinished'
        BY <2>1, <3>4 DEF Unfinished
      <4> QED
        BY <2>1, <3>1, <3>4, <4>1, <4>2 DEF CheckInv, Checking
    <3>5. CASE /\ settler[t].pc = "conv" /\ owed' = owed
               /\ settler'[t] = [settler[t] EXCEPT !.pc = "loop", !.queue = queue]
      <4>1. settler'[t].pc = "loop" /\ settler'[t].owed = settler[t].owed /\ settler'[t].queue = queue
        BY <3>1, <3>5 DEF SettlerRec
      <4>2. settler[t].owed > 0 /\ settler[t].owed <= seq /\ settler[t].owed \in Nat
        BY <3>1, <3>5 DEF CheckInv, Checking, SettlerRec
      <4>3. ASSUME settler[t].owed = owed
            PROVE  ~Unfinished' /\ (t \in sawIdle' \/ Drainable(settler[t].queue)')
        <5>1. ~Unfinished'
          BY <2>1, <3>1, <3>5, <4>3 DEF CheckInv, Checking, Unfinished
        <5>2. ~working' /\ ~handed'
          BY <1>2, <2>1, <4>2, <4>3
        <5>3. CASE Drainable(queue)'
          BY <2>1, <4>1, <5>1, <5>3 DEF Drainable
        <5>4. CASE ~Drainable(queue)'
          <6>1. ~Pending'
            BY <5>1, <5>2, <5>4 DEF Pending
          <6> QED
            BY <2>1, <4>1, <5>1, <6>1 DEF Observe
        <5> QED
          BY <5>3, <5>4
      <4> QED
        BY <2>1, <3>5, <4>1, <4>2, <4>3 DEF CheckInv, Checking
    <3>6. CASE /\ settler[t].pc = "loop" /\ ~Drainable(settler[t].queue) /\ owed' = owed
               /\ settler'[t] = [settler[t] EXCEPT !.pc = "drop"]
      <4>1. settler'[t].pc = "drop" /\ settler'[t].owed = settler[t].owed
        BY <3>1, <3>6 DEF SettlerRec
      <4>2. settler[t].owed > 0 /\ settler[t].owed <= seq
        BY <3>1, <3>6 DEF CheckInv, Checking
      <4>3. ASSUME settler[t].owed = owed
            PROVE  ~Unfinished' /\ t \in sawIdle'
        <5>1. ~Unfinished' /\ t \in sawIdle
          BY <2>1, <3>1, <3>6, <4>3 DEF CheckInv, Checking, Unfinished
        <5> QED
          BY <2>1, <4>1, <5>1 DEF Observe
      <4> QED
        BY <2>1, <3>6, <4>1, <4>2, <4>3 DEF CheckInv, Checking
    <3> QED
      <4>1. \A r : settler' = [settler EXCEPT ![t] = r] => settler'[t] = r
        BY <1>1
      <4>2. SettleStarts(t) \/ willWorkAgain(t) \/ dropOwedTurnEnd(t)
        BY <1>33, <2>5 DEF takeOwedTurnEnd
      <4>3. CASE SettleStarts(t)
        BY <1>1, <3>2, <3>3, <4>3, RecordFacts DEF SettleStarts
      <4>4. CASE willWorkAgain(t)
        BY <1>1, <3>2, <3>4, <3>5, <3>6, <4>4, RecordFacts DEF willWorkAgain
      <4>5. CASE dropOwedTurnEnd(t)
        BY <1>1, <3>2, <4>5, RecordFacts DEF dropOwedTurnEnd
      <4> QED
        BY <4>2, <4>3, <4>4, <4>5
  <2> QED
    BY <2>4, <2>5
<1> QED
  BY <1>9, <1>10, <1>11, <1>12, <1>13, <1>14, <1>15, <1>16, <1>17, <1>18, <1>19, <1>20, <1>21, <1>22, <1>23, <1>24, <1>25, <1>26, <1>27, <1>28, <1>29, <1>30, <1>31, <1>32, <1>33 DEF Next, JobStep, Drain, LoopStep

-----------------------------------------------------------------------------
(* In the initial state nothing runs and nothing is owed.                  *)
LEMMA InitInv == Init => IInv
<1> SUFFICES ASSUME Init PROVE IInv
  OBVIOUS
<1> USE TurnEndsAssumption
<1>1. Typed
  <2>1. settler \in [Settlers -> SettlerRec]
    BY RecordFacts DEF Init
  <2>2. /\ working \in BOOLEAN /\ serving \in BOOLEAN /\ loaded \in BOOLEAN
        /\ mem \in BOOLEAN /\ handed \in BOOLEAN /\ wake \in BOOLEAN
    BY Zenon DEF Init
  <2>3. queue \in Seq(Jobs \cup {User}) /\ sent \in Seq(Nat)
    BY DEF Init
  <2>4. watch \in [Jobs -> BOOLEAN]
    BY DEF Init
  <2> QED
    BY <2>1, <2>2, <2>3, <2>4 DEF Typed, Init
<1>2. SentInv
  BY DEF SentInv, Init
<1>3. FlagInv
  BY DEF FlagInv, Init
<1>4. \A j \in Jobs : JobInv(j)
  BY DEF JobInv, Init
<1>5. \A t \in Settlers : CheckInv(t)
  BY RecordFacts DEF CheckInv, Checking, Init
<1> QED
  BY <1>1, <1>2, <1>3, <1>4, <1>5 DEF IInv

(* Every step preserves the invariant.                                     *)
LEMMA StepInv == IInv /\ [Next]_vars => IInv'
<1> SUFFICES ASSUME IInv, [Next]_vars PROVE IInv'
  OBVIOUS
<1>1. CASE Next
  <2>1. Typed' /\ FlagInv'
    BY <1>1, TypeStep, FlagStep
  <2> QED
    BY <1>1, <2>1, SentStep, JobsStep, CheckStep DEF IInv
<1>2. CASE UNCHANGED vars
  <2>1. UNCHANGED <<job, proc, working, queue, serving, loaded, mem, loop, handed, wake,
                    undrainable, watch, due, queued, owed, settler, seq, sent, noticed,
                    gaveUp, left, sawIdle>>
    BY <1>2 DEF vars, durable, manager, jobWork, history
  <2>2. Typed'
    BY <2>1 DEF IInv, Typed
  <2>3. SentInv' /\ FlagInv'
    BY <2>1 DEF IInv, SentInv, FlagInv
  <2>4. \A j \in Jobs : JobInv(j)'
    BY <2>1 DEF IInv, JobInv
  <2>5. \A t \in Settlers : CheckInv(t)'
    BY <2>1 DEF IInv, CheckInv, Checking, Unfinished, Drainable
  <2> QED
    BY <2>2, <2>3, <2>4, <2>5 DEF IInv
<1> QED
  BY <1>1, <1>2

(* IInv is an invariant of jobs, notices, turns and announcements, for any *)
(* jobs, any number of settling goroutines and any number of restarts.     *)
THEOREM Invariance == Spec => []IInv
<1> QED
  BY InitInv, StepInv, PTL DEF Spec

(* takeOwedTurnEnd and dropOwedTurnEnd, MarkBackgroundJobExited: turn ends *)
(* are announced at most once and in order, and a process queues a job's   *)
(* notice at most once.                                                    *)
THEOREM EndsAnnouncedOnce == Spec => []AnnouncedOnce
<1>1. ASSUME IInv PROVE AnnouncedOnce
  <2>1. ASSUME NEW j \in Jobs PROVE noticed[j] <= 1
    <3>1. noticed[j] \in Nat /\ due[j] \in Nat /\ noticed[j] + due[j] <= 1
      BY <1>1, <2>1 DEF IInv, Typed, JobInv
    <3> QED
      BY <3>1
  <2> QED
    BY <1>1, <2>1 DEF IInv, SentInv, AnnouncedOnce
<1> QED
  BY <1>1, Invariance, PTL

(* willWorkAgain reads jobs, conversation and loop one by one, without a   *)
(* lock: a goroutine that announces has nevertheless seen a moment at      *)
(* which nothing was pending.                                              *)
THEOREM AnnouncesOnlyIdle == Spec => NoFalseFinish
<1>1. ASSUME IInv
      PROVE  [\A t \in Settlers :
                 settler[t].pc = "drop" /\ settler[t].owed = owed /\ owed' = 0 /\ sent' # sent =>
                     t \in sawIdle]_vars
  BY <1>1 DEF IInv, CheckInv, Checking
<1> QED
  BY <1>1, Invariance, PTL DEF NoFalseFinish
=============================================================================
