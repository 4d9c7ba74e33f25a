--------------------------- MODULE RecoveryProofs ---------------------------
(***************************************************************************)
(* What restarts, resume workers and requests keep in every run, for any   *)
(* set of conversations and any number of restarts, sends and failures: an *)
(* open turn stays recorded, a working flag has an owner, a late resume    *)
(* touches nothing but the turn it was started for, and no tool call is    *)
(* left unanswered by recovery.                                            *)
(***************************************************************************)
EXTENDS Recovery, WellFoundedInduction, TLAPS

(* A process that is down has nothing in memory.                           *)
DownInv ==
  phase = "down" =>
    \A c \in Convs : live[c] = "none" /\ token[c] = NoToken /\ op[c] = "free"

(* A flag, a row, a loop or a worker is there because a turn was started.  *)
StartedInv(c) ==
  \/ working[c] \/ interrupted[c] \/ rows[c] # <<>> \/ live[c] # "none"
  \/ op[c] \notin {"free", "accepting"}
  => turn[c] > 0

(* The flags and the transcript of an open turn.                           *)
OpenInv(c) ==
  /\ working[c] \/ interrupted[c] => open[c]
  /\ open[c] => ~LatestTurnEndedWithAgent(rows[c])
  /\ open[c] /\ c \in Top => working[c] \/ interrupted[c] \/ c \in dropped

(* The loop, and who may be inside the lifecycle lock beside it.           *)
LoopInv(c) ==
  /\ live[c] # "none" => ~interrupted[c]
  /\ op[c] = "accepting" => live[c] \in {"none", "idle", "dead"}
  /\ op[c] = "stopping" => live[c] = "none" /\ ~interrupted[c]
  /\ op[c] \in {"continuing", "prepared"} => interrupted[c] /\ ~working[c] /\ ~Holding(c)

(* A token never runs ahead of the transcript, and while the transcript    *)
(* has not moved on it names the latest turn, which has no loop.           *)
TokenInv(c) ==
  Holding(c) =>
    /\ token[c].turn > 0
    /\ token[c].user <= MaxUserSequenceID(rows[c])
    /\ MaxUserSequenceID(rows[c]) = token[c].user =>
         token[c].turn = turn[c] /\ live[c] = "none" /\ op[c] # "stopping"
    /\ op[c] \notin {"claimed", "repaired"} => ~interrupted[c]

(* A worker past its claim.                                                *)
ClaimInv(c) ==
  /\ op[c] \in AutoStages => Holding(c) /\ TokenCurrent(c)
  /\ op[c] \in {"claimed", "repaired"} => interrupted[c]

(* Who answers for a working flag.                                         *)
OwnerInv(c) ==
  phase = "serving" /\ working[c] /\ op[c] \in {"free", "accepting"} =>
    \/ live[c] \in Busy \cup {"failed"}
    \/ Holding(c) /\ TokenCurrent(c)
    \/ c \in unowned

ConvInv(c) ==
  /\ StartedInv(c) /\ OpenInv(c) /\ LoopInv(c)
  /\ TokenInv(c) /\ ClaimInv(c) /\ OwnerInv(c)

(* A call whose results come next, or that was left when nothing told of   *)
(* an interruption.                                                        *)
Answered(c, i) ==
  \/ <<c, i>> \in abandoned
  \/ \E j \in Actionable(rows[c]) :
        /\ j > i /\ rows[c][j] = "result"
        /\ \A k \in Actionable(rows[c]) : k > i => j <= k

(* Only the last row of a turn may be a call that is still unanswered, and *)
(* only while its tools run, or after they were cut off or could not write *)
(* their results.                                                          *)
CallInv(c) ==
  \A i \in Actionable(rows[c]) :
    rows[c][i] = "call" =>
      \/ Answered(c, i)
      \/ /\ \A k \in Actionable(rows[c]) : k <= i
         /\ live[c] \notin {"idle", "turn", "dead", "stuck"}
         /\ op[c] \notin {"accepting", "repaired", "finished", "warned", "prepared", "stopping"}

(* The inductive invariant.                                                *)
IInv ==
  /\ TypeOK /\ DownInv
  /\ \A c \in Convs : ConvInv(c)
  /\ \A c \in Top : CallInv(c)

-----------------------------------------------------------------------------
(* LastOf finds the last of a set of positions, whichever there are.       *)
LEMMA LastOfPositions ==
  ASSUME NEW n \in Nat, NEW S \in SUBSET (1..n)
  PROVE  /\ S = {} => LastOf(S) = 0
         /\ S # {} => LastOf(S) \in S /\ \A j \in S : j <= LastOf(S)
<1>1. CASE S = {}
  BY <1>1 DEF LastOf
<1>2. CASE S # {}
  <2> DEFINE T == {n - j : j \in S}
  <2>1. T \subseteq Nat /\ T # {}
    <3>1. \A j \in S : n - j \in Nat
      OBVIOUS
    <3> QED
      BY <1>2, <3>1
  <2>2. PICK x \in T : \A y \in T : ~(<<y, x>> \in OpToRel(<, Nat))
    BY <2>1, WFMin, NatLessThanWellFounded
  <2>3. PICK m \in S : x = n - m
    OBVIOUS
  <2>4. \A j \in S : j <= m
    <3> SUFFICES ASSUME NEW j \in S PROVE j <= m
      OBVIOUS
    <3>1. n - j \in T /\ n - j \in Nat /\ x \in Nat
      BY <2>1
    <3>2. ~(n - j < x)
      BY <2>2, <3>1 DEF OpToRel
    <3> QED
      BY <3>1, <3>2, <2>3
  <2> QED
    BY <1>2, <2>4 DEF LastOf
<1> QED
  BY <1>1, <1>2

(* A position after all the others is the last one.                        *)
LEMMA LastOfNewest ==
  ASSUME NEW n \in Nat, NEW S \in SUBSET (1..n)
  PROVE  LastOf(S \cup {n + 1}) = n + 1
<1>1. S \cup {n + 1} \in SUBSET (1..(n + 1)) /\ n + 1 \in Nat
  OBVIOUS
<1>2. /\ LastOf(S \cup {n + 1}) \in S \cup {n + 1}
      /\ \A j \in S \cup {n + 1} : j <= LastOf(S \cup {n + 1})
  BY <1>1, LastOfPositions
<1>3. LastOf(S \cup {n + 1}) \in 1..(n + 1) /\ n + 1 <= LastOf(S \cup {n + 1})
  BY <1>1, <1>2
<1> QED
  BY <1>3

(* The rows a transaction reads once a row is appended.                    *)
LEMMA AppendRow ==
  ASSUME NEW s \in Seq(RowKinds), NEW r \in RowKinds
  PROVE  /\ Append(s, r) \in Seq(RowKinds) /\ Append(s, r) # <<>>
         /\ Len(Append(s, r)) = Len(s) + 1
         /\ Append(s, r)[Len(s) + 1] = r
         /\ \A i \in DOMAIN s : i \in 1..Len(s) /\ Append(s, r)[i] = s[i]
         /\ DOMAIN Append(s, r) = DOMAIN s \cup {Len(s) + 1}
         /\ Actionable(Append(s, r)) =
               IF r = "warning" THEN Actionable(s) ELSE Actionable(s) \cup {Len(s) + 1}
<1>1. /\ Append(s, r) \in Seq(RowKinds) /\ Append(s, r) # <<>>
      /\ Len(Append(s, r)) = Len(s) + 1
      /\ Append(s, r)[Len(s) + 1] = r
      /\ \A i \in DOMAIN s : i \in 1..Len(s) /\ Append(s, r)[i] = s[i]
      /\ DOMAIN Append(s, r) = DOMAIN s \cup {Len(s) + 1}
  OBVIOUS
<1> QED
  BY <1>1 DEF Actionable

(* The version of a turn: it never exceeds the transcript, and a row of    *)
(* type user, and no other, advances it beyond every earlier one.          *)
LEMMA MaxUser ==
  ASSUME NEW s \in Seq(RowKinds)
  PROVE  /\ MaxUserSequenceID(s) \in 0..Len(s)
         /\ \A r \in RowKinds : MaxUserSequenceID(Append(s, r)) =
               IF r \in {"user", "result"} THEN Len(s) + 1 ELSE MaxUserSequenceID(s)
<1> DEFINE U(t) == {i \in DOMAIN t : t[i] \in {"user", "result"}}
<1>1. U(s) \in SUBSET (1..Len(s)) /\ Len(s) \in Nat
  OBVIOUS
<1>2. MaxUserSequenceID(s) \in 0..Len(s)
  <2>1. MaxUserSequenceID(s) = LastOf(U(s))
    BY DEF MaxUserSequenceID
  <2> HIDE DEF U
  <2>2. LastOf(U(s)) = 0 \/ LastOf(U(s)) \in U(s)
    BY <1>1, LastOfPositions
  <2> QED
    BY <1>1, <2>1, <2>2
<1>3. ASSUME NEW r \in RowKinds
      PROVE  MaxUserSequenceID(Append(s, r)) =
               IF r \in {"user", "result"} THEN Len(s) + 1 ELSE MaxUserSequenceID(s)
  <2>1. U(Append(s, r)) = IF r \in {"user", "result"} THEN U(s) \cup {Len(s) + 1} ELSE U(s)
    BY AppendRow
  <2> QED
    BY <1>1, <2>1, LastOfNewest DEF MaxUserSequenceID
<1> QED
  BY <1>2, <1>3

(* The latest turn has ended once its end is the last row but warnings.    *)
LEMMA TurnEnded ==
  ASSUME NEW s \in Seq(RowKinds), NEW r \in RowKinds
  PROVE  LatestTurnEndedWithAgent(Append(s, r)) <=>
           r = "end" \/ (r = "warning" /\ LatestTurnEndedWithAgent(s))
<1>1. Actionable(s) \in SUBSET (1..Len(s)) /\ Len(s) \in Nat
  BY DEF Actionable
<1>2. CASE r = "warning"
  <2>1. Actionable(Append(s, r)) = Actionable(s)
    BY <1>2, AppendRow
  <2>2. LastOf(Actionable(s)) # 0 => LastOf(Actionable(s)) \in DOMAIN s
    BY <1>1, LastOfPositions DEF Actionable
  <2> QED
    BY <1>2, <2>1, <2>2, AppendRow DEF LatestTurnEndedWithAgent
<1>3. CASE r # "warning"
  <2>1. LastOf(Actionable(Append(s, r))) = Len(s) + 1
    <3>1. Actionable(Append(s, r)) = Actionable(s) \cup {Len(s) + 1}
      BY <1>3, AppendRow
    <3> QED
      BY <1>1, <3>1, LastOfNewest
  <2> QED
    BY <1>1, <1>3, <2>1, AppendRow DEF LatestTurnEndedWithAgent
<1> QED
  BY <1>2, <1>3

(* A transcript whose last row is an error has not ended with the agent.   *)
LEMMA ErrorIsNoEnd ==
  ASSUME NEW s \in Seq(RowKinds), s # <<>>, s[Len(s)] = "error"
  PROVE  ~LatestTurnEndedWithAgent(s)
<1>1. Actionable(s) \in SUBSET (1..Len(s)) /\ Len(s) \in Nat /\ Len(s) \in Actionable(s)
  BY DEF Actionable
<1>2. LastOf(Actionable(s)) = Len(s)
  <2>1. LastOf(Actionable(s)) \in 1..Len(s) /\ Len(s) <= LastOf(Actionable(s))
    BY <1>1, LastOfPositions
  <2> QED
    BY <1>1, <2>1
<1> QED
  BY <1>2 DEF LatestTurnEndedWithAgent

-----------------------------------------------------------------------------
(* The state of conversation d is left alone.                              *)
Same(d) ==
  /\ rows'[d] = rows[d] /\ working'[d] = working[d] /\ interrupted'[d] = interrupted[d]
  /\ live'[d] = live[d] /\ token'[d] = token[d] /\ op'[d] = op[d]
  /\ turn'[d] = turn[d] /\ open'[d] = open[d]
  /\ d \in dropped <=> d \in dropped'
  /\ d \in unowned <=> d \in unowned'

(* A step of another conversation disturbs nothing.                        *)
LEMMA SameKeeps ==
  ASSUME NEW d, ConvInv(d), Same(d), phase' = phase
  PROVE  ConvInv(d)'
<1> USE DEF Same
<1>1. StartedInv(d)' /\ OpenInv(d)' /\ LoopInv(d)'
  BY DEF ConvInv, StartedInv, OpenInv, LoopInv, Holding
<1>2. TokenInv(d)' /\ ClaimInv(d)' /\ OwnerInv(d)'
  BY DEF ConvInv, TokenInv, ClaimInv, OwnerInv, Holding, TokenCurrent
<1> QED
  BY <1>1, <1>2 DEF ConvInv

(* The steps of one conversation.                                          *)
ConvStep(c) ==
  \/ Worker(c)
  \/ Handler(c)
  \/ AcceptRepairs(c)
  \/ AcceptAborts(c)
  \/ \E lost \in BOOLEAN : RejectTurnStart(c, lost)
  \/ RecordToolCall(c)
  \/ RecordToolResults(c)
  \/ RecordFails(c)
  \/ \E lost \in BOOLEAN : handleFatalLoopExit(c, lost)
  \/ LoopExpires(c)
  \/ TurnCompletes(c)
  \/ TurnErrors(c)
  \/ EndRecordFails(c)
  \/ RetryLastLLMRequest(c)
  \/ RetryUnrecorded(c)
  \/ StopDetaches(c)
  \/ StopFails(c)
  \/ StopIdle(c)
  \/ recoverFailedUpgradeResume(c)
  \/ ManagerUnavailable(c)
  \/ TurnIsRefused(c)
  \/ ContinueInterruptedTurn(c)
  \/ ContinueFails(c)


(* A repair appends results, and only to an interrupted transcript.        *)
LEMMA RepairRow ==
  ASSUME TypeOK, NEW c \in Convs
  PROVE  \/ ClosedCalls(c) = rows[c]
         \/ /\ interrupted[c] /\ rows[c] # <<>>
            /\ ClosedCalls(c) = Append(rows[c], "result")
<1>1. rows[c] \in Seq(RowKinds)
  BY DEF TypeOK
<1>2. PendingCalls(rows[c]) # {} => rows[c] # <<>>
  BY <1>1 DEF PendingCalls
<1> QED
  BY <1>2 DEF ClosedCalls

(* What they read once row r is appended.                                  *)
AppendOK(c, r) ==
  /\ Append(rows[c], r) \in Seq(RowKinds) /\ Append(rows[c], r) # <<>>
  /\ MaxUserSequenceID(Append(rows[c], r)) \in Nat
  /\ r \in {"user", "result"} =>
        MaxUserSequenceID(rows[c]) < MaxUserSequenceID(Append(rows[c], r))
  /\ r \notin {"user", "result"} =>
        MaxUserSequenceID(Append(rows[c], r)) = MaxUserSequenceID(rows[c])
  /\ LatestTurnEndedWithAgent(Append(rows[c], r)) <=>
        r = "end" \/ (r = "warning" /\ LatestTurnEndedWithAgent(rows[c]))

(* What the transactions read of a transcript before and after a row is    *)
(* appended or its calls are closed.                                       *)
RowsOK(c) ==
  /\ rows[c] \in Seq(RowKinds) /\ ClosedCalls(c) \in Seq(RowKinds)
  /\ MaxUserSequenceID(rows[c]) \in Nat
  /\ MaxUserSequenceID(ClosedCalls(c)) \in Nat
  /\ MaxUserSequenceID(rows[c]) <= MaxUserSequenceID(ClosedCalls(c))
  /\ ClosedCalls(c) # rows[c] =>
        /\ interrupted[c] /\ rows[c] # <<>>
        /\ MaxUserSequenceID(ClosedCalls(c)) = Len(ClosedCalls(c))
        /\ ~LatestTurnEndedWithAgent(ClosedCalls(c))
  /\ \A r \in RowKinds : AppendOK(c, r)

(* A row of type user, and no other, advances the version of a transcript; *)
(* an end row, and no other, ends its turn.                                *)
LEMMA RowFacts ==
  ASSUME TypeOK, NEW c \in Convs
  PROVE  RowsOK(c)
<1>1. rows[c] \in Seq(RowKinds)
  BY DEF TypeOK
<1>2. MaxUserSequenceID(rows[c]) \in 0..Len(rows[c])
  BY <1>1, MaxUser
<1>3. ASSUME NEW r \in RowKinds
      PROVE  /\ Append(rows[c], r) \in Seq(RowKinds) /\ Append(rows[c], r) # <<>>
             /\ Len(Append(rows[c], r)) = Len(rows[c]) + 1
             /\ MaxUserSequenceID(Append(rows[c], r)) =
                  IF r \in {"user", "result"} THEN Len(rows[c]) + 1
                                              ELSE MaxUserSequenceID(rows[c])
             /\ LatestTurnEndedWithAgent(Append(rows[c], r)) <=>
                  r = "end" \/ (r = "warning" /\ LatestTurnEndedWithAgent(rows[c]))
  BY <1>1, AppendRow, MaxUser, TurnEnded
<1>4. Len(rows[c]) \in Nat /\ "result" \in RowKinds
  BY <1>1 DEF RowKinds
<1>5. CASE ClosedCalls(c) = rows[c]
  BY <1>1, <1>2, <1>3, <1>4, <1>5 DEF RowsOK, AppendOK
<1>6. CASE ClosedCalls(c) # rows[c]
  <2>1. interrupted[c] /\ rows[c] # <<>> /\ ClosedCalls(c) = Append(rows[c], "result")
    BY <1>6, RepairRow
  <2> QED
    BY <1>1, <1>2, <1>3, <1>4, <2>1 DEF RowsOK, AppendOK
<1> QED
  BY <1>5, <1>6

(* Pending calls are positions.                                            *)
LEMMA PendingPositions ==
  ASSUME TypeOK, NEW c \in Convs
  PROVE  PendingCalls(rows[c]) \subseteq Nat
<1>1. rows[c] \in Seq(RowKinds)
  BY DEF TypeOK
<1> QED
  BY <1>1 DEF PendingCalls

(* An event is spent.                                                      *)
LEMMA SpendType ==
  ASSUME left \in [Events -> Nat], NEW e \in Events, Spend(e)
  PROVE  left' \in [Events -> Nat]
  BY DEF Spend

(* The state of a conversation has its type.                               *)
LEMMA ConvType ==
  ASSUME TypeOK, NEW c \in Convs
  PROVE  /\ working[c] \in BOOLEAN /\ interrupted[c] \in BOOLEAN /\ open[c] \in BOOLEAN
         /\ live[c] \in LoopStates /\ op[c] \in Stages
         /\ token[c] \in [user : Nat, turn : Nat] /\ turn[c] \in Nat
         /\ phase \in {"down", "serving"}
  BY DEF TypeOK

(* A user's send keeps the invariant, refused or not.                      *)
LEMMA SendStep ==
  ASSUME IInv, NEW c \in Convs,
         \/ AcceptRepairs(c)
         \/ RecordTurnStart(c)
         \/ AcceptAborts(c)
         \/ \E lost \in BOOLEAN : RejectTurnStart(c, lost)
  PROVE  TypeOK' /\ phase' = phase /\ ConvInv(c)' /\ \A d \in Convs \ {c} : Same(d)
<1> USE DEF RowKinds, Stages, Events, LoopStates
<1>1. TypeOK /\ ConvInv(c)
  BY DEF IInv
<1>2. RowsOK(c) /\ ClosedCalls(c) \in Seq(RowKinds) /\ rows[c] \in Seq(RowKinds)
  BY <1>1, RowFacts DEF RowsOK
<1>3. /\ working[c] \in BOOLEAN /\ interrupted[c] \in BOOLEAN /\ open[c] \in BOOLEAN
      /\ live[c] \in LoopStates /\ op[c] \in Stages
      /\ token[c] \in [user : Nat, turn : Nat] /\ turn[c] \in Nat
      /\ phase \in {"down", "serving"}
  BY <1>1, ConvType
<1>4. CASE AcceptRepairs(c)
  <2> USE <1>4 DEF AcceptRepairs, durable, history
  <2>1. TypeOK'
    <3>1. {<<c, i>> : i \in PendingCalls(rows[c])} \subseteq Convs \X Nat
      BY <1>1, PendingPositions
    <3>2. abandoned' \subseteq Convs \X Nat
      BY <1>1, <3>1 DEF TypeOK
    <3> QED
      BY <1>1, <1>2, <1>3, <3>2, SpendType DEF TypeOK
  <2>2. phase' = phase /\ \A d \in Convs \ {c} : Same(d)
    BY <1>1 DEF TypeOK, Same
  <2>3. ConvInv(c)'
    BY <1>1, <1>2, <1>3 DEF ConvInv, StartedInv, OpenInv, LoopInv, TokenInv, ClaimInv, OwnerInv,
      Holding, TokenCurrent, Free, AutoStages, Busy, TypeOK, NoToken, RowsOK
  <2> QED
    BY <2>1, <2>2, <2>3
<1>5. CASE RecordTurnStart(c)
  <2> USE <1>5 DEF RecordTurnStart, durable, history, Given, OwnerOf
  <2>0. AppendOK(c, "user")
    BY <1>2 DEF RowsOK
  <2>1. TypeOK'
    <3>1. rows' \in [Convs -> Seq(RowKinds)]
      BY <1>1, <2>0 DEF TypeOK, AppendOK
    <3>2. turn' \in [Convs -> Nat]
      BY <1>1, <1>3 DEF TypeOK
    <3> QED
      BY <1>1, <3>1, <3>2 DEF TypeOK, Busy
  <2>2. phase' = phase /\ \A d \in Convs \ {c} : Same(d)
    BY <1>1 DEF TypeOK, Same
  <2>3. ConvInv(c)'
    <3>1. /\ rows'[c] = Append(rows[c], "user") /\ working'[c] /\ ~interrupted'[c]
          /\ live'[c] = Given(c) /\ op'[c] = "free" /\ token'[c] = token[c]
          /\ turn'[c] = turn[c] + 1 /\ open'[c] /\ (live[c] = "dead" => c \in unowned')
      BY <1>1 DEF TypeOK
    <3>2. StartedInv(c)' /\ OpenInv(c)' /\ LoopInv(c)' /\ ClaimInv(c)' /\ OwnerInv(c)'
      BY <1>3, <2>0, <3>1 DEF StartedInv, OpenInv, LoopInv, ClaimInv, OwnerInv,
         AppendOK, AutoStages, Busy
    <3>3. TokenInv(c)'
      <4>1. SUFFICES ASSUME Holding(c)
                     PROVE  token[c].turn > 0 /\ token[c].user < MaxUserSequenceID(rows'[c])
        BY <1>2, <1>3, <2>0, <3>1 DEF TokenInv, Holding, RowsOK, AppendOK
      <4>2. token[c].turn > 0 /\ token[c].user <= MaxUserSequenceID(rows[c])
        BY <1>1, <4>1 DEF ConvInv, TokenInv
      <4> QED
        BY <1>2, <1>3, <2>0, <3>1, <4>2 DEF RowsOK, AppendOK
    <3> QED
      BY <3>2, <3>3 DEF ConvInv
  <2> QED
    BY <2>1, <2>2, <2>3
<1>6. CASE AcceptAborts(c)
  <2> USE <1>6 DEF AcceptAborts, durable, history
  <2>1. TypeOK'
    BY <1>1, <1>2, <1>3, SpendType DEF TypeOK, NoToken, Busy
  <2>2. phase' = phase /\ \A d \in Convs \ {c} : Same(d)
    BY <1>1 DEF TypeOK, Same
  <2>3. ConvInv(c)'
    BY <1>1, <1>2, <1>3 DEF ConvInv, StartedInv, OpenInv, LoopInv, TokenInv, ClaimInv, OwnerInv,
      Holding, TokenCurrent, Free, AutoStages, Busy, TypeOK, NoToken, RowsOK
  <2> QED
    BY <2>1, <2>2, <2>3
<1>7. ASSUME NEW lost \in BOOLEAN, RejectTurnStart(c, lost)
      PROVE  TypeOK' /\ phase' = phase /\ ConvInv(c)' /\ \A d \in Convs \ {c} : Same(d)
  <2> USE <1>7 DEF RejectTurnStart, durable, history
  <2>1. TypeOK'
    BY <1>1, <1>2, <1>3, SpendType DEF TypeOK, NoToken, Busy
  <2>2. phase' = phase /\ \A d \in Convs \ {c} : Same(d)
    BY <1>1 DEF TypeOK, Same
  <2>3. ConvInv(c)'
    BY <1>1, <1>2, <1>3 DEF ConvInv, StartedInv, OpenInv, LoopInv, TokenInv, ClaimInv, OwnerInv,
      Holding, TokenCurrent, Free, AutoStages, Busy, TypeOK, NoToken, RowsOK
  <2> QED
    BY <2>1, <2>2, <2>3
<1> QED
  BY <1>4, <1>5, <1>6, <1>7

(* The loop of a turn and the user's Retry keep it.                        *)
LEMMA TurnStep ==
  ASSUME IInv, NEW c \in Convs,
         \/ RecordToolCall(c)
         \/ RecordToolResults(c)
         \/ TurnCompletes(c)
         \/ TurnErrors(c)
         \/ RetryLastLLMRequest(c)
         \/ RetryUnrecorded(c)
  PROVE  TypeOK' /\ phase' = phase /\ ConvInv(c)' /\ \A d \in Convs \ {c} : Same(d)
<1> USE DEF RowKinds, Stages, Events, LoopStates
<1>1. TypeOK /\ ConvInv(c)
  BY DEF IInv
<1>2. RowsOK(c) /\ ClosedCalls(c) \in Seq(RowKinds) /\ rows[c] \in Seq(RowKinds)
  BY <1>1, RowFacts DEF RowsOK
<1>3. /\ working[c] \in BOOLEAN /\ interrupted[c] \in BOOLEAN /\ open[c] \in BOOLEAN
      /\ live[c] \in LoopStates /\ op[c] \in Stages
      /\ token[c] \in [user : Nat, turn : Nat] /\ turn[c] \in Nat
      /\ phase \in {"down", "serving"}
  BY <1>1, ConvType
<1>4. CASE RecordToolCall(c)
  <2> USE <1>4 DEF RecordToolCall, durable, history
  <2>0. AppendOK(c, "call")
    BY <1>2 DEF RowsOK
  <2>1. TypeOK'
    BY <2>0, <1>1, <1>2, <1>3, SpendType DEF TypeOK, NoToken, Busy, AppendOK
  <2>2. phase' = phase /\ \A d \in Convs \ {c} : Same(d)
    BY <1>1 DEF TypeOK, Same
  <2>3. ConvInv(c)'
    BY <2>0, <1>1, <1>2, <1>3 DEF ConvInv, StartedInv, OpenInv, LoopInv, TokenInv, ClaimInv, OwnerInv,
      Holding, TokenCurrent, Free, AutoStages, Busy, TypeOK, NoToken, RowsOK, AppendOK
  <2> QED
    BY <2>1, <2>2, <2>3
<1>5. CASE RecordToolResults(c)
  <2> USE <1>5 DEF RecordToolResults, durable, history
  <2>0. AppendOK(c, "result")
    BY <1>2 DEF RowsOK
  <2>1. TypeOK'
    BY <2>0, <1>1, <1>2, <1>3, SpendType DEF TypeOK, NoToken, Busy, AppendOK
  <2>2. phase' = phase /\ \A d \in Convs \ {c} : Same(d)
    BY <1>1 DEF TypeOK, Same
  <2>3. ConvInv(c)'
    BY <2>0, <1>1, <1>2, <1>3, SMTT(60) DEF ConvInv, StartedInv, OpenInv, LoopInv, TokenInv, ClaimInv, OwnerInv,
      Holding, TokenCurrent, Free, AutoStages, Busy, TypeOK, NoToken, RowsOK, AppendOK
  <2> QED
    BY <2>1, <2>2, <2>3
<1>6. CASE TurnCompletes(c)
  <2> USE <1>6 DEF TurnCompletes, EndTurn, durable, history
  <2>0. AppendOK(c, "end")
    BY <1>2 DEF RowsOK
  <2>1. TypeOK'
    BY <2>0, <1>1, <1>2, <1>3, SpendType DEF TypeOK, NoToken, Busy, AppendOK
  <2>2. phase' = phase /\ \A d \in Convs \ {c} : Same(d)
    BY <1>1 DEF TypeOK, Same
  <2>3. ConvInv(c)'
    BY <2>0, <1>1, <1>2, <1>3 DEF ConvInv, StartedInv, OpenInv, LoopInv, TokenInv, ClaimInv, OwnerInv,
      Holding, TokenCurrent, Free, AutoStages, Busy, TypeOK, NoToken, RowsOK, AppendOK
  <2> QED
    BY <2>1, <2>2, <2>3
<1>7. CASE TurnErrors(c)
  <2> USE <1>7 DEF TurnErrors, EndTurn, durable, history
  <2>0. AppendOK(c, "error")
    BY <1>2 DEF RowsOK
  <2>1. TypeOK'
    BY <2>0, <1>1, <1>2, <1>3, SpendType DEF TypeOK, NoToken, Busy, AppendOK
  <2>2. phase' = phase /\ \A d \in Convs \ {c} : Same(d)
    BY <1>1 DEF TypeOK, Same
  <2>3. ConvInv(c)'
    BY <2>0, <1>1, <1>2, <1>3 DEF ConvInv, StartedInv, OpenInv, LoopInv, TokenInv, ClaimInv, OwnerInv,
      Holding, TokenCurrent, Free, AutoStages, Busy, TypeOK, NoToken, RowsOK, AppendOK
  <2> QED
    BY <2>1, <2>2, <2>3
<1>8. CASE RetryLastLLMRequest(c)
  <2> USE <1>8 DEF RetryLastLLMRequest, Given, OwnerOf, durable, history
  <2>1. TypeOK'
    BY <1>1, <1>2, <1>3, SpendType DEF TypeOK, NoToken, Busy
  <2>2. phase' = phase /\ \A d \in Convs \ {c} : Same(d)
    BY <1>1 DEF TypeOK, Same
  <2>3. ConvInv(c)'
    BY <1>1, <1>2, <1>3, ErrorIsNoEnd DEF ConvInv, StartedInv, OpenInv, LoopInv, TokenInv, ClaimInv, OwnerInv,
      Holding, TokenCurrent, Free, AutoStages, Busy, TypeOK, NoToken, RowsOK
  <2> QED
    BY <2>1, <2>2, <2>3
<1>9. CASE RetryUnrecorded(c)
  <2> USE <1>9 DEF RetryUnrecorded, Given, durable, history
  <2>1. TypeOK'
    BY <1>1, <1>2, <1>3, SpendType DEF TypeOK, NoToken, Busy
  <2>2. phase' = phase /\ \A d \in Convs \ {c} : Same(d)
    BY <1>1 DEF TypeOK, Same
  <2>3. ConvInv(c)'
    BY <1>1, <1>2, <1>3, ErrorIsNoEnd DEF ConvInv, StartedInv, OpenInv, LoopInv, TokenInv, ClaimInv, OwnerInv,
      Holding, TokenCurrent, Free, AutoStages, Busy, TypeOK, NoToken, RowsOK
  <2> QED
    BY <2>1, <2>2, <2>3
<1> QED
  BY <1>4, <1>5, <1>6, <1>7, <1>8, <1>9

(* A loop that cannot write, or whose context expires, keeps it.           *)
LEMMA LoopEndsStep ==
  ASSUME IInv, NEW c \in Convs,
         \/ RecordFails(c)
         \/ \E lost \in BOOLEAN : handleFatalLoopExit(c, lost)
         \/ LoopExpires(c)
         \/ EndRecordFails(c)
  PROVE  TypeOK' /\ phase' = phase /\ ConvInv(c)' /\ \A d \in Convs \ {c} : Same(d)
<1> USE DEF RowKinds, Stages, Events, LoopStates
<1>1. TypeOK /\ ConvInv(c)
  BY DEF IInv
<1>2. RowsOK(c) /\ ClosedCalls(c) \in Seq(RowKinds) /\ rows[c] \in Seq(RowKinds)
  BY <1>1, RowFacts DEF RowsOK
<1>3. /\ working[c] \in BOOLEAN /\ interrupted[c] \in BOOLEAN /\ open[c] \in BOOLEAN
      /\ live[c] \in LoopStates /\ op[c] \in Stages
      /\ token[c] \in [user : Nat, turn : Nat] /\ turn[c] \in Nat
      /\ phase \in {"down", "serving"}
  BY <1>1, ConvType
<1>4. CASE RecordFails(c)
  <2> USE <1>4 DEF RecordFails, durable, history
  <2>1. TypeOK'
    BY <1>1, <1>2, <1>3, SpendType DEF TypeOK, NoToken, Busy
  <2>2. phase' = phase /\ \A d \in Convs \ {c} : Same(d)
    BY <1>1 DEF TypeOK, Same
  <2>3. ConvInv(c)'
    BY <1>1, <1>2, <1>3 DEF ConvInv, StartedInv, OpenInv, LoopInv, TokenInv, ClaimInv, OwnerInv,
      Holding, TokenCurrent, Free, AutoStages, Busy, TypeOK, NoToken, RowsOK
  <2> QED
    BY <2>1, <2>2, <2>3
<1>5. ASSUME NEW lost \in BOOLEAN, handleFatalLoopExit(c, lost)
      PROVE  TypeOK' /\ phase' = phase /\ ConvInv(c)' /\ \A d \in Convs \ {c} : Same(d)
  <2> USE <1>5 DEF handleFatalLoopExit, durable, history
  <2>1. TypeOK'
    BY <1>1, <1>2, <1>3, SpendType DEF TypeOK, NoToken, Busy
  <2>2. phase' = phase /\ \A d \in Convs \ {c} : Same(d)
    BY <1>1 DEF TypeOK, Same
  <2>3. ConvInv(c)'
    BY <1>1, <1>2, <1>3 DEF ConvInv, StartedInv, OpenInv, LoopInv, TokenInv, ClaimInv, OwnerInv,
      Holding, TokenCurrent, Free, AutoStages, Busy, TypeOK, NoToken, RowsOK
  <2> QED
    BY <2>1, <2>2, <2>3
<1>6. CASE LoopExpires(c)
  <2> USE <1>6 DEF LoopExpires, durable, history
  <2>0. AppendOK(c, "result")
    BY <1>2 DEF RowsOK
  <2>1. TypeOK'
    BY <2>0, <1>1, <1>2, <1>3, SpendType DEF TypeOK, NoToken, Busy, AppendOK
  <2>2. phase' = phase /\ \A d \in Convs \ {c} : Same(d)
    BY <1>1 DEF TypeOK, Same
  <2>3. ConvInv(c)'
    BY <2>0, <1>1, <1>2, <1>3, SMTT(60) DEF ConvInv, StartedInv, OpenInv, LoopInv, TokenInv, ClaimInv, OwnerInv,
      Holding, TokenCurrent, Free, AutoStages, Busy, TypeOK, NoToken, RowsOK, AppendOK
  <2> QED
    BY <2>1, <2>2, <2>3
<1>7. CASE EndRecordFails(c)
  <2> USE <1>7 DEF EndRecordFails, durable, history
  <2>1. TypeOK'
    BY <1>1, <1>2, <1>3, SpendType DEF TypeOK, NoToken, Busy
  <2>2. phase' = phase /\ \A d \in Convs \ {c} : Same(d)
    BY <1>1 DEF TypeOK, Same
  <2>3. ConvInv(c)'
    BY <1>1, <1>2, <1>3 DEF ConvInv, StartedInv, OpenInv, LoopInv, TokenInv, ClaimInv, OwnerInv,
      Holding, TokenCurrent, Free, AutoStages, Busy, TypeOK, NoToken, RowsOK
  <2> QED
    BY <2>1, <2>2, <2>3
<1> QED
  BY <1>4, <1>5, <1>6, <1>7

(* Stop keeps it, with a loop and without one.                             *)
LEMMA StopStep ==
  ASSUME IInv, NEW c \in Convs,
         \/ StopDetaches(c)
         \/ StopEndsTurn(c)
         \/ StopFails(c)
         \/ StopIdle(c)
  PROVE  TypeOK' /\ phase' = phase /\ ConvInv(c)' /\ \A d \in Convs \ {c} : Same(d)
<1> USE DEF RowKinds, Stages, Events, LoopStates
<1>1. TypeOK /\ ConvInv(c)
  BY DEF IInv
<1>2. RowsOK(c) /\ ClosedCalls(c) \in Seq(RowKinds) /\ rows[c] \in Seq(RowKinds)
  BY <1>1, RowFacts DEF RowsOK
<1>3. /\ working[c] \in BOOLEAN /\ interrupted[c] \in BOOLEAN /\ open[c] \in BOOLEAN
      /\ live[c] \in LoopStates /\ op[c] \in Stages
      /\ token[c] \in [user : Nat, turn : Nat] /\ turn[c] \in Nat
      /\ phase \in {"down", "serving"}
  BY <1>1, ConvType
<1>4. CASE StopDetaches(c)
  <2> USE <1>4 DEF StopDetaches, durable, history
  <2>0. AppendOK(c, "result")
    BY <1>2 DEF RowsOK
  <2>1. TypeOK'
    <3>1. {<<c, i>> : i \in PendingCalls(rows[c])} \subseteq Convs \X Nat
      BY <1>1, PendingPositions
    <3>2. abandoned' \subseteq Convs \X Nat
      BY <1>1, <3>1 DEF TypeOK
    <3> QED
      BY <2>0, <1>1, <1>2, <1>3, <3>2, SpendType DEF TypeOK, NoToken, Busy, AppendOK
  <2>2. phase' = phase /\ \A d \in Convs \ {c} : Same(d)
    BY <1>1 DEF TypeOK, Same
  <2>3. ConvInv(c)'
    BY <2>0, <1>1, <1>2, <1>3, SMTT(60) DEF ConvInv, StartedInv, OpenInv, LoopInv, TokenInv, ClaimInv, OwnerInv,
      Holding, TokenCurrent, Free, AutoStages, Busy, TypeOK, NoToken, RowsOK, AppendOK
  <2> QED
    BY <2>1, <2>2, <2>3
<1>5. CASE StopEndsTurn(c)
  <2> USE <1>5 DEF StopEndsTurn, EndTurn, durable, history
  <2>0. AppendOK(c, "end")
    BY <1>2 DEF RowsOK
  <2>1. TypeOK'
    BY <2>0, <1>1, <1>2, <1>3, SpendType DEF TypeOK, NoToken, Busy, AppendOK
  <2>2. phase' = phase /\ \A d \in Convs \ {c} : Same(d)
    BY <1>1 DEF TypeOK, Same
  <2>3. ConvInv(c)'
    BY <2>0, <1>1, <1>2, <1>3 DEF ConvInv, StartedInv, OpenInv, LoopInv, TokenInv, ClaimInv, OwnerInv,
      Holding, TokenCurrent, Free, AutoStages, Busy, TypeOK, NoToken, RowsOK, AppendOK
  <2> QED
    BY <2>1, <2>2, <2>3
<1>6. CASE StopFails(c)
  <2> USE <1>6 DEF StopFails, durable, history
  <2>1. TypeOK'
    BY <1>1, <1>2, <1>3, SpendType DEF TypeOK, NoToken, Busy
  <2>2. phase' = phase /\ \A d \in Convs \ {c} : Same(d)
    BY <1>1 DEF TypeOK, Same
  <2>3. ConvInv(c)'
    BY <1>1, <1>2, <1>3 DEF ConvInv, StartedInv, OpenInv, LoopInv, TokenInv, ClaimInv, OwnerInv,
      Holding, TokenCurrent, Free, AutoStages, Busy, TypeOK, NoToken, RowsOK
  <2> QED
    BY <2>1, <2>2, <2>3
<1>7. CASE StopIdle(c)
  <2> USE <1>7 DEF StopIdle, durable, history
  <2>1. TypeOK'
    BY <1>1, <1>2, <1>3, SpendType DEF TypeOK, NoToken, Busy
  <2>2. phase' = phase /\ \A d \in Convs \ {c} : Same(d)
    BY <1>1 DEF TypeOK, Same
  <2>3. ConvInv(c)'
    BY <1>1, <1>2, <1>3 DEF ConvInv, StartedInv, OpenInv, LoopInv, TokenInv, ClaimInv, OwnerInv,
      Holding, TokenCurrent, Free, AutoStages, Busy, TypeOK, NoToken, RowsOK
  <2> QED
    BY <2>1, <2>2, <2>3
<1> QED
  BY <1>4, <1>5, <1>6, <1>7

(* The worker that resumes a turn keeps it.                                *)
LEMMA WorkerStep ==
  ASSUME IInv, NEW c \in Convs,
         \/ ClaimUpgradeInterruptedTurn(c)
         \/ ClaimIsRejected(c)
         \/ RecordInterruptedToolResults(c)
         \/ FinishUpgradeInterruptedTurn(c)
         \/ recordWarning(c)
         \/ ResumeFires(c)
  PROVE  TypeOK' /\ phase' = phase /\ ConvInv(c)' /\ \A d \in Convs \ {c} : Same(d)
<1> USE DEF RowKinds, Stages, Events, LoopStates
<1>1. TypeOK /\ ConvInv(c)
  BY DEF IInv
<1>2. RowsOK(c) /\ ClosedCalls(c) \in Seq(RowKinds) /\ rows[c] \in Seq(RowKinds)
  BY <1>1, RowFacts DEF RowsOK
<1>3. /\ working[c] \in BOOLEAN /\ interrupted[c] \in BOOLEAN /\ open[c] \in BOOLEAN
      /\ live[c] \in LoopStates /\ op[c] \in Stages
      /\ token[c] \in [user : Nat, turn : Nat] /\ turn[c] \in Nat
      /\ phase \in {"down", "serving"}
  BY <1>1, ConvType
<1>4. CASE ClaimUpgradeInterruptedTurn(c)
  <2> USE <1>4 DEF ClaimUpgradeInterruptedTurn, durable, history
  <2>1. TypeOK'
    BY <1>1, <1>2, <1>3, SpendType DEF TypeOK, NoToken, Busy
  <2>2. phase' = phase /\ \A d \in Convs \ {c} : Same(d)
    BY <1>1 DEF TypeOK, Same
  <2>3. ConvInv(c)'
    BY <1>1, <1>2, <1>3 DEF ConvInv, StartedInv, OpenInv, LoopInv, TokenInv, ClaimInv, OwnerInv,
      Holding, TokenCurrent, Free, AutoStages, Busy, TypeOK, NoToken, RowsOK
  <2> QED
    BY <2>1, <2>2, <2>3
<1>5. CASE ClaimIsRejected(c)
  <2> USE <1>5 DEF ClaimIsRejected, durable, history
  <2>1. TypeOK'
    BY <1>1, <1>2, <1>3, SpendType DEF TypeOK, NoToken, Busy
  <2>2. phase' = phase /\ \A d \in Convs \ {c} : Same(d)
    BY <1>1 DEF TypeOK, Same
  <2>3. ConvInv(c)'
    BY <1>1, <1>2, <1>3 DEF ConvInv, StartedInv, OpenInv, LoopInv, TokenInv, ClaimInv, OwnerInv,
      Holding, TokenCurrent, Free, AutoStages, Busy, TypeOK, NoToken, RowsOK
  <2> QED
    BY <2>1, <2>2, <2>3
<1>6. CASE RecordInterruptedToolResults(c)
  <2> USE <1>6 DEF RecordInterruptedToolResults, durable, history
  <2>1. TypeOK'
    <3>1. token' \in [Convs -> [user : Nat, turn : Nat]]
      <4>1. Len(ClosedCalls(c)) \in Nat
        BY <1>2
      <4> QED
        BY <1>1, <1>3, <4>1 DEF TypeOK
    <3> QED
      BY <1>1, <1>2, <3>1 DEF TypeOK
  <2>2. phase' = phase /\ \A d \in Convs \ {c} : Same(d)
    BY <1>1 DEF TypeOK, Same
  <2>3. ConvInv(c)'
    <3>1. /\ rows'[c] = ClosedCalls(c) /\ working'[c] = working[c]
          /\ interrupted'[c] = interrupted[c] /\ live'[c] = live[c] /\ op'[c] = "repaired"
          /\ turn'[c] = turn[c] /\ open'[c] = open[c]
          /\ token'[c] = [token[c] EXCEPT !.user =
                IF ClosedCalls(c) # rows[c] THEN Len(ClosedCalls(c)) ELSE @]
      BY <1>1 DEF TypeOK
    <3>2. working[c] /\ interrupted[c] /\ Holding(c) /\ live[c] = "none"
          /\ MaxUserSequenceID(rows[c]) = token[c].user
          /\ token[c].turn > 0 /\ token[c].turn = turn[c]
      BY <1>1 DEF ConvInv, ClaimInv, TokenInv, AutoStages, TokenCurrent
    <3>3. /\ token'[c].turn = turn[c] /\ token'[c].user = MaxUserSequenceID(ClosedCalls(c))
          /\ token'[c] # NoToken /\ token'[c].user \in Nat
      BY <1>2, <1>3, <3>1, <3>2 DEF RowsOK, NoToken
    <3>4. StartedInv(c)' /\ OpenInv(c)' /\ LoopInv(c)'
      BY <1>1, <1>2, <3>1, <3>2 DEF ConvInv, StartedInv, OpenInv, LoopInv, Busy, RowsOK
    <3>5. TokenInv(c)' /\ ClaimInv(c)' /\ OwnerInv(c)'
      BY <3>1, <3>2, <3>3 DEF TokenInv, ClaimInv, OwnerInv, TokenCurrent, Holding, AutoStages
    <3> QED
      BY <3>4, <3>5 DEF ConvInv
  <2> QED
    BY <2>1, <2>2, <2>3
<1>7. CASE FinishUpgradeInterruptedTurn(c)
  <2> USE <1>7 DEF FinishUpgradeInterruptedTurn, durable, history
  <2>1. TypeOK'
    BY <1>1, <1>2, <1>3, SpendType DEF TypeOK, NoToken, Busy
  <2>2. phase' = phase /\ \A d \in Convs \ {c} : Same(d)
    BY <1>1 DEF TypeOK, Same
  <2>3. ConvInv(c)'
    BY <1>1, <1>2, <1>3 DEF ConvInv, StartedInv, OpenInv, LoopInv, TokenInv, ClaimInv, OwnerInv,
      Holding, TokenCurrent, Free, AutoStages, Busy, TypeOK, NoToken, RowsOK
  <2> QED
    BY <2>1, <2>2, <2>3
<1>8. CASE recordWarning(c)
  <2> USE <1>8 DEF recordWarning, durable, history
  <2>0. AppendOK(c, "warning")
    BY <1>2 DEF RowsOK
  <2>1. TypeOK'
    BY <2>0, <1>1, <1>2, <1>3, SpendType DEF TypeOK, NoToken, Busy, AppendOK
  <2>2. phase' = phase /\ \A d \in Convs \ {c} : Same(d)
    BY <1>1 DEF TypeOK, Same
  <2>3. ConvInv(c)'
    BY <2>0, <1>1, <1>2, <1>3 DEF ConvInv, StartedInv, OpenInv, LoopInv, TokenInv, ClaimInv, OwnerInv,
      Holding, TokenCurrent, Free, AutoStages, Busy, TypeOK, NoToken, RowsOK, AppendOK
  <2> QED
    BY <2>1, <2>2, <2>3
<1>9. CASE ResumeFires(c)
  <2> USE <1>9 DEF ResumeFires, durable, history
  <2>1. TypeOK'
    BY <1>1, <1>2, <1>3, SpendType DEF TypeOK, NoToken, Busy
  <2>2. phase' = phase /\ \A d \in Convs \ {c} : Same(d)
    BY <1>1 DEF TypeOK, Same
  <2>3. ConvInv(c)'
    BY <1>1, <1>2, <1>3 DEF ConvInv, StartedInv, OpenInv, LoopInv, TokenInv, ClaimInv, OwnerInv,
      Holding, TokenCurrent, Free, AutoStages, Busy, TypeOK, NoToken, RowsOK
  <2> QED
    BY <2>1, <2>2, <2>3
<1> QED
  BY <1>4, <1>5, <1>6, <1>7, <1>8, <1>9

(* A resume that fails at any step keeps it.                               *)
LEMMA ResumeFailsStep ==
  ASSUME IInv, NEW c \in Convs,
         \/ recoverFailedUpgradeResume(c)
         \/ ManagerUnavailable(c)
         \/ TurnIsRefused(c)
  PROVE  TypeOK' /\ phase' = phase /\ ConvInv(c)' /\ \A d \in Convs \ {c} : Same(d)
<1> USE DEF RowKinds, Stages, Events, LoopStates
<1>1. TypeOK /\ ConvInv(c)
  BY DEF IInv
<1>2. RowsOK(c) /\ ClosedCalls(c) \in Seq(RowKinds) /\ rows[c] \in Seq(RowKinds)
  BY <1>1, RowFacts DEF RowsOK
<1>3. /\ working[c] \in BOOLEAN /\ interrupted[c] \in BOOLEAN /\ open[c] \in BOOLEAN
      /\ live[c] \in LoopStates /\ op[c] \in Stages
      /\ token[c] \in [user : Nat, turn : Nat] /\ turn[c] \in Nat
      /\ phase \in {"down", "serving"}
  BY <1>1, ConvType
<1>4. CASE recoverFailedUpgradeResume(c)
  <2> USE <1>4 DEF recoverFailedUpgradeResume, MarkUpgradeResumeInterrupted, durable, history
  <2>1. TypeOK'
    <3>1. working' \in [Convs -> BOOLEAN] /\ interrupted' \in [Convs -> BOOLEAN]
      <4>1. (working[c] /\ ~TokenCurrent(c)) \in BOOLEAN /\ (c \in Top) \in BOOLEAN
        OBVIOUS
      <4>2. (IF TokenCurrent(c) THEN c \in Top ELSE interrupted[c]) \in BOOLEAN
        BY <1>3, <4>1, Zenon
      <4> QED
        BY <1>1, <4>1, <4>2 DEF TypeOK
    <3>2. token' \in [Convs -> [user : Nat, turn : Nat]] /\ unowned' \subseteq Convs
      BY <1>1 DEF TypeOK, NoToken
    <3> QED
      BY <1>1, <3>1, <3>2, SpendType DEF TypeOK
  <2>2. phase' = phase /\ \A d \in Convs \ {c} : Same(d)
    BY <1>1 DEF TypeOK, Same
  <2>3. ConvInv(c)'
    BY <1>1, <1>2, <1>3 DEF ConvInv, StartedInv, OpenInv, LoopInv, TokenInv, ClaimInv, OwnerInv,
      Holding, TokenCurrent, Free, AutoStages, Busy, TypeOK, NoToken, RowsOK
  <2> QED
    BY <2>1, <2>2, <2>3
<1>5. CASE ManagerUnavailable(c)
  <2> USE <1>5 DEF ManagerUnavailable, MarkUpgradeResumeInterrupted, durable, history
  <2>1. TypeOK'
    <3>1. working' \in [Convs -> BOOLEAN] /\ interrupted' \in [Convs -> BOOLEAN]
      <4>1. (working[c] /\ ~TokenCurrent(c)) \in BOOLEAN /\ (c \in Top) \in BOOLEAN
        OBVIOUS
      <4>2. (IF TokenCurrent(c) THEN c \in Top ELSE interrupted[c]) \in BOOLEAN
        BY <1>3, <4>1, Zenon
      <4> QED
        BY <1>1, <4>1, <4>2 DEF TypeOK
    <3>2. token' \in [Convs -> [user : Nat, turn : Nat]] /\ unowned' \subseteq Convs
      BY <1>1 DEF TypeOK, NoToken
    <3> QED
      BY <1>1, <3>1, <3>2, SpendType DEF TypeOK
  <2>2. phase' = phase /\ \A d \in Convs \ {c} : Same(d)
    BY <1>1 DEF TypeOK, Same
  <2>3. ConvInv(c)'
    BY <1>1, <1>2, <1>3 DEF ConvInv, StartedInv, OpenInv, LoopInv, TokenInv, ClaimInv, OwnerInv,
      Holding, TokenCurrent, Free, AutoStages, Busy, TypeOK, NoToken, RowsOK
  <2> QED
    BY <2>1, <2>2, <2>3
<1>6. CASE TurnIsRefused(c)
  <2> USE <1>6 DEF TurnIsRefused, durable, history
  <2>1. TypeOK'
    BY <1>1, <1>2, <1>3, SpendType DEF TypeOK, NoToken, Busy
  <2>2. phase' = phase /\ \A d \in Convs \ {c} : Same(d)
    BY <1>1 DEF TypeOK, Same
  <2>3. ConvInv(c)'
    BY <1>1, <1>2, <1>3 DEF ConvInv, StartedInv, OpenInv, LoopInv, TokenInv, ClaimInv, OwnerInv,
      Holding, TokenCurrent, Free, AutoStages, Busy, TypeOK, NoToken, RowsOK
  <2> QED
    BY <2>1, <2>2, <2>3
<1> QED
  BY <1>4, <1>5, <1>6

(* The user's Continue keeps it.                                           *)
LEMMA ContinueStep ==
  ASSUME IInv, NEW c \in Convs,
         \/ ContinueInterruptedTurn(c)
         \/ ContinueRepairs(c)
         \/ ClaimInterruptedTurn(c)
         \/ ContinueFails(c)
  PROVE  TypeOK' /\ phase' = phase /\ ConvInv(c)' /\ \A d \in Convs \ {c} : Same(d)
<1> USE DEF RowKinds, Stages, Events, LoopStates
<1>1. TypeOK /\ ConvInv(c)
  BY DEF IInv
<1>2. RowsOK(c) /\ ClosedCalls(c) \in Seq(RowKinds) /\ rows[c] \in Seq(RowKinds)
  BY <1>1, RowFacts DEF RowsOK
<1>3. /\ working[c] \in BOOLEAN /\ interrupted[c] \in BOOLEAN /\ open[c] \in BOOLEAN
      /\ live[c] \in LoopStates /\ op[c] \in Stages
      /\ token[c] \in [user : Nat, turn : Nat] /\ turn[c] \in Nat
      /\ phase \in {"down", "serving"}
  BY <1>1, ConvType
<1>4. CASE ContinueInterruptedTurn(c)
  <2> USE <1>4 DEF ContinueInterruptedTurn, durable, history
  <2>1. TypeOK'
    BY <1>1, <1>2, <1>3, SpendType DEF TypeOK, NoToken, Busy
  <2>2. phase' = phase /\ \A d \in Convs \ {c} : Same(d)
    BY <1>1 DEF TypeOK, Same
  <2>3. ConvInv(c)'
    BY <1>1, <1>2, <1>3 DEF ConvInv, StartedInv, OpenInv, LoopInv, TokenInv, ClaimInv, OwnerInv,
      Holding, TokenCurrent, Free, AutoStages, Busy, TypeOK, NoToken, RowsOK
  <2> QED
    BY <2>1, <2>2, <2>3
<1>5. CASE ContinueRepairs(c)
  <2> USE <1>5 DEF ContinueRepairs, durable, history
  <2>1. TypeOK'
    BY <1>1, <1>2, <1>3, SpendType DEF TypeOK, NoToken, Busy
  <2>2. phase' = phase /\ \A d \in Convs \ {c} : Same(d)
    BY <1>1 DEF TypeOK, Same
  <2>3. ConvInv(c)'
    BY <1>1, <1>2, <1>3 DEF ConvInv, StartedInv, OpenInv, LoopInv, TokenInv, ClaimInv, OwnerInv,
      Holding, TokenCurrent, Free, AutoStages, Busy, TypeOK, NoToken, RowsOK
  <2> QED
    BY <2>1, <2>2, <2>3
<1>6. CASE ClaimInterruptedTurn(c)
  <2> USE <1>6 DEF ClaimInterruptedTurn, durable, history
  <2>1. TypeOK'
    BY <1>1, <1>2, <1>3, SpendType DEF TypeOK, NoToken, Busy
  <2>2. phase' = phase /\ \A d \in Convs \ {c} : Same(d)
    BY <1>1 DEF TypeOK, Same
  <2>3. ConvInv(c)'
    BY <1>1, <1>2, <1>3 DEF ConvInv, StartedInv, OpenInv, LoopInv, TokenInv, ClaimInv, OwnerInv,
      Holding, TokenCurrent, Free, AutoStages, Busy, TypeOK, NoToken, RowsOK
  <2> QED
    BY <2>1, <2>2, <2>3
<1>7. CASE ContinueFails(c)
  <2> USE <1>7 DEF ContinueFails, durable, history
  <2>1. TypeOK'
    BY <1>1, <1>2, <1>3, SpendType DEF TypeOK, NoToken, Busy
  <2>2. phase' = phase /\ \A d \in Convs \ {c} : Same(d)
    BY <1>1 DEF TypeOK, Same
  <2>3. ConvInv(c)'
    BY <1>1, <1>2, <1>3 DEF ConvInv, StartedInv, OpenInv, LoopInv, TokenInv, ClaimInv, OwnerInv,
      Holding, TokenCurrent, Free, AutoStages, Busy, TypeOK, NoToken, RowsOK
  <2> QED
    BY <2>1, <2>2, <2>3
<1> QED
  BY <1>4, <1>5, <1>6, <1>7

-----------------------------------------------------------------------------
(* Tool calls.                                                             *)

(* The steps before and at which no call may be left unanswered.           *)
Settled(c) ==
  \/ live[c] \in {"idle", "turn", "dead", "stuck"}
  \/ op[c] \in {"accepting", "repaired", "finished", "warned", "prepared", "stopping"}

AllAnswered(c) ==
  \A i \in Actionable(rows[c]) : rows[c][i] = "call" => Answered(c, i)

(* There the invariant leaves no call open.                                *)
LEMMA SettledAnswered ==
  ASSUME NEW c, CallInv(c), Settled(c)
  PROVE  AllAnswered(c)
  BY DEF CallInv, Settled, AllAnswered

(* Where the rows stay, so do the answers.                                 *)
LEMMA CallsKept ==
  ASSUME NEW c, CallInv(c), rows'[c] = rows[c], abandoned \subseteq abandoned',
         Settled(c)' => Settled(c)
  PROVE  CallInv(c)'
<1>1. \A i : Answered(c, i) => Answered(c, i)'
  BY DEF Answered
<1> QED
  BY <1>1 DEF CallInv, Settled

(* An answer stays the next row, whatever row is appended.                 *)
LEMMA AnswerStays ==
  ASSUME TypeOK, NEW c \in Convs, NEW r \in RowKinds, rows'[c] = Append(rows[c], r),
         abandoned \subseteq abandoned', NEW i \in Actionable(rows[c]), Answered(c, i)
  PROVE  Answered(c, i)'
<1>1. rows[c] \in Seq(RowKinds)
  BY DEF TypeOK
<1>2. /\ \A k \in DOMAIN rows[c] : k \in 1..Len(rows[c]) /\ rows'[c][k] = rows[c][k]
      /\ \A k \in Actionable(rows'[c]) : k \in Actionable(rows[c]) \/ k = Len(rows[c]) + 1
      /\ Actionable(rows[c]) \subseteq Actionable(rows'[c])
  BY <1>1, AppendRow
<1>3. CASE <<c, i>> \in abandoned
  BY <1>3 DEF Answered
<1>4. CASE <<c, i>> \notin abandoned
  <2>1. PICK j \in Actionable(rows[c]) :
           /\ j > i /\ rows[c][j] = "result"
           /\ \A k \in Actionable(rows[c]) : k > i => j <= k
    BY <1>4 DEF Answered
  <2>2. j \in 1..Len(rows[c]) /\ Len(rows[c]) \in Nat
    BY <1>1, <2>1 DEF Actionable
  <2>3. rows'[c][j] = "result" /\ j \in Actionable(rows'[c])
    BY <1>2, <2>1, <2>2 DEF Actionable
  <2>4. \A k \in Actionable(rows'[c]) : k > i => j <= k
    BY <1>2, <2>1, <2>2
  <2> QED
    BY <2>1, <2>3, <2>4 DEF Answered
<1> QED
  BY <1>3, <1>4

(* Results answer the call they follow; other rows may only follow         *)
(* answered ones, and a new call is the last row.                          *)
LEMMA CallsAppended ==
  ASSUME TypeOK, NEW c \in Convs, NEW r \in RowKinds, rows'[c] = Append(rows[c], r),
         abandoned \subseteq abandoned', CallInv(c), r = "result" \/ Settled(c)
  PROVE  /\ r # "call" => AllAnswered(c)'
         /\ \A i \in Actionable(rows'[c]) :
               rows'[c][i] = "call" =>
                 Answered(c, i)' \/ \A k \in Actionable(rows'[c]) : k <= i
<1>1. rows[c] \in Seq(RowKinds) /\ Len(rows[c]) \in Nat
  BY DEF TypeOK
<1>2. /\ \A k \in DOMAIN rows[c] : k \in 1..Len(rows[c]) /\ rows'[c][k] = rows[c][k]
      /\ \A k \in Actionable(rows'[c]) : k \in Actionable(rows[c]) \/ k = Len(rows[c]) + 1
      /\ rows'[c][Len(rows[c]) + 1] = r
      /\ Actionable(rows[c]) \subseteq DOMAIN rows[c]
      /\ r = "result" => Len(rows[c]) + 1 \in Actionable(rows'[c])
  BY <1>1, AppendRow DEF Actionable
<1>3. ASSUME NEW i \in Actionable(rows[c]), rows[c][i] = "call"
      PROVE  Answered(c, i)'
  <2>1. CASE Answered(c, i)
    BY <2>1, AnswerStays
  <2>2. CASE ~Answered(c, i)
    <3>1. r = "result" /\ \A k \in Actionable(rows[c]) : k <= i
      BY <1>3, <2>2, SettledAnswered DEF CallInv, AllAnswered
    <3>2. i \in 1..Len(rows[c])
      BY <1>2
    <3>3. \A k \in Actionable(rows'[c]) : k > i => Len(rows[c]) + 1 <= k
      BY <1>1, <1>2, <3>1, <3>2
    <3> QED
      BY <1>1, <1>2, <3>1, <3>2, <3>3 DEF Answered
  <2> QED
    BY <2>1, <2>2
<1>4. ASSUME NEW i \in Actionable(rows'[c]), rows'[c][i] = "call"
      PROVE  Answered(c, i)' \/ (r = "call" /\ \A k \in Actionable(rows'[c]) : k <= i)
  <2>1. CASE i \in Actionable(rows[c])
    BY <1>2, <1>3, <1>4, <2>1
  <2>2. CASE i = Len(rows[c]) + 1
    BY <1>1, <1>2, <1>4, <2>2
  <2> QED
    BY <1>2, <2>1, <2>2
<1> QED
  BY <1>4 DEF AllAnswered

(* A call that nothing follows is pending.                                 *)
LEMMA LastIsPending ==
  ASSUME NEW c, CallInv(c), NEW i \in Actionable(rows[c]), rows[c][i] = "call",
         ~Answered(c, i), TypeOK, c \in Convs
  PROVE  i \in PendingCalls(rows[c])
<1>1. \A k \in Actionable(rows[c]) : k <= i
  BY DEF CallInv
<1>2. rows[c] \in Seq(RowKinds) /\ i \in DOMAIN rows[c]
  BY DEF TypeOK, Actionable
<1>3. \A j \in DOMAIN rows[c] : j > i => rows[c][j] # "result"
  BY <1>1, <1>2 DEF Actionable
<1> QED
  BY <1>2, <1>3 DEF PendingCalls

(* The repair of an interrupted transcript answers every call.             *)
LEMMA CallsClosedByRepair ==
  ASSUME TypeOK, NEW c \in Top, CallInv(c), interrupted[c],
         rows'[c] = ClosedCalls(c), abandoned \subseteq abandoned'
  PROVE  AllAnswered(c)'
<1>1. c \in Convs /\ "result" \in RowKinds
  BY RecoveryAssumption DEF RowKinds
<1>2. CASE PendingCalls(rows[c]) # {}
  <2>1. rows'[c] = Append(rows[c], "result")
    BY <1>2 DEF ClosedCalls
  <2> QED
    BY <1>1, <2>1, CallsAppended
<1>3. CASE PendingCalls(rows[c]) = {}
  <2>1. rows'[c] = rows[c]
    BY <1>3 DEF ClosedCalls
  <2>2. \A i \in Actionable(rows[c]) : rows[c][i] = "call" => Answered(c, i)
    BY <1>1, <1>3, LastIsPending
  <2> QED
    BY <2>1, <2>2 DEF AllAnswered, Answered
<1> QED
  BY <1>2, <1>3

(* Where every call is answered, it holds wherever the turn is.            *)
LEMMA AnsweredKeeps ==
  ASSUME NEW c, AllAnswered(c)'
  PROVE  CallInv(c)'
  BY DEF AllAnswered, CallInv

(* Pending calls that are given up count as settled.                       *)
LEMMA CallsGivenUp ==
  ASSUME TypeOK, NEW c \in Convs, CallInv(c), rows'[c] = rows[c],
         abandoned' = abandoned \cup {<<c, i>> : i \in PendingCalls(rows[c])}
  PROVE  AllAnswered(c)'
<1>1. ASSUME NEW i \in Actionable(rows[c]), rows[c][i] = "call"
      PROVE  Answered(c, i)'
  <2>1. CASE Answered(c, i)
    BY <2>1 DEF Answered
  <2>2. CASE ~Answered(c, i)
    <3>1. i \in PendingCalls(rows[c])
      BY <1>1, <2>2, LastIsPending
    <3> QED
      BY <3>1 DEF Answered
  <2> QED
    BY <2>1, <2>2
<1> QED
  BY <1>1 DEF AllAnswered

(* Where a loop is busy, nobody else is inside the lifecycle lock.         *)
LEMMA BusyIsFree ==
  ASSUME TypeOK, NEW c \in Convs, ConvInv(c), live[c] \in Busy
  PROVE  op[c] = "free"
<1>1. op[c] \in Stages /\ live[c] # "none"
  BY DEF TypeOK, Busy
<1>2. op[c] \notin AutoStages
  BY <1>1 DEF ConvInv, ClaimInv, TokenInv, TokenCurrent
<1>3. op[c] \notin {"accepting", "stopping", "continuing", "prepared"}
  BY <1>1 DEF ConvInv, LoopInv, Busy
<1> QED
  BY <1>1, <1>2, <1>3 DEF Stages, AutoStages

(* A send answers or gives up the calls before its user row.               *)
LEMMA SendCalls ==
  ASSUME IInv, NEW c \in Top,
         \/ AcceptRepairs(c)
         \/ RecordTurnStart(c)
         \/ AcceptAborts(c)
         \/ \E lost \in BOOLEAN : RejectTurnStart(c, lost)
  PROVE  CallInv(c)'
<1>1. c \in Convs /\ TypeOK /\ ConvInv(c) /\ CallInv(c)
  BY RecoveryAssumption DEF IInv
<1>2. CASE AcceptRepairs(c)
  <2>1. CASE interrupted[c]
    <3>1. rows'[c] = ClosedCalls(c) /\ abandoned' = abandoned
      BY <1>1, <1>2, <2>1 DEF AcceptRepairs, TypeOK
    <3> QED
      BY <1>1, <2>1, <3>1, CallsClosedByRepair, AnsweredKeeps
  <2>2. CASE ~interrupted[c]
    <3>1. /\ rows'[c] = rows[c]
          /\ abandoned' = abandoned \cup {<<c, i>> : i \in PendingCalls(rows[c])}
      BY <1>1, <1>2, <2>2 DEF AcceptRepairs, TypeOK, ClosedCalls
    <3> QED
      BY <1>1, <3>1, CallsGivenUp, AnsweredKeeps
  <2> QED
    BY <2>1, <2>2
<1>3. CASE RecordTurnStart(c)
  <2>1. /\ rows'[c] = Append(rows[c], "user") /\ abandoned' = abandoned
        /\ "user" \in RowKinds /\ Settled(c)
    BY <1>1, <1>3 DEF RecordTurnStart, history, Settled, TypeOK, RowKinds
  <2> QED
    BY <1>1, <2>1, CallsAppended, AnsweredKeeps
<1>4. CASE AcceptAborts(c)
  <2>1. rows'[c] = rows[c] /\ abandoned' = abandoned /\ (Settled(c)' => Settled(c))
    BY <1>1, <1>4 DEF AcceptAborts, durable, history, Settled, TypeOK
  <2> QED
    BY <1>1, <2>1, CallsKept
<1>5. ASSUME NEW lost \in BOOLEAN, RejectTurnStart(c, lost) PROVE CallInv(c)'
  <2>1. rows'[c] = rows[c] /\ abandoned' = abandoned /\ (Settled(c)' => Settled(c))
    BY <1>1, <1>5 DEF RejectTurnStart, durable, history, Settled, TypeOK
  <2> QED
    BY <1>1, <2>1, CallsKept
<1> QED
  BY <1>2, <1>3, <1>4, <1>5

(* A turn answers its calls, and Stop those of the batch it cuts off.      *)
LEMMA TurnCalls ==
  ASSUME IInv, NEW c \in Top,
         \/ RecordToolCall(c)
         \/ RecordToolResults(c)
         \/ TurnCompletes(c)
         \/ TurnErrors(c)
         \/ RetryLastLLMRequest(c)
         \/ RetryUnrecorded(c)
         \/ StopDetaches(c)
         \/ StopEndsTurn(c)
         \/ StopFails(c)
         \/ StopIdle(c)
  PROVE  CallInv(c)'
<1>1. c \in Convs /\ TypeOK /\ ConvInv(c) /\ CallInv(c)
  BY RecoveryAssumption DEF IInv
<1>2. CASE RecordToolCall(c)
  <2>1. /\ rows'[c] = Append(rows[c], "call") /\ abandoned' = abandoned
        /\ "call" \in RowKinds /\ Settled(c) /\ live'[c] = "tools"
    BY <1>1, <1>2 DEF RecordToolCall, history, Settled, TypeOK, RowKinds
  <2>2. op'[c] = "free"
    BY <1>1, <1>2, BusyIsFree DEF RecordToolCall, Busy
  <2>3. \A i \in Actionable(rows'[c]) :
           rows'[c][i] = "call" =>
             Answered(c, i)' \/ \A k \in Actionable(rows'[c]) : k <= i
    BY <1>1, <2>1, CallsAppended
  <2> QED
    BY <2>1, <2>2, <2>3 DEF CallInv
<1>3. CASE RecordToolResults(c)
  <2>1. /\ rows'[c] = Append(rows[c], "result") /\ abandoned' = abandoned
        /\ "result" \in RowKinds
    BY <1>1, <1>3 DEF RecordToolResults, history, Settled, TypeOK, RowKinds
  <2> QED
    BY <1>1, <2>1, CallsAppended, AnsweredKeeps
<1>4. CASE TurnCompletes(c)
  <2>1. /\ rows'[c] = Append(rows[c], "end") /\ abandoned' = abandoned
        /\ "end" \in RowKinds /\ Settled(c)
    BY <1>1, <1>4 DEF TurnCompletes, EndTurn, history, Settled, TypeOK, RowKinds
  <2> QED
    BY <1>1, <2>1, CallsAppended, AnsweredKeeps
<1>5. CASE TurnErrors(c)
  <2>1. /\ rows'[c] = Append(rows[c], "error") /\ abandoned' = abandoned
        /\ "error" \in RowKinds /\ Settled(c)
    BY <1>1, <1>5 DEF TurnErrors, EndTurn, history, Settled, TypeOK, RowKinds
  <2> QED
    BY <1>1, <2>1, CallsAppended, AnsweredKeeps
<1>6. CASE RetryLastLLMRequest(c)
  <2>1. rows'[c] = rows[c] /\ abandoned' = abandoned /\ (Settled(c)' => Settled(c))
    BY <1>1, <1>6 DEF RetryLastLLMRequest, durable, history, Settled, TypeOK, Given
  <2> QED
    BY <1>1, <2>1, CallsKept
<1>7. CASE StopDetaches(c)
  <2>1. CASE live[c] = "tools"
    <3>1. /\ rows'[c] = Append(rows[c], "result") /\ abandoned' = abandoned
          /\ "result" \in RowKinds
      BY <1>1, <1>7, <2>1 DEF StopDetaches, history, TypeOK, RowKinds
    <3> QED
      BY <1>1, <3>1, CallsAppended, AnsweredKeeps
  <2>2. CASE live[c] = "failed"
    <3>1. /\ rows'[c] = rows[c]
          /\ abandoned' = abandoned \cup {<<c, i>> : i \in PendingCalls(rows[c])}
      BY <1>1, <1>7, <2>2 DEF StopDetaches, TypeOK
    <3> QED
      BY <1>1, <3>1, CallsGivenUp, AnsweredKeeps
  <2>3. CASE live[c] \notin {"tools", "failed"}
    <3>1. rows'[c] = rows[c] /\ abandoned' = abandoned /\ Settled(c)
      BY <1>1, <1>7, <2>3 DEF StopDetaches, history, TypeOK, Settled, Busy, LoopStates
    <3> QED
      BY <1>1, <3>1, CallsKept
  <2> QED
    BY <2>1, <2>2, <2>3
<1>8. CASE StopEndsTurn(c)
  <2>1. /\ rows'[c] = Append(rows[c], "end") /\ abandoned' = abandoned
        /\ "end" \in RowKinds /\ Settled(c)
    BY <1>1, <1>8 DEF StopEndsTurn, EndTurn, history, Settled, TypeOK, RowKinds
  <2> QED
    BY <1>1, <2>1, CallsAppended, AnsweredKeeps
<1>9. CASE StopFails(c)
  <2>1. rows'[c] = rows[c] /\ abandoned' = abandoned /\ (Settled(c)' => Settled(c))
    BY <1>1, <1>9 DEF StopFails, durable, history, Settled, TypeOK
  <2> QED
    BY <1>1, <2>1, CallsKept
<1>10. CASE StopIdle(c)
  <2>1. rows'[c] = rows[c] /\ abandoned' = abandoned /\ (Settled(c)' => Settled(c))
    BY <1>1, <1>10 DEF StopIdle, durable, history, Settled, TypeOK
  <2> QED
    BY <1>1, <2>1, CallsKept
<1>11. CASE RetryUnrecorded(c)
  <2>1. rows'[c] = rows[c] /\ abandoned' = abandoned /\ (Settled(c)' => Settled(c))
    BY <1>1, <1>11 DEF RetryUnrecorded, durable, history, Settled, TypeOK
  <2> QED
    BY <1>1, <2>1, CallsKept
<1> QED
  BY <1>2, <1>3, <1>4, <1>5, <1>6, <1>7, <1>8, <1>9, <1>10, <1>11

(* A loop that ends otherwise leaves its calls as they are, or answered.   *)
LEMMA LoopEndsCalls ==
  ASSUME IInv, NEW c \in Top,
         \/ RecordFails(c)
         \/ \E lost \in BOOLEAN : handleFatalLoopExit(c, lost)
         \/ LoopExpires(c)
         \/ EndRecordFails(c)
  PROVE  CallInv(c)'
<1>1. c \in Convs /\ TypeOK /\ ConvInv(c) /\ CallInv(c)
  BY RecoveryAssumption DEF IInv
<1>2. CASE RecordFails(c)
  <2>1. rows'[c] = rows[c] /\ abandoned' = abandoned /\ (Settled(c)' => Settled(c))
    BY <1>1, <1>2 DEF RecordFails, durable, history, Settled, TypeOK
  <2> QED
    BY <1>1, <2>1, CallsKept
<1>3. ASSUME NEW lost \in BOOLEAN, handleFatalLoopExit(c, lost) PROVE CallInv(c)'
  <2>1. rows'[c] = rows[c] /\ abandoned' = abandoned /\ (Settled(c)' => Settled(c))
    BY <1>1, <1>3 DEF handleFatalLoopExit, Settled, TypeOK
  <2> QED
    BY <1>1, <2>1, CallsKept
<1>4. CASE LoopExpires(c)
  <2>1. CASE live[c] = "tools"
    <3>1. /\ rows'[c] = Append(rows[c], "result") /\ abandoned' = abandoned
          /\ "result" \in RowKinds
      BY <1>1, <1>4, <2>1 DEF LoopExpires, TypeOK, RowKinds
    <3> QED
      BY <1>1, <3>1, CallsAppended, AnsweredKeeps
  <2>2. CASE live[c] # "tools"
    <3>1. rows'[c] = rows[c] /\ abandoned' = abandoned /\ Settled(c)
      BY <1>1, <1>4, <2>2 DEF LoopExpires, TypeOK, Settled, Busy
    <3> QED
      BY <1>1, <3>1, CallsKept
  <2> QED
    BY <2>1, <2>2
<1>5. CASE EndRecordFails(c)
  <2>1. rows'[c] = rows[c] /\ abandoned' = abandoned /\ (Settled(c)' => Settled(c))
    BY <1>1, <1>5 DEF EndRecordFails, durable, history, Settled, TypeOK
  <2> QED
    BY <1>1, <2>1, CallsKept
<1> QED
  BY <1>2, <1>3, <1>4, <1>5

(* An automatic resume answers the calls that the restart cut off.         *)
LEMMA ResumeCalls ==
  ASSUME IInv, NEW c \in Top,
         \/ ClaimUpgradeInterruptedTurn(c)
         \/ ClaimIsRejected(c)
         \/ RecordInterruptedToolResults(c)
         \/ FinishUpgradeInterruptedTurn(c)
         \/ recordWarning(c)
         \/ ResumeFires(c)
         \/ recoverFailedUpgradeResume(c)
         \/ ManagerUnavailable(c)
         \/ TurnIsRefused(c)
  PROVE  CallInv(c)'
<1>1. c \in Convs /\ TypeOK /\ ConvInv(c) /\ CallInv(c)
  BY RecoveryAssumption DEF IInv
<1>2. CASE ClaimUpgradeInterruptedTurn(c)
  <2>1. rows'[c] = rows[c] /\ abandoned' = abandoned /\ (Settled(c)' => Settled(c))
    BY <1>1, <1>2 DEF ClaimUpgradeInterruptedTurn, durable, history, Settled, TypeOK
  <2> QED
    BY <1>1, <2>1, CallsKept
<1>3. CASE ClaimIsRejected(c)
  <2>1. rows'[c] = rows[c] /\ abandoned' = abandoned /\ (Settled(c)' => Settled(c))
    BY <1>1, <1>3 DEF ClaimIsRejected, durable, history, Settled, TypeOK
  <2> QED
    BY <1>1, <2>1, CallsKept
<1>4. CASE RecordInterruptedToolResults(c)
  <2>1. rows'[c] = ClosedCalls(c) /\ abandoned' = abandoned /\ interrupted[c]
    BY <1>1, <1>4 DEF RecordInterruptedToolResults, history, TypeOK, ConvInv, ClaimInv
  <2> QED
    BY <1>1, <2>1, CallsClosedByRepair, AnsweredKeeps
<1>5. CASE FinishUpgradeInterruptedTurn(c)
  <2>1. rows'[c] = rows[c] /\ abandoned' = abandoned /\ (Settled(c)' => Settled(c))
    BY <1>1, <1>5 DEF FinishUpgradeInterruptedTurn, durable, history, Settled, TypeOK
  <2> QED
    BY <1>1, <2>1, CallsKept
<1>6. CASE recordWarning(c)
  <2>1. /\ rows'[c] = Append(rows[c], "warning") /\ abandoned' = abandoned
        /\ "warning" \in RowKinds /\ Settled(c)
    BY <1>1, <1>6 DEF recordWarning, history, Settled, TypeOK, RowKinds
  <2> QED
    BY <1>1, <2>1, CallsAppended, AnsweredKeeps
<1>7. CASE ResumeFires(c)
  <2>1. rows'[c] = rows[c] /\ abandoned' = abandoned /\ (Settled(c)' => Settled(c))
    BY <1>1, <1>7 DEF ResumeFires, durable, history, Settled, TypeOK
  <2> QED
    BY <1>1, <2>1, CallsKept
<1>8. CASE recoverFailedUpgradeResume(c)
  <2>1. rows'[c] = rows[c] /\ abandoned' = abandoned /\ (Settled(c)' => Settled(c))
    BY <1>1, <1>8 DEF recoverFailedUpgradeResume, MarkUpgradeResumeInterrupted, durable, history, Settled, TypeOK
  <2> QED
    BY <1>1, <2>1, CallsKept
<1>9. CASE ManagerUnavailable(c)
  <2>1. rows'[c] = rows[c] /\ abandoned' = abandoned /\ (Settled(c)' => Settled(c))
    BY <1>1, <1>9 DEF ManagerUnavailable, MarkUpgradeResumeInterrupted, durable, history, Settled, TypeOK
  <2> QED
    BY <1>1, <2>1, CallsKept
<1>10. CASE TurnIsRefused(c)
  <2>1. rows'[c] = rows[c] /\ abandoned' = abandoned /\ (Settled(c)' => Settled(c))
    BY <1>1, <1>10 DEF TurnIsRefused, durable, history, Settled, TypeOK
  <2> QED
    BY <1>1, <2>1, CallsKept
<1> QED
  BY <1>2, <1>3, <1>4, <1>5, <1>6, <1>7, <1>8, <1>9, <1>10

(* So does the user's Continue.                                            *)
LEMMA ContinueCalls ==
  ASSUME IInv, NEW c \in Top,
         \/ ContinueInterruptedTurn(c)
         \/ ContinueRepairs(c)
         \/ ClaimInterruptedTurn(c)
         \/ ContinueFails(c)
  PROVE  CallInv(c)'
<1>1. c \in Convs /\ TypeOK /\ ConvInv(c) /\ CallInv(c)
  BY RecoveryAssumption DEF IInv
<1>2. CASE ContinueInterruptedTurn(c)
  <2>1. rows'[c] = rows[c] /\ abandoned' = abandoned /\ (Settled(c)' => Settled(c))
    BY <1>1, <1>2 DEF ContinueInterruptedTurn, durable, history, Settled, TypeOK
  <2> QED
    BY <1>1, <2>1, CallsKept
<1>3. CASE ContinueRepairs(c)
  <2>1. rows'[c] = ClosedCalls(c) /\ abandoned' = abandoned /\ interrupted[c]
    BY <1>1, <1>3 DEF ContinueRepairs, history, TypeOK, ConvInv, LoopInv
  <2> QED
    BY <1>1, <2>1, CallsClosedByRepair, AnsweredKeeps
<1>4. CASE ClaimInterruptedTurn(c)
  <2>1. rows'[c] = rows[c] /\ abandoned' = abandoned /\ (Settled(c)' => Settled(c))
    BY <1>1, <1>4 DEF ClaimInterruptedTurn, durable, history, Settled, TypeOK
  <2> QED
    BY <1>1, <2>1, CallsKept
<1>5. CASE ContinueFails(c)
  <2>1. rows'[c] = rows[c] /\ abandoned' = abandoned /\ (Settled(c)' => Settled(c))
    BY <1>1, <1>5 DEF ContinueFails, durable, history, Settled, TypeOK
  <2> QED
    BY <1>1, <2>1, CallsKept
<1> QED
  BY <1>2, <1>3, <1>4, <1>5

-----------------------------------------------------------------------------
(* The process.                                                            *)

(* No conversation moves while the process is down.                        *)
LEMMA ServingOnly ==
  ASSUME IInv, NEW c \in Convs, ConvStep(c)
  PROVE  phase = "serving"
<1>1. phase \in {"down", "serving"} /\ ConvInv(c)
  BY DEF IInv, TypeOK
<1>2. ASSUME phase = "down" PROVE FALSE
  <2>1. live[c] = "none" /\ token[c] = NoToken /\ op[c] = "free"
    BY <1>2 DEF IInv, DownInv
  <2> QED
    BY <1>2, <2>1 DEF ConvStep, Worker, Handler, Free, Holding, AcceptRepairs, AcceptAborts,
       RejectTurnStart, RecordTurnStart, RecordToolCall, RecordToolResults, TurnCompletes,
       TurnErrors, RetryLastLLMRequest, RetryUnrecorded, RecordFails, handleFatalLoopExit,
       LoopExpires, EndRecordFails, StopDetaches, StopEndsTurn, StopFails, StopIdle,
       ClaimUpgradeInterruptedTurn, ClaimIsRejected, RecordInterruptedToolResults,
       FinishUpgradeInterruptedTurn, recordWarning, ResumeFires, recoverFailedUpgradeResume,
       ManagerUnavailable, TurnIsRefused, ContinueInterruptedTurn, ContinueRepairs,
       ClaimInterruptedTurn, ContinueFails, AutoStages, Busy
<1> QED
  BY <1>1, <1>2

(* A step of one conversation keeps the invariant of all.                  *)
LEMMA ConvStepInv ==
  ASSUME IInv, NEW c \in Convs, ConvStep(c)
  PROVE  IInv'
<1>1. TypeOK' /\ phase' = phase /\ ConvInv(c)' /\ \A d \in Convs \ {c} : Same(d)
  BY SendStep, TurnStep, LoopEndsStep, StopStep, WorkerStep, ResumeFailsStep, ContinueStep
     DEF ConvStep, Worker, Handler
<1>2. DownInv'
  BY <1>1, ServingOnly DEF DownInv
<1>3. \A d \in Convs : ConvInv(d)'
  BY <1>1, SameKeeps DEF IInv
<1>4. abandoned \subseteq abandoned'
  BY DEF ConvStep, Worker, Handler, history, EndTurn, AcceptRepairs, AcceptAborts,
     RejectTurnStart, RecordTurnStart, RecordToolCall, RecordToolResults, TurnCompletes,
     TurnErrors, RetryLastLLMRequest, RetryUnrecorded, RecordFails, handleFatalLoopExit,
       LoopExpires, EndRecordFails, StopDetaches, StopEndsTurn, StopFails, StopIdle,
     ClaimUpgradeInterruptedTurn, ClaimIsRejected, RecordInterruptedToolResults,
     FinishUpgradeInterruptedTurn, recordWarning, ResumeFires, recoverFailedUpgradeResume,
     ManagerUnavailable, TurnIsRefused, ContinueInterruptedTurn, ContinueRepairs,
     ClaimInterruptedTurn, ContinueFails
<1>5. ASSUME NEW d \in Top PROVE CallInv(d)'
  <2>1. CASE d = c
    BY <2>1, SendCalls, TurnCalls, LoopEndsCalls, ResumeCalls, ContinueCalls DEF ConvStep, Worker, Handler
  <2>2. CASE d # c
    <3>1. d \in Convs /\ CallInv(d)
      BY RecoveryAssumption DEF IInv
    <3>2. rows'[d] = rows[d] /\ (Settled(d)' => Settled(d))
      BY <1>1, <2>2, <3>1 DEF Same, Settled
    <3> QED
      BY <1>4, <3>1, <3>2, CallsKept
  <2> QED
    BY <2>1, <2>2
<1> QED
  BY <1>1, <1>2, <1>3, <1>5 DEF IInv

(* At startup every working flag is taken over by a resume worker, turned  *)
(* into an interruption, or dropped because its turn had ended.            *)
LEMMA StartupInv ==
  ASSUME IInv, ConsumeResumeAfterUpgrade
  PROVE  IInv'
<1> USE DEF ConsumeResumeAfterUpgrade, history
<1>1. TypeOK /\ DownInv /\ phase = "down" /\ phase' = "serving"
  BY DEF IInv
<1>2. TypeOK'
  <2>1. left' \in [Events -> Nat]
    BY <1>1, SpendType DEF TypeOK, Events
  <2>2. working' \in [Convs -> BOOLEAN]
    <3>1. \A c \in Convs : (c \in ResumableTurns) \in BOOLEAN
      OBVIOUS
    <3> QED
      BY <3>1
  <2>3. interrupted' \in [Convs -> BOOLEAN]
    <3>1. \A c \in Convs : /\ (interrupted[c] /\ ~working[c]) \in BOOLEAN
                           /\ (c \in InterruptedTurns \/ interrupted[c]) \in BOOLEAN
      OBVIOUS
    <3>2. CASE marker
      BY <3>1, <3>2
    <3>3. CASE ~marker
      <4>1. \A c \in Convs : (IF working[c] /\ c \notin Top THEN FALSE
                             ELSE c \in InterruptedTurns \/ interrupted[c]) \in BOOLEAN
        BY <3>1, Zenon
      <4> QED
        BY <3>3, <4>1
    <3> QED
      BY <3>2, <3>3
  <2>4. token' \in [Convs -> [user : Nat, turn : Nat]]
    <3>1. \A c \in Convs : MaxUserSequenceID(rows[c]) \in Nat /\ turn[c] \in Nat
      BY <1>1, RowFacts DEF RowsOK, TypeOK
    <3>2. NoToken \in [user : Nat, turn : Nat]
      BY DEF NoToken
    <3>3. CASE marker
      <4>1. \A c \in Convs : [user |-> MaxUserSequenceID(rows[c]), turn |-> turn[c]]
                                \in [user : Nat, turn : Nat]
        BY <3>1
      <4> QED
        BY <3>2, <3>3, <4>1
    <3>4. CASE ~marker
      BY <1>1, <3>4 DEF TypeOK
    <3> QED
      BY <3>3, <3>4
  <2> QED
    BY <1>1, <2>1, <2>2, <2>3, <2>4 DEF TypeOK
<1>3. ASSUME NEW c \in Convs PROVE ConvInv(c)'
  <2>1. /\ live[c] = "none" /\ token[c] = NoToken /\ op[c] = "free" /\ ConvInv(c)
        /\ MaxUserSequenceID(rows[c]) \in Nat /\ turn[c] \in Nat
        /\ c \in Top => c \notin Readers
    BY <1>1, RowFacts, RecoveryAssumption DEF IInv, DownInv, RowsOK, TypeOK
  <2>2. /\ rows'[c] = rows[c] /\ live'[c] = "none" /\ op'[c] = "free"
        /\ turn'[c] = turn[c] /\ open'[c] = open[c] /\ dropped' = dropped
    BY <2>1
  <2>3. CASE marker
    <3>1. /\ working'[c] <=> working[c] /\ upgradeResumable(c) /\ ~LatestTurnEndedWithAgent(rows[c])
          /\ interrupted'[c] <=> interrupted[c] /\ ~working[c]
          /\ token'[c] = IF working'[c] THEN [user |-> MaxUserSequenceID(rows[c]), turn |-> turn[c]]
                                        ELSE NoToken
      BY <2>3 DEF ResumableTurns
    <3>2. StartedInv(c)' /\ OpenInv(c)' /\ LoopInv(c)' /\ ClaimInv(c)'
      BY <2>1, <2>2, <3>1 DEF ConvInv, StartedInv, OpenInv, LoopInv, ClaimInv, AutoStages,
         Busy, upgradeResumable
    <3>3. working'[c] => /\ turn[c] > 0 /\ ~interrupted'[c] /\ token'[c] # NoToken
                         /\ token'[c].user = MaxUserSequenceID(rows[c])
                         /\ token'[c].turn = turn[c]
      BY <2>1, <3>1 DEF ConvInv, StartedInv, NoToken
    <3>4. TokenInv(c)' /\ OwnerInv(c)'
      BY <2>1, <2>2, <3>1, <3>3 DEF TokenInv, OwnerInv, Holding, TokenCurrent
    <3> QED
      BY <3>2, <3>4 DEF ConvInv
  <2>4. CASE ~marker
    <3>1. /\ ~working'[c] /\ token'[c] = NoToken
          /\ interrupted'[c] => working[c] \/ interrupted[c]
          /\ c \in Top => (interrupted'[c] <=>
                \/ working[c] /\ ~LatestTurnEndedWithAgent(rows[c])
                \/ interrupted[c])
      BY <2>1, <2>4 DEF InterruptedTurns
    <3>2. StartedInv(c)' /\ OpenInv(c)' /\ LoopInv(c)' /\ ClaimInv(c)'
      BY <2>1, <2>2, <3>1 DEF ConvInv, StartedInv, OpenInv, LoopInv, ClaimInv, AutoStages,
         Busy, Holding
    <3>3. TokenInv(c)' /\ OwnerInv(c)'
      BY <3>1 DEF TokenInv, OwnerInv, Holding
    <3> QED
      BY <3>2, <3>3 DEF ConvInv
  <2> QED
    BY <2>3, <2>4
<1>4. ASSUME NEW c \in Top PROVE CallInv(c)'
  <2>1. rows' = rows /\ live' = live /\ op' = op /\ abandoned' = abandoned /\ CallInv(c)
    BY DEF IInv
  <2> QED
    BY <2>1, CallsKept DEF Settled
<1> QED
  BY <1>1, <1>2, <1>3, <1>4 DEF IInv, DownInv

(* Serving with the flags as they were leaves them without an owner.       *)
LEMMA ServeAnywayInv ==
  ASSUME IInv, ServeAnyway
  PROVE  IInv'
<1> USE DEF ServeAnyway, durable
<1>1. TypeOK /\ DownInv /\ phase = "down" /\ phase' = "serving"
  BY DEF IInv
<1>2. TypeOK'
  <2>1. left' \in [Events -> Nat]
    <3>1. /\ "upset" \in Events /\ "boot" \in Events /\ left \in [Events -> Nat]
          /\ left["upset"] - 1 \in Nat /\ left["boot"] - 1 \in Nat
      BY <1>1 DEF TypeOK, Events
    <3> QED
      BY <3>1
  <2> QED
    BY <1>1, <2>1 DEF TypeOK
<1>3. ASSUME NEW c \in Convs PROVE ConvInv(c)'
  <2>1. live[c] = "none" /\ token[c] = NoToken /\ op[c] = "free" /\ ConvInv(c)
    BY <1>1 DEF IInv, DownInv
  <2>2. StartedInv(c)' /\ OpenInv(c)' /\ LoopInv(c)'
    BY <2>1 DEF ConvInv, StartedInv, OpenInv, LoopInv, Holding
  <2>3. TokenInv(c)' /\ ClaimInv(c)' /\ OwnerInv(c)'
    BY <2>1 DEF TokenInv, ClaimInv, OwnerInv, Holding, AutoStages
  <2> QED
    BY <2>2, <2>3 DEF ConvInv
<1>4. ASSUME NEW c \in Top PROVE CallInv(c)'
  <2>1. rows' = rows /\ live' = live /\ op' = op /\ abandoned' = abandoned /\ CallInv(c)
    BY DEF IInv
  <2> QED
    BY <2>1, CallsKept DEF Settled
<1> QED
  BY <1>1, <1>2, <1>3, <1>4 DEF IInv, DownInv

(* The process may die between any two transactions.                       *)
LEMMA DieInv ==
  ASSUME IInv, Die
  PROVE  IInv'
<1> USE DEF Die, durable, history
<1>1. TypeOK /\ phase' = "down"
  BY DEF IInv
<1>2. TypeOK'
  BY <1>1 DEF TypeOK, NoToken, Stages, LoopStates
<1>3. DownInv'
  BY DEF DownInv
<1>4. ASSUME NEW c \in Convs PROVE ConvInv(c)'
  <2>1. live'[c] = "none" /\ token'[c] = NoToken /\ op'[c] = "free" /\ ConvInv(c)
    BY DEF IInv
  <2>2. StartedInv(c)' /\ OpenInv(c)' /\ LoopInv(c)'
    BY <2>1 DEF ConvInv, StartedInv, OpenInv, LoopInv, Busy
  <2>3. TokenInv(c)' /\ ClaimInv(c)' /\ OwnerInv(c)'
    BY <1>1, <2>1 DEF TokenInv, ClaimInv, OwnerInv, Holding, AutoStages
  <2> QED
    BY <2>2, <2>3 DEF ConvInv
<1>5. ASSUME NEW c \in Top PROVE CallInv(c)'
  <2>1. c \in Convs /\ CallInv(c)
    BY RecoveryAssumption DEF IInv
  <2>2. rows' = rows /\ live'[c] = "none" /\ op'[c] = "free" /\ abandoned' = abandoned
    BY <2>1
  <2> QED
    BY <2>1, <2>2, CallsKept DEF Settled
<1> QED
  BY <1>2, <1>3, <1>4, <1>5 DEF IInv

(* The promise of a restart touches only the marker.                       *)
LEMMA MarkInv ==
  ASSUME IInv, markResumeAfterRestart \/ restartAfterUpgradeFails
  PROVE  IInv'
<1>1. /\ rows' = rows /\ working' = working /\ interrupted' = interrupted /\ phase' = phase
      /\ live' = live /\ token' = token /\ op' = op /\ UNCHANGED history
      /\ marker' \in BOOLEAN /\ restarting' \in BOOLEAN
  BY DEF markResumeAfterRestart, restartAfterUpgradeFails
<1>2. left' \in [Events -> Nat] /\ TypeOK
  BY SpendType DEF IInv, TypeOK, Events, markResumeAfterRestart, restartAfterUpgradeFails
<1>3. TypeOK' /\ DownInv'
  BY <1>1, <1>2 DEF IInv, TypeOK, DownInv, history
<1>4. \A c \in Convs : ConvInv(c)'
  BY <1>1, SameKeeps DEF IInv, Same, history
<1>5. \A c \in Top : CallInv(c)'
  BY <1>1, CallsKept DEF IInv, Settled, history
<1> QED
  BY <1>3, <1>4, <1>5 DEF IInv

-----------------------------------------------------------------------------
(* The initial states satisfy the invariant.                               *)
LEMMA InitInv == Init => IInv
<1> SUFFICES ASSUME Init PROVE IInv
  OBVIOUS
<1>1. TypeOK /\ DownInv
  <2>1. /\ rows \in [Convs -> Seq(RowKinds)] /\ left \in [Events -> Nat]
        /\ token \in [Convs -> [user : Nat, turn : Nat]]
    BY RecoveryAssumption DEF Init, NoToken
  <2> QED
    BY <2>1 DEF Init, TypeOK, DownInv, Stages, LoopStates
<1>2. ASSUME NEW c \in Convs PROVE ConvInv(c) /\ CallInv(c)
  <2>1. /\ rows[c] = <<>> /\ ~working[c] /\ ~interrupted[c] /\ live[c] = "none"
        /\ token[c] = NoToken /\ op[c] = "free" /\ ~open[c]
    BY DEF Init
  <2>2. StartedInv(c) /\ OpenInv(c) /\ LoopInv(c)
    BY <2>1 DEF StartedInv, OpenInv, LoopInv, Busy
  <2>3. TokenInv(c) /\ ClaimInv(c) /\ OwnerInv(c)
    BY <2>1 DEF TokenInv, ClaimInv, OwnerInv, Holding, AutoStages
  <2>4. CallInv(c)
    BY <2>1 DEF CallInv, Actionable
  <2> QED
    BY <2>2, <2>3, <2>4 DEF ConvInv
<1> QED
  BY <1>1, <1>2, RecoveryAssumption DEF IInv

(* Every step of a process, a request or a resume worker, and every crash, *)
(* preserves the invariant.                                                *)
LEMMA StepInv == IInv /\ [Next]_vars => IInv'
<1> SUFFICES ASSUME IInv, [Next]_vars PROVE IInv'
  OBVIOUS
<1>1. CASE UNCHANGED vars
  <2>1. /\ rows' = rows /\ working' = working /\ interrupted' = interrupted /\ phase' = phase
        /\ live' = live /\ token' = token /\ op' = op /\ UNCHANGED history
        /\ marker' = marker /\ restarting' = restarting /\ left' = left
    BY <1>1 DEF vars, durable, volatile
  <2>2. TypeOK' /\ DownInv'
    BY <2>1 DEF IInv, TypeOK, DownInv, history
  <2>3. \A c \in Convs : ConvInv(c)'
    BY <2>1, SameKeeps DEF IInv, Same, history
  <2>4. \A c \in Top : CallInv(c)'
    BY <2>1, CallsKept DEF IInv, Settled, history
  <2> QED
    BY <2>2, <2>3, <2>4 DEF IInv
<1>2. CASE Next
  BY <1>2, StartupInv, ServeAnywayInv, DieInv, MarkInv, ConvStepInv DEF Next, ConvStep
<1> QED
  BY <1>1, <1>2

(* The inductive invariant holds in every run.                             *)
THEOREM Invariance == Spec => []IInv
  BY InitInv, StepInv, PTL DEF Spec

(* A top-level turn that was neither finished nor stopped stays recorded   *)
(* as running or as interrupted, wherever the process dies, unless one of  *)
(* three writes failed: the insert of a send, a record of the loop, or the *)
(* working flag of a Retry.                                                *)
THEOREM TurnsRemembered == Spec => []TurnNotForgotten
<1>1. IInv => TurnNotForgotten
  BY RecoveryAssumption DEF IInv, ConvInv, OpenInv, TurnNotForgotten
<1> QED
  BY <1>1, Invariance, PTL

(* While the process serves, a working flag has a loop, a resume worker or *)
(* a request behind it, or is one that a failed write, a refused resume or *)
(* an expired loop left up.                                                *)
THEOREM WorkHasAnOwner == Spec => []NoPhantomWork
<1>1. IInv => NoPhantomWork
  BY DEF IInv, ConvInv, OwnerInv, NoPhantomWork
<1> QED
  BY <1>1, Invariance, PTL

(* A resume worker past its claim acts on the turn it was started for,     *)
(* which is still open and has no loop.                                    *)
THEOREM ResumesOwnTurn == Spec => []LateResumeHarmless
<1>1. ASSUME IInv PROVE LateResumeHarmless
  <2> SUFFICES ASSUME NEW c \in Convs, op[c] \in AutoStages
               PROVE  Holding(c) /\ token[c].turn = turn[c] /\ open[c] /\ live[c] = "none"
    BY DEF LateResumeHarmless
  <2>1. ConvInv(c)
    BY <1>1 DEF IInv
  <2>2. Holding(c) /\ working[c] /\ MaxUserSequenceID(rows[c]) = token[c].user
    BY <2>1 DEF ConvInv, ClaimInv, TokenCurrent
  <2> QED
    BY <2>1, <2>2 DEF ConvInv, TokenInv, OpenInv
<1> QED
  BY <1>1, Invariance, PTL

(* Recovery leaves no unanswered call behind: in a top-level transcript a  *)
(* call is followed by its results, or by the rows of a turn that started  *)
(* when no interruption was recorded.                                      *)
THEOREM CallsAnswered == Spec => []CallsClosed
<1>1. ASSUME IInv PROVE CallsClosed
  <2> SUFFICES ASSUME NEW c \in Top, NEW i \in Actionable(rows[c]), rows[c][i] = "call",
                      <<c, i>> \notin abandoned,
                      {j \in Actionable(rows[c]) : j > i} # {}
               PROVE  rows[c][CHOOSE j \in {j \in Actionable(rows[c]) : j > i} :
                                \A k \in {k \in Actionable(rows[c]) : k > i} : j <= k] = "result"
    BY DEF CallsClosed
  <2> DEFINE later == {j \in Actionable(rows[c]) : j > i}
  <2>1. CallInv(c) /\ rows[c] \in Seq(RowKinds)
    BY <1>1, RecoveryAssumption DEF IInv, TypeOK
  <2>2. Actionable(rows[c]) \subseteq Nat
    BY <2>1 DEF Actionable
  <2>3. PICK j \in later : rows[c][j] = "result" /\ \A k \in later : j <= k
    BY <2>1, <2>2 DEF CallInv, Answered
  <2>4. \A m \in later : (\A k \in later : m <= k) => m = j
    BY <2>2, <2>3
  <2> HIDE DEF later
  <2>5. (CHOOSE m \in later : \A k \in later : m <= k) = j
    BY <2>3, <2>4
  <2> QED
    BY <2>3, <2>5 DEF later
<1> QED
  BY <1>1, Invariance, PTL

=============================================================================
