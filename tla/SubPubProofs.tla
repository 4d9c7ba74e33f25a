---------------------------- MODULE SubPubProofs ----------------------------
(***************************************************************************)
(* Proofs about SubPub for any number of subscriptions, any capacity and   *)
(* any number of messages.                                                 *)
(***************************************************************************)
EXTENDS SubPub, SequenceTheorems, TLAPS

(* The call in progress: which subscribers it still holds.                 *)
CallInv ==
  /\ op = "idle" => todo = {} /\ remaining = {} /\ phase = "check"
  /\ op # "idle" => published # 0
  /\ todo \cap remaining = {}
  /\ phase = "check" <=> cur = None
  /\ phase # "check" => cur \in todo
  /\ \A s \in todo \cup remaining : joined[s]
  /\ \A s \in subscribers : joined[s]
  /\ \A s \in Subs : ~joined[s] => owed[s] = <<>> /\ delivered[s] = <<>>
                                    /\ ch[s] = <<>> /\ ~closed[s] /\ ~done[s]
                                    /\ ~fellBehind[s] /\ ~ended[s]
  /\ \A s \in Subs : after[s] = joinedAt[s]

(* d, then c, is a prefix of o: NoHole, element by element.                *)
PrefixAt(d, c, o) ==
  /\ Len(d) + Len(c) <= Len(o)
  /\ \A k \in 1..Len(d) : d[k] = o[k]
  /\ \A k \in 1..Len(c) : c[k] = o[Len(d) + k]

PrefixInv == \A s \in Subs : PrefixAt(delivered[s], ch[s], owed[s])

(* A subscriber lacks nothing / exactly the message of the call.           *)
Complete(s) == Len(delivered[s]) + Len(ch[s]) = Len(owed[s])
LacksOne(s) == /\ Len(delivered[s]) + Len(ch[s]) + 1 = Len(owed[s])
               /\ owed[s][Len(owed[s])] = published

(* A registered subscriber, cancelled or not, lacks at most what the call  *)
(* in progress has still to send it.                                       *)
CompleteInv ==
  \A s \in Registered : IF s \in todo /\ Wants(s) THEN LacksOne(s) ELSE Complete(s)

ReasonInv ==
  /\ DoneTellsWhy
  /\ \A s \in Subs : closed[s] => done[s] \/ fellBehind[s]
  /\ phase \in {"close", "cancel"} => fellBehind[cur]
  /\ phase = "cancel" => closed[cur]
  /\ \A s \in Subs : fellBehind[s] =>
       done[s] \/ (cur = s /\ phase \in {"close", "cancel"})

(* How channels are closed and contexts cancelled.                         *)
StatusInv == OpenWhileRegistered /\ DroppedIsClosed /\ ReasonInv

(* The inductive invariant.                                                *)
IInv == TypeOK /\ CallInv /\ StatusInv /\ PrefixInv /\ CompleteInv

-----------------------------------------------------------------------------
(* Type correctness of every SubPub call: each step of Subscribe, Publish, *)
(* Broadcast and next keeps the state well typed, queues within Capacity.  *)
LEMMA TypeInit == Init => TypeOK
<1> SUFFICES ASSUME Init PROVE TypeOK
  OBVIOUS
<1> USE CapacityAssumption, MaxMessagesAssumption
<1> QED
  BY DEF Init, TypeOK, Messages, Calls

(* Each step of subpub.go's calls and readers keeps TypeOK.                *)
LEMMA TypeStep == TypeOK /\ CallInv /\ [Next]_vars => TypeOK'
<1> SUFFICES ASSUME TypeOK, CallInv, [Next]_vars PROVE TypeOK'
  OBVIOUS
<1> USE CapacityAssumption, MaxMessagesAssumption, IndexesAssumption DEF TypeOK, Messages, Calls
<1>1. ASSUME NEW s \in Subs, NEW i \in Indexes, Subscribe(s, i) PROVE TypeOK'
  BY <1>1 DEF Subscribe, callVars
<1>2. ASSUME NEW s \in Subs, Cancel(s) PROVE TypeOK'
  BY <1>2 DEF Cancel, callVars
<1>3. ASSUME NEW call \in Calls, NEW i \in Int, Begin(call, i) PROVE TypeOK'
  <2>1. published + 1 \in 1..MaxMessages
    BY <1>3 DEF Begin
  <2>2. \A s \in Subs : Append(owed[s], published + 1) \in Seq(Messages)
    BY <2>1, AppendProperties
  <2>3. owed' \in [Subs -> Seq(Messages)]
    BY <1>3, <2>2 DEF Begin
  <2>4. UNCHANGED <<joined, after, ch, closed, done, fellBehind, ended>>
    BY <1>3 DEF Begin, subVars
  <2>5. /\ subscribers' \subseteq Subs /\ todo' \subseteq Subs /\ remaining' \subseteq Subs
        /\ op' \in Calls \cup {"idle"} /\ idx' \in Int /\ published' \in 0..MaxMessages
    BY <1>3, <2>1 DEF Begin
  <2>6. UNCHANGED <<cur, phase, joinedAt, cancelled, delivered>>
    BY <1>3 DEF Begin
  <2> HIDE DEF Messages
  <2> QED
    BY <2>3, <2>4, <2>5, <2>6
<1>4. ASSUME NEW s \in todo, CheckGone(s) PROVE TypeOK'
  BY <1>4 DEF CheckGone, histVars
<1>5. ASSUME NEW s \in todo, CheckLive(s) PROVE TypeOK'
  BY <1>5 DEF CheckLive, histVars, subVars
<1>6. CASE Skip
  <2>1. cur \in Subs
    BY <1>6 DEF Skip, CallInv
  <2> QED
    BY <1>6, <2>1 DEF Skip, Keep, histVars, subVars
<1>7. CASE Send
  <2>1. published \in 1..MaxMessages /\ cur \in Subs
    BY <1>7 DEF Send, CallInv
  <2>2. ch' \in [Subs -> Seq(1..MaxMessages)]
    BY <1>7, <2>1 DEF Send
  <2>3. \A s \in Subs : Len(ch'[s]) <= Capacity
    BY <1>7, <2>1 DEF Send
  <2> QED
    BY <1>7, <2>2, <2>3 DEF Send, Keep, histVars
<1>8. CASE Full
  BY <1>8 DEF Full, histVars
<1>9. CASE CloseFull
  BY <1>9 DEF CloseFull, histVars
<1>10. CASE CancelFull
  BY <1>10 DEF CancelFull, histVars
<1>11. CASE Finish
  BY <1>11 DEF Finish, histVars, subVars
<1>12. ASSUME NEW s \in Subs, Receive(s) PROVE TypeOK'
  <2>1. ch[s] \in Seq(Messages) /\ ch[s] # <<>>
    BY <1>12 DEF Receive
  <2>2. /\ Head(ch[s]) \in Messages
        /\ Tail(ch[s]) \in Seq(Messages)
        /\ Len(Tail(ch[s])) = Len(ch[s]) - 1
    BY <2>1, HeadTailProperties
  <2>3. Append(delivered[s], Head(ch[s])) \in Seq(Messages)
    BY <2>2, AppendProperties
  <2>4. Len(ch[s]) \in Nat
    BY <2>1, LenProperties
  <2>5. ch' \in [Subs -> Seq(Messages)] /\ delivered' \in [Subs -> Seq(Messages)]
    BY <1>12, <2>2, <2>3 DEF Receive
  <2>6. \A t \in Subs : Len(ch'[t]) <= Capacity
    BY <1>12, <2>2, <2>4 DEF Receive
  <2> HIDE DEF Messages
  <2> QED
    BY <1>12, <2>5, <2>6 DEF Receive, callVars
<1>13. ASSUME NEW s \in Subs, End(s) PROVE TypeOK'
  BY <1>13 DEF End, callVars, histVars
<1>14. CASE UNCHANGED vars
  BY <1>14 DEF vars, callVars, subVars, histVars
<1> HIDE DEF TypeOK
<1>15. 0 \in Int /\ Indexes \subseteq Int
  OBVIOUS
<1> QED
  BY <1>1, <1>2, <1>3, <1>4, <1>5, <1>6, <1>7, <1>8, <1>9, <1>10, <1>11,
     <1>12, <1>13, <1>14, <1>15 DEF Next, Visit, Reader, Publish, Broadcast

-----------------------------------------------------------------------------
(* The bookkeeping of the call that holds the mutex.                       *)
LEMMA CallStep == TypeOK /\ CallInv /\ [Next]_vars => CallInv'
<1> SUFFICES ASSUME TypeOK, CallInv, [Next]_vars PROVE CallInv'
  OBVIOUS
<1> USE NoneAssumption DEF TypeOK, Calls, CallInv
<1>1. ASSUME NEW s \in Subs, NEW i \in Indexes, Subscribe(s, i) PROVE CallInv'
  BY <1>1 DEF Subscribe, callVars
<1>2. ASSUME NEW s \in Subs, Cancel(s) PROVE CallInv'
  BY <1>2 DEF Cancel, callVars
<1>3. ASSUME NEW call \in Calls, NEW i \in Int, Begin(call, i) PROVE CallInv'
  BY <1>3 DEF Begin, subVars
<1>4. ASSUME NEW s \in todo, CheckGone(s) PROVE CallInv'
  BY <1>4 DEF CheckGone, histVars
<1>5. ASSUME NEW s \in todo, CheckLive(s) PROVE CallInv'
  BY <1>5 DEF CheckLive, histVars, subVars
<1>6. CASE Skip
  BY <1>6 DEF Skip, Keep, histVars, subVars
<1>7. CASE Send
  BY <1>7 DEF Send, Keep, histVars
<1>8. CASE Full
  BY <1>8 DEF Full, histVars
<1>9. CASE CloseFull
  BY <1>9 DEF CloseFull, histVars
<1>10. CASE CancelFull
  BY <1>10 DEF CancelFull, histVars
<1>11. CASE Finish
  BY <1>11 DEF Finish, histVars, subVars
<1>12. ASSUME NEW s \in Subs, Receive(s) PROVE CallInv'
  BY <1>12 DEF Receive, callVars
<1>13. ASSUME NEW s \in Subs, End(s) PROVE CallInv'
  BY <1>13 DEF End, callVars, histVars
<1>14. CASE UNCHANGED vars
  BY <1>14 DEF vars, callVars, subVars, histVars
<1> HIDE DEF TypeOK, CallInv
<1>15. 0 \in Int /\ Indexes \subseteq Int
  BY IndexesAssumption
<1> QED
  BY <1>1, <1>2, <1>3, <1>4, <1>5, <1>6, <1>7, <1>8, <1>9, <1>10, <1>11,
     <1>12, <1>13, <1>14, <1>15 DEF Next, Visit, Reader, Publish, Broadcast

(* Channels and contexts: each step keeps StatusInv.                       *)
LEMMA StatusStep == TypeOK /\ CallInv /\ StatusInv /\ [Next]_vars => StatusInv'
<1> SUFFICES ASSUME TypeOK, CallInv, StatusInv, [Next]_vars PROVE StatusInv'
  OBVIOUS
<1> USE NoneAssumption
    DEF TypeOK, Calls, CallInv, StatusInv, OpenWhileRegistered, DroppedIsClosed,
        ReasonInv, DoneTellsWhy, Registered
<1>1. ASSUME NEW s \in Subs, NEW i \in Indexes, Subscribe(s, i) PROVE StatusInv'
  BY <1>1 DEF Subscribe, callVars
<1>2. ASSUME NEW s \in Subs, Cancel(s) PROVE StatusInv'
  BY <1>2 DEF Cancel, callVars
<1>3. ASSUME NEW call \in Calls, NEW i \in Int, Begin(call, i) PROVE StatusInv'
  BY <1>3 DEF Begin, subVars
<1>4. ASSUME NEW s \in todo, CheckGone(s) PROVE StatusInv'
  BY <1>4 DEF CheckGone, histVars
<1>5. ASSUME NEW s \in todo, CheckLive(s) PROVE StatusInv'
  BY <1>5 DEF CheckLive, histVars, subVars
<1>6. CASE Skip
  BY <1>6 DEF Skip, Keep, histVars, subVars
<1>7. CASE Send
  BY <1>7 DEF Send, Keep, histVars
<1>8. CASE Full
  BY <1>8 DEF Full, histVars
<1>9. CASE CloseFull
  BY <1>9 DEF CloseFull, histVars
<1>10. CASE CancelFull
  <2>1. cur \in Subs /\ cur \in todo /\ fellBehind[cur]
    BY <1>10 DEF CancelFull
  <2>2. closed[cur]
    BY <1>10 DEF CancelFull
  <2> QED
    BY <1>10, <2>1, <2>2 DEF CancelFull, histVars
<1>11. CASE Finish
  BY <1>11 DEF Finish, histVars, subVars
<1>12. ASSUME NEW s \in Subs, Receive(s) PROVE StatusInv'
  BY <1>12 DEF Receive, callVars
<1>13. ASSUME NEW s \in Subs, End(s) PROVE StatusInv'
  BY <1>13 DEF End, callVars, histVars
<1>14. CASE UNCHANGED vars
  BY <1>14 DEF vars, callVars, subVars, histVars
<1> HIDE DEF TypeOK, CallInv, StatusInv
<1>15. 0 \in Int /\ Indexes \subseteq Int
  BY IndexesAssumption
<1> QED
  BY <1>1, <1>2, <1>3, <1>4, <1>5, <1>6, <1>7, <1>8, <1>9, <1>10, <1>11,
     <1>12, <1>13, <1>14, <1>15 DEF Next, Visit, Reader, Publish, Broadcast

-----------------------------------------------------------------------------
(* One more owed index counts as one more index in all (Publish).          *)
LEMMA PlusOne ==
  ASSUME NEW a \in Nat, NEW b \in Nat PROVE a + (b + 1) = (a + b) + 1
  OBVIOUS

(* A proper part of a sum is below it (the delivered prefix).              *)
LEMMA LessBySome ==
  ASSUME NEW a \in Nat, NEW b \in Nat, NEW c \in Nat, b > 0, a + b <= c
  PROVE  a < c
  OBVIOUS

(* Facts about Append, Head and Tail in the form the proof below uses.     *)
LEMMA AppendFacts ==
  ASSUME NEW q \in Seq(Messages), NEW e
  PROVE  /\ Len(Append(q, e)) = Len(q) + 1
         /\ Append(q, e)[Len(q) + 1] = e
         /\ \A k \in 1..Len(q) : Append(q, e)[k] = q[k]
  OBVIOUS

(* What a receive on a channel takes and leaves.                           *)
LEMMA HeadTailFacts ==
  ASSUME NEW q \in Seq(Messages), q # <<>>
  PROVE  /\ Head(q) = q[1]
         /\ Len(q) > 0
         /\ Len(Tail(q)) = Len(q) - 1
         /\ \A k \in 1..Len(q) - 1 : Tail(q)[k] = q[k + 1]
  OBVIOUS

(* Publish puts one message more on a subscriber's account: what it has    *)
(* is still the prefix of its feed.                                        *)
LEMMA PrefixOwe ==
  ASSUME NEW d \in Seq(Messages), NEW c \in Seq(Messages), NEW o \in Seq(Messages),
         NEW e, PrefixAt(d, c, o)
  PROVE  PrefixAt(d, c, Append(o, e))
<1>1. /\ Len(Append(o, e)) = Len(o) + 1
      /\ \A k \in 1..Len(o) : Append(o, e)[k] = o[k]
  BY AppendFacts
<1>2. Len(d) \in Nat /\ Len(c) \in Nat /\ Len(o) \in Nat
  BY LenProperties
<1> QED
  BY <1>1, <1>2 DEF PrefixAt

(* Publish sends what it owes into the subscriber's channel: what is       *)
(* delivered and buffered is still the prefix of its feed.                 *)
LEMMA PrefixSend ==
  ASSUME NEW d \in Seq(Messages), NEW c \in Seq(Messages), NEW o \in Seq(Messages),
         NEW e, PrefixAt(d, c, o), Len(d) + Len(c) + 1 = Len(o), o[Len(o)] = e
  PROVE  PrefixAt(d, Append(c, e), o)
<1>1. /\ Len(Append(c, e)) = Len(c) + 1
      /\ Append(c, e)[Len(c) + 1] = e
      /\ \A k \in 1..Len(c) : Append(c, e)[k] = c[k]
  BY AppendFacts
<1>2. Len(d) \in Nat /\ Len(c) \in Nat /\ Len(o) \in Nat
  BY LenProperties
<1>3. \A k \in 1..Len(Append(c, e)) : Append(c, e)[k] = o[Len(d) + k]
  <2> SUFFICES ASSUME NEW k \in 1..Len(c) + 1 PROVE Append(c, e)[k] = o[Len(d) + k]
    BY <1>1
  <2>1. CASE k = Len(c) + 1
    BY <1>1, <1>2, <2>1
  <2>2. CASE k \in 1..Len(c)
    BY <1>1, <1>2, <2>2 DEF PrefixAt
  <2> QED
    BY <1>2, <2>1, <2>2
<1> QED
  BY <1>1, <1>2, <1>3 DEF PrefixAt

(* next receives from the channel: delivered and buffered messages are     *)
(* together the same prefix as before.                                     *)
LEMMA PrefixReceive ==
  ASSUME NEW d \in Seq(Messages), NEW c \in Seq(Messages), NEW o \in Seq(Messages),
         c # <<>>, PrefixAt(d, c, o)
  PROVE  /\ PrefixAt(Append(d, Head(c)), Tail(c), o)
         /\ Head(c) = o[Len(d) + 1]
         /\ Len(Append(d, Head(c))) + Len(Tail(c)) = Len(d) + Len(c)
<1>1. /\ Len(Append(d, Head(c))) = Len(d) + 1
      /\ Append(d, Head(c))[Len(d) + 1] = Head(c)
      /\ \A k \in 1..Len(d) : Append(d, Head(c))[k] = d[k]
  BY AppendFacts
<1>2. /\ Head(c) = c[1] /\ Len(c) > 0 /\ Len(Tail(c)) = Len(c) - 1
      /\ \A k \in 1..Len(c) - 1 : Tail(c)[k] = c[k + 1]
  BY HeadTailFacts
<1>3. Len(d) \in Nat /\ Len(c) \in Nat /\ Len(o) \in Nat
  BY LenProperties
<1>4. Head(c) = o[Len(d) + 1]
  BY <1>2, <1>3 DEF PrefixAt
<1>5. \A k \in 1..Len(d) + 1 : Append(d, Head(c))[k] = o[k]
  <2> SUFFICES ASSUME NEW k \in 1..Len(d) + 1 PROVE Append(d, Head(c))[k] = o[k]
    OBVIOUS
  <2>1. CASE k = Len(d) + 1
    BY <1>1, <1>4, <2>1
  <2>2. CASE k \in 1..Len(d)
    BY <1>1, <2>2 DEF PrefixAt
  <2> QED
    BY <1>3, <2>1, <2>2
<1>6. \A k \in 1..Len(c) - 1 : Tail(c)[k] = o[(Len(d) + 1) + k]
  <2> SUFFICES ASSUME NEW k \in 1..Len(c) - 1 PROVE Tail(c)[k] = o[(Len(d) + 1) + k]
    OBVIOUS
  <2>1. k + 1 \in 1..Len(c) /\ Len(d) + (k + 1) = (Len(d) + 1) + k
    BY <1>3
  <2> QED
    BY <1>2, <2>1 DEF PrefixAt
<1> QED
  BY <1>1, <1>2, <1>3, <1>4, <1>5, <1>6 DEF PrefixAt

-----------------------------------------------------------------------------
(* What each subscriber has and lacks.                                     *)
FeedInv == PrefixInv /\ CompleteInv

(* Each step of a call, a reader or a cancellation keeps FeedInv.          *)
LEMMA FeedStep == TypeOK /\ CallInv /\ FeedInv /\ [Next]_vars => FeedInv'
<1> SUFFICES ASSUME TypeOK, CallInv, FeedInv, [Next]_vars PROVE FeedInv'
  OBVIOUS
<1> USE NoneAssumption DEF FeedInv, PrefixInv, CompleteInv, Registered, Wants
<1>0. /\ \A s \in Subs : owed[s] \in Seq(Messages) /\ ch[s] \in Seq(Messages)
                                                   /\ delivered[s] \in Seq(Messages)
      /\ \A s \in Subs : Len(owed[s]) \in Nat /\ Len(ch[s]) \in Nat
                                              /\ Len(delivered[s]) \in Nat
      /\ subscribers \subseteq Subs /\ todo \subseteq Subs /\ remaining \subseteq Subs
  BY LenProperties DEF TypeOK
<1>u. ASSUME UNCHANGED <<owed, ch, delivered, published>>
      PROVE  /\ PrefixInv'
             /\ \A s \in Subs : Complete(s)' = Complete(s) /\ LacksOne(s)' = LacksOne(s)
  BY <1>u DEF Complete, LacksOne
<1>1. ASSUME NEW s \in Subs, NEW i \in Indexes, Subscribe(s, i) PROVE FeedInv'
  <2>1. Complete(s)
    <3>1. owed[s] = <<>> /\ delivered[s] = <<>> /\ ch[s] = <<>>
      BY <1>1 DEF Subscribe, CallInv
    <3> QED
      BY <3>1, EmptySeq DEF Complete
  <2> QED
    BY <1>1, <1>0, <1>u, <2>1 DEF Subscribe, callVars, CallInv
<1>2. ASSUME NEW s \in Subs, Cancel(s) PROVE FeedInv'
  BY <1>2, <1>0, <1>u DEF Cancel, callVars
<1>3. ASSUME NEW call \in Calls, NEW i \in Int, Begin(call, i) PROVE FeedInv'
  <2>1. /\ op = "idle" /\ todo = {} /\ remaining = {}
        /\ op' = call /\ op' # "idle" /\ idx' = i /\ published' = published + 1
        /\ todo' = subscribers /\ remaining' = {}
        /\ UNCHANGED <<subscribers, after, ch, delivered>>
    BY <1>3 DEF Begin, CallInv, Calls, subVars
  <2>2. ASSUME NEW s \in Subs
        PROVE  owed'[s] = IF s \in subscribers /\ (call = "broadcast" \/ after[s] < i)
                          THEN Append(owed[s], published + 1) ELSE owed[s]
    BY <1>3 DEF Begin, CallInv, TypeOK
  <2>3. PrefixInv'
    BY <2>1, <2>2, <1>0, PrefixOwe
  <2>4. CompleteInv'
    <3> SUFFICES ASSUME NEW s \in subscribers
                 PROVE  IF call = "broadcast" \/ after[s] < i
                        THEN LacksOne(s)' ELSE Complete(s)'
      BY <2>1
    <3>1. Complete(s)
      BY <2>1
    <3>2. CASE call = "broadcast" \/ after[s] < i
      <4>1. owed'[s] = Append(owed[s], published + 1)
        BY <3>2, <2>2, <1>0
      <4>2. Len(owed'[s]) = Len(owed[s]) + 1 /\ owed'[s][Len(owed[s]) + 1] = published + 1
        BY <4>1, <1>0, AppendFacts
      <4> QED
        BY <3>1, <3>2, <4>2, <2>1, <1>0 DEF Complete, LacksOne
    <3>3. CASE ~(call = "broadcast" \/ after[s] < i)
      BY <3>1, <3>3, <2>1, <2>2, <1>0 DEF Complete
    <3> QED
      BY <3>2, <3>3
  <2> QED
    BY <2>3, <2>4
<1>4. ASSUME NEW s \in todo, CheckGone(s) PROVE FeedInv'
  BY <1>4, <1>0, <1>u DEF CheckGone, histVars, CallInv
<1>5. ASSUME NEW s \in todo, CheckLive(s) PROVE FeedInv'
  BY <1>5, <1>0, <1>u DEF CheckLive, histVars, subVars
<1>6. CASE Skip
  BY <1>6, <1>0, <1>u DEF Skip, Keep, histVars, subVars, CallInv
<1>7. CASE Send
  <2>1. /\ cur \in todo /\ op # "idle" /\ cur \notin remaining
        /\ UNCHANGED <<op, idx, published, subscribers, after, owed, delivered>>
        /\ todo' = todo \ {cur} /\ remaining' = remaining \cup {cur}
    BY <1>7 DEF Send, Keep, CallInv, histVars
  <2>2. LacksOne(cur)
    BY <1>7, <2>1 DEF Send
  <2>3. ASSUME NEW s \in Subs
        PROVE  ch'[s] = IF s = cur THEN Append(ch[cur], published) ELSE ch[s]
    BY <1>7, <2>1, <1>0 DEF Send, TypeOK
  <2>4. PrefixInv'
    BY <2>1, <2>2, <2>3, <1>0, PrefixSend DEF LacksOne
  <2>5. ASSUME NEW s \in Subs, s = cur PROVE Complete(s)'
    <3>1. ch'[s] = Append(ch[s], published)
      BY <2>3, <2>5
    <3>2. Len(ch'[s]) = Len(ch[s]) + 1
      BY <3>1, <1>0, AppendFacts
    <3>3. Len(delivered[s]) + Len(ch[s]) + 1 = Len(owed[s])
      BY <2>2, <2>5 DEF LacksOne
    <3>4. Len(delivered[s]) \in Nat /\ Len(ch[s]) \in Nat
      BY <1>0
    <3>5. Len(delivered[s]) + (Len(ch[s]) + 1) = Len(owed[s])
      BY <3>3, <3>4, PlusOne
    <3> QED
      BY <2>1, <3>2, <3>5 DEF Complete
  <2>6. \A s \in Subs \ {cur} : Complete(s)' = Complete(s) /\ LacksOne(s)' = LacksOne(s)
    BY <2>1, <2>3 DEF LacksOne, Complete
  <2>7. CompleteInv'
    <3> SUFFICES ASSUME NEW s \in todo' \cup remaining'
                 PROVE  IF s \in todo' /\ Wants(s)' THEN LacksOne(s)' ELSE Complete(s)'
      BY <2>1
    <3>1. CASE s = cur
      BY <3>1, <2>1, <2>5, <1>0
    <3>2. CASE s # cur
      BY <3>2, <2>1, <2>6, <1>0
    <3> QED
      BY <3>1, <3>2
  <2> QED
    BY <2>4, <2>7
<1>8. CASE Full
  BY <1>8, <1>0, <1>u DEF Full, histVars
<1>9. CASE CloseFull
  BY <1>9, <1>0, <1>u DEF CloseFull, histVars
<1>10. CASE CancelFull
  BY <1>10, <1>0, <1>u DEF CancelFull, histVars, CallInv
<1>11. CASE Finish
  BY <1>11, <1>0, <1>u DEF Finish, histVars, subVars
<1>12. ASSUME NEW s \in Subs, Receive(s) PROVE FeedInv'
  <2>1. /\ ch[s] # <<>>
        /\ UNCHANGED <<op, idx, published, subscribers, after, owed, todo, remaining>>
    BY <1>12 DEF Receive, callVars
  <2>2. ASSUME NEW t \in Subs
        PROVE  /\ ch'[t] = IF t = s THEN Tail(ch[s]) ELSE ch[t]
               /\ delivered'[t] = IF t = s THEN Append(delivered[s], Head(ch[s]))
                                            ELSE delivered[t]
    BY <1>12 DEF Receive, TypeOK
  <2>3. /\ PrefixAt(Append(delivered[s], Head(ch[s])), Tail(ch[s]), owed[s])
        /\ Len(delivered'[s]) + Len(ch'[s]) = Len(delivered[s]) + Len(ch[s])
    <3>1. PrefixAt(delivered[s], ch[s], owed[s])
      OBVIOUS
    <3>2. delivered[s] \in Seq(Messages) /\ ch[s] \in Seq(Messages) /\ owed[s] \in Seq(Messages)
      BY <1>0
    <3>3. /\ PrefixAt(Append(delivered[s], Head(ch[s])), Tail(ch[s]), owed[s])
          /\ Len(Append(delivered[s], Head(ch[s]))) + Len(Tail(ch[s]))
               = Len(delivered[s]) + Len(ch[s])
      BY <2>1, <3>1, <3>2, PrefixReceive
    <3> QED
      BY <2>2, <3>3
  <2>4. PrefixInv'
    BY <2>1, <2>2, <2>3
  <2>5. \A t \in Subs : Len(delivered'[t]) + Len(ch'[t]) = Len(delivered[t]) + Len(ch[t])
    BY <2>2, <2>3
  <2>6. \A t \in Subs : Complete(t)' = Complete(t) /\ LacksOne(t)' = LacksOne(t)
    BY <2>1, <2>5 DEF Complete, LacksOne
  <2>7. CompleteInv'
    BY <2>1, <2>6, <1>0
  <2> QED
    BY <2>4, <2>7
<1>13. ASSUME NEW s \in Subs, End(s) PROVE FeedInv'
  BY <1>13, <1>0, <1>u DEF End, callVars, histVars
<1>14. CASE UNCHANGED vars
  BY <1>14, <1>0, <1>u DEF vars, callVars, subVars, histVars
<1> HIDE DEF FeedInv
<1>15. 0 \in Int /\ Indexes \subseteq Int /\ "publish" \in Calls /\ "broadcast" \in Calls
  BY IndexesAssumption DEF Calls
<1> QED
  BY <1>1, <1>2, <1>3, <1>4, <1>5, <1>6, <1>7, <1>8, <1>9, <1>10, <1>11,
     <1>12, <1>13, <1>14, <1>15 DEF Next, Visit, Reader, Publish, Broadcast

-----------------------------------------------------------------------------
(* A new SubPub, without subscribers, satisfies the inductive invariant.   *)
LEMMA InitInv == Init => IInv
<1> SUFFICES ASSUME Init PROVE IInv
  OBVIOUS
<1>1. TypeOK
  BY TypeInit
<1>2. CallInv
  BY DEF Init, CallInv
<1>3. StatusInv
  BY DEF Init, StatusInv, OpenWhileRegistered, DroppedIsClosed, ReasonInv,
         DoneTellsWhy, Registered
<1>4. PrefixInv
  <2>1. PrefixAt(<<>>, <<>>, <<>>)
    BY EmptySeq DEF PrefixAt
  <2> QED
    BY <2>1 DEF Init, PrefixInv
<1>5. CompleteInv
  BY DEF Init, CompleteInv, Registered
<1> QED
  BY <1>1, <1>2, <1>3, <1>4, <1>5 DEF IInv

(* Every step of a call or a reader keeps the inductive invariant.         *)
LEMMA StepInv == IInv /\ [Next]_vars => IInv'
  BY TypeStep, CallStep, StatusStep, FeedStep DEF IInv, FeedInv

(* Every state any sequence of SubPub calls reaches satisfies IInv.        *)
THEOREM Invariance == Spec => []IInv
  BY InitInv, StepInv, PTL DEF Spec

(* Type correctness of subpub.go's state; a queue never exceeds Capacity.  *)
THEOREM TypeCorrect == Spec => []TypeOK
<1>1. IInv => TypeOK
  BY DEF IInv
<1> QED
  BY <1>1, Invariance, PTL

(* Publish and Broadcast never send on a closed channel or close one       *)
(* twice, so they cannot panic with the mutex held.                        *)
THEOREM NeverClosedTwice == Spec => []OpenWhileRegistered
<1>1. IInv => OpenWhileRegistered
  BY DEF IInv, StatusInv
<1> QED
  BY <1>1, Invariance, PTL

(* A subscriber that Publish or Broadcast drops has its channel closed.    *)
THEOREM DropIsSeen == Spec => []DroppedIsClosed
<1>1. IInv => DroppedIsClosed
  BY DEF IInv, StatusInv
<1> QED
  BY <1>1, Invariance, PTL

(* A subscription that Publish ended reports that it fell behind.          *)
THEOREM ReasonIsSeen == Spec => []DoneTellsWhy
<1>1. IInv => DoneTellsWhy
  BY DEF IInv, StatusInv, ReasonInv
<1> QED
  BY <1>1, Invariance, PTL

(* A reader never sees a hole, a repetition or a reordering, in whatever   *)
(* order the indexes were published.                                       *)
THEOREM FeedHasNoHole == Spec => []NoHole
<1>1. IInv => NoHole
  <2> SUFFICES ASSUME IInv, NEW s \in Subs
               PROVE  LET got == delivered[s] \o ch[s]
                      IN  /\ Len(got) <= Len(owed[s])
                          /\ got = SubSeq(owed[s], 1, Len(got))
    BY DEF NoHole
  <2> DEFINE got == delivered[s] \o ch[s]
  <2>1. delivered[s] \in Seq(Messages) /\ ch[s] \in Seq(Messages) /\ owed[s] \in Seq(Messages)
    BY DEF IInv, TypeOK
  <2>2. Len(delivered[s]) \in Nat /\ Len(ch[s]) \in Nat /\ Len(owed[s]) \in Nat
    BY <2>1, LenProperties
  <2>3. PrefixAt(delivered[s], ch[s], owed[s])
    BY DEF IInv, PrefixInv
  <2>4. /\ got \in Seq(Messages)
        /\ Len(got) = Len(delivered[s]) + Len(ch[s])
        /\ \A i \in 1..Len(delivered[s]) + Len(ch[s]) :
             got[i] = IF i <= Len(delivered[s]) THEN delivered[s][i]
                                                ELSE ch[s][i - Len(delivered[s])]
    BY <2>1, ConcatProperties
  <2> HIDE DEF got
  <2>e. Len(got) = Len(delivered[s]) + Len(ch[s])
    BY <2>4
  <2>l. Len(got) \in Nat
    BY <2>4, LenProperties
  <2>5. Len(got) <= Len(owed[s])
    <3>1. Len(delivered[s]) + Len(ch[s]) <= Len(owed[s])
      BY <2>3 DEF PrefixAt
    <3> QED
      BY <3>1, <2>4
  <2>6. ASSUME NEW i \in 1..Len(got) PROVE got[i] = owed[s][i]
    <3>1. CASE i <= Len(delivered[s])
      <4>1. i \in 1..Len(delivered[s])
        BY <3>1, <2>2, <2>l
      <4>3. i \in 1..Len(delivered[s]) + Len(ch[s])
        BY <2>e
      <4>2. \A k \in 1..Len(delivered[s]) : delivered[s][k] = owed[s][k]
        BY <2>3 DEF PrefixAt
      <4> QED
        BY <3>1, <4>1, <4>2, <4>3, <2>4
    <3>2. CASE ~(i <= Len(delivered[s]))
      <4> DEFINE n == Len(delivered[s])
      <4>1. n \in Nat /\ Len(ch[s]) \in Nat /\ i \in 1..n + Len(ch[s]) /\ ~(i <= n)
        BY <3>2, <2>2, <2>4
      <4>2. got[i] = ch[s][i - n]
        BY <4>1, <2>4
      <4>3. \A k \in 1..Len(ch[s]) : ch[s][k] = owed[s][n + k]
        BY <2>3 DEF PrefixAt
      <4> HIDE DEF n
      <4>4. i - n \in 1..Len(ch[s]) /\ n + (i - n) = i
        BY <4>1
      <4> QED
        BY <4>2, <4>3, <4>4
    <3> QED
      BY <3>1, <3>2
  <2> DEFINE pre == SubSeq(owed[s], 1, Len(got))
  <2>7. \A i \in 1..Len(got) : owed[s][i] \in Messages
    <3> SUFFICES ASSUME NEW i \in 1..Len(got) PROVE owed[s][i] \in Messages
      OBVIOUS
    <3>1. i \in 1..Len(owed[s])
      BY <2>2, <2>l, <2>5
    <3> QED
      BY <3>1, <2>1, ElementOfSeq
  <2>8. /\ pre \in Seq(Messages)
        /\ Len(pre) = Len(got)
        /\ \A i \in 1..Len(got) : pre[i] = owed[s][i]
    <3>1. Len(got) \in Nat
      BY <2>l
    <3>2. /\ pre \in Seq(Messages)
          /\ Len(pre) = IF 1 <= Len(got) THEN Len(got) - 1 + 1 ELSE 0
          /\ \A i \in 1..Len(got) - 1 + 1 : pre[i] = owed[s][1 + i - 1]
      BY <3>1, <2>7, SubSeqProperties
    <3> HIDE DEF got, pre
    <3> QED
      BY <3>1, <3>2
  <2>9. got = pre
    <3> HIDE DEF got, pre
    <3> QED
      BY <2>4, <2>6, <2>8, SeqEqual
  <2> QED
    BY <2>5, <2>9 DEF got, pre
<1> QED
  BY <1>1, Invariance, PTL

(* No subscription loses a message silently: between calls, one that has   *)
(* not ended has every message it asked for, delivered or buffered.        *)
THEOREM NothingLostSilently == Spec => []NoSilentLoss
<1>1. IInv => NoSilentLoss
  <2> SUFFICES ASSUME IInv, op = "idle", NEW s \in Subs, joined[s], ~done[s]
               PROVE  Len(delivered[s]) + Len(ch[s]) = Len(owed[s])
    BY DEF NoSilentLoss
  <2>1. todo = {} /\ phase = "check"
    BY DEF IInv, CallInv
  <2>2. ~fellBehind[s]
    BY <2>1 DEF IInv, StatusInv, ReasonInv
  <2>3. s \in Registered
    BY <2>2 DEF IInv, StatusInv, ReasonInv, DroppedIsClosed
  <2> QED
    BY <2>1, <2>3 DEF IInv, CompleteInv, Complete
<1> QED
  BY <1>1, Invariance, PTL

-----------------------------------------------------------------------------
(* Every step of SubPub is a step of Feed, or leaves the Feed alone.       *)
LEMMA FeedStepRefined == IInv /\ [Next]_vars => [F!Next]_F!feedVars
<1> SUFFICES ASSUME IInv, [Next]_vars PROVE [F!Next]_F!feedVars
  OBVIOUS
<1> DEFINE cutNow == [s \in Subs |-> done[s] \/ fellBehind[s]]
<1>0. /\ done \in [Subs -> BOOLEAN] /\ fellBehind \in [Subs -> BOOLEAN]
      /\ subscribers \subseteq Subs /\ todo \subseteq Subs
  BY DEF IInv, TypeOK
<1>1. ASSUME NEW s \in Subs, NEW i \in Indexes, Subscribe(s, i) PROVE F!Join(s, i)
  BY <1>1 DEF Subscribe, F!Join, callVars
<1>2. ASSUME NEW s \in Subs, Cancel(s) PROVE F!Cut(s)
  <2>1. cutNow' = [cutNow EXCEPT ![s] = TRUE]
    BY <1>2, <1>0 DEF Cancel
  <2> QED
    BY <1>2, <2>1 DEF Cancel, F!Cut, callVars
<1>3. ASSUME NEW call \in Calls, NEW i \in Int, Begin(call, i)
      PROVE  F!Emit(call = "broadcast", i)
  <2> DEFINE asked == {s \in Subs : joined[s] /\ (call = "broadcast" \/ joinedAt[s] < i)}
             to == {s \in subscribers : call = "broadcast" \/ joinedAt[s] < i}
  <2>1. to \in SUBSET asked
    BY <1>0 DEF IInv, CallInv
  <2>2. ASSUME NEW s \in asked, ~cutNow[s] PROVE s \in to
    <3>1. ~closed[s]
      BY <2>2 DEF IInv, StatusInv, ReasonInv
    <3>2. s \in subscribers
      BY <3>1, <1>3 DEF IInv, StatusInv, DroppedIsClosed, Registered, Begin
    <3> QED
      BY <3>2
  <2>3. owed' = [s \in Subs |-> IF s \in to THEN Append(owed[s], published + 1) ELSE owed[s]]
    BY <1>3 DEF Begin
  <2>4. /\ published < MaxMessages /\ published' = published + 1
        /\ UNCHANGED <<joined, joinedAt, delivered, cutNow, ended>>
    BY <1>3 DEF Begin, subVars
  <2> HIDE DEF to
  <2> QED
    BY <2>1, <2>2, <2>3, <2>4 DEF F!Emit
<1>4. ASSUME NEW s \in todo, CheckGone(s) PROVE UNCHANGED F!feedVars
  BY <1>4 DEF CheckGone, histVars, F!feedVars
<1>5. ASSUME NEW s \in todo, CheckLive(s) PROVE UNCHANGED F!feedVars
  BY <1>5 DEF CheckLive, histVars, subVars, F!feedVars
<1>6. ASSUME Skip PROVE UNCHANGED F!feedVars
  BY <1>6 DEF Skip, histVars, subVars, F!feedVars
<1>7. ASSUME Send PROVE UNCHANGED F!feedVars
  BY <1>7 DEF Send, histVars, F!feedVars
<1>8. ASSUME NEW s \in Subs, s = cur, Full PROVE F!Cut(s)
  <2>1. joined[s]
    BY <1>8, <1>0 DEF Full, IInv, CallInv
  <2>2. cutNow' = [cutNow EXCEPT ![s] = TRUE]
    BY <1>8, <2>1, <1>0 DEF Full
  <2> QED
    BY <1>8, <2>1, <2>2 DEF Full, F!Cut, histVars
<1>9. ASSUME CloseFull PROVE UNCHANGED F!feedVars
  BY <1>9 DEF CloseFull, histVars, F!feedVars
<1>10. ASSUME CancelFull PROVE UNCHANGED F!feedVars
  <2>1. cutNow' = cutNow
    BY <1>10, <1>0 DEF CancelFull, IInv, StatusInv, ReasonInv
  <2> QED
    BY <1>10, <2>1 DEF CancelFull, histVars, F!feedVars
<1>11. ASSUME Finish PROVE UNCHANGED F!feedVars
  BY <1>11 DEF Finish, histVars, subVars, F!feedVars
<1>12. ASSUME NEW s \in Subs, Receive(s) PROVE F!Deliver(s)
  <2>1. /\ delivered[s] \in Seq(Messages) /\ ch[s] \in Seq(Messages)
        /\ owed[s] \in Seq(Messages) /\ ch[s] # <<>>
        /\ PrefixAt(delivered[s], ch[s], owed[s])
    BY <1>12 DEF Receive, IInv, TypeOK, PrefixInv
  <2>2. Head(ch[s]) = owed[s][Len(delivered[s]) + 1]
    BY <2>1, PrefixReceive
  <2>3. Len(delivered[s]) < Len(owed[s])
    <3>1. Len(delivered[s]) \in Nat /\ Len(ch[s]) \in Nat /\ Len(owed[s]) \in Nat
      BY <2>1, LenProperties
    <3>2. Len(ch[s]) > 0
      BY <2>1, HeadTailFacts
    <3>3. Len(delivered[s]) + Len(ch[s]) <= Len(owed[s])
      BY <2>1 DEF PrefixAt
    <3> QED
      BY <3>1, <3>2, <3>3, LessBySome
  <2>4. delivered' = [delivered EXCEPT ![s] = Append(@, owed[s][Len(@) + 1])]
    BY <1>12, <2>2 DEF Receive
  <2> QED
    BY <1>12, <2>3, <2>4 DEF Receive, F!Deliver, callVars
<1>13. ASSUME NEW s \in Subs, End(s) PROVE F!SeeEnd(s)
  <2>1. done[s] \/ fellBehind[s]
    BY <1>13 DEF End, IInv, StatusInv, ReasonInv
  <2> QED
    BY <1>13, <2>1 DEF End, F!SeeEnd, callVars, histVars
<1>14. CASE UNCHANGED vars
  BY <1>14 DEF vars, callVars, subVars, histVars, F!feedVars
<1>15. /\ 0 \in Int /\ Indexes \subseteq Int
       /\ "publish" \in Calls /\ "broadcast" \in Calls /\ "publish" # "broadcast"
  BY IndexesAssumption DEF Calls
<1>16. CASE \E i \in Indexes : Publish(i)
  <2> PICK i \in Indexes : Begin("publish", i)
    BY <1>16 DEF Publish
  <2>1. F!Emit(FALSE, i)
    BY <1>3, <1>15
  <2> QED
    BY <2>1 DEF F!Next
<1>17. CASE Broadcast
  <2>1. F!Emit(TRUE, 0)
    BY <1>3, <1>15, <1>17 DEF Broadcast
  <2> QED
    BY <2>1 DEF F!Next
<1>18. CASE \E s \in Subs, i \in Indexes : Subscribe(s, i)
  BY <1>1, <1>18 DEF F!Next
<1>19. CASE \E s \in Subs : Cancel(s)
  BY <1>2, <1>19 DEF F!Next
<1>20. CASE \E s \in Subs : Reader(s)
  BY <1>12, <1>13, <1>20 DEF Reader, F!Next
<1>21. CASE Visit
  <2>1. CASE Full
    <3>1. cur \in Subs
      BY <2>1, <1>0 DEF Full, IInv, CallInv
    <3>2. PICK s \in Subs : s = cur
      BY <3>1
    <3>3. F!Cut(s)
      BY <1>8, <2>1, <3>2
    <3> QED
      BY <3>3 DEF F!Next
  <2>2. CASE \E s \in todo : CheckGone(s) \/ CheckLive(s)
    <3>1. UNCHANGED F!feedVars
      BY <1>4, <1>5, <2>2
    <3> QED
      BY <3>1
  <2>3. CASE Skip \/ Send \/ CloseFull \/ CancelFull \/ Finish
    <3>1. UNCHANGED F!feedVars
      BY <1>6, <1>7, <1>9, <1>10, <1>11, <2>3
    <3> QED
      BY <3>1
  <2> QED
    BY <1>21, <2>1, <2>2, <2>3 DEF Visit
<1> QED
  BY <1>14, <1>16, <1>17, <1>18, <1>19, <1>20, <1>21 DEF Next

(* SubPub implements Feed: the bounded queues, the mutex and the           *)
(* non-blocking sends of subpub.go give each reader a lossless, ordered    *)
(* stream until its subscription is cut, and an end only after a cut.      *)
THEOREM SubPubImplementsFeed == Spec => FeedSpec
<1>1. Init => F!Init
  BY DEF Init, F!Init
<1> QED
  BY <1>1, FeedStepRefined, Invariance, PTL DEF Spec, FeedSpec, F!Spec
=============================================================================
