------------------------------- MODULE SubPub -------------------------------
(***************************************************************************)
(* subpub.SubPub: fan-out of messages to bounded per-subscriber queues.    *)
(*                                                                         *)
(* sp.mu serialises Subscribe, Publish and Broadcast, so the module has    *)
(* one publishing call in progress at most.  The call visits its           *)
(* subscribers one at a time and is not atomic: a subscriber's context is  *)
(* cancelled, and its queue is read, without the mutex, so both may happen *)
(* between the Done test of a visit and its send.  The slice of            *)
(* subscribers is abstracted to a set: no property depends on the order of *)
(* the visits, and the model allows every order.                           *)
(***************************************************************************)
EXTENDS Integers, Sequences

CONSTANTS Subs,         \* identities of the subscriptions ever made
          Indexes,      \* sequence ids used as subscription and publish index
          Capacity,     \* SubscriberQueueCapacity (200 in the code)
          MaxMessages,  \* bound: number of Publish and Broadcast calls
          None          \* no subscriber is being visited

ASSUME IndexesAssumption == Indexes \subseteq Int
ASSUME CapacityAssumption == Capacity \in Nat \ {0}
ASSUME MaxMessagesAssumption == MaxMessages \in Nat
ASSUME NoneAssumption == None \notin Subs

VARIABLES
  \* The SubPub value and the call that holds sp.mu.
  subscribers,  \* sp.subscribers
  op,           \* "idle", or the call holding the mutex
  idx,          \* index argument of the Publish in progress
  published,    \* calls so far; the message of a call is its number
  todo,         \* subscribers the loop has still to dispose of
  remaining,    \* the filtered slice the loop builds
  cur,          \* subscriber being visited, or None
  phase,        \* where the visit of cur is
  \* One subscription each.
  joined,       \* SubscribeWithStatus registered it
  after,        \* subscriber.after
  ch,           \* messages buffered in subscriber.ch
  closed,       \* subscriber.ch was closed
  done,         \* subCtx.Done() is closed
  fellBehind,   \* status.fellBehind
  ended,        \* next returned false
  \* History, for the properties.
  joinedAt,     \* the index the subscription was made with
  cancelled,    \* the subscriber's own context was cancelled
  owed,         \* messages published while registered that it asked for
  delivered     \* messages next returned

callVars == <<op, idx, published, todo, remaining, cur, phase>>
subVars == <<joined, after, ch, closed, done, fellBehind, ended>>
histVars == <<joinedAt, cancelled, owed, delivered>>
vars == <<subscribers, callVars, subVars, histVars>>

Messages == 1..MaxMessages
Calls == {"publish", "broadcast"}

TypeOK ==
  /\ subscribers \subseteq Subs
  /\ op \in Calls \cup {"idle"}
  /\ idx \in Int
  /\ published \in 0..MaxMessages
  /\ todo \subseteq Subs
  /\ remaining \subseteq Subs
  /\ cur \in Subs \cup {None}
  /\ phase \in {"check", "send", "close", "cancel"}
  /\ joined \in [Subs -> BOOLEAN]
  /\ after \in [Subs -> Int]
  /\ ch \in [Subs -> Seq(Messages)]
  /\ \A s \in Subs : Len(ch[s]) <= Capacity
  /\ closed \in [Subs -> BOOLEAN]
  /\ done \in [Subs -> BOOLEAN]
  /\ fellBehind \in [Subs -> BOOLEAN]
  /\ ended \in [Subs -> BOOLEAN]
  /\ joinedAt \in [Subs -> Int]
  /\ cancelled \in [Subs -> BOOLEAN]
  /\ owed \in [Subs -> Seq(Messages)]
  /\ delivered \in [Subs -> Seq(Messages)]

Init ==
  /\ subscribers = {}
  /\ op = "idle"
  /\ idx = 0
  /\ published = 0
  /\ todo = {}
  /\ remaining = {}
  /\ cur = None
  /\ phase = "check"
  /\ joined = [s \in Subs |-> FALSE]
  /\ after = [s \in Subs |-> 0]
  /\ ch = [s \in Subs |-> <<>>]
  /\ closed = [s \in Subs |-> FALSE]
  /\ done = [s \in Subs |-> FALSE]
  /\ fellBehind = [s \in Subs |-> FALSE]
  /\ ended = [s \in Subs |-> FALSE]
  /\ joinedAt = [s \in Subs |-> 0]
  /\ cancelled = [s \in Subs |-> FALSE]
  /\ owed = [s \in Subs |-> <<>>]
  /\ delivered = [s \in Subs |-> <<>>]

-----------------------------------------------------------------------------
(* SubscribeWithStatus(ctx, i): register under the mutex.                  *)
Subscribe(s, i) ==
  /\ op = "idle"
  /\ ~joined[s]
  /\ subscribers' = subscribers \cup {s}
  /\ joined' = [joined EXCEPT ![s] = TRUE]
  /\ after' = [after EXCEPT ![s] = i]
  /\ joinedAt' = [joinedAt EXCEPT ![s] = i]
  /\ UNCHANGED <<callVars, ch, closed, done, fellBehind, ended,
                 cancelled, owed, delivered>>

(* The caller's context ends (client gone), at any moment.                 *)
Cancel(s) ==
  /\ joined[s]
  /\ ~cancelled[s]
  /\ cancelled' = [cancelled EXCEPT ![s] = TRUE]
  /\ done' = [done EXCEPT ![s] = TRUE]
  /\ UNCHANGED <<subscribers, callVars, joined, after, ch, closed,
                 fellBehind, ended, joinedAt, owed, delivered>>

(* A publishing call takes the mutex.  From here on every registered       *)
(* subscriber that asked for the message is owed it.                       *)
Begin(call, i) ==
  /\ op = "idle"
  /\ published < MaxMessages
  /\ op' = call
  /\ idx' = i
  /\ published' = published + 1
  /\ todo' = subscribers
  /\ remaining' = {}
  /\ owed' = [s \in Subs |->
                IF s \in subscribers /\ (call = "broadcast" \/ joinedAt[s] < i)
                THEN Append(owed[s], published + 1)
                ELSE owed[s]]
  /\ UNCHANGED <<subscribers, cur, phase, subVars, joinedAt, cancelled, delivered>>

Publish(i) == Begin("publish", i)
Broadcast == Begin("broadcast", 0)   \* takes no index

(* Mutant: the `continue` is missing, the closed subscriber is kept.       *)
CheckGoneKeeps(s) ==
  /\ phase = "check"
  /\ s \in todo
  /\ done[s]
  /\ closed' = [closed EXCEPT ![s] = TRUE]
  /\ todo' = todo \ {s}
  /\ remaining' = remaining \cup {s}
  /\ UNCHANGED <<subscribers, op, idx, published, cur, phase,
                 joined, after, ch, done, fellBehind, ended, histVars>>

(* The Done test of a visit finds the context over: close the channel and  *)
(* do not keep the subscriber.                                             *)
CheckGone(s) ==
  /\ phase = "check"
  /\ s \in todo
  /\ done[s]
  /\ closed' = [closed EXCEPT ![s] = TRUE]
  /\ todo' = todo \ {s}
  /\ UNCHANGED <<subscribers, op, idx, published, remaining, cur, phase,
                 joined, after, ch, done, fellBehind, ended, histVars>>

(* The Done test finds the context live.                                   *)
CheckLive(s) ==
  /\ phase = "check"
  /\ s \in todo
  /\ ~done[s]
  /\ cur' = s
  /\ phase' = "send"
  /\ UNCHANGED <<subscribers, op, idx, published, todo, remaining,
                 subVars, histVars>>

(* Broadcast has no index test; Publish compares with subscriber.after.    *)
Wants(s) == op = "broadcast" \/ after[s] < idx

(* The visit ends and the subscriber is kept.                              *)
Keep ==
  /\ remaining' = remaining \cup {cur}
  /\ todo' = todo \ {cur}
  /\ cur' = None
  /\ phase' = "check"

(* Not interested: kept, nothing sent.                                     *)
Skip ==
  /\ phase = "send"
  /\ ~Wants(cur)
  /\ Keep
  /\ UNCHANGED <<subscribers, op, idx, published, subVars, histVars>>

(* Mutant: the subscription index advances to the last index delivered,    *)
(* which the comment on subscriber.after warns against.                    *)
SendAdvances ==
  /\ phase = "send"
  /\ Wants(cur)
  /\ Len(ch[cur]) < Capacity
  /\ ch' = [ch EXCEPT ![cur] = Append(@, published)]
  /\ after' = [after EXCEPT ![cur] = IF op = "publish" THEN idx ELSE @]
  /\ Keep
  /\ UNCHANGED <<subscribers, op, idx, published, joined, closed,
                 done, fellBehind, ended, histVars>>

(* The non-blocking send finds room.                                       *)
Send ==
  /\ phase = "send"
  /\ Wants(cur)
  /\ Len(ch[cur]) < Capacity
  /\ ch' = [ch EXCEPT ![cur] = Append(@, published)]
  /\ Keep
  /\ UNCHANGED <<subscribers, op, idx, published, joined, after, closed,
                 done, fellBehind, ended, histVars>>

(* Mutant: a full queue drops the message and keeps the subscriber.        *)
FullDrops ==
  /\ phase = "send"
  /\ Wants(cur)
  /\ Len(ch[cur]) >= Capacity
  /\ Keep
  /\ UNCHANGED <<subscribers, op, idx, published, subVars, histVars>>

(* The queue is full: record why, then close the channel, then cancel the  *)
(* context, in that order; the subscriber is not kept.                     *)
Full ==
  /\ phase = "send"
  /\ Wants(cur)
  /\ Len(ch[cur]) >= Capacity
  /\ fellBehind' = [fellBehind EXCEPT ![cur] = TRUE]
  /\ phase' = "close"
  /\ UNCHANGED <<subscribers, op, idx, published, todo, remaining, cur,
                 joined, after, ch, closed, done, ended, histVars>>

CloseFull ==
  /\ phase = "close"
  /\ closed' = [closed EXCEPT ![cur] = TRUE]
  /\ phase' = "cancel"
  /\ UNCHANGED <<subscribers, op, idx, published, todo, remaining, cur,
                 joined, after, ch, done, fellBehind, ended, histVars>>

CancelFull ==
  /\ phase = "cancel"
  /\ done' = [done EXCEPT ![cur] = TRUE]
  /\ todo' = todo \ {cur}
  /\ cur' = None
  /\ phase' = "check"
  /\ UNCHANGED <<subscribers, op, idx, published, remaining, joined, after,
                 ch, closed, fellBehind, ended, histVars>>

(* Every subscriber was visited: install the filtered slice and unlock.    *)
Finish ==
  /\ op # "idle"
  /\ phase = "check"
  /\ todo = {}
  /\ subscribers' = remaining
  /\ remaining' = {}
  /\ op' = "idle"
  /\ UNCHANGED <<idx, published, todo, cur, phase, subVars, histVars>>

(* next() returns a message: whenever one is buffered, even when the       *)
(* context is done (the inner select drains the buffer first).             *)
Receive(s) ==
  /\ ~ended[s]
  /\ ch[s] # <<>>
  /\ delivered' = [delivered EXCEPT ![s] = Append(@, Head(ch[s]))]
  /\ ch' = [ch EXCEPT ![s] = Tail(@)]
  /\ UNCHANGED <<subscribers, callVars, joined, after, closed, done,
                 fellBehind, ended, joinedAt, cancelled, owed>>

(* Mutant: next does not wait on an empty open channel.                    *)
EndEarly(s) ==
  /\ joined[s]
  /\ ~ended[s]
  /\ ch[s] = <<>>
  /\ ended' = [ended EXCEPT ![s] = TRUE]
  /\ UNCHANGED <<subscribers, callVars, joined, after, ch, closed, done,
                 fellBehind, histVars>>

(* next() returns false: nothing is buffered and the channel is closed or  *)
(* the context done.                                                       *)
End(s) ==
  /\ ~ended[s]
  /\ ch[s] = <<>>
  /\ closed[s] \/ done[s]
  /\ ended' = [ended EXCEPT ![s] = TRUE]
  /\ UNCHANGED <<subscribers, callVars, joined, after, ch, closed, done,
                 fellBehind, histVars>>

-----------------------------------------------------------------------------
(* One step of the call that holds the mutex.                              *)
Visit ==
  \/ \E s \in todo : CheckGone(s) \/ CheckLive(s)
  \/ Skip
  \/ Send
  \/ Full
  \/ CloseFull
  \/ CancelFull
  \/ Finish

Reader(s) == Receive(s) \/ End(s)

Next ==
  \/ \E s \in Subs, i \in Indexes : Subscribe(s, i)
  \/ \E s \in Subs : Cancel(s)
  \/ \E i \in Indexes : Publish(i)
  \/ Broadcast
  \/ Visit
  \/ \E s \in Subs : Reader(s)

Spec == Init /\ [][Next]_vars

(* A goroutine holding the mutex keeps running; nothing is assumed of the  *)
(* readers.                                                                *)
FairSpec == Spec /\ WF_vars(Visit)

-----------------------------------------------------------------------------
(* The subscribers the SubPub still holds: the call in progress has        *)
(* neither removed nor closed them.                                        *)
Registered == IF op = "idle" THEN subscribers ELSE todo \cup remaining

(* A channel is closed once, and never while a send or another close can   *)
(* still reach it: in Go either one panics with the mutex held.  A channel *)
(* of a registered subscriber is open, except for the one the call in      *)
(* progress closed itself and is about to drop.                            *)
OpenWhileRegistered ==
  \A s \in Registered : closed[s] => (cur = s /\ phase = "cancel")

(* A dropped subscriber is always told: its channel is closed, so that its *)
(* reader does not wait for ever on a queue nobody writes to.              *)
DroppedIsClosed ==
  \A s \in Subs : joined[s] /\ s \notin Registered => closed[s]

(* What a reader got and has buffered is a prefix of what it is owed: no   *)
(* hole, no repetition and no reordering, whatever order the indexes are   *)
(* published in ("an out-of-order publish is still delivered").            *)
NoHole ==
  \A s \in Subs :
    LET got == delivered[s] \o ch[s]
    IN  /\ Len(got) <= Len(owed[s])
        /\ got = SubSeq(owed[s], 1, Len(got))

(* Nothing is lost silently: between calls a subscription that has not     *)
(* ended has received, or has buffered, every message it is owed.          *)
NoSilentLoss ==
  op = "idle" =>
    \A s \in Subs :
      joined[s] /\ ~done[s] => Len(delivered[s]) + Len(ch[s]) = Len(owed[s])

(* Whoever waits for Done() and then reads FellBehind() learns the reason: *)
(* a context ended by Publish has fellBehind already stored.  (handlers.go *)
(* closes the HTTP response on exactly this test.)                         *)
DoneTellsWhy ==
  \A s \in Subs : done[s] /\ ~cancelled[s] => fellBehind[s]

(* If a reader keeps calling next, every message owed to its subscription  *)
(* is delivered or the subscription is seen to end.                        *)
DeliveredOrEnded ==
  \A s \in Subs :
    WF_vars(Reader(s)) =>
      \A n \in Messages : (Len(owed[s]) >= n) ~> (Len(delivered[s]) >= n \/ ended[s])

-----------------------------------------------------------------------------
(* What a subscription promises, as the abstract Feed: a lossless FIFO     *)
(* until it is cut, and an end only after a cut.                           *)
F == INSTANCE Feed WITH
       cut <- [s \in Subs |-> done[s] \/ fellBehind[s]]

FeedSpec == F!Spec
=============================================================================
