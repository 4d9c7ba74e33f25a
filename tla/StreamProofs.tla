---------------------------- MODULE StreamProofs ----------------------------
(***************************************************************************)
(* Proofs about the two streams clients read, for any clients and bounds.  *)
(*                                                                         *)
(* MessageStream: a unified stream misses no row but one nobody publishes, *)
(* and a legacy stream repeats none.  The unified argument is about order: *)
(* the subscription exists before the rows are read, so a row is in the    *)
(* snapshot or its publication finds the subscription.  The legacy         *)
(* argument is about batches: the index of the subscription is the last    *)
(* committed row at the time of the query, hence the last row of a batch,  *)
(* so a batch published later lies entirely below it (and is skipped) or   *)
(* entirely above it (and repeats nothing).                                *)
(*                                                                         *)
(* ListStream: a patch makes of the old list exactly the new one, for any  *)
(* two lists; so a chain of events is enough for a client to have the list *)
(* its hash stands for, and StreamInv says that what is on its way to a    *)
(* client and what is still to be sent to it form such a chain.            *)
(***************************************************************************)
EXTENDS MessageStream, ListStream, WellFoundedInduction, TLAPS


(* No row is in both batches.                                              *)
Apart(a, b) == a.hi < b.lo \/ b.hi < a.lo

(* Row r is one of batch b.                                                *)
Within(r, b) == b.lo <= r /\ r <= b.hi

(* Rows are published only after their commit, and each of them by one     *)
(* goroutine.                                                              *)
PublishInv ==
  /\ \A b \in notices : b.hi <= rows
  /\ \A a, b \in notices : a # b => Apart(a, b)

(* Whatever a connection holds has been committed.                         *)
BoundInv(c) ==
  /\ lastSeqID[c] <= rows /\ before[c] <= rows
  /\ \A r \in got[c] \cup snapshot[c] : r <= rows
  /\ \A k \in DOMAIN queue[c] : queue[c][k].hi <= rows

(* Every committed row that client c asked for is with it, on its way to   *)
(* it, or was given up after its snapshot.                                 *)
AllComing(c) ==
  \A r \in 1..rows :
    \/ r <= before[c]
    \/ r \in got[c] \cup snapshot[c] \cup lost[c]
    \/ \E k \in DOMAIN queue[c] : Within(r, queue[c][k])
    \/ \E b \in notices : Within(r, b)

UnifiedInv(c) ==
  /\ pc[c] \in {"subscribe", "query"} => (before[c] + 1)..lastSeqID[c] \subseteq got[c]
  /\ pc[c] \in {"query", "manager", "write", "live"} => subscribed[c] \/ cut[c]
  /\ pc[c] \in {"manager", "write", "live"} /\ ~cut[c] => AllComing(c)

(* A legacy connection before it is subscribed has nothing queued.         *)
UnsubscribedInv(c) ==
  pc[c] \notin {"write", "live"} => ~subscribed[c] /\ queue[c] = <<>>

(* Before the snapshot is written, the client holds only older rows.       *)
SnapshotInv(c) ==
  /\ pc[c] = "query" => /\ \A r \in got[c] : r <= lastSeqID[c]
                        /\ ask[c] = "tail" => lastSeqID[c] = -1
  /\ pc[c] \in {"manager", "subscribe", "write"} =>
       /\ got[c] \cap snapshot[c] = {}
       /\ \A r \in got[c] \cup snapshot[c] : r <= lastSeqID[c]

(* No unpublished batch straddles the index of the subscription, and what  *)
(* lies beyond the index has not been received.                            *)
IndexInv(c) ==
  pc[c] \in {"manager", "subscribe", "write", "live"} =>
    \A b \in notices :
      \/ b.hi <= lastSeqID[c]
      \/ lastSeqID[c] < b.lo /\ \A r \in got[c] : ~Within(r, b)

(* What is queued lies beyond the index, has not been received, is not     *)
(* going to be published again, and is queued once.                        *)
QueueInv(c) ==
  \A k \in DOMAIN queue[c] :
    /\ lastSeqID[c] < queue[c][k].lo
    /\ \A r \in got[c] : ~Within(r, queue[c][k])
    /\ \A b \in notices : Apart(b, queue[c][k])
    /\ \A i \in DOMAIN queue[c] : i # k => Apart(queue[c][i], queue[c][k])

LegacyInv(c) ==
  twice[c] = {} /\ UnsubscribedInv(c) /\ SnapshotInv(c) /\ IndexInv(c) /\ QueueInv(c)

ClientInv(c) ==
  /\ BoundInv(c)
  /\ c \in Unified => UnifiedInv(c)
  /\ c \in Legacy => LegacyInv(c)

Typed == TypeOK /\ queue \in [Clients -> Seq(Batches)]

IInv == Typed /\ PublishInv /\ \A c \in Clients : ClientInv(c)
-----------------------------------------------------------------------------
(* Facts about batches and queues.                                         *)

(* A batch is a record of two row numbers in order.                        *)
LEMMA BatchFacts ==
  ASSUME NEW b \in Batches
  PROVE  /\ b.lo \in 1..MaxRows /\ b.hi \in 1..MaxRows
         /\ b.lo \in Int /\ b.hi \in Int /\ 1 <= b.lo /\ b.lo <= b.hi
BY BoundsAssumption DEF Batches

(* What SubPub's channel does to the publications in it: a send adds one   *)
(* at the end, a receive takes the first and moves the others forward.     *)
LEMMA QueueFacts ==
  ASSUME NEW q \in Seq(Batches), NEW b \in Batches
  PROVE  /\ Append(q, b) \in Seq(Batches)
         /\ Len(Append(q, b)) = Len(q) + 1
         /\ DOMAIN q = 1..Len(q) /\ Len(q) \in Nat
         /\ \A k \in DOMAIN q : q[k] \in Batches
         /\ DOMAIN Append(q, b) = 1..(Len(q) + 1)
         /\ \A k \in DOMAIN q : Append(q, b)[k] = q[k]
         /\ Append(q, b)[Len(q) + 1] = b
         /\ q # <<>> => /\ Tail(q) \in Seq(Batches)
                       /\ Len(Tail(q)) = Len(q) - 1
                       /\ 1 \in DOMAIN q /\ Head(q) = q[1]
                       /\ DOMAIN Tail(q) = 1..(Len(q) - 1)
                       /\ \A k \in DOMAIN Tail(q) : k + 1 \in DOMAIN q /\ Tail(q)[k] = q[k + 1]
OBVIOUS

(* The rows of a batch are the ones within it.                             *)
LEMMA RowsWithin ==
  ASSUME NEW b \in Batches, NEW r
  PROVE  r \in RowsOf(b) <=> r \in Int /\ Within(r, b)
BY BatchFacts DEF RowsOf, Within

(* The invariant gives the two properties.                                 *)
LEMMA Consequences == IInv => UnifiedNothingMissed /\ LegacyNoRepeat
<1> SUFFICES ASSUME IInv PROVE UnifiedNothingMissed /\ LegacyNoRepeat
  OBVIOUS
<1>1. LegacyNoRepeat
  BY DEF IInv, ClientInv, LegacyInv, LegacyNoRepeat, Clients
<1>2. UnifiedNothingMissed
  <2> SUFFICES ASSUME NEW c \in Unified, Asked(c), ~cut[c], NEW r \in 1..rows
               PROVE  r \in 1..before[c] \cup got[c] \cup Coming(c) \cup lost[c]
    BY DEF UnifiedNothingMissed
  <2>1. c \in Clients /\ pc[c] \in {"manager", "write", "live"}
    BY ClientsAssumption DEF Clients, Asked
  <2>2. AllComing(c)
    BY <2>1 DEF IInv, ClientInv, UnifiedInv
  <2>3. queue[c] \in Seq(Batches) /\ notices \subseteq Batches
    BY <2>1 DEF IInv, Typed, TypeOK
  <2>4. r \in Int
    BY DEF IInv, Typed, TypeOK
  <2>5. CASE r <= before[c] \/ r \in got[c] \cup snapshot[c] \cup lost[c]
    <3>1. before[c] \in Int /\ rows \in Int
      BY <2>1 DEF IInv, Typed, TypeOK
    <3> QED
      BY <2>5, <3>1 DEF Coming
  <2>6. CASE \E k \in DOMAIN queue[c] : Within(r, queue[c][k])
    <3>1. PICK k \in DOMAIN queue[c] : Within(r, queue[c][k])
      BY <2>6
    <3>2. queue[c][k] \in Batches
      BY <2>3
    <3>3. r \in RowsOf(queue[c][k])
      BY <3>1, <3>2, <2>4, RowsWithin
    <3>4. r \in Queued(c)
      BY <3>3 DEF Queued
    <3> QED
      BY <3>4 DEF Coming
  <2>7. CASE \E b \in notices : Within(r, b)
    <3>1. PICK b \in notices : Within(r, b)
      BY <2>7
    <3>2. r \in RowsOf(b)
      BY <3>1, <2>3, <2>4, RowsWithin
    <3> QED
      BY <3>2 DEF Coming
  <2> QED
    BY <2>2, <2>5, <2>6, <2>7 DEF AllComing
<1> QED
  BY <1>1, <1>2

-----------------------------------------------------------------------------
(* Before anything is committed and anyone connects, it holds.             *)
LEMMA InitInv == Init => IInv
<1> SUFFICES ASSUME Init PROVE IInv
  OBVIOUS
<1> USE BoundsAssumption, ClientsAssumption DEF Init
<1>1. Typed
  <2>1. queue \in [Clients -> Seq(Batches)] /\ \A c \in Clients : Len(queue[c]) = 0
    OBVIOUS
  <2>2. lastSeqID \in [Clients -> -1..MaxRows]
    OBVIOUS
  <2>3. \A c \in Clients : queue[c] \in Seq(Batches) /\ Len(queue[c]) <= Capacity
    BY <2>1
  <2>4. rows \in 0..MaxRows /\ notices \subseteq Batches /\ active \in BOOLEAN
       /\ prompted \in BOOLEAN
    <3>1. rows \in 0..MaxRows
      OBVIOUS
    <3>2. active \in BOOLEAN /\ prompted \in BOOLEAN
      BY Zenon
    <3> QED
      BY <3>1, <3>2
  <2>5. pc \in [Clients -> PCs] /\ ask \in [Clients -> Asks]
    BY DEF PCs, Asks
  <2>6. /\ subscribed \in [Clients -> BOOLEAN] /\ cut \in [Clients -> BOOLEAN]
        /\ orphan \in [Clients -> BOOLEAN] /\ snapshot \in [Clients -> SUBSET (1..MaxRows)]
        /\ got \in [Clients -> SUBSET (1..MaxRows)] /\ twice \in [Clients -> SUBSET (1..MaxRows)]
        /\ before \in [Clients -> 0..MaxRows] /\ lost \in [Clients -> SUBSET (1..MaxRows)]
    OBVIOUS
  <2> QED
    BY <2>1, <2>2, <2>3, <2>4, <2>5, <2>6 DEF Typed, TypeOK
<1>2. PublishInv
  BY DEF PublishInv
<1>3. ASSUME NEW c \in Clients PROVE ClientInv(c)
  <2>1. BoundInv(c)
    BY <1>3 DEF BoundInv
  <2>2. UnifiedInv(c)
    BY <1>3 DEF UnifiedInv
  <2>3. LegacyInv(c)
    BY <1>3 DEF LegacyInv, UnsubscribedInv, SnapshotInv, IndexInv, QueueInv
  <2> QED
    BY <2>1, <2>2, <2>3 DEF ClientInv
<1> QED
  BY <1>1, <1>2, <1>3 DEF IInv

(* The parts of the state client c's part of the invariant is about.       *)
View(c) == <<pc[c], ask[c], lastSeqID[c], subscribed[c], cut[c], snapshot[c], queue[c],
             got[c], before[c], lost[c], twice[c]>>

(* A step of one connection leaves the other ones as they are.             *)
LEMMA Frame ==
  ASSUME NEW c, ClientInv(c), View(c)' = View(c), UNCHANGED <<rows, notices>>
  PROVE  ClientInv(c)'
<1>1. /\ pc'[c] = pc[c] /\ lastSeqID'[c] = lastSeqID[c] /\ subscribed'[c] = subscribed[c]
      /\ cut'[c] = cut[c] /\ snapshot'[c] = snapshot[c] /\ queue'[c] = queue[c]
      /\ got'[c] = got[c] /\ twice'[c] = twice[c] /\ rows' = rows /\ notices' = notices
      /\ ask'[c] = ask[c] /\ before'[c] = before[c] /\ lost'[c] = lost[c]
  BY DEF View
<1>2. BoundInv(c)'
  BY <1>1 DEF ClientInv, BoundInv
<1>3. c \in Unified => UnifiedInv(c)'
  BY <1>1 DEF ClientInv, UnifiedInv, AllComing, Within
<1>4. c \in Legacy => LegacyInv(c)'
  BY <1>1 DEF ClientInv, LegacyInv, UnsubscribedInv, SnapshotInv, IndexInv, QueueInv, Within,
     Apart
<1> QED
  BY <1>2, <1>3, <1>4 DEF ClientInv
-----------------------------------------------------------------------------
(* Commits and publications: what they do to every connection.             *)

(* What an insert and a hydration do to the rows: nothing, a batch that    *)
(* somebody will publish, or a row that nobody will.                       *)
Committed(n) == Insert(n) /\ notices' = notices \cup {Batch(n)} /\ lost' = lost

Stored == Insert(1) /\ notices' = notices /\ Lose({rows + 1})

Grows == \/ \E n \in 1..(MaxBatch + 1) : Committed(n)
         \/ Stored
         \/ UNCHANGED <<rows, notices, lost>>

(* A connection stays where it is or goes on with its manager.             *)
GoesOn(c) ==
  \/ pc'[c] = pc[c]
  \/ pc[c] = "manager" /\ pc'[c] = (IF c \in Unified THEN "write" ELSE "subscribe")

(* What a connection has is not touched.                                   *)
Rest(c) == <<ask[c], lastSeqID[c], subscribed[c], cut[c], snapshot[c], queue[c],
             got[c], before[c], twice[c]>>

(* New rows lie beyond all others, and a batch of them is apart from all.  *)
LEMMA GrowFacts ==
  ASSUME IInv, Grows
  PROVE  /\ rows \in Nat /\ rows' \in 0..MaxRows /\ rows <= rows'
         /\ notices \subseteq notices' /\ notices' \subseteq Batches
         /\ lost' \in [Clients -> SUBSET (1..MaxRows)]
         /\ \A b \in notices : (b.lo \in Int /\ b.hi \in Int /\ b.lo <= b.hi /\ b.hi <= rows)
         /\ \A b \in notices' : b \notin notices => (b.lo = rows + 1 /\ b.hi = rows' /\ b.hi >= b.lo)
         /\ \A a, b \in notices' : a \notin notices /\ b \notin notices => a = b
         /\ \A r \in 1..rows' : r <= rows
                                \/ (\E b \in notices' : Within(r, b))
                                \/ (\A c \in Clients : Asked(c) => r \in lost'[c])
         /\ \A c \in Clients : lost[c] \subseteq lost'[c]
<1> USE BoundsAssumption
<1>1. TypeOK /\ PublishInv /\ rows \in 0..MaxRows
  BY DEF IInv, Typed, TypeOK
<1>2. \A b \in notices : b \in Batches /\ b.lo \in Int /\ b.hi \in Int /\ b.lo <= b.hi /\ b.hi <= rows
  BY <1>1, BatchFacts DEF TypeOK, PublishInv
<1>3. CASE \E n \in 1..(MaxBatch + 1) : Committed(n)
  <2>1. PICK n \in 1..(MaxBatch + 1) : Committed(n)
    BY <1>3
  <2> DEFINE new == Batch(n)
  <2>2. /\ rows' = rows + n /\ notices' = notices \cup {new} /\ rows + n <= MaxRows /\ lost' = lost
        /\ n \in Nat /\ n >= 1
    BY <2>1 DEF Committed, Insert
  <2>3. new \in Batches /\ new.lo = rows + 1 /\ new.hi = rows + n
    BY <1>1, <2>2 DEF Batches, Batch
  <2> HIDE DEF new
  <2>4. \A r \in 1..rows' : r <= rows \/ Within(r, new)
    BY <1>1, <2>2, <2>3 DEF Within
  <2>5. lost \in [Clients -> SUBSET (1..MaxRows)] /\ notices \subseteq Batches
    BY <1>1 DEF TypeOK
  <2> QED
    BY <1>1, <1>2, <2>2, <2>3, <2>4, <2>5
<1>4. CASE Stored
  <2>1. /\ rows' = rows + 1 /\ rows + 1 <= MaxRows /\ notices' = notices
        /\ lost' = [c \in Clients |-> IF Asked(c) THEN lost[c] \cup {rows + 1} ELSE lost[c]]
    BY <1>4 DEF Stored, Insert, Lose
  <2>2. lost \in [Clients -> SUBSET (1..MaxRows)] /\ notices \subseteq Batches
    BY <1>1 DEF TypeOK
  <2>3. rows + 1 \in 1..MaxRows
    BY <1>1, <2>1
  <2>4. lost' \in [Clients -> SUBSET (1..MaxRows)]
    BY <2>1, <2>2, <2>3
  <2>5. \A c \in Clients : lost[c] \subseteq lost'[c] /\ (Asked(c) => rows + 1 \in lost'[c])
    BY <2>1
  <2>6. \A r \in 1..rows' : r <= rows \/ r = rows + 1
    BY <1>1, <2>1
  <2> QED
    BY <1>1, <1>2, <2>1, <2>2, <2>3, <2>4, <2>5, <2>6
<1>5. CASE UNCHANGED <<rows, notices, lost>>
  BY <1>1, <1>2, <1>5 DEF TypeOK
<1> QED
  BY <1>3, <1>4, <1>5 DEF Grows

(* A connection that is not touched, or goes on with its manager, is as    *)
(* well off with the new rows as without.                                  *)
LEMMA GrowClient ==
  ASSUME IInv, Grows, NEW c \in Clients, GoesOn(c), Rest(c)' = Rest(c)
  PROVE  ClientInv(c)'
<1> USE BoundsAssumption
<1>1. /\ ask'[c] = ask[c] /\ lastSeqID'[c] = lastSeqID[c] /\ subscribed'[c] = subscribed[c]
      /\ cut'[c] = cut[c] /\ snapshot'[c] = snapshot[c] /\ queue'[c] = queue[c]
      /\ got'[c] = got[c] /\ before'[c] = before[c] /\ twice'[c] = twice[c]
  BY DEF Rest
<1>2. /\ ClientInv(c) /\ BoundInv(c) /\ queue[c] \in Seq(Batches)
      /\ lastSeqID[c] \in Int /\ before[c] \in Int
      /\ got[c] \subseteq 1..MaxRows /\ snapshot[c] \subseteq 1..MaxRows
  BY DEF IInv, ClientInv, Typed, TypeOK
<1>3. /\ rows \in Nat /\ rows' \in 0..MaxRows /\ rows <= rows' /\ notices \subseteq notices'
      /\ lost[c] \subseteq lost'[c]
      /\ \A b \in notices : b.lo \in Int /\ b.hi \in Int /\ b.lo <= b.hi /\ b.hi <= rows
      /\ \A b \in notices' : b \notin notices => (b.lo = rows + 1 /\ b.hi = rows' /\ b.hi >= b.lo)
      /\ \A r \in 1..rows' : r <= rows \/ (\E b \in notices' : Within(r, b)) \/ (Asked(c) => r \in lost'[c])
  BY GrowFacts
<1>4. ASSUME NEW k \in DOMAIN queue[c]
      PROVE  queue[c][k].lo \in Int /\ queue[c][k].hi \in Int /\ queue[c][k].hi <= rows
  <2>1. queue[c][k] \in Batches
    BY <1>2, <1>4
  <2> QED
    BY <1>2, <2>1, <1>4, BatchFacts DEF BoundInv
<1>5. BoundInv(c)'
  BY <1>1, <1>2, <1>3, <1>4 DEF BoundInv
<1>6. ASSUME c \in Unified PROVE UnifiedInv(c)'
  <2>1. UnifiedInv(c)
    BY <1>2, <1>6 DEF ClientInv
  <2>2. ASSUME AllComing(c), Asked(c) PROVE AllComing(c)'
    <3> SUFFICES ASSUME NEW r \in 1..rows'
                 PROVE  \/ r <= before[c]
                        \/ r \in got[c] \cup snapshot[c] \cup lost'[c]
                        \/ \E k \in DOMAIN queue[c] : Within(r, queue[c][k])
                        \/ \E b \in notices' : Within(r, b)
      BY <1>1 DEF AllComing, Within
    <3>1. CASE r <= rows
      BY <1>3, <2>2, <3>1 DEF AllComing
    <3>2. CASE r > rows
      BY <1>3, <2>2, <3>2
    <3> QED
      BY <1>3, <3>1, <3>2
  <2>3. pc'[c] \in {"subscribe", "query"} => pc[c] \in {"subscribe", "query"}
    BY <1>6 DEF GoesOn
  <2>4. pc'[c] \in {"query", "manager", "write", "live"} =>
          pc[c] \in {"query", "manager", "write", "live"}
    BY DEF GoesOn
  <2>5. pc'[c] \in {"manager", "write", "live"} => Asked(c) /\ pc[c] \in {"manager", "write", "live"}
    BY <1>6 DEF GoesOn, Asked
  <2> QED
    BY <1>1, <2>1, <2>2, <2>3, <2>4, <2>5 DEF UnifiedInv
<1>7. ASSUME c \in Legacy PROVE LegacyInv(c)'
  <2>1. LegacyInv(c)
    BY <1>2, <1>7 DEF ClientInv
  <2>2. \/ pc'[c] = pc[c]
        \/ pc[c] = "manager" /\ pc'[c] = "subscribe"
    BY <1>7, ClientsAssumption DEF GoesOn
  <2>3. twice'[c] = {} /\ UnsubscribedInv(c)' /\ SnapshotInv(c)'
    BY <1>1, <2>1, <2>2 DEF LegacyInv, UnsubscribedInv, SnapshotInv
  <2>4. ASSUME NEW b \in notices', b \notin notices
        PROVE  lastSeqID[c] < b.lo /\ \A r \in got[c] : ~Within(r, b)
    <3>1. b.lo = rows + 1 /\ lastSeqID[c] <= rows /\ \A r \in got[c] : r <= rows /\ r \in Int
      BY <1>2, <1>3, <2>4 DEF BoundInv
    <3> QED
      BY <1>2, <1>3, <3>1 DEF Within
  <2>5. IndexInv(c)'
    <3>1. pc'[c] \in {"manager", "subscribe", "write", "live"} =>
            pc[c] \in {"manager", "subscribe", "write", "live"}
      BY <2>2
    <3>2. pc[c] \in {"manager", "subscribe", "write", "live"} =>
            \A b \in notices' :
              \/ b.hi <= lastSeqID[c]
              \/ lastSeqID[c] < b.lo /\ \A r \in got[c] : ~Within(r, b)
      BY <2>1, <2>4 DEF LegacyInv, IndexInv
    <3> QED
      BY <1>1, <3>1, <3>2 DEF IndexInv, Within
  <2>6. \A k \in DOMAIN queue[c] : \A b \in notices' : b \notin notices => Apart(b, queue[c][k])
    BY <1>3, <1>4 DEF Apart
  <2>7. QueueInv(c)'
    BY <1>1, <2>1, <2>6 DEF LegacyInv, QueueInv, Within, Apart
  <2> QED
    BY <2>3, <2>5, <2>7 DEF LegacyInv
<1> QED
  BY <1>5, <1>6, <1>7 DEF ClientInv

(* New rows are published after their commit, by one goroutine.            *)
LEMMA GrowPublish ==
  ASSUME IInv, Grows
  PROVE  PublishInv'
<1>1. /\ rows \in Nat /\ rows' \in 0..MaxRows /\ rows <= rows'
      /\ \A b \in notices : b.lo \in Int /\ b.hi \in Int /\ b.lo <= b.hi /\ b.hi <= rows
      /\ \A b \in notices' : b \notin notices => (b.lo = rows + 1 /\ b.hi = rows' /\ b.hi >= b.lo)
      /\ \A a, b \in notices' : a \notin notices /\ b \notin notices => a = b
  BY GrowFacts
<1>2. \A a, b \in notices : a # b => Apart(a, b)
  BY DEF IInv, PublishInv
<1>3. \A b \in notices' : b.hi <= rows'
  BY <1>1, BoundsAssumption
<1>4. \A a, b \in notices' : a # b => (a.hi < b.lo \/ b.hi < a.lo)
  BY <1>1, <1>2 DEF Apart
<1> QED
  BY <1>3, <1>4 DEF PublishInv, Apart

(* Committing rows adds one batch after all earlier ones.                  *)
LEMMA CommitInv ==
  ASSUME IInv, NEW n \in 1..MaxBatch, Commit(n)
  PROVE  IInv'
<1>1. Grows
  BY BoundsAssumption DEF Commit, Committed, Grows, clientVars
<1>2. UNCHANGED <<active, prompted, pc, ask, lastSeqID, subscribed, cut, orphan, snapshot,
                  queue, got, before, twice>>
  BY DEF Commit, connVars, clientVars
<1>3. Typed'
  BY <1>1, <1>2, GrowFacts DEF IInv, Typed, TypeOK
<1>4. \A c \in Clients : ClientInv(c)'
  BY <1>1, <1>2, GrowClient DEF GoesOn, Rest
<1> QED
  BY <1>1, <1>3, <1>4, GrowPublish DEF IInv

(* Hydrating for another request may store the system prompt.              *)
LEMMA ActivateInv ==
  ASSUME IInv, Activate
  PROVE  IInv'
<1>1. Grows
  BY BoundsAssumption DEF Activate, Hydrate, Committed, Stored, Grows
<1>2. UNCHANGED <<pc, ask, lastSeqID, subscribed, cut, orphan, snapshot, queue, got, before, twice>>
  BY DEF Activate, connVars
<1>3. active' \in BOOLEAN /\ prompted' \in BOOLEAN
  <2>1. prompted \in BOOLEAN
    BY DEF IInv, Typed, TypeOK
  <2> QED
    BY <2>1, Zenon DEF Activate, Hydrate
<1>4. Typed'
  BY <1>1, <1>2, <1>3, GrowFacts DEF IInv, Typed, TypeOK
<1>5. \A c \in Clients : ClientInv(c)'
  BY <1>1, <1>2, GrowClient DEF GoesOn, Rest
<1> QED
  BY <1>1, <1>4, <1>5, GrowPublish DEF IInv

(* Publishing a batch: each subscriber queues it, skips it by its index or *)
(* is cut.                                                                 *)
LEMMA PublishBatchInv ==
  ASSUME IInv, NEW b \in notices, Notify(b), PublishBatch(b)
  PROVE  IInv'
<1> USE BoundsAssumption
<1>1. /\ notices' = notices \ {b}
      /\ UNCHANGED <<rows, active, prompted, pc, ask, lastSeqID, orphan, snapshot, got,
                      before, lost, twice>>
      /\ queue' = [c \in Clients |-> IF Receives(c, b) /\ Len(queue[c]) < Capacity
                                     THEN Append(queue[c], b) ELSE queue[c]]
  BY DEF Notify, PublishBatch
<1>2. TypeOK /\ PublishInv /\ queue \in [Clients -> Seq(Batches)] /\ rows \in Nat
  BY DEF IInv, Typed, TypeOK
<1>3. b \in Batches /\ b.lo \in Int /\ b.hi \in Int /\ b.lo <= b.hi /\ b.hi <= rows
  BY <1>2, BatchFacts DEF TypeOK, PublishInv
<1>4. /\ subscribed' \in [Clients -> BOOLEAN] /\ cut' \in [Clients -> BOOLEAN]
      /\ \A c \in Clients :
           /\ subscribed'[c] <=> subscribed[c] /\ ~(Receives(c, b) /\ Len(queue[c]) >= Capacity)
           /\ cut'[c] <=> cut[c] \/ (Receives(c, b) /\ Len(queue[c]) >= Capacity)
  <2> DEFINE full == {c \in Clients : Receives(c, b) /\ Len(queue[c]) >= Capacity}
  <2>1. /\ subscribed' = [c \in Clients |-> subscribed[c] /\ c \notin full]
        /\ cut' = [c \in Clients |-> cut[c] \/ c \in full]
    BY Zenon DEF PublishBatch
  <2>2. \A c \in Clients : c \in full <=> (Receives(c, b) /\ Len(queue[c]) >= Capacity)
    BY Zenon
  <2>3. \A c \in Clients : subscribed[c] \in BOOLEAN /\ cut[c] \in BOOLEAN
    BY <1>2 DEF TypeOK
  <2> HIDE DEF full
  <2>4. \A c \in Clients : (subscribed[c] /\ c \notin full) \in BOOLEAN /\ (cut[c] \/ c \in full) \in BOOLEAN
    BY Zenon
  <2> QED
    BY <2>1, <2>2, <2>3, <2>4, Zenon
<1>5. ASSUME NEW c \in Clients
      PROVE  /\ queue[c] \in Seq(Batches) /\ Len(queue[c]) \in Nat /\ Len(queue[c]) <= Capacity
             /\ \/ /\ Receives(c, b) /\ Len(queue[c]) < Capacity
                   /\ queue'[c] = Append(queue[c], b)
                \/ ~(Receives(c, b) /\ Len(queue[c]) < Capacity) /\ queue'[c] = queue[c]
  BY <1>1, <1>2, <1>5 DEF TypeOK
<1>6. Typed'
  <2>1. \A c \in Clients : queue'[c] \in Seq(Batches) /\ Len(queue'[c]) <= Capacity
    <3> TAKE c \in Clients
    <3>1. Append(queue[c], b) \in Seq(Batches) /\ Len(Append(queue[c], b)) = Len(queue[c]) + 1
      BY <1>3, <1>5
    <3>2. CASE Receives(c, b) /\ Len(queue[c]) < Capacity
      <4>1. queue'[c] = Append(queue[c], b) /\ Len(queue[c]) \in Nat
        BY <1>5, <3>2
      <4> QED
        BY <3>1, <3>2, <4>1
    <3>3. CASE ~(Receives(c, b) /\ Len(queue[c]) < Capacity)
      BY <1>5, <3>3
    <3> QED
      BY <3>2, <3>3
  <2>2. queue' \in [Clients -> Seq(Batches)]
    BY <1>1, <2>1
  <2> QED
    BY <1>1, <1>2, <1>4, <2>1, <2>2 DEF Typed, TypeOK
<1>7. PublishInv'
  BY <1>1, <1>2 DEF PublishInv
<1>8. ASSUME NEW c \in Clients PROVE ClientInv(c)'
  <2>1. ClientInv(c) /\ BoundInv(c) /\ queue[c] \in Seq(Batches) /\ lastSeqID[c] \in Int
    BY <1>2, <1>8 DEF IInv, ClientInv, TypeOK
  <2>2. UNCHANGED <<pc[c], ask[c], lastSeqID[c], snapshot[c], got[c], before[c], lost[c],
                    twice[c], rows>>
    BY <1>1
  <2> DEFINE q == queue[c]
             q2 == queue'[c]
             L == Len(queue[c]) + 1
  <2>3. CASE Receives(c, b) /\ Len(q) < Capacity
    <3>1. /\ q2 = Append(q, b) /\ L \in DOMAIN q2 /\ q2[L] = b
          /\ \A k \in DOMAIN q : k \in DOMAIN q2 /\ q2[k] = q[k]
          /\ \A k \in DOMAIN q2 : k = L \/ k \in DOMAIN q
          /\ L \notin DOMAIN q
      <4>1. q2 = Append(q, b)
        BY <1>5, <2>3
      <4>2. /\ DOMAIN q = 1..Len(q) /\ Len(q) \in Nat
            /\ DOMAIN Append(q, b) = 1..(Len(q) + 1)
            /\ \A k \in DOMAIN q : Append(q, b)[k] = q[k]
            /\ Append(q, b)[Len(q) + 1] = b
        BY <1>3, QueueFacts
      <4> QED
        BY <4>1, <4>2
    <3>2. subscribed[c] /\ subscribed'[c] /\ (cut'[c] <=> cut[c])
      BY <1>4, <1>5, <2>3 DEF Receives
    <3> HIDE DEF q, q2, L
    <3>3. BoundInv(c)'
      <4>1. \A k \in DOMAIN q2 : q2[k].hi <= rows
        BY <1>3, <2>1, <3>1 DEF BoundInv, q
      <4> QED
        BY <2>1, <2>2, <4>1 DEF BoundInv, q2
    <3>4. ASSUME c \in Unified PROVE UnifiedInv(c)'
      <4>1. UnifiedInv(c)
        BY <2>1, <3>4 DEF ClientInv
      <4>2. ASSUME AllComing(c) PROVE AllComing(c)'
        <5> SUFFICES ASSUME NEW r \in 1..rows
                     PROVE  \/ r <= before[c]
                            \/ r \in got[c] \cup snapshot[c] \cup lost[c]
                            \/ \E k \in DOMAIN q2 : Within(r, q2[k])
                            \/ \E a \in notices' : Within(r, a)
          BY <2>2 DEF AllComing, Within, q2
        <5>1. CASE r <= before[c] \/ r \in got[c] \cup snapshot[c] \cup lost[c]
          BY <5>1
        <5>2. CASE \E k \in DOMAIN q : Within(r, q[k])
          BY <3>1, <5>2
        <5>3. CASE \E a \in notices : Within(r, a)
          BY <1>1, <3>1, <5>3
        <5> QED
          BY <4>2, <5>1, <5>2, <5>3 DEF AllComing, q
      <4> QED
        BY <2>2, <3>2, <4>1, <4>2 DEF UnifiedInv
    <3>5. ASSUME c \in Legacy PROVE LegacyInv(c)'
      <4>1. LegacyInv(c) /\ lastSeqID[c] < b.hi
        BY <2>1, <2>3, <3>5 DEF ClientInv, Receives
      <4>2. pc[c] \in {"write", "live"}
        BY <3>2, <4>1 DEF LegacyInv, UnsubscribedInv
      <4>3. twice'[c] = {} /\ UnsubscribedInv(c)' /\ SnapshotInv(c)'
        BY <2>2, <4>1, <4>2 DEF LegacyInv, UnsubscribedInv, SnapshotInv
      <4>4. IndexInv(c)'
        BY <1>1, <2>2, <4>1 DEF LegacyInv, IndexInv, Within
      <4>5. lastSeqID[c] < b.lo /\ \A r \in got[c] : ~Within(r, b)
        BY <1>3, <2>1, <4>1, <4>2 DEF LegacyInv, IndexInv
      <4>6. /\ \A a \in notices' : Apart(a, b)
            /\ \A k \in DOMAIN q : Apart(b, q[k])
        BY <1>1, <1>2, <4>1 DEF PublishInv, LegacyInv, QueueInv, q
      <4>7. \A k \in DOMAIN q : Apart(q[k], b)
        BY <4>6 DEF Apart
      <4>8. ASSUME NEW k \in DOMAIN q2
            PROVE  /\ lastSeqID[c] < q2[k].lo
                   /\ \A r \in got[c] : ~Within(r, q2[k])
                   /\ \A a \in notices' : Apart(a, q2[k])
                   /\ \A i \in DOMAIN q2 : i # k => Apart(q2[i], q2[k])
        <5>1. CASE k = L
          BY <3>1, <4>5, <4>6, <4>7, <5>1
        <5>2. CASE k \in DOMAIN q
          BY <1>1, <3>1, <4>1, <4>6, <5>2 DEF LegacyInv, QueueInv, q
        <5> QED
          BY <3>1, <4>8, <5>1, <5>2
      <4>9. QueueInv(c)'
        BY <2>2, <4>8 DEF QueueInv, Within, Apart, q2
      <4> QED
        BY <4>3, <4>4, <4>9 DEF LegacyInv
    <3> QED
      BY <3>3, <3>4, <3>5 DEF ClientInv
  <2>4. CASE ~(Receives(c, b) /\ Len(q) < Capacity)
    <3>1. queue'[c] = queue[c]
      BY <1>5, <2>4
    <3>2. BoundInv(c)'
      BY <2>1, <2>2, <3>1 DEF BoundInv
    <3>3. ASSUME c \in Unified PROVE UnifiedInv(c)'
      <4>1. UnifiedInv(c) /\ (c \notin Legacy)
        BY <2>1, <3>3, ClientsAssumption DEF ClientInv
      <4>2. (subscribed[c] \/ cut[c]) => (subscribed'[c] \/ cut'[c])
        BY <1>4
      <4>3. cut[c] => cut'[c]
        BY <1>4
      <4>4. subscribed[c] => cut'[c]
        BY <1>4, <1>5, <2>4, <4>1 DEF Receives
      <4>5. pc[c] \in {"manager", "write", "live"} => cut'[c]
        BY <4>1, <4>3, <4>4 DEF UnifiedInv
      <4> QED
        BY <2>2, <4>1, <4>2, <4>5 DEF UnifiedInv
    <3>4. ASSUME c \in Legacy PROVE LegacyInv(c)'
      <4>1. LegacyInv(c) /\ (subscribed'[c] => subscribed[c])
        BY <1>4, <2>1, <3>4 DEF ClientInv
      <4>2. twice'[c] = {} /\ UnsubscribedInv(c)' /\ SnapshotInv(c)'
        BY <2>2, <3>1, <4>1 DEF LegacyInv, UnsubscribedInv, SnapshotInv
      <4>3. IndexInv(c)'
        BY <1>1, <2>2, <4>1 DEF LegacyInv, IndexInv, Within
      <4>4. QueueInv(c)'
        <5>1. QueueInv(c) /\ notices' \subseteq notices
          BY <1>1, <4>1 DEF LegacyInv
        <5> QED
          BY <2>2, <3>1, <5>1 DEF QueueInv, Within, Apart
      <4> QED
        BY <4>2, <4>3, <4>4 DEF LegacyInv
    <3> QED
      BY <3>2, <3>3, <3>4 DEF ClientInv
  <2> QED
    BY <2>3, <2>4
<1> QED
  BY <1>6, <1>7, <1>8 DEF IInv

(* A goroutine that gives up: its rows are missing for those who asked     *)
(* before, and still to be read by the others.                             *)
LEMMA GiveUpInv ==
  ASSUME IInv, NEW b \in notices, Notify(b), GiveUp(b)
  PROVE  IInv'
<1> USE BoundsAssumption
<1>1. /\ notices' = notices \ {b}
      /\ UNCHANGED <<rows, active, prompted, pc, ask, lastSeqID, subscribed, cut, orphan,
                      snapshot, queue, got, before, twice>>
      /\ lost' = [c \in Clients |-> IF Asked(c) THEN lost[c] \cup RowsOf(b) ELSE lost[c]]
  BY DEF Notify, GiveUp, Lose
<1>2. TypeOK /\ PublishInv /\ queue \in [Clients -> Seq(Batches)] /\ rows \in 0..MaxRows
  BY DEF IInv, Typed, TypeOK
<1>3. b \in Batches /\ b.lo \in 1..MaxRows /\ b.hi \in 1..MaxRows
  BY <1>2, BatchFacts DEF TypeOK
<1>4. RowsOf(b) \subseteq 1..MaxRows
  BY <1>3 DEF RowsOf
<1>5. Typed'
  <2>1. lost' \in [Clients -> SUBSET (1..MaxRows)]
    BY <1>1, <1>2, <1>4 DEF TypeOK
  <2> QED
    BY <1>1, <1>2, <2>1 DEF Typed, TypeOK
<1>6. PublishInv'
  BY <1>1, <1>2 DEF PublishInv, Apart
<1>7. ASSUME NEW c \in Clients PROVE ClientInv(c)'
  <2>1. ClientInv(c)
    BY DEF IInv
  <2>2. BoundInv(c)'
    BY <1>1, <2>1 DEF ClientInv, BoundInv
  <2>3. ASSUME c \in Unified PROVE UnifiedInv(c)'
    <3>1. UnifiedInv(c)
      BY <2>1, <2>3 DEF ClientInv
    <3>2. ASSUME AllComing(c), Asked(c) PROVE AllComing(c)'
      <4>1. \A r \in 1..rows : Within(r, b) => r \in lost'[c]
        BY <1>1, <1>2, <1>3, <3>2, RowsWithin
      <4>2. \A r \in 1..rows : (\E a \in notices : Within(r, a)) =>
                                 Within(r, b) \/ \E a \in notices' : Within(r, a)
        BY <1>1
      <4>3. lost[c] \subseteq lost'[c]
        BY <1>1
      <4> QED
        BY <1>1, <3>2, <4>1, <4>2, <4>3 DEF AllComing, Within
    <3>3. pc[c] \in {"manager", "write", "live"} => Asked(c)
      BY DEF Asked
    <3> QED
      BY <1>1, <3>1, <3>2, <3>3 DEF UnifiedInv
  <2>4. ASSUME c \in Legacy PROVE LegacyInv(c)'
    <3>1. LegacyInv(c) /\ notices' \subseteq notices
      BY <1>1, <2>1, <2>4 DEF ClientInv
    <3> QED
      BY <1>1, <3>1 DEF LegacyInv, UnsubscribedInv, SnapshotInv, IndexInv, QueueInv, Within, Apart
  <2> QED
    BY <2>2, <2>3, <2>4 DEF ClientInv
<1> QED
  BY <1>5, <1>6, <1>7 DEF IInv

(* notifySubscribers does one or the other.                                *)
LEMMA NotifyInv ==
  ASSUME IInv, NEW b \in notices, Notify(b)
  PROVE  IInv'
BY PublishBatchInv, GiveUpInv DEF Notify

-----------------------------------------------------------------------------
(* Steps of one connection.                                                *)

(* It is enough to look at the connection that moves.                      *)
LEMMA OneClient ==
  ASSUME IInv, NEW c \in Clients, Typed', UNCHANGED <<rows, notices>>,
         \A d \in Clients \ {c} : View(d)' = View(d), ClientInv(c)'
  PROVE  IInv'
<1>1. PublishInv'
  BY DEF IInv, PublishInv, Apart
<1>2. ASSUME NEW d \in Clients PROVE ClientInv(d)'
  <2>1. CASE d = c
    BY <2>1
  <2>2. CASE d # c
    <3>1. ClientInv(d) /\ View(d)' = View(d)
      BY <1>2, <2>2 DEF IInv
    <3> QED
      BY <3>1, Frame
  <2> QED
    BY <2>1, <2>2
<1> QED
  BY <1>1, <1>2 DEF IInv

(* The response ends.                                                      *)
LEMMA HangupInv ==
  ASSUME IInv, NEW c \in Clients, Hangup(c)
  PROVE  IInv'
<1>1. TypeOK /\ queue \in [Clients -> Seq(Batches)] /\ ClientInv(c)
  BY DEF IInv, Typed
<1>2. /\ pc'[c] = "away" /\ subscribed'[c] = FALSE /\ snapshot'[c] = {} /\ queue'[c] = <<>>
      /\ got'[c] = got[c] /\ twice'[c] = {} /\ lastSeqID'[c] = -1 /\ before'[c] = before[c]
      /\ UNCHANGED <<rows, notices>>
  BY <1>1 DEF Hangup, TypeOK
<1>3. Typed'
  <2>1. queue' \in [Clients -> Seq(Batches)]
    BY <1>1 DEF Hangup
  <2>2. \A d \in Clients : queue'[d] \in Seq(Batches) /\ Len(queue'[d]) <= Capacity
    BY <1>1, BoundsAssumption DEF Hangup, TypeOK
  <2>3. /\ subscribed' \in [Clients -> BOOLEAN] /\ cut' \in [Clients -> BOOLEAN]
        /\ orphan' \in [Clients -> BOOLEAN]
    BY <1>1 DEF Hangup, TypeOK
  <2>4. lastSeqID' \in [Clients -> -1..MaxRows] /\ ask' \in [Clients -> Asks]
    BY <1>1, BoundsAssumption DEF Hangup, TypeOK, Asks
  <2> QED
    BY <1>1, <2>1, <2>2, <2>3, <2>4 DEF Hangup, Typed, TypeOK, PCs
<1>4. \A d \in Clients \ {c} : View(d)' = View(d)
  BY <1>1 DEF Hangup, TypeOK, View
<1>5. BoundInv(c)'
  <2>1. -1 <= rows
    BY <1>1, BoundsAssumption DEF TypeOK
  <2> QED
    BY <1>1, <1>2, <2>1 DEF ClientInv, BoundInv
<1>6. UnifiedInv(c)'
  BY <1>2 DEF UnifiedInv
<1>7. ASSUME c \in Legacy PROVE LegacyInv(c)'
  BY <1>2 DEF LegacyInv, UnsubscribedInv, SnapshotInv, IndexInv, QueueInv
<1>8. ClientInv(c)'
  BY <1>5, <1>6, <1>7 DEF ClientInv
<1> QED
  BY <1>2, <1>3, <1>4, <1>8, OneClient

(* A new connection starts from the rows its client holds.                 *)
LEMMA ConnectInv ==
  ASSUME IInv, NEW c \in Clients, NEW kind \in Asks, NEW since \in -1..MaxRows,
         Connect(c, kind, since)
  PROVE  IInv'
<1> DEFINE low == IF since < 0 THEN 0 ELSE IF since < before[c] THEN since ELSE before[c]
<1> USE BoundsAssumption
<1>1. TypeOK /\ queue \in [Clients -> Seq(Batches)] /\ ClientInv(c) /\ rows \in 0..MaxRows
  BY DEF IInv, Typed, TypeOK
<1>2. /\ pc[c] = "away" /\ pc'[c] = (IF c \in Unified THEN "subscribe" ELSE "query")
      /\ ask'[c] = kind /\ (kind = "tail" => since = -1)
      /\ lastSeqID'[c] = since /\ got'[c] = (low + 1)..since /\ before'[c] = low
      /\ (low + 1)..since \subseteq got[c]
      /\ subscribed'[c] = subscribed[c] /\ snapshot'[c] = snapshot[c] /\ queue'[c] = queue[c]
      /\ twice'[c] = twice[c]
      /\ UNCHANGED <<rows, notices>>
  BY <1>1 DEF Connect, TypeOK
<1>3. before[c] \in 0..MaxRows /\ before[c] <= rows /\ got[c] \subseteq 1..MaxRows
  BY <1>1 DEF TypeOK, ClientInv, BoundInv
<1>4. low \in 0..MaxRows /\ low <= rows
  BY <1>1, <1>3
<1>5. since <= rows
  <2>1. CASE since >= low + 1
    <3>1. since \in got[c]
      BY <1>2, <1>4, <2>1
    <3> QED
      BY <1>1, <3>1 DEF ClientInv, BoundInv
  <2>2. CASE ~(since >= low + 1)
    BY <1>1, <1>4, <2>2
  <2> QED
    BY <2>1, <2>2
<1> HIDE DEF low
<1>6. Typed'
  <2>1. (low + 1)..since \in SUBSET (1..MaxRows)
    BY <1>4
  <2>2. /\ got' \in [Clients -> SUBSET (1..MaxRows)] /\ before' \in [Clients -> 0..MaxRows]
    BY <1>1, <1>4, <2>1 DEF Connect, TypeOK, low
  <2> QED
    BY <1>1, <2>2 DEF Connect, Typed, TypeOK, PCs
<1>7. \A d \in Clients \ {c} : View(d)' = View(d)
  BY <1>1 DEF Connect, TypeOK, View
<1>8. BoundInv(c)'
  <2>1. \A r \in (low + 1)..since : r <= rows
    BY <1>1, <1>4, <1>5
  <2> QED
    BY <1>1, <1>2, <1>4, <1>5, <2>1 DEF ClientInv, BoundInv
<1>9. ASSUME c \in Unified PROVE UnifiedInv(c)'
  BY <1>2, <1>9 DEF UnifiedInv
<1>10. ASSUME c \in Legacy PROVE LegacyInv(c)'
  <2>1. pc'[c] = "query" /\ ~subscribed'[c] /\ queue'[c] = <<>> /\ twice'[c] = {}
    BY <1>1, <1>2, <1>10, ClientsAssumption DEF ClientInv, LegacyInv, UnsubscribedInv
  <2>2. SnapshotInv(c)'
    BY <1>2, <1>4, <2>1 DEF SnapshotInv
  <2> QED
    BY <1>2, <2>1, <2>2 DEF LegacyInv, UnsubscribedInv, IndexInv, QueueInv
<1>11. ClientInv(c)'
  BY <1>8, <1>9, <1>10 DEF ClientInv
<1> QED
  BY <1>2, <1>6, <1>7, <1>11, OneClient

(* The subscription, with the index that lastSeqID has now.                *)
LEMMA SubscribeInv ==
  ASSUME IInv, NEW c \in Clients, Subscribe(c)
  PROVE  IInv'
<1>1. TypeOK /\ queue \in [Clients -> Seq(Batches)] /\ ClientInv(c)
  BY DEF IInv, Typed
<1>2. /\ pc[c] = "subscribe"
      /\ pc'[c] = (IF c \in Legacy THEN "write" ELSE IF ask[c] = "nothing" THEN "live" ELSE "query")
      /\ before'[c] = (IF ask[c] = "nothing" THEN rows ELSE before[c])
      /\ subscribed'[c] /\ lastSeqID'[c] = lastSeqID[c] /\ got'[c] = got[c]
      /\ lost'[c] = lost[c] /\ ask'[c] = ask[c]
      /\ twice'[c] = twice[c] /\ snapshot'[c] = snapshot[c] /\ queue'[c] = queue[c]
      /\ UNCHANGED <<rows, notices>>
  BY <1>1 DEF Subscribe, TypeOK
<1>3. Typed'
  <2>1. subscribed' \in [Clients -> BOOLEAN] /\ before' \in [Clients -> 0..MaxRows]
    BY <1>1 DEF Subscribe, TypeOK
  <2>2. pc' \in [Clients -> PCs]
    BY <1>1 DEF Subscribe, TypeOK, PCs
  <2> QED
    BY <1>1, <2>1, <2>2 DEF Subscribe, Typed, TypeOK
<1>4. \A d \in Clients \ {c} : View(d)' = View(d)
  BY <1>1 DEF Subscribe, TypeOK, View
<1>5. BoundInv(c)'
  BY <1>1, <1>2 DEF ClientInv, BoundInv, TypeOK
<1>6. ASSUME c \in Unified PROVE UnifiedInv(c)'
  <2>1. UnifiedInv(c) /\ c \notin Legacy
    BY <1>1, <1>6, ClientsAssumption DEF ClientInv
  <2>2. CASE ask[c] = "nothing"
    <3>1. \A r \in 1..rows : r <= before'[c]
      BY <1>1, <1>2, <2>2 DEF TypeOK
    <3>2. AllComing(c)'
      BY <1>2, <3>1 DEF AllComing
    <3> QED
      BY <1>2, <2>1, <2>2, <3>2 DEF UnifiedInv
  <2>3. CASE ask[c] # "nothing"
    BY <1>2, <2>1, <2>3 DEF UnifiedInv
  <2> QED
    BY <2>2, <2>3
<1>7. ASSUME c \in Legacy PROVE LegacyInv(c)'
  <2>1. pc'[c] = "write" /\ LegacyInv(c)
    BY <1>1, <1>2, <1>7, ClientsAssumption DEF ClientInv
  <2> QED
    BY <1>2, <2>1 DEF LegacyInv, UnsubscribedInv, SnapshotInv, IndexInv, QueueInv, Within, Apart
<1>8. ClientInv(c)'
  BY <1>5, <1>6, <1>7 DEF ClientInv
<1> QED
  BY <1>2, <1>3, <1>4, <1>8, OneClient

(* The rows are read: from here on nothing committed is missing, and no    *)
(* unpublished batch straddles the new index.                              *)
LEMMA QueryInv ==
  ASSUME IInv, NEW c \in Clients, NEW n \in 1..MaxRows, Query(c, n)
  PROVE  IInv'
<1> DEFINE new == {r \in 1..rows : r > After(c, n)}
           last == IF ask[c] = "tail" \/ (rows > lastSeqID[c] /\ rows > 0) THEN rows ELSE lastSeqID[c]
           low == IF ask[c] = "tail" THEN After(c, n) ELSE before[c]
<1>1. TypeOK /\ queue \in [Clients -> Seq(Batches)] /\ ClientInv(c) /\ PublishInv
  BY DEF IInv, Typed
<1>2. /\ pc[c] = "query" /\ pc'[c] = "manager" /\ snapshot'[c] = new /\ lastSeqID'[c] = last
      /\ subscribed'[c] = subscribed[c] /\ cut'[c] = cut[c] /\ got'[c] = got[c]
      /\ twice'[c] = twice[c] /\ queue'[c] = queue[c] /\ before'[c] = low
      /\ ask'[c] = ask[c] /\ lost'[c] = lost[c]
      /\ UNCHANGED <<rows, notices>>
  BY <1>1 DEF Query, TypeOK
<1>3. /\ rows \in 0..MaxRows /\ lastSeqID[c] \in -1..MaxRows /\ lastSeqID[c] <= rows
      /\ before[c] \in 0..MaxRows /\ before[c] <= rows
  BY <1>1 DEF TypeOK, ClientInv, BoundInv
<1>4. /\ ask[c] # "tail" => After(c, n) = lastSeqID[c]
      /\ (ask[c] = "tail" => After(c, n) \in 0..MaxRows /\ After(c, n) <= rows)
  BY <1>3, BoundsAssumption DEF After
<1>5. /\ last \in -1..MaxRows /\ lastSeqID[c] <= last /\ last <= rows
      /\ rows > 0 => last = rows
      /\ new \in SUBSET (1..MaxRows)
      /\ low \in 0..MaxRows /\ low <= rows
  BY <1>3, <1>4, BoundsAssumption
<1> HIDE DEF low
<1>6. Typed'
  <2>1. before' \in [Clients -> 0..MaxRows]
    BY <1>1, <1>5 DEF Query, TypeOK, low
  <2>2. lastSeqID' \in [Clients -> -1..MaxRows]
    BY <1>1, <1>5 DEF Query, TypeOK
  <2>3. snapshot' \in [Clients -> SUBSET (1..MaxRows)]
    BY <1>1, <1>5 DEF Query, TypeOK
  <2> QED
    BY <1>1, <2>1, <2>2, <2>3 DEF Query, Typed, TypeOK, PCs
<1>7. \A d \in Clients \ {c} : View(d)' = View(d)
  BY <1>1 DEF Query, TypeOK, View
<1>8. BoundInv(c)'
  BY <1>1, <1>2, <1>5 DEF ClientInv, BoundInv
<1>9. ASSUME c \in Unified PROVE UnifiedInv(c)'
  <2>1. UnifiedInv(c) /\ (before[c] + 1)..lastSeqID[c] \subseteq got[c]
    BY <1>1, <1>2, <1>9 DEF ClientInv, UnifiedInv
  <2>2. ASSUME NEW r \in 1..rows PROVE r <= low \/ r \in got[c] \cup new
    <3>1. CASE ask[c] = "tail"
      BY <1>3, <1>4, <3>1 DEF low
    <3>2. CASE ask[c] # "tail"
      BY <1>3, <1>4, <2>1, <3>2 DEF low
    <3> QED
      BY <3>1, <3>2
  <2>3. AllComing(c)'
    BY <1>2, <2>2 DEF AllComing
  <2> QED
    BY <1>2, <2>1, <2>3 DEF UnifiedInv
<1>10. ASSUME c \in Legacy PROVE LegacyInv(c)'
  <2>1. /\ LegacyInv(c) /\ ~subscribed[c] /\ queue[c] = <<>>
        /\ \A r \in got[c] : r <= lastSeqID[c]
        /\ got[c] \subseteq 1..MaxRows
        /\ ask[c] = "tail" => lastSeqID[c] = -1
    BY <1>1, <1>2, <1>10 DEF ClientInv, LegacyInv, UnsubscribedInv, SnapshotInv, TypeOK
  <2>2. SnapshotInv(c)'
    <3>1. got[c] \cap new = {}
      BY <1>3, <1>4, <2>1
    <3>2. \A r \in got[c] \cup new : r <= last
      BY <1>3, <1>5, <2>1
    <3> QED
      BY <1>2, <3>1, <3>2 DEF SnapshotInv
  <2>3. \A b \in notices : b.hi <= last
    <3> TAKE b \in notices
    <3>1. b \in Batches /\ b.hi <= rows
      BY <1>1 DEF TypeOK, PublishInv
    <3>2. b.hi \in Int /\ b.hi >= 1
      BY <3>1, BatchFacts
    <3> QED
      BY <1>3, <1>5, <3>1, <3>2
  <2>4. IndexInv(c)'
    BY <1>2, <2>3 DEF IndexInv
  <2> QED
    BY <1>2, <2>1, <2>2, <2>4 DEF LegacyInv, UnsubscribedInv, QueueInv
<1>11. ClientInv(c)'
  BY <1>8, <1>9, <1>10 DEF ClientInv
<1> QED
  BY <1>2, <1>6, <1>7, <1>11, OneClient

(* The manager is looked up or created, which may store the system prompt. *)
LEMMA GetManagerInv ==
  ASSUME IInv, NEW c \in Clients, GetManager(c)
  PROVE  IInv'
<1>1. TypeOK /\ queue \in [Clients -> Seq(Batches)]
  BY DEF IInv, Typed
<1>2. Grows
  BY BoundsAssumption DEF GetManager, Hydrate, Committed, Stored, Grows
<1>3. /\ \A d \in Clients : GoesOn(d) /\ Rest(d)' = Rest(d)
      /\ pc' \in [Clients -> PCs]
  BY <1>1 DEF GetManager, TypeOK, PCs, GoesOn, Rest
<1>4. active' \in BOOLEAN /\ prompted' \in BOOLEAN
  <2>1. prompted \in BOOLEAN
    BY <1>1 DEF TypeOK
  <2> QED
    BY <2>1, Zenon DEF GetManager, Hydrate
<1>5. Typed'
  BY <1>1, <1>2, <1>3, <1>4, GrowFacts DEF GetManager, Typed, TypeOK
<1>6. \A d \in Clients : ClientInv(d)'
  BY <1>2, <1>3, GrowClient
<1> QED
  BY <1>2, <1>5, <1>6, GrowPublish DEF IInv

(* The snapshot is written: it repeats nothing the client holds.           *)
LEMMA WriteSnapshotInv ==
  ASSUME IInv, NEW c \in Clients, WriteSnapshot(c)
  PROVE  IInv'
<1>1. TypeOK /\ queue \in [Clients -> Seq(Batches)] /\ ClientInv(c)
  BY DEF IInv, Typed
<1>2. /\ pc[c] = "write" /\ pc'[c] = "live" /\ snapshot'[c] = {}
      /\ got'[c] = got[c] \cup snapshot[c] /\ twice'[c] = twice[c] \cup (got[c] \cap snapshot[c])
      /\ subscribed'[c] = subscribed[c] /\ cut'[c] = cut[c] /\ queue'[c] = queue[c]
      /\ before'[c] = before[c] /\ lost'[c] = lost[c]
      /\ lastSeqID'[c] = lastSeqID[c] /\ UNCHANGED <<rows, notices>>
  BY <1>1 DEF WriteSnapshot, Deliver, TypeOK
<1>3. Typed'
  <2>1. /\ got[c] \cup snapshot[c] \in SUBSET (1..MaxRows)
        /\ twice[c] \cup (got[c] \cap snapshot[c]) \in SUBSET (1..MaxRows)
    BY <1>1 DEF TypeOK
  <2>2. got' \in [Clients -> SUBSET (1..MaxRows)] /\ twice' \in [Clients -> SUBSET (1..MaxRows)]
    BY <1>1, <2>1 DEF WriteSnapshot, Deliver, TypeOK
  <2> QED
    BY <1>1, <2>2 DEF WriteSnapshot, Typed, TypeOK, PCs
<1>4. \A d \in Clients \ {c} : View(d)' = View(d)
  BY <1>1 DEF WriteSnapshot, Deliver, TypeOK, View
<1>5. BoundInv(c)'
  BY <1>1, <1>2 DEF ClientInv, BoundInv
<1>6. ASSUME c \in Unified PROVE UnifiedInv(c)'
  <2>1. UnifiedInv(c)
    BY <1>1, <1>6 DEF ClientInv
  <2> QED
    BY <1>2, <2>1 DEF UnifiedInv, AllComing, Within
<1>7. ASSUME c \in Legacy PROVE LegacyInv(c)'
  <2>1. /\ LegacyInv(c) /\ got[c] \cap snapshot[c] = {}
        /\ \A r \in got[c] \cup snapshot[c] : r <= lastSeqID[c] /\ r \in Int
        /\ lastSeqID[c] \in Int
    BY <1>1, <1>2, <1>7 DEF ClientInv, LegacyInv, SnapshotInv, TypeOK
  <2>2. twice'[c] = {} /\ UnsubscribedInv(c)' /\ SnapshotInv(c)'
    BY <1>2, <2>1 DEF LegacyInv, UnsubscribedInv, SnapshotInv
  <2>3. ASSUME NEW b \in Batches, lastSeqID[c] < b.lo, NEW r \in got'[c] PROVE ~Within(r, b)
    BY <1>2, <2>1, <2>3, BatchFacts DEF Within
  <2>4. notices \subseteq Batches /\ \A k \in DOMAIN queue[c] : queue[c][k] \in Batches
    BY <1>1 DEF TypeOK
  <2>5. IndexInv(c)'
    BY <1>2, <2>1, <2>3, <2>4 DEF LegacyInv, IndexInv
  <2>6. QueueInv(c)'
    BY <1>2, <2>1, <2>3, <2>4 DEF LegacyInv, QueueInv, Apart
  <2> QED
    BY <2>2, <2>5, <2>6 DEF LegacyInv
<1>8. ClientInv(c)'
  BY <1>5, <1>6, <1>7 DEF ClientInv
<1> QED
  BY <1>2, <1>3, <1>4, <1>8, OneClient

(* The oldest queued batch is written: nothing in it was received before,  *)
(* and what stays queued or unpublished has none of its rows.              *)
LEMMA WriteUpdateInv ==
  ASSUME IInv, NEW c \in Clients, WriteUpdate(c)
  PROVE  IInv'
<1> DEFINE q == queue[c]
           q2 == queue'[c]
           h == queue[c][1]
<1>1. TypeOK /\ queue \in [Clients -> Seq(Batches)] /\ ClientInv(c)
  BY DEF IInv, Typed
<1>2. queue[c] \in Seq(Batches) /\ queue[c] # <<>> /\ queue'[c] = Tail(queue[c])
  BY <1>1 DEF WriteUpdate
<1>3. /\ h \in Batches /\ Head(q) = h /\ 1 \in DOMAIN q /\ DOMAIN q = 1..Len(q) /\ Len(q) \in Nat
      /\ q2 \in Seq(Batches) /\ Len(q2) = Len(q) - 1
      /\ \A k \in DOMAIN q2 : k + 1 \in DOMAIN q /\ k + 1 # 1 /\ q2[k] = q[k + 1]
      /\ \A k \in DOMAIN q : k # 1 => k - 1 \in DOMAIN q2 /\ q2[k - 1] = q[k]
      /\ \A i, k \in DOMAIN q2 : i # k => i + 1 # k + 1
  BY <1>2
<1>4. /\ pc[c] = "live" /\ pc'[c] = "live" /\ snapshot'[c] = snapshot[c]
      /\ got'[c] = got[c] \cup RowsOf(h) /\ twice'[c] = twice[c] \cup (got[c] \cap RowsOf(h))
      /\ subscribed'[c] = subscribed[c] /\ cut'[c] = cut[c]
      /\ before'[c] = before[c] /\ lost'[c] = lost[c]
      /\ lastSeqID'[c] = lastSeqID[c] /\ UNCHANGED <<rows, notices>>
  BY <1>1, <1>3 DEF WriteUpdate, Deliver, TypeOK
<1>5. /\ \A r \in RowsOf(h) : r \in 1..MaxRows /\ Within(r, h)
      /\ \A r \in 1..MaxRows : Within(r, h) => r \in RowsOf(h)
      /\ h.lo \in Int /\ h.hi \in Int /\ h.lo <= h.hi
  <2>1. h.lo \in 1..MaxRows /\ h.hi \in 1..MaxRows /\ h.lo <= h.hi
    BY <1>3, BatchFacts
  <2> QED
    BY <2>1, BoundsAssumption DEF RowsOf, Within
<1> HIDE DEF q, q2, h
<1>6. Typed'
  <2>1. /\ got[c] \cup RowsOf(h) \in SUBSET (1..MaxRows)
        /\ twice[c] \cup (got[c] \cap RowsOf(h)) \in SUBSET (1..MaxRows)
    BY <1>1, <1>5 DEF TypeOK
  <2>2. got' \in [Clients -> SUBSET (1..MaxRows)] /\ twice' \in [Clients -> SUBSET (1..MaxRows)]
    BY <1>1, <1>3, <2>1 DEF WriteUpdate, Deliver, TypeOK, q
  <2>3. queue' \in [Clients -> Seq(Batches)]
    BY <1>1, <1>2, <1>3 DEF WriteUpdate, q2
  <2>4. \A d \in Clients : Len(queue'[d]) <= Capacity
    <3> TAKE d \in Clients
    <3>1. CASE d = c
      <4>1. Len(queue[c]) <= Capacity
        BY <1>1 DEF TypeOK
      <4> QED
        BY <1>3, <3>1, <4>1, BoundsAssumption DEF q, q2
    <3>2. CASE d # c
      BY <1>1, <3>2 DEF WriteUpdate, TypeOK
    <3> QED
      BY <3>1, <3>2
  <2> QED
    BY <1>1, <2>2, <2>3, <2>4 DEF WriteUpdate, Typed, TypeOK
<1>7. \A d \in Clients \ {c} : View(d)' = View(d)
  BY <1>1 DEF WriteUpdate, Deliver, TypeOK, View
<1>8. BoundInv(c)'
  <2>1. h.hi <= rows /\ \A k \in DOMAIN q2 : q2[k].hi <= rows
    BY <1>1, <1>3 DEF ClientInv, BoundInv, q, h
  <2>2. \A r \in RowsOf(h) : r <= rows
    BY <1>1, <1>5, <2>1 DEF Within, TypeOK
  <2> QED
    BY <1>1, <1>4, <2>1, <2>2 DEF ClientInv, BoundInv, q2
<1>9. ASSUME c \in Unified PROVE UnifiedInv(c)'
  <2>1. UnifiedInv(c)
    BY <1>1, <1>9 DEF ClientInv
  <2>2. ASSUME AllComing(c) PROVE AllComing(c)'
    <3> SUFFICES ASSUME NEW r \in 1..rows
                 PROVE  \/ r <= before[c]
                        \/ r \in got[c] \cup RowsOf(h) \cup snapshot[c] \cup lost[c]
                        \/ \E k \in DOMAIN q2 : Within(r, q2[k])
                        \/ \E b \in notices : Within(r, b)
      BY <1>4 DEF AllComing, Within, q2
    <3>1. CASE \E k \in DOMAIN q : Within(r, q[k])
      <4>1. PICK k \in DOMAIN q : Within(r, q[k])
        BY <3>1
      <4>2. CASE k = 1
        <5>1. Within(r, h)
          BY <4>1, <4>2 DEF q, h
        <5>2. rows \in 0..MaxRows
          BY <1>1 DEF TypeOK
        <5>3. r \in 1..MaxRows
          BY <5>2, BoundsAssumption
        <5> QED
          BY <1>5, <5>1, <5>3
      <4>3. CASE k # 1
        BY <1>3, <4>1, <4>3
      <4> QED
        BY <4>2, <4>3
    <3>2. CASE ~\E k \in DOMAIN q : Within(r, q[k])
      BY <2>2, <3>2 DEF AllComing, q
    <3> QED
      BY <3>1, <3>2
  <2> QED
    BY <1>4, <2>1, <2>2 DEF UnifiedInv
<1>10. ASSUME c \in Legacy PROVE LegacyInv(c)'
  <2>1. LegacyInv(c) /\ QueueInv(c) /\ IndexInv(c)
    BY <1>1, <1>10 DEF ClientInv, LegacyInv
  <2>2. /\ lastSeqID[c] < h.lo
        /\ \A r \in got[c] : ~Within(r, h)
        /\ \A b \in notices : Apart(b, h)
        /\ \A i \in DOMAIN q : i # 1 => Apart(q[i], h)
    BY <1>3, <2>1 DEF QueueInv, q, h
  <2>3. twice'[c] = {}
    BY <1>4, <1>5, <2>1, <2>2 DEF LegacyInv
  <2>4. UnsubscribedInv(c)' /\ SnapshotInv(c)'
    BY <1>4 DEF UnsubscribedInv, SnapshotInv
  <2>5. ASSUME NEW b \in Batches, Apart(b, h), \A r \in got[c] : ~Within(r, b)
        PROVE  \A r \in got'[c] : ~Within(r, b)
    <3>1. b.lo \in Int /\ b.hi \in Int
      BY <2>5, BatchFacts
    <3>2. ASSUME NEW r \in RowsOf(h) PROVE ~Within(r, b)
      BY <1>5, <2>5, <3>1, <3>2 DEF Within, Apart
    <3> QED
      BY <1>4, <2>5, <3>2
  <2>6. notices \subseteq Batches
    BY <1>1 DEF TypeOK
  <2>7. IndexInv(c)'
    <3> SUFFICES ASSUME NEW b \in notices
                 PROVE  \/ b.hi <= lastSeqID[c]
                        \/ lastSeqID[c] < b.lo /\ \A r \in got'[c] : ~Within(r, b)
      BY <1>4 DEF IndexInv, Within
    <3>1. \/ b.hi <= lastSeqID[c]
          \/ lastSeqID[c] < b.lo /\ \A r \in got[c] : ~Within(r, b)
      BY <1>4, <2>1 DEF IndexInv
    <3> QED
      BY <2>2, <2>5, <2>6, <3>1
  <2>8. ASSUME NEW k \in DOMAIN q2
        PROVE  /\ lastSeqID[c] < q2[k].lo
               /\ \A r \in got'[c] : ~Within(r, q2[k])
               /\ \A b \in notices : Apart(b, q2[k])
               /\ \A i \in DOMAIN q2 : i # k => Apart(q2[i], q2[k])
    <3>1. k + 1 \in DOMAIN q /\ k + 1 # 1 /\ q2[k] = q[k + 1] /\ q2[k] \in Batches
      BY <1>3, <2>8
    <3>2. /\ lastSeqID[c] < q[k + 1].lo
          /\ \A r \in got[c] : ~Within(r, q[k + 1])
          /\ \A b \in notices : Apart(b, q[k + 1])
          /\ \A i \in DOMAIN q : i # k + 1 => Apart(q[i], q[k + 1])
      BY <2>1, <3>1 DEF QueueInv, q
    <3>3. Apart(q2[k], h)
      BY <2>2, <3>1
    <3>4. \A r \in got'[c] : ~Within(r, q2[k])
      BY <2>5, <3>1, <3>2, <3>3
    <3>5. ASSUME NEW i \in DOMAIN q2, i # k PROVE Apart(q2[i], q2[k])
      BY <1>3, <2>8, <3>1, <3>2, <3>5
    <3> QED
      BY <3>1, <3>2, <3>4, <3>5
  <2>9. QueueInv(c)'
    BY <1>4, <2>8 DEF QueueInv, Within, Apart, q2
  <2> QED
    BY <2>3, <2>4, <2>7, <2>9 DEF LegacyInv
<1>11. ClientInv(c)'
  BY <1>8, <1>9, <1>10 DEF ClientInv
<1> QED
  BY <1>4, <1>6, <1>7, <1>11, OneClient

(* A manager is dropped: only that the streams attached to it are orphans. *)
LEMMA CleanupInv ==
  ASSUME IInv, Cleanup
  PROVE  IInv'
<1>1. TypeOK /\ queue \in [Clients -> Seq(Batches)]
  BY DEF IInv, Typed
<1>2. UNCHANGED <<rows, notices, prompted, pc, ask, lastSeqID, subscribed, cut, snapshot,
                  queue, got, before, lost, twice>>
  BY DEF Cleanup, clientVars
<1>3. active' \in BOOLEAN /\ orphan' \in [Clients -> BOOLEAN]
  <2>1. \A c \in Clients :
          (orphan[c] \/ (c \in Legacy /\ pc[c] \in {"subscribe", "write", "live"})) \in BOOLEAN
    BY Zenon
  <2> QED
    BY <2>1, Zenon DEF Cleanup
<1>4. Typed'
  BY <1>1, <1>2, <1>3 DEF Typed, TypeOK
<1>5. PublishInv'
  BY <1>2 DEF IInv, PublishInv, Apart
<1>6. \A c \in Clients : ClientInv(c)'
  <2> TAKE c \in Clients
  <2>1. ClientInv(c) /\ View(c)' = View(c)
    BY <1>2 DEF IInv, View
  <2> QED
    BY <1>2, <2>1, Frame
<1> QED
  BY <1>4, <1>5, <1>6 DEF IInv

-----------------------------------------------------------------------------
(* Every step preserves the invariant.                                     *)
LEMMA StepInv == IInv /\ [Next]_vars => IInv'
<1> SUFFICES ASSUME IInv, [Next]_vars PROVE IInv'
  OBVIOUS
<1>1. CASE Activate \/ Cleanup
  BY <1>1, ActivateInv, CleanupInv
<1>2. CASE \E n \in 1..MaxBatch : Commit(n)
  BY <1>2, CommitInv
<1>3. CASE \E b \in notices : Notify(b)
  BY <1>3, NotifyInv
<1>4. CASE \E c \in Clients, kind \in Asks, since \in -1..MaxRows : Connect(c, kind, since)
  BY <1>4, ConnectInv
<1>5. CASE \E c \in Clients : Handler(c) \/ Disconnect(c)
  <2>1. PICK c \in Clients : Handler(c) \/ Disconnect(c)
    BY <1>5
  <2>2. CASE Subscribe(c)
    BY <2>2, SubscribeInv
  <2>3. CASE \E n \in 1..MaxRows : Query(c, n)
    BY <2>3, QueryInv
  <2>4. CASE GetManager(c)
    BY <2>4, GetManagerInv
  <2>5. CASE WriteSnapshot(c)
    BY <2>5, WriteSnapshotInv
  <2>6. CASE WriteUpdate(c)
    BY <2>6, WriteUpdateInv
  <2>7. CASE FallBehind(c) \/ Disconnect(c)
    BY <2>7, HangupInv DEF FallBehind, Disconnect
  <2> QED
    BY <2>1, <2>2, <2>3, <2>4, <2>5, <2>6, <2>7 DEF Handler
<1>6. CASE UNCHANGED vars
  <2>1. UNCHANGED <<rows, notices, active, prompted, pc, ask, lastSeqID, subscribed, cut, orphan,
                    snapshot, queue, got, before, lost, twice>>
    BY <1>6 DEF vars, connVars, clientVars
  <2>2. Typed' /\ PublishInv'
    BY <2>1 DEF IInv, Typed, TypeOK, PublishInv, Apart
  <2>3. \A c \in Clients : ClientInv(c)'
    <3> TAKE c \in Clients
    <3>1. ClientInv(c) /\ View(c)' = View(c)
      BY <2>1 DEF IInv, View
    <3> QED
      BY <2>1, <3>1, Frame
  <2> QED
    BY <2>2, <2>3 DEF IInv
<1> QED
  BY <1>1, <1>2, <1>3, <1>4, <1>5, <1>6 DEF Next

(* IInv is an invariant of commits, publications and streams, for any      *)
(* number of clients and rows, any batch size and any queue capacity.      *)
THEOREM Invariance == Spec => []IInv
<1> QED
  BY InitInv, StepInv, PTL DEF Spec

(* runStream on /api/stream2, subscribing before it reads: no committed    *)
(* row is ever missed by a stream that was not cut, but one that nobody    *)
(* published after its snapshot (notifySubscribers gave up, or hydration   *)
(* stored it).                                                             *)
THEOREM StreamMissesNothing == Spec => []UnifiedNothingMissed
<1>1. IInv => UnifiedNothingMissed
  BY Consequences
<1> QED
  BY <1>1, Invariance, PTL

(* runStream on the legacy endpoint, subscribing with lastSeqID after it   *)
(* reads: no row arrives twice over one connection.                        *)
THEOREM LegacyRepeatsNothing == Spec => []LegacyNoRepeat
<1>1. IInv => LegacyNoRepeat
  BY Consequences
<1> QED
  BY <1>1, Invariance, PTL

-----------------------------------------------------------------------------
(* ListStream.                                                             *)

(* A set of natural numbers that is not empty has a least element.         *)
LEMMA Least ==
  ASSUME NEW T \in SUBSET Nat, T # {}
  PROVE  \E n \in T : \A k \in T : n <= k
<1>1. \E R : IsWellFoundedOn(R, Nat) /\ \A k, n \in Nat : k < n => <<k, n>> \in R
  <2>1. \A k, n \in Nat : k < n => <<k, n>> \in OpToRel(<, Nat)
    BY Zenon DEF OpToRel
  <2> QED
    BY <2>1, NatLessThanWellFounded, Zenon
<1>2. PICK R : IsWellFoundedOn(R, Nat) /\ \A k, n \in Nat : k < n => <<k, n>> \in R
  BY <1>1
<1>3. \E n \in T : \A k \in T : ~(<<k, n>> \in R)
  <2>1. T \subseteq Nat /\ IsWellFoundedOn(R, Nat)
    BY <1>2
  <2> QED
    BY <2>1, WFMin, Zenon
<1>4. PICK n \in T : \A k \in T : ~(<<k, n>> \in R)
  BY <1>3
<1>5. ASSUME NEW k \in T PROVE n <= k
  <2>1. k \in Nat /\ n \in Nat
    OBVIOUS
  <2>2. ~(k < n)
    BY <1>2, <1>4, <2>1, Zenon
  <2> QED
    BY <2>1, <2>2
<1> QED
  BY <1>4, <1>5

(* Induction, over a set instead of a predicate.                           *)
LEMMA NatInductionOver ==
  ASSUME NEW P, 0 \in P, \A n \in Nat : n \in P => n + 1 \in P
  PROVE  Nat \subseteq P
<1> DEFINE T == Nat \ P
<1> SUFFICES ASSUME T # {} PROVE FALSE
  OBVIOUS
<1>1. PICK n \in T : \A k \in T : n <= k
  <2> HIDE DEF T
  <2>1. T \in SUBSET Nat
    BY DEF T
  <2> QED
    BY <2>1, Least
<1>2. n \in Nat /\ n # 0 /\ n - 1 \notin T
  BY <1>1
<1>3. n - 1 \in Nat /\ n - 1 \in P
  BY <1>2
<1>4. (n - 1) + 1 \in P
  BY <1>3, Zenon
<1> QED
  BY <1>1, <1>2, <1>4

(* The recursion of applyConversationListPatch over n operations.          *)
IsUpTo(f, list, ops, n) ==
  f = [i \in 0..n |-> IF i = 0 THEN {list} ELSE AfterOp(ops[i], f[i - 1])]

(* That recursion has a solution.                                          *)
LEMMA UpToExists ==
  ASSUME NEW list, NEW ops
  PROVE  \A n \in Nat : \E f : IsUpTo(f, list, ops, n)
<1> DEFINE P == {n \in Nat : \E f : IsUpTo(f, list, ops, n)}
<1>1. 0 \in P
  <2> DEFINE f == [i \in 0..0 |-> {list}]
             h == [i \in 0..0 |-> IF i = 0 THEN {list} ELSE AfterOp(ops[i], f[i - 1])]
  <2>1. f = h
    <3>1. \A i \in 0..0 : i = 0
      OBVIOUS
    <3> QED
      BY <3>1
  <2>2. IsUpTo(f, list, ops, 0)
    BY <2>1, Zenon DEF IsUpTo
  <2> HIDE DEF f
  <2> QED
    BY <2>2
<1>2. ASSUME NEW n \in Nat, n \in P PROVE n + 1 \in P
  <2>1. PICK f : IsUpTo(f, list, ops, n)
    BY <1>2
  <2> DEFINE g == [i \in 0..(n + 1) |-> IF i = n + 1 THEN AfterOp(ops[i], f[n]) ELSE f[i]]
             h == [i \in 0..(n + 1) |-> IF i = 0 THEN {list} ELSE AfterOp(ops[i], g[i - 1])]
  <2>2. ASSUME NEW i \in 0..(n + 1) PROVE g[i] = h[i]
    <3>1. CASE i = 0
      <4>1. i \in 0..n /\ i # n + 1
        BY <3>1
      <4>2. f[i] = {list}
        BY <2>1, <3>1, <4>1 DEF IsUpTo
      <4> QED
        BY <3>1, <4>1, <4>2
    <3>2. CASE i = n + 1
      <4>1. i - 1 = n /\ n \in 0..(n + 1) /\ n # n + 1 /\ i # 0
        BY <3>2
      <4>2. g[n] = f[n]
        BY <4>1
      <4> QED
        BY <3>2, <4>1, <4>2
    <3>3. CASE i # n + 1 /\ i # 0
      <4>1. i \in 0..n /\ i - 1 \in 0..(n + 1) /\ i - 1 # n + 1
        BY <3>3
      <4>2. g[i] = f[i] /\ g[i - 1] = f[i - 1]
        BY <3>3, <4>1
      <4>3. f[i] = AfterOp(ops[i], f[i - 1])
        BY <2>1, <3>3, <4>1 DEF IsUpTo
      <4> QED
        BY <3>3, <4>2, <4>3
    <3> QED
      BY <3>1, <3>2, <3>3
  <2>3. g = h
    <3> HIDE DEF g
    <3>1. g = [i \in 0..(n + 1) |-> g[i]]
      BY DEF g
    <3> QED
      BY <2>2, <3>1
  <2>4. IsUpTo(g, list, ops, n + 1)
    BY <2>3, Zenon DEF IsUpTo
  <2> HIDE DEF g
  <2> QED
    BY <2>4
<1>3. Nat \subseteq P
  <2> HIDE DEF P
  <2> QED
    BY <1>1, <1>2, NatInductionOver
<1> QED
  BY <1>3

(* The lists after each prefix of a patch.                                 *)
PatchPrefixes(f, list, ops) ==
  /\ f[0] = {list}
  /\ \A i \in 1..Len(ops) : f[i] = AfterOp(ops[i], f[i - 1])
  /\ applyConversationListPatch(list, ops) = f[Len(ops)]

(* A patch is applied one operation after the other.                       *)
LEMMA ApplyIsUpTo ==
  ASSUME NEW list, NEW ops, Len(ops) \in Nat
  PROVE  \E f : PatchPrefixes(f, list, ops)
<1> DEFINE h == CHOOSE h : IsUpTo(h, list, ops, Len(ops))
<1>2. IsUpTo(h, list, ops, Len(ops))
  <2>1. \E f : IsUpTo(f, list, ops, Len(ops))
    BY UpToExists
  <2> QED
    BY <2>1, Zenon
<1>3. applyConversationListPatch(list, ops) = h[Len(ops)]
  BY DEF applyConversationListPatch, IsUpTo
<1> HIDE DEF h
<1>4. \A i \in 0..Len(ops) : h[i] = IF i = 0 THEN {list} ELSE AfterOp(ops[i], h[i - 1])
  BY <1>2 DEF IsUpTo
<1>5. h[0] = {list} /\ \A i \in 1..Len(ops) : h[i] = AfterOp(ops[i], h[i - 1])
  BY <1>4
<1> QED
  BY <1>3, <1>5 DEF PatchPrefixes

(* The empty patch changes nothing.                                        *)
LEMMA ApplyNothing ==
  ASSUME NEW list
  PROVE  applyConversationListPatch(list, <<>>) = {list}
<1>1. Len(<<>>) = 0
  OBVIOUS
<1>2. PICK f : PatchPrefixes(f, list, <<>>)
  BY <1>1, ApplyIsUpTo
<1> QED
  BY <1>1, <1>2 DEF PatchPrefixes

(* One operation more.                                                     *)
LEMMA ApplyAppend ==
  ASSUME NEW S, NEW ops \in Seq(S), NEW list, NEW o
  PROVE  applyConversationListPatch(list, Append(ops, o)) =
           AfterOp(o, applyConversationListPatch(list, ops))
<1> DEFINE more == Append(ops, o)
           n == Len(ops)
<1>1. /\ n \in Nat /\ more \in Seq(S \cup {o}) /\ Len(more) = n + 1 /\ more[n + 1] = o
      /\ \A i \in 1..n : more[i] = ops[i]
  OBVIOUS
<1> HIDE DEF more
<1>2. PICK f : PatchPrefixes(f, list, ops)
  BY <1>1, ApplyIsUpTo, Zenon
<1>3. PICK g : PatchPrefixes(g, list, more)
  <2>1. Len(more) \in Nat
    BY <1>1
  <2> QED
    BY <2>1, ApplyIsUpTo, Zenon
<1> HIDE DEF n
<1> DEFINE P == {i \in Nat : i <= n => f[i] = g[i]}
<1>4. 0 \in P
  BY <1>2, <1>3 DEF PatchPrefixes
<1>5. ASSUME NEW i \in Nat, i \in P PROVE i + 1 \in P
  <2>1. SUFFICES ASSUME i + 1 <= n PROVE f[i + 1] = g[i + 1]
    OBVIOUS
  <2>2. i + 1 \in 1..n /\ i + 1 \in 1..Len(more) /\ (i + 1) - 1 = i /\ f[i] = g[i]
    BY <1>1, <1>5, <2>1
  <2> QED
    BY <1>1, <1>2, <1>3, <2>2 DEF PatchPrefixes, n
<1>6. Nat \subseteq P
  <2> HIDE DEF P
  <2> QED
    BY <1>4, <1>5, NatInductionOver
<1>7. f[n] = g[n]
  BY <1>1, <1>6
<1>8. g[n + 1] = AfterOp(o, g[n])
  <2>1. n + 1 \in 1..Len(more) /\ (n + 1) - 1 = n
    BY <1>1
  <2> QED
    BY <1>1, <1>3, <2>1 DEF PatchPrefixes
<1> QED
  BY <1>1, <1>2, <1>3, <1>7, <1>8 DEF more, n, PatchPrefixes

(* m is s with e put at j.                                                 *)
IsInserted(m, s, j, e) ==
  /\ m \in Seq(Items) /\ Len(m) = Len(s) + 1
  /\ \A k \in 1..(Len(s) + 1) : m[k] = IF k < j THEN s[k] ELSE IF k = j THEN e ELSE s[k - 1]

(* What one insertion does.                                                *)
LEMMA InsertAtIs ==
  ASSUME NEW s \in Seq(Items), NEW j \in 1..(Len(s) + 1), NEW e \in Items
  PROVE  IsInserted(InsertAt(s, j, e), s, j, e)
<1> DEFINE a == SubSeq(s, 1, j - 1)
           b == SubSeq(s, j, Len(s))
<1>1. Len(s) \in Nat /\ j \in Nat /\ 1 <= j /\ j <= Len(s) + 1
  OBVIOUS
<1>2. a \in Seq(Items) /\ Len(a) = j - 1 /\ \A k \in 1..(j - 1) : a[k] = s[k]
  BY <1>1
<1>3. b \in Seq(Items) /\ Len(b) = Len(s) - j + 1 /\ \A k \in 1..(Len(s) - j + 1) : b[k] = s[j + k - 1]
  BY <1>1
<1>4. InsertAt(s, j, e) = (a \o <<e>>) \o b
  BY DEF InsertAt
<1> HIDE DEF a, b
<1> DEFINE c == a \o <<e>>
<1>5. c \in Seq(Items) /\ Len(c) = j /\ c[j] = e /\ \A k \in 1..(j - 1) : c[k] = s[k]
  BY <1>1, <1>2
<1>6. InsertAt(s, j, e) = c \o b
  BY <1>4
<1> HIDE DEF c
<1>7. c \o b \in Seq(Items) /\ Len(c \o b) = Len(s) + 1
  BY <1>1, <1>3, <1>5
<1>8. ASSUME NEW k \in 1..(Len(s) + 1)
      PROVE  (c \o b)[k] = IF k < j THEN s[k] ELSE IF k = j THEN e ELSE s[k - 1]
  <2>1. CASE k <= j
    <3>1. k \in 1..Len(c)
      BY <1>1, <1>5, <2>1
    <3>2. (c \o b)[k] = c[k]
      BY <1>3, <1>5, <3>1
    <3>3. CASE k = j
      BY <1>1, <1>5, <3>2, <3>3
    <3>4. CASE k < j
      <4>1. k \in 1..(j - 1)
        BY <1>1, <3>4
      <4> QED
        BY <1>5, <3>2, <3>4, <4>1
    <3>5. k = j \/ k < j
      BY <1>1, <2>1
    <3> QED
      BY <3>3, <3>4, <3>5
  <2>2. CASE k > j
    <3>1. k - j \in 1..(Len(s) - j + 1) /\ (c \o b)[k] = b[k - j] /\ j + (k - j) - 1 = k - 1
      BY <1>1, <1>3, <1>5, <2>2
    <3>2. b[k - j] = s[j + (k - j) - 1]
      BY <1>3, <3>1
    <3> QED
      BY <1>1, <2>2, <3>1, <3>2
  <2>3. k <= j \/ k > j
    BY <1>1
  <2> QED
    BY <2>1, <2>2, <2>3
<1> QED
  BY <1>6, <1>7, <1>8 DEF IsInserted

(* m is s without the item at i.                                           *)
IsDeleted(m, s, i) ==
  /\ m \in Seq(Items) /\ Len(m) = Len(s) - 1
  /\ \A k \in 1..(Len(s) - 1) : m[k] = IF k < i THEN s[k] ELSE s[k + 1]

(* What one deletion does.                                                 *)
LEMMA DeleteAtIs ==
  ASSUME NEW s \in Seq(Items), NEW i \in 1..Len(s)
  PROVE  IsDeleted(DeleteAt(s, i), s, i)
<1> DEFINE a == SubSeq(s, 1, i - 1)
           b == SubSeq(s, i + 1, Len(s))
<1>1. Len(s) \in Nat /\ i \in Nat /\ 1 <= i /\ i <= Len(s)
  OBVIOUS
<1>2. a \in Seq(Items) /\ Len(a) = i - 1 /\ \A k \in 1..(i - 1) : a[k] = s[k]
  BY <1>1
<1>3. b \in Seq(Items) /\ Len(b) = Len(s) - i /\ \A k \in 1..(Len(s) - i) : b[k] = s[i + k]
  BY <1>1
<1>4. DeleteAt(s, i) = a \o b
  BY DEF DeleteAt
<1> HIDE DEF a, b
<1>5. a \o b \in Seq(Items) /\ Len(a \o b) = Len(s) - 1
  <2>1. a \in Seq(Items) /\ b \in Seq(Items)
    BY <1>2, <1>3
  <2>2. a \o b \in Seq(Items) /\ Len(a \o b) = Len(a) + Len(b)
    BY <2>1
  <2> QED
    BY <1>1, <1>2, <1>3, <2>2
<1>6. ASSUME NEW k \in 1..(Len(s) - 1)
      PROVE  (a \o b)[k] = IF k < i THEN s[k] ELSE s[k + 1]
  <2>1. CASE k < i
    BY <1>1, <1>2, <1>3, <2>1
  <2>2. CASE k >= i
    <3>1. k - (i - 1) \in 1..(Len(s) - i) /\ (a \o b)[k] = b[k - (i - 1)]
      BY <1>1, <1>2, <1>3, <2>2
    <3>2. b[k - (i - 1)] = s[i + (k - (i - 1))] /\ i + (k - (i - 1)) = k + 1
      BY <1>1, <1>3, <3>1
    <3> QED
      BY <1>1, <2>2, <3>1, <3>2
  <2>3. k < i \/ k >= i
    BY <1>1
  <2> QED
    BY <2>1, <2>2, <2>3
<1> QED
  BY <1>4, <1>5, <1>6 DEF IsDeleted

(* Moving the element at i up front to j, and replacing it by e.           *)
Moved(s, i, j, e) == InsertAt(DeleteAt(s, i), j, e)

(* m is s with the item at i moved up to j, where e replaces it.           *)
IsMoved(m, s, i, j, e) ==
  /\ m \in Seq(Items) /\ Len(m) = Len(s)
  /\ \A k \in 1..Len(s) :
       m[k] = IF k < j \/ k > i THEN s[k] ELSE IF k = j THEN e ELSE s[k - 1]

(* What one move does.                                                     *)
LEMMA MovedIs ==
  ASSUME NEW s \in Seq(Items), NEW i \in 1..Len(s), NEW j \in 1..i, NEW e \in Items
  PROVE  IsMoved(Moved(s, i, j, e), s, i, j, e)
<1> DEFINE d == DeleteAt(s, i)
<1>1. Len(s) \in Nat /\ i \in Nat /\ j \in Nat /\ 1 <= j /\ j <= i /\ i <= Len(s)
  OBVIOUS
<1>2. /\ d \in Seq(Items) /\ Len(d) = Len(s) - 1
      /\ \A k \in 1..(Len(s) - 1) : d[k] = IF k < i THEN s[k] ELSE s[k + 1]
  BY DeleteAtIs DEF IsDeleted
<1> HIDE DEF d
<1>3. j \in 1..(Len(d) + 1) /\ Len(d) + 1 = Len(s)
  BY <1>1, <1>2
<1>4. /\ InsertAt(d, j, e) \in Seq(Items) /\ Len(InsertAt(d, j, e)) = Len(d) + 1
      /\ \A k \in 1..(Len(d) + 1) :
           InsertAt(d, j, e)[k] = IF k < j THEN d[k] ELSE IF k = j THEN e ELSE d[k - 1]
  <2>1. IsInserted(InsertAt(d, j, e), d, j, e)
    BY <1>2, <1>3, InsertAtIs
  <2> QED
    BY <2>1 DEF IsInserted
<1>5. Moved(s, i, j, e) = InsertAt(d, j, e)
  BY DEF Moved, d
<1>6. ASSUME NEW k \in 1..Len(s)
      PROVE  InsertAt(d, j, e)[k] = IF k < j \/ k > i THEN s[k] ELSE IF k = j THEN e ELSE s[k - 1]
  <2>1. CASE k < j
    <3>1. k \in 1..(Len(s) - 1) /\ k < i
      BY <1>1, <2>1
    <3> QED
      BY <1>2, <1>3, <1>4, <2>1, <3>1
  <2>2. CASE k = j
    BY <1>1, <1>3, <1>4, <2>2
  <2>3. CASE k > j
    <3>1. k - 1 \in 1..(Len(s) - 1) /\ InsertAt(d, j, e)[k] = d[k - 1] /\ (k - 1) + 1 = k
      BY <1>1, <1>3, <1>4, <2>3
    <3> QED
      BY <1>1, <1>2, <2>3, <3>1
  <2> QED
    BY <1>1, <2>1, <2>2, <2>3
<1> QED
  BY <1>3, <1>4, <1>5, <1>6 DEF IsMoved

(* A list as the database holds it.                                        *)
Unique(list) ==
  /\ list \in Seq(Items)
  /\ \A i, j \in DOMAIN list : list[i].id = list[j].id => i = j

(* The first j items are in their place.                                   *)
InPlace(new, j, list) ==
  /\ Unique(list)
  /\ j <= Len(list)
  /\ \A i \in 1..j : list[i] = new[i]

(* A working list and the operations that make it of the old list.         *)
Made(old, s) ==
  /\ \E S : s.ops \in Seq(S)
  /\ applyConversationListPatch(old, s.ops) = {s.list}

(* What one more operation makes of the old list.                          *)
LEMMA MadeByOneMore ==
  ASSUME NEW old, NEW list, NEW ops, Made(old, [list |-> list, ops |-> ops]), NEW o, Applies(o, list)
  PROVE  Made(old, [list |-> Applied(o, list), ops |-> Append(ops, o)])
<1>1. PICK S : ops \in Seq(S)
  BY DEF Made
<1>2. applyConversationListPatch(old, ops) = {list}
  BY DEF Made
<1>3. AfterOp(o, {list}) = {Applied(o, list)}
  BY DEF AfterOp
<1>4. applyConversationListPatch(old, Append(ops, o)) = {Applied(o, list)}
  BY <1>1, <1>2, <1>3, ApplyAppend
<1>5. Append(ops, o) \in Seq(S \cup {o})
  BY <1>1
<1> QED
  BY <1>4, <1>5 DEF Made

(* Two items that differ in no field are equal.                            *)
LEMMA ItemExtensionality ==
  ASSUME NEW d \in Items, NEW e \in Items, d.id = e.id,
         DOMAIN d.fields = DOMAIN e.fields, \A f \in DOMAIN e.fields : d.fields[f] = e.fields[f]
  PROVE  d = e
<1>1. /\ d = [id |-> d.id, fields |-> [f \in DOMAIN d.fields |-> d.fields[f]]]
      /\ e = [id |-> e.id, fields |-> [f \in DOMAIN e.fields |-> e.fields[f]]]
  BY ListsAssumption
<1>2. [f \in DOMAIN d.fields |-> d.fields[f]] = [f \in DOMAIN e.fields |-> e.fields[f]]
  OBVIOUS
<1> QED
  BY <1>1, <1>2, Zenon

(* What fieldDiffOps does: nothing between equal items, otherwise one      *)
(* operation that makes the new item of the old one.                       *)
LEMMA FieldDiffIs ==
  ASSUME NEW d \in Items, NEW e \in Items, d.id = e.id, NEW j
  PROVE  \/ fieldDiffOps(j, d, e) = <<>> /\ d = e
         \/ \E o : /\ fieldDiffOps(j, d, e) = <<o>>
                   /\ o.op = "fields" /\ o.at = j
                   /\ o.must \subseteq DOMAIN d.fields
                   /\ WithFields(d, o) = e
<1> DEFINE put == {k \in DOMAIN e.fields : k \notin DOMAIN d.fields \/ d.fields[k] # e.fields[k]}
           drop == DOMAIN d.fields \ DOMAIN e.fields
           o == [op |-> "fields", at |-> j, put |-> [k \in put |-> e.fields[k]],
                 must |-> put \cap DOMAIN d.fields, drop |-> drop]
<1>1. fieldDiffOps(j, d, e) = IF put \cup drop = {} THEN <<>> ELSE <<o>>
  BY Zenon DEF fieldDiffOps
<1>2. CASE put \cup drop = {}
  <2>1. DOMAIN d.fields = DOMAIN e.fields /\ \A f \in DOMAIN e.fields : d.fields[f] = e.fields[f]
    BY <1>2
  <2>2. d = e
    BY <2>1, ItemExtensionality
  <2> QED
    BY <1>1, <1>2, <2>2
<1>3. CASE put \cup drop # {}
  <2>1. o.op = "fields" /\ o.at = j /\ o.must \subseteq DOMAIN d.fields
    OBVIOUS
  <2>2. o.put = [k \in put |-> e.fields[k]] /\ o.drop = drop
    OBVIOUS
  <2> HIDE DEF o
  <2>3. DOMAIN o.put = put /\ \A k \in put : o.put[k] = e.fields[k]
    BY <2>2
  <2>4. (DOMAIN d.fields \ drop) \cup put = DOMAIN e.fields
    OBVIOUS
  <2>5. \A f \in DOMAIN e.fields : f \notin put => d.fields[f] = e.fields[f]
    OBVIOUS
  <2> DEFINE g == [f \in (DOMAIN d.fields \ o.drop) \cup DOMAIN o.put |->
                     IF f \in DOMAIN o.put THEN o.put[f] ELSE d.fields[f]]
  <2> HIDE DEF put, drop
  <2>6. g = [f \in DOMAIN e.fields |-> e.fields[f]]
    <3>1. (DOMAIN d.fields \ o.drop) \cup DOMAIN o.put = DOMAIN e.fields
      BY <2>2, <2>3, <2>4
    <3>2. \A f \in DOMAIN e.fields :
            (IF f \in DOMAIN o.put THEN o.put[f] ELSE d.fields[f]) = e.fields[f]
      BY <2>3, <2>5
    <3> QED
      BY <3>1, <3>2
  <2>7. WithFields(d, o) = [id |-> d.id, fields |-> g]
    BY DEF WithFields
  <2>8. e = [id |-> e.id, fields |-> [f \in DOMAIN e.fields |-> e.fields[f]]]
    BY ListsAssumption
  <2>9. WithFields(d, o) = e
    BY <2>6, <2>7, <2>8, Zenon
  <2>10. fieldDiffOps(j, d, e) = <<o>>
    BY <1>1, <1>3
  <2> QED
    BY <2>1, <2>9, <2>10
<1> QED
  BY <1>2, <1>3

(* A new item keeps the ids apart.                                         *)
LEMMA InsertUnique ==
  ASSUME NEW list, Unique(list), NEW j \in 1..(Len(list) + 1), NEW e \in Items,
         \A i \in DOMAIN list : list[i].id # e.id
  PROVE  Unique(InsertAt(list, j, e))
<1> DEFINE n == Len(list)
           m == InsertAt(list, j, e)
<1>1. list \in Seq(Items) /\ n \in Nat /\ DOMAIN list = 1..n /\ j \in Nat
  BY DEF Unique
<1>2. /\ m \in Seq(Items) /\ Len(m) = n + 1
      /\ \A k \in 1..(n + 1) : m[k] = IF k < j THEN list[k] ELSE IF k = j THEN e ELSE list[k - 1]
  BY <1>1, InsertAtIs DEF IsInserted
<1>3. DOMAIN m = 1..(n + 1)
  BY <1>1, <1>2
<1> HIDE DEF m, n
<1> DEFINE src == [k \in 1..(n + 1) |-> IF k < j THEN k ELSE k - 1]
<1>4. ASSUME NEW k \in 1..(n + 1), k # j
      PROVE  src[k] \in 1..n /\ m[k] = list[src[k]]
  <2>1. CASE k < j
    <3>1. src[k] = k /\ k \in 1..n
      BY <1>1, <2>1 DEF n
    <3> QED
      BY <1>2, <2>1, <3>1
  <2>2. CASE ~(k < j)
    <3>1. src[k] = k - 1 /\ k - 1 \in 1..n
      BY <1>1, <1>4, <2>2
    <3> QED
      BY <1>2, <1>4, <2>2, <3>1
  <2> QED
    BY <2>1, <2>2
<1>5. ASSUME NEW a \in 1..(n + 1), NEW b \in 1..(n + 1), a # j, b # j, src[a] = src[b]
      PROVE  a = b
  BY <1>1, <1>5
<1> HIDE DEF src
<1>6. m[j] = e
  BY <1>1, <1>2 DEF n
<1>7. ASSUME NEW a \in 1..(n + 1), NEW b \in 1..(n + 1), m[a].id = m[b].id
      PROVE  a = b
  <2>1. CASE a # j /\ b # j
    <3>1. src[a] \in DOMAIN list /\ src[b] \in DOMAIN list /\ list[src[a]].id = list[src[b]].id
      BY <1>1, <1>4, <1>7, <2>1
    <3>2. src[a] = src[b]
      BY <3>1 DEF Unique
    <3> QED
      BY <1>5, <2>1, <3>2
  <2>2. CASE a = j /\ b # j
    BY <1>1, <1>4, <1>6, <1>7, <2>2
  <2>3. CASE a # j /\ b = j
    BY <1>1, <1>4, <1>6, <1>7, <2>3
  <2> QED
    BY <2>1, <2>2, <2>3
<1>8. Unique(m)
  BY <1>2, <1>3, <1>7 DEF Unique
<1> QED
  BY <1>8 DEF m

(* Neither does an item that moves and changes fields mix them up.         *)
LEMMA MovedUnique ==
  ASSUME NEW list, Unique(list), NEW i \in 1..Len(list), NEW j \in 1..i, NEW e \in Items,
         e.id = list[i].id
  PROVE  Unique(Moved(list, i, j, e))
<1> DEFINE n == Len(list)
           m == Moved(list, i, j, e)
<1>1. list \in Seq(Items) /\ n \in Nat /\ DOMAIN list = 1..n /\ i \in 1..n /\ j \in 1..i
  BY DEF Unique
<1>2. /\ m \in Seq(Items) /\ Len(m) = n
      /\ \A k \in 1..n : m[k] = IF k < j \/ k > i THEN list[k] ELSE IF k = j THEN e ELSE list[k - 1]
  <2>1. IsMoved(m, list, i, j, e)
    BY <1>1, MovedIs
  <2> QED
    BY <2>1 DEF IsMoved
<1>3. DOMAIN m = 1..n
  BY <1>1, <1>2
<1> HIDE DEF m, n
<1> DEFINE src == [k \in 1..n |-> IF k < j \/ k > i THEN k ELSE IF k = j THEN i ELSE k - 1]
<1>4. ASSUME NEW k \in 1..n
      PROVE  src[k] \in 1..n /\ m[k].id = list[src[k]].id
  <2>1. CASE k < j \/ k > i
    BY <1>2, <2>1
  <2>2. CASE k = j
    BY <1>1, <1>2, <2>2
  <2>3. CASE ~(k < j \/ k > i) /\ k # j
    <3>1. src[k] = k - 1 /\ k - 1 \in 1..n
      BY <1>1, <2>3
    <3> QED
      BY <1>2, <2>3, <3>1
  <2> QED
    BY <2>1, <2>2, <2>3
<1>5. ASSUME NEW a \in 1..n, NEW b \in 1..n, src[a] = src[b]
      PROVE  a = b
  BY <1>1, <1>5
<1> HIDE DEF src
<1>6. ASSUME NEW a \in 1..n, NEW b \in 1..n, m[a].id = m[b].id
      PROVE  a = b
  <2>1. src[a] \in DOMAIN list /\ src[b] \in DOMAIN list /\ list[src[a]].id = list[src[b]].id
    BY <1>1, <1>4, <1>6
  <2>2. src[a] = src[b]
    BY <2>1 DEF Unique
  <2> QED
    BY <1>5, <2>2
<1>7. Unique(m)
  BY <1>2, <1>3, <1>6 DEF Unique
<1> QED
  BY <1>7 DEF m

(* Adding an item that is not there brings it to its place.                *)
LEMMA PlaceAdds ==
  ASSUME NEW old, NEW new, Unique(new), NEW j \in 1..Len(new),
         NEW list, NEW ops, InPlace(new, j - 1, list), Made(old, [list |-> list, ops |-> ops]),
         \A i \in DOMAIN list : list[i].id # new[j].id
  PROVE  LET o == [op |-> "add", at |-> j, item |-> new[j]]
         IN  /\ InPlace(new, j, InsertAt(list, j, new[j]))
             /\ Made(old, [list |-> InsertAt(list, j, new[j]), ops |-> Append(ops, o)])
<1> DEFINE o == [op |-> "add", at |-> j, item |-> new[j]]
           e == new[j]
           m == InsertAt(list, j, e)
<1>1. /\ list \in Seq(Items) /\ Len(list) \in Nat /\ Unique(list) /\ j - 1 <= Len(list)
      /\ \A i \in 1..(j - 1) : list[i] = new[i]
  BY DEF InPlace, Unique
<1>2. e \in Items /\ j \in Nat /\ j \in 1..(Len(list) + 1)
  BY <1>1 DEF Unique
<1>3. Unique(m)
  BY <1>1, <1>2, InsertUnique
<1>4. /\ Len(m) = Len(list) + 1
      /\ \A k \in 1..(Len(list) + 1) : m[k] = IF k < j THEN list[k] ELSE IF k = j THEN e ELSE list[k - 1]
  <2>1. IsInserted(m, list, j, e)
    BY <1>1, <1>2, InsertAtIs
  <2> QED
    BY <2>1 DEF IsInserted
<1>5. Applies(o, list) /\ Applied(o, list) = m
  BY <1>2 DEF Applies, Applied
<1>6. Made(old, [list |-> m, ops |-> Append(ops, o)])
  <2> HIDE DEF o, m
  <2> QED
    BY <1>5, MadeByOneMore
<1>7. ASSUME NEW k \in 1..j PROVE m[k] = new[k]
  <2> HIDE DEF m
  <2>1. k \in 1..(Len(list) + 1)
    BY <1>1, <1>2
  <2> QED
    BY <1>1, <1>2, <1>4, <2>1
<1>8. InPlace(new, j, m)
  <2> HIDE DEF m
  <2> QED
    BY <1>1, <1>2, <1>3, <1>4, <1>7 DEF InPlace
<1> QED
  BY <1>6, <1>8

(* Two lists with the same items are equal.                                *)
LEMMA SameItems ==
  ASSUME NEW a \in Seq(Items), NEW b \in Seq(Items), Len(a) = Len(b),
         \A k \in 1..Len(a) : a[k] = b[k]
  PROVE  a = b
<1>1. a = [k \in 1..Len(a) |-> a[k]] /\ b = [k \in 1..Len(b) |-> b[k]]
  OBVIOUS
<1> QED
  BY <1>1

(* An item that is there is brought to its place and its fields changed.   *)
LEMMA PlaceMoves ==
  ASSUME NEW old, NEW new, Unique(new), NEW j \in 1..Len(new),
         NEW list, NEW ops, InPlace(new, j - 1, list), Made(old, [list |-> list, ops |-> ops]),
         NEW i \in DOMAIN list, list[i].id = new[j].id
  PROVE  LET move == IF i = j THEN <<>> ELSE <<[op |-> "move", at |-> j, from |-> i]>>
         IN  /\ InPlace(new, j, Moved(list, i, j, new[j]))
             /\ Made(old, [list |-> Moved(list, i, j, new[j]),
                           ops |-> (ops \o move) \o fieldDiffOps(j, list[i], new[j])])
<1> DEFINE e == new[j]
           d == list[i]
           mv == [op |-> "move", at |-> j, from |-> i]
           move == IF i = j THEN <<>> ELSE <<mv>>
           mid == Moved(list, i, j, d)
           m == Moved(list, i, j, e)
<1>1. /\ list \in Seq(Items) /\ Len(list) \in Nat /\ Unique(list) /\ j - 1 <= Len(list)
      /\ \A k \in 1..(j - 1) : list[k] = new[k]
  BY DEF InPlace, Unique
<1>2. e \in Items /\ d \in Items /\ i \in 1..Len(list) /\ j \in Nat
  BY <1>1 DEF Unique
<1>3. j <= i
  <2>1. SUFFICES ASSUME i < j PROVE FALSE
    BY <1>2
  <2>2. i \in 1..(j - 1) /\ i \in DOMAIN new /\ j \in DOMAIN new
    BY <1>2, <2>1 DEF Unique
  <2>3. new[i].id = new[j].id
    BY <1>1, <2>2
  <2>4. i = j
    BY <2>2, <2>3 DEF Unique
  <2> QED
    BY <1>2, <2>1, <2>4
<1>4. j \in 1..i
  BY <1>2, <1>3
<1>5. IsMoved(mid, list, i, j, d) /\ IsMoved(m, list, i, j, e)
  BY <1>1, <1>2, <1>4, MovedIs
<1>6. Unique(m)
  BY <1>1, <1>2, <1>4, MovedUnique
<1> HIDE DEF mid, m
<1>7. /\ mid \in Seq(Items) /\ Len(mid) = Len(list)
      /\ \A k \in 1..Len(list) :
           mid[k] = IF k < j \/ k > i THEN list[k] ELSE IF k = j THEN d ELSE list[k - 1]
  BY <1>5 DEF IsMoved
<1>8. /\ m \in Seq(Items) /\ Len(m) = Len(list)
      /\ \A k \in 1..Len(list) :
           m[k] = IF k < j \/ k > i THEN list[k] ELSE IF k = j THEN e ELSE list[k - 1]
  BY <1>5 DEF IsMoved
<1>9. j \in 1..Len(list) /\ mid[j] = d /\ m[j] = e
  BY <1>1, <1>2, <1>4, <1>7, <1>8
<1>10. InPlace(new, j, m)
  <2>1. ASSUME NEW k \in 1..j PROVE m[k] = new[k]
    BY <1>1, <1>8, <1>9
  <2> QED
    BY <1>6, <1>8, <1>9, <2>1 DEF InPlace
<1>11. PICK S : ops \in Seq(S)
  BY DEF Made
<1>12. Made(old, [list |-> mid, ops |-> ops \o move])
  <2>1. CASE i = j
    <3>1. \A k \in 1..Len(mid) : mid[k] = list[k]
      BY <1>1, <1>2, <1>7, <2>1
    <3>2. mid = list
      BY <1>1, <1>7, <3>1, SameItems
    <3>3. ops \o move = ops
      BY <1>11, <2>1
    <3> QED
      BY <3>2, <3>3
  <2>2. CASE i # j
    <3>1. ops \o move = Append(ops, mv)
      BY <1>11, <2>2
    <3>2. Applies(mv, list)
      BY <1>1, <1>2, <1>9 DEF Applies
    <3>3. Applied(mv, list) = mid
      BY DEF Applied, mid, Moved
    <3> HIDE DEF mv, move
    <3>4. Made(old, [list |-> Applied(mv, list), ops |-> Append(ops, mv)])
      BY <3>2, MadeByOneMore
    <3> QED
      BY <3>1, <3>3, <3>4
  <2> QED
    BY <2>1, <2>2
<1> DEFINE q == ops \o move
           fs == fieldDiffOps(j, d, e)
<1>13. PICK R : q \in Seq(R)
  BY <1>12 DEF Made
<1> HIDE DEF q, fs, move
<1>14. Made(old, [list |-> mid, ops |-> q])
  BY <1>12 DEF q
<1>15. Made(old, [list |-> m, ops |-> q \o fs])
  <2>1. CASE fs = <<>> /\ d = e
    <3>1. q \o fs = q
      BY <1>13, <2>1
    <3>2. m = mid
      BY <2>1 DEF m, mid
    <3> QED
      BY <1>14, <3>1, <3>2
  <2>2. ASSUME NEW o, fs = <<o>>, o.op = "fields", o.at = j,
               o.must \subseteq DOMAIN d.fields, WithFields(d, o) = e
        PROVE  Made(old, [list |-> m, ops |-> q \o fs])
    <3>1. q \o fs = Append(q, o)
      BY <1>13, <2>2
    <3>2. Applies(o, mid)
      BY <1>7, <1>9, <2>2 DEF Applies
    <3>3. Applied(o, mid) = [mid EXCEPT ![j] = e]
      BY <1>9, <2>2 DEF Applied
    <3>4. [mid EXCEPT ![j] = e] = m
      <4>1. [mid EXCEPT ![j] = e] \in Seq(Items) /\ Len([mid EXCEPT ![j] = e]) = Len(mid)
        BY <1>2, <1>7, <1>9
      <4>2. ASSUME NEW k \in 1..Len(mid) PROVE [mid EXCEPT ![j] = e][k] = m[k]
        BY <1>7, <1>8, <1>9
      <4> QED
        BY <1>7, <1>8, <4>1, <4>2, SameItems
    <3>5. Made(old, [list |-> Applied(o, mid), ops |-> Append(q, o)])
      BY <1>14, <3>2, MadeByOneMore
    <3> QED
      BY <3>1, <3>3, <3>4, <3>5
  <2>3. \/ fs = <<>> /\ d = e
        \/ \E o : /\ fs = <<o>>
                 /\ o.op = "fields" /\ o.at = j
                 /\ o.must \subseteq DOMAIN d.fields
                 /\ WithFields(d, o) = e
    BY <1>2, FieldDiffIs DEF fs
  <2> QED
    BY <2>1, <2>2, <2>3
<1> QED
  BY <1>10, <1>15 DEF q, fs, move, m

(* Place one item more in each working list of a set.                      *)
PlaceNext(new, j, states) == {Place(s, j, new[j]) : s \in states}

(* The recursion of computeListPatch over the first n items.               *)
IsPlacing(f, old, new, n) ==
  f = [i \in 0..n |-> IF i = 0 THEN {[list |-> old, ops |-> <<>>]} ELSE PlaceNext(new, i, f[i - 1])]

(* That recursion has a solution.                                          *)
LEMMA PlacingExists ==
  ASSUME NEW old, NEW new
  PROVE  \A n \in Nat : \E f : IsPlacing(f, old, new, n)
<1> DEFINE P == {n \in Nat : \E f : IsPlacing(f, old, new, n)}
<1>1. 0 \in P
  <2> DEFINE f == [i \in 0..0 |-> {[list |-> old, ops |-> <<>>]}]
             h == [i \in 0..0 |-> IF i = 0 THEN {[list |-> old, ops |-> <<>>]} ELSE PlaceNext(new, i, f[i - 1])]
  <2>1. f = h
    <3>1. \A i \in 0..0 : i = 0
      OBVIOUS
    <3> QED
      BY <3>1
  <2>2. IsPlacing(f, old, new, 0)
    BY <2>1, Zenon DEF IsPlacing
  <2> HIDE DEF f
  <2> QED
    BY <2>2
<1>2. ASSUME NEW n \in Nat, n \in P PROVE n + 1 \in P
  <2>1. PICK f : IsPlacing(f, old, new, n)
    BY <1>2
  <2> DEFINE g == [i \in 0..(n + 1) |-> IF i = n + 1 THEN PlaceNext(new, i, f[n]) ELSE f[i]]
             h == [i \in 0..(n + 1) |-> IF i = 0 THEN {[list |-> old, ops |-> <<>>]} ELSE PlaceNext(new, i, g[i - 1])]
  <2>2. ASSUME NEW i \in 0..(n + 1) PROVE g[i] = h[i]
    <3>1. CASE i = 0
      <4>1. i \in 0..n /\ i # n + 1
        BY <3>1
      <4>2. f[i] = {[list |-> old, ops |-> <<>>]}
        BY <2>1, <3>1, <4>1 DEF IsPlacing
      <4> QED
        BY <3>1, <4>1, <4>2
    <3>2. CASE i = n + 1
      <4>1. i - 1 = n /\ n \in 0..(n + 1) /\ n # n + 1 /\ i # 0
        BY <3>2
      <4>2. g[n] = f[n]
        BY <4>1
      <4> QED
        BY <3>2, <4>1, <4>2
    <3>3. CASE i # n + 1 /\ i # 0
      <4>1. i \in 0..n /\ i - 1 \in 0..(n + 1) /\ i - 1 # n + 1
        BY <3>3
      <4>2. g[i] = f[i] /\ g[i - 1] = f[i - 1]
        BY <3>3, <4>1
      <4>3. f[i] = PlaceNext(new, i, f[i - 1])
        BY <2>1, <3>3, <4>1 DEF IsPlacing
      <4> QED
        BY <3>3, <4>2, <4>3
    <3> QED
      BY <3>1, <3>2, <3>3
  <2>3. g = h
    <3> HIDE DEF g
    <3>1. g = [i \in 0..(n + 1) |-> g[i]]
      BY DEF g
    <3> QED
      BY <2>2, <3>1
  <2>4. IsPlacing(g, old, new, n + 1)
    BY <2>3, Zenon DEF IsPlacing
  <2> HIDE DEF g
  <2> QED
    BY <2>4
<1>3. Nat \subseteq P
  <2> HIDE DEF P
  <2> QED
    BY <1>1, <1>2, NatInductionOver
<1> QED
  BY <1>3

(* A working list with the first j items in place, made by its operations. *)
Stage(old, new, j, s) ==
  /\ s = [list |-> s.list, ops |-> s.ops]
  /\ InPlace(new, j, s.list)
  /\ Made(old, s)

(* Place goes from one stage to the next.                                  *)
LEMMA PlaceIsRight ==
  ASSUME NEW old, NEW new, Unique(new), NEW j \in 1..Len(new), NEW s, Stage(old, new, j - 1, s)
  PROVE  Stage(old, new, j, Place(s, j, new[j]))
<1> DEFINE l == s.list
           e == new[j]
           found == {i \in DOMAIN l : l[i].id = e.id}
           i == CHOOSE x \in found : TRUE
           move == IF i = j THEN <<>> ELSE <<[op |-> "move", at |-> j, from |-> i]>>
<1>1. InPlace(new, j - 1, l) /\ Made(old, [list |-> l, ops |-> s.ops])
  BY Zenon DEF Stage
<1>2. CASE found = {}
  <2> DEFINE o == [op |-> "add", at |-> j, item |-> e]
  <2>1. \A k \in DOMAIN l : l[k].id # e.id
    BY <1>2
  <2>2. /\ InPlace(new, j, InsertAt(l, j, e))
        /\ Made(old, [list |-> InsertAt(l, j, e), ops |-> Append(s.ops, o)])
    BY <1>1, <2>1, PlaceAdds
  <2>3. Place(s, j, e) = [list |-> InsertAt(l, j, e), ops |-> Append(s.ops, o)]
    BY <1>2, Zenon DEF Place
  <2> QED
    BY <2>2, <2>3 DEF Stage
<1>3. CASE found # {}
  <2>1. i \in found
    BY <1>3
  <2> DEFINE ops == (s.ops \o move) \o fieldDiffOps(j, l[i], e)
  <2>2. Place(s, j, e) = [list |-> Moved(l, i, j, e), ops |-> ops]
    BY <1>3, Zenon DEF Place, Moved
  <2> HIDE DEF i
  <2>3. i \in DOMAIN l /\ l[i].id = e.id
    BY <2>1
  <2>4. InPlace(new, j, Moved(l, i, j, e)) /\ Made(old, [list |-> Moved(l, i, j, e), ops |-> ops])
    BY <1>1, <2>3, PlaceMoves
  <2> HIDE DEF ops, move
  <2> QED
    BY <2>2, <2>4 DEF Stage
<1> QED
  BY <1>2, <1>3

(* computeListPatch: the items are placed, the rest is removed.            *)
LEMMA ComputeIs ==
  ASSUME NEW old, Unique(old), NEW new, Unique(new)
  PROVE  \E s : /\ Stage(old, new, Len(new), s)
                /\ computeListPatch(old, new) =
                     s.ops \o [k \in 1..(Len(s.list) - Len(new)) |->
                                 [op |-> "remove", at |-> Len(s.list) + 1 - k]]
<1> DEFINE n == Len(new)
           f == CHOOSE h : IsPlacing(h, old, new, n)
           removes(m) == [k \in 1..(m - n) |-> [op |-> "remove", at |-> m + 1 - k]]
<1>1. n \in Nat
  BY DEF Unique
<1>2. IsPlacing(f, old, new, n)
  <2>1. \E h : IsPlacing(h, old, new, n)
    BY <1>1, PlacingExists
  <2> QED
    BY <2>1, Zenon
<1>3. computeListPatch(old, new) = CHOOSE patch \in {s.ops \o removes(Len(s.list)) : s \in f[n]} : TRUE
  BY Zenon DEF computeListPatch, IsPlacing, PlaceNext
<1> HIDE DEF f
<1>4. \A i \in 0..n : f[i] = IF i = 0 THEN {[list |-> old, ops |-> <<>>]} ELSE PlaceNext(new, i, f[i - 1])
  BY <1>2 DEF IsPlacing
<1> DEFINE P == {i \in Nat : i <= n => \E s : f[i] = {s} /\ Stage(old, new, i, s)}
<1>5. 0 \in P
  <2> DEFINE s == [list |-> old, ops |-> <<>>]
  <2>1. f[0] = {s}
    BY <1>1, <1>4
  <2>2. applyConversationListPatch(old, <<>>) = {old}
    BY ApplyNothing
  <2>3. <<>> \in Seq({})
    OBVIOUS
  <2>4. Made(old, s)
    BY <2>2, <2>3 DEF Made
  <2>5. InPlace(new, 0, old)
    BY DEF InPlace, Unique
  <2>6. Stage(old, new, 0, s)
    BY <2>4, <2>5 DEF Stage
  <2> HIDE DEF s
  <2> QED
    BY <2>1, <2>6
<1>6. ASSUME NEW i \in Nat, i \in P PROVE i + 1 \in P
  <2>1. SUFFICES ASSUME i + 1 <= n PROVE \E s : f[i + 1] = {s} /\ Stage(old, new, i + 1, s)
    OBVIOUS
  <2>2. i <= n
    BY <1>1, <2>1
  <2>3. PICK s : f[i] = {s} /\ Stage(old, new, i, s)
    BY <1>6, <2>2
  <2>4. i + 1 \in 0..n /\ (i + 1) - 1 = i /\ i + 1 # 0 /\ i + 1 \in 1..Len(new)
    BY <1>1, <2>1
  <2>5. f[i + 1] = PlaceNext(new, i + 1, {s})
    BY <1>4, <2>3, <2>4
  <2>6. f[i + 1] = {Place(s, i + 1, new[i + 1])}
    BY <2>5 DEF PlaceNext
  <2>7. Stage(old, new, i + 1, Place(s, i + 1, new[i + 1]))
    BY <2>3, <2>4, PlaceIsRight
  <2> QED
    BY <2>6, <2>7
<1>7. Nat \subseteq P
  <2> HIDE DEF P
  <2> QED
    BY <1>5, <1>6, NatInductionOver
<1>8. PICK s : f[n] = {s} /\ Stage(old, new, n, s)
  BY <1>1, <1>7
<1>9. computeListPatch(old, new) = s.ops \o removes(Len(s.list))
  <2> HIDE DEF removes
  <2>1. {t.ops \o removes(Len(t.list)) : t \in f[n]} = {s.ops \o removes(Len(s.list))}
    BY <1>8
  <2> QED
    BY <1>3, <2>1
<1> QED
  BY <1>8, <1>9

(* An element more at the end of the second sequence.                      *)
LEMMA ConcatAppend ==
  ASSUME NEW A, NEW p \in Seq(A), NEW a \in Seq(A), NEW r
  PROVE  p \o Append(a, r) = Append(p \o a, r) /\ p \o a \in Seq(A)
<1>1. Append(a, r) = a \o <<r>>
  OBVIOUS
<1>2. Append(p \o a, r) = (p \o a) \o <<r>>
  OBVIOUS
<1>3. p \o (a \o <<r>>) = (p \o a) \o <<r>>
  OBVIOUS
<1>4. p \o a \in Seq(A)
  OBVIOUS
<1> QED
  BY <1>1, <1>2, <1>3, <1>4

(* Cutting the last item off.                                              *)
LEMMA CutLast ==
  ASSUME NEW l \in Seq(Items), NEW k \in Nat, k + 1 <= Len(l)
  PROVE  AfterOp([op |-> "remove", at |-> k + 1], {SubSeq(l, 1, k + 1)}) = {SubSeq(l, 1, k)}
<1> DEFINE o == [op |-> "remove", at |-> k + 1]
           a == SubSeq(l, 1, k + 1)
           b == SubSeq(l, 1, k)
<1>1. a \in Seq(Items) /\ Len(a) = k + 1 /\ \A i \in 1..(k + 1) : a[i] = l[i]
  OBVIOUS
<1>2. b \in Seq(Items) /\ Len(b) = k /\ \A i \in 1..k : b[i] = l[i]
  OBVIOUS
<1> HIDE DEF a, b
<1>3. k + 1 \in 1..Len(a)
  BY <1>1
<1>4. IsDeleted(DeleteAt(a, k + 1), a, k + 1)
  BY <1>1, <1>3, DeleteAtIs
<1>5. /\ DeleteAt(a, k + 1) \in Seq(Items) /\ Len(DeleteAt(a, k + 1)) = k
      /\ \A i \in 1..k : DeleteAt(a, k + 1)[i] = b[i]
  BY <1>1, <1>2, <1>4 DEF IsDeleted
<1>6. DeleteAt(a, k + 1) = b
  BY <1>2, <1>5, SameItems
<1>7. Applies(o, a)
  BY <1>1, <1>3 DEF Applies
<1>8. Applied(o, a) = b
  BY <1>6 DEF Applied
<1> HIDE DEF o
<1>9. AfterOp(o, {a}) = {b}
  BY <1>7, <1>8 DEF AfterOp
<1> QED
  BY <1>9 DEF o, a, b

(* The patch from one list to another makes the other of the one, whatever *)
(* items were added, moved, changed and removed between them.              *)
THEOREM PatchMakesNew ==
  ASSUME NEW old, Unique(old), NEW new, Unique(new)
  PROVE  applyConversationListPatch(old, computeListPatch(old, new)) = {new}
<1> DEFINE n == Len(new)
<1>1. PICK s : /\ Stage(old, new, n, s)
               /\ computeListPatch(old, new) =
                    s.ops \o [k \in 1..(Len(s.list) - n) |-> [op |-> "remove", at |-> Len(s.list) + 1 - k]]
  BY ComputeIs
<1> DEFINE l == s.list
           m == Len(l)
           rem(k) == [op |-> "remove", at |-> m + 1 - k]
           R(k) == s.ops \o [i \in 1..k |-> rem(i)]
<1>2. /\ l \in Seq(Items) /\ new \in Seq(Items) /\ m \in Nat /\ n \in Nat /\ n <= m
      /\ \A i \in 1..n : l[i] = new[i]
  BY <1>1 DEF Stage, InPlace, Unique
<1>3. PICK S : s.ops \in Seq(S)
  BY <1>1 DEF Stage, Made
<1>4. applyConversationListPatch(old, s.ops) = {l}
  BY <1>1 DEF Stage, Made
<1> DEFINE Q == {k \in Nat : k <= m - n => applyConversationListPatch(old, R(k)) = {SubSeq(l, 1, m - k)}}
<1>5. 0 \in Q
  <2>1. [i \in 1..0 |-> rem(i)] = <<>>
    OBVIOUS
  <2>2. R(0) = s.ops
    BY <1>3, <2>1
  <2>3. SubSeq(l, 1, m - 0) = l
    BY <1>2
  <2> QED
    BY <1>4, <2>2, <2>3
<1>6. ASSUME NEW k \in Nat, k \in Q PROVE k + 1 \in Q
  <2>1. SUFFICES ASSUME k + 1 <= m - n
                 PROVE  applyConversationListPatch(old, R(k + 1)) = {SubSeq(l, 1, m - (k + 1))}
    OBVIOUS
  <2>2. k <= m - n
    BY <1>2, <2>1
  <2>3. applyConversationListPatch(old, R(k)) = {SubSeq(l, 1, m - k)}
    BY <1>6, <2>2
  <2> DEFINE T == {rem(i) : i \in 1..(k + 1)}
             a == [i \in 1..k |-> rem(i)]
             r == rem(k + 1)
  <2>4. a \in Seq(T) /\ [i \in 1..(k + 1) |-> rem(i)] = Append(a, r)
    <3>1. \A i \in 1..(k + 1) : rem(i) \in T
      OBVIOUS
    <3> HIDE DEF T, rem
    <3>2. a \in Seq(T) /\ Len(a) = k /\ \A i \in 1..k : a[i] = rem(i)
      BY <3>1
    <3> DEFINE b == [i \in 1..(k + 1) |-> rem(i)]
    <3>3. \A i \in 1..(k + 1) : b[i] = rem(i)
      OBVIOUS
    <3>4. DOMAIN b = 1..(k + 1) /\ b = [i \in 1..(k + 1) |-> b[i]]
      OBVIOUS
    <3> HIDE DEF a, b, r
    <3> DEFINE c == Append(a, r)
    <3>5. /\ Len(c) = k + 1 /\ c \in Seq(T \cup {r})
          /\ c[k + 1] = r /\ \A i \in 1..k : c[i] = a[i]
      BY <3>2
    <3> HIDE DEF c
    <3>6. c = [i \in 1..Len(c) |-> c[i]]
      BY <3>5
    <3>7. ASSUME NEW i \in 1..(k + 1) PROVE b[i] = c[i]
      <4>1. CASE i = k + 1
        BY <3>3, <3>5, <4>1 DEF r
      <4>2. CASE i # k + 1
        <5>1. i \in 1..k
          BY <4>2
        <5> QED
          BY <3>2, <3>3, <3>5, <5>1
      <4> QED
        BY <4>1, <4>2
    <3>8. b = c
      BY <3>4, <3>5, <3>6, <3>7
    <3> QED
      BY <3>2, <3>8 DEF b, c
  <2> HIDE DEF a, r, T, rem
  <2>5. R(k) \in Seq(S \cup T) /\ R(k + 1) = Append(R(k), r)
    <3>1. a \in Seq(S \cup T) /\ s.ops \in Seq(S \cup T)
      BY <1>3, <2>4
    <3>2. s.ops \o Append(a, r) = Append(s.ops \o a, r) /\ s.ops \o a \in Seq(S \cup T)
      <4> DEFINE p == s.ops
      <4>1. p \in Seq(S \cup T)
        BY <3>1
      <4> HIDE DEF p
      <4>2. p \o Append(a, r) = Append(p \o a, r) /\ p \o a \in Seq(S \cup T)
        BY <3>1, <4>1, ConcatAppend
      <4> QED
        BY <4>2 DEF p
    <3> QED
      BY <2>4, <3>2 DEF a
  <2> HIDE DEF R
  <2>6. applyConversationListPatch(old, R(k + 1)) = AfterOp(r, {SubSeq(l, 1, m - k)})
    BY <2>3, <2>5, ApplyAppend
  <2> DEFINE c == m - (k + 1)
  <2>7. c \in Nat /\ c + 1 <= Len(l) /\ c + 1 = m - k /\ m + 1 - (k + 1) = c + 1
    <3>1. Len(l) = m
      OBVIOUS
    <3> HIDE DEF l, m, n
    <3> QED
      BY <1>2, <2>1, <3>1
  <2>8. r = [op |-> "remove", at |-> c + 1]
    BY <2>7 DEF r, rem
  <2> HIDE DEF c
  <2>9. AfterOp([op |-> "remove", at |-> c + 1], {SubSeq(l, 1, c + 1)}) = {SubSeq(l, 1, c)}
    BY <1>2, <2>7, CutLast
  <2>10. AfterOp(r, {SubSeq(l, 1, m - k)}) = {SubSeq(l, 1, c)}
    BY <2>7, <2>8, <2>9
  <2> QED
    BY <2>6, <2>10 DEF c
<1>7. Nat \subseteq Q
  <2> HIDE DEF Q
  <2> QED
    BY <1>5, <1>6, NatInductionOver
<1>8. m - n \in Nat /\ m - (m - n) = n
  BY <1>2
<1>9. applyConversationListPatch(old, R(m - n)) = {SubSeq(l, 1, n)}
  BY <1>7, <1>8
<1>10. SubSeq(l, 1, n) = new
  <2>1. SubSeq(l, 1, n) \in Seq(Items) /\ Len(SubSeq(l, 1, n)) = n
    BY <1>2
  <2>2. \A i \in 1..n : SubSeq(l, 1, n)[i] = new[i]
    BY <1>2
  <2> QED
    BY <1>2, <2>1, <2>2, SameItems
<1> QED
  BY <1>1, <1>9, <1>10

-----------------------------------------------------------------------------
(* The state machine.                                                      *)

(* The event that takes a client from list p to list q.                    *)
PatchEvent(hash, p, q) ==
  [reset |-> FALSE, old |-> hash, new |-> Hash(q), patch |-> computeListPatch(p, q), list |-> <<>>]

Patches == {PatchEvent(Hash(p), p, q) : p \in Lists, q \in Lists}

(* The first event of a process starts from no list at all.                *)
Firsts == {PatchEvent(None, <<>>, q) : q \in Lists}

(* A reset to list q of a client that has this hash.                       *)
ResetTo(hash, q) == [reset |-> TRUE, old |-> hash, new |-> Hash(q), patch |-> <<>>, list |-> q]

Resets == {ResetTo(h, q) : h \in Hashes, q \in Lists}

ThreadStates ==
  [pc : {"rest", "notify", "lock", "publish", "answer", "live", "fetched"},
   list : Lists \cup {<<>>}, hash : Hashes, version : Nat]

StreamTypes ==
  /\ db \in Lists /\ version \in Nat /\ offset \in Nat
  /\ thread \in [Threads -> ThreadStates]
  /\ client \in [Browsers -> [list : Lists \cup {<<>>}, hash : Hashes]]
  /\ start \in [Browsers -> Nat]
  /\ history \in Seq(Patches \cup Firsts)
  /\ wire \in [Browsers -> Seq(Patches \cup Resets)]

(* A hash is of the list it comes with.                                    *)
StandsFor(hash, list) == list \in Lists /\ hash = Hash(list)

CurrentInv == (current.hash = None /\ current.list = <<>>) \/ StandsFor(current.hash, current.list)

(* The history is a chain of events that ends at the current list, and     *)
(* only the very first event starts from nothing.                          *)
HistoryInv ==
  /\ current.hash = None <=> history = <<>>
  /\ history = <<>> => offset = 0
  /\ \A i \in 1..(Len(history) - 1) : history[i + 1].old = history[i].new
  /\ history # <<>> => history[Len(history)].new = current.hash
  /\ offset > 0 => history[1].old # None

ThreadOK(x) ==
  /\ x.pc = "publish" => x.list \in Lists
  /\ x.pc \in {"answer", "live"} => current.hash # None
  /\ x.pc = "fetched" => StandsFor(x.hash, x.list)

ClientOK(c) == c.hash # None => StandsFor(c.hash, c.list)

(* The hash before the event at position p of the whole history.           *)
HashAt(p) == IF p = End THEN current.hash ELSE history[p - offset + 1].old

(* The hash a client will have when it has read what is on its way.        *)
Reached(hash, w) == IF w = <<>> THEN hash ELSE w[Len(w)].new

(* A client with this hash can read these events one after the other.      *)
Follows(hash, w) ==
  /\ w = <<>> => hash # None
  /\ w # <<>> => w[1].reset \/ w[1].old = hash
  /\ \A i \in 1..(Len(w) - 1) : w[i + 1].reset \/ w[i + 1].old = w[i].new

(* A connection that has sent the first s events, with w on the way to a   *)
(* client that has this hash.                                              *)
LiveOK(w, s, hash) ==
  /\ s >= 1 /\ s <= End
  /\ Follows(hash, w)
  /\ s >= offset => Reached(hash, w) = HashAt(s)

(* A connection whose goroutine is at x.                                   *)
ConnOK(x, w, s, c) ==
  /\ x.pc # "live" => w = <<>>
  /\ x.pc \in {"lock", "publish", "answer"} => x.hash \in {None, c.hash}
  /\ x.pc = "live" => LiveOK(w, s, c.hash)

StreamInv ==
  /\ StreamTypes
  /\ CurrentInv
  /\ HistoryInv
  /\ \A t \in Threads : ThreadOK(thread[t])
  /\ \A k \in Browsers : ClientOK(client[k]) /\ ConnOK(thread[k], wire[k], start[k], client[k])

(* Events tell what they are.                                              *)
LEMMA PatchShape ==
  ASSUME NEW e \in Patches
  PROVE  /\ ~e.reset /\ e.old # None /\ e.new # None
         /\ \E p, q \in Lists : /\ e.old = Hash(p) /\ e.new = Hash(q)
                                /\ e.patch = computeListPatch(p, q)
<1>1. PICK p \in Lists, q \in Lists : e = PatchEvent(Hash(p), p, q)
  BY DEF Patches
<1>2. Hash(p) # None /\ Hash(q) # None
  BY ListStreamAssumption
<1>3. ~e.reset /\ e.old = Hash(p) /\ e.new = Hash(q) /\ e.patch = computeListPatch(p, q)
  BY <1>1 DEF PatchEvent
<1> QED
  BY <1>2, <1>3

(* The first event of all.                                                 *)
LEMMA FirstShape ==
  ASSUME NEW e \in Firsts
  PROVE  ~e.reset /\ e.old = None /\ e.new # None
<1>1. PICK q \in Lists : e = PatchEvent(None, <<>>, q)
  BY Zenon DEF Firsts
<1>2. Hash(q) # None
  BY ListStreamAssumption
<1> QED
  BY <1>1, <1>2 DEF PatchEvent

(* A reset brings a list and its hash.                                     *)
LEMMA ResetShape ==
  ASSUME NEW e \in Resets
  PROVE  e.reset /\ e.new # None /\ StandsFor(e.new, e.list)
<1>1. PICK h \in Hashes, q \in Lists : e = ResetTo(h, q)
  BY DEF Resets
<1>2. Hash(q) # None
  BY ListStreamAssumption
<1>3. e.reset /\ e.new = Hash(q) /\ e.list = q
  BY <1>1 DEF ResetTo
<1> QED
  BY <1>2, <1>3 DEF StandsFor

(* A connection's own goroutine and the fetch of the snapshot.             *)
LEMMA ThreadsApart ==
  ASSUME NEW k \in Browsers
  PROVE  /\ k \in Threads /\ Fetch(k) \in Threads /\ k \notin Writers /\ Fetch(k) \notin Browsers
         /\ Fetch(k) \notin Writers
BY ListStreamAssumption DEF Threads

(* A step that leaves the server's list and history alone.                 *)
LEMMA ServerFrame ==
  ASSUME StreamInv, UNCHANGED server, StreamTypes',
         \A t \in Threads : ThreadOK(thread'[t]),
         \A k \in Browsers : ClientOK(client'[k]) /\ ConnOK(thread'[k], wire'[k], start'[k], client'[k])
  PROVE  StreamInv'
<1>1. current' = current /\ history' = history /\ offset' = offset
  BY DEF server
<1>2. CurrentInv' /\ HistoryInv'
  BY <1>1 DEF StreamInv, CurrentInv, HistoryInv
<1>3. \A t \in Threads : ThreadOK(thread[t])'
  BY <1>1 DEF ThreadOK
<1>4. End' = End
  BY <1>1 DEF End
<1>5. \A p : HashAt(p)' = HashAt(p)
  BY <1>1, <1>4 DEF HashAt
<1>6. \A k \in Browsers : ClientOK(client[k])' /\ ConnOK(thread[k], wire[k], start[k], client[k])'
  <2>1. TAKE k \in Browsers
  <2>2. ClientOK(client[k])'
    BY DEF ClientOK, StandsFor
  <2>3. ConnOK(thread[k], wire[k], start[k], client[k])'
    BY <1>1, <1>4, <1>5 DEF ConnOK, LiveOK
  <2> QED
    BY <2>2, <2>3
<1> QED
  BY <1>2, <1>3, <1>6 DEF StreamInv

(* A step of one goroutine that touches nothing else of the stream.        *)
LEMMA ThreadFrame ==
  ASSUME StreamInv, UNCHANGED <<server, start, wire, client>>, db' \in Lists, version' \in Nat,
         NEW t \in Threads, NEW x \in ThreadStates, thread' = [thread EXCEPT ![t] = x],
         ThreadOK(x),
         t \in Browsers => ConnOK(x, wire[t], start[t], client[t])
  PROVE  StreamInv'
<1>1. StreamTypes
  BY DEF StreamInv
<1>2. UNCHANGED server /\ start' = start /\ wire' = wire /\ client' = client /\ history' = history /\ offset' = offset
  BY DEF server
<1>3. \A u \in Threads : thread'[u] = IF u = t THEN x ELSE thread[u]
  BY <1>1 DEF StreamTypes
<1>4. thread' \in [Threads -> ThreadStates]
  BY <1>1 DEF StreamTypes
<1>5. StreamTypes'
  BY <1>1, <1>2, <1>4 DEF StreamTypes
<1>6. \A u \in Threads : ThreadOK(thread'[u])
  BY <1>3 DEF StreamInv
<1>7. ASSUME NEW k \in Browsers
      PROVE  ClientOK(client'[k]) /\ ConnOK(thread'[k], wire'[k], start'[k], client'[k])
  <2>1. k \in Threads
    BY ThreadsApart
  <2> QED
    BY <1>2, <1>3, <2>1 DEF StreamInv
<1> QED
  BY <1>2, <1>5, <1>6, <1>7, ServerFrame

(* A step of one connection and its client.                                *)
LEMMA ConnFrame ==
  ASSUME StreamInv, UNCHANGED <<db, version, server>>,
         NEW k \in Browsers, NEW x \in ThreadStates, NEW w \in Seq(Patches \cup Resets),
         NEW s \in Nat, NEW c \in [list : Lists \cup {<<>>}, hash : Hashes],
         thread' = [thread EXCEPT ![k] = x], wire' = [wire EXCEPT ![k] = w],
         start' = [start EXCEPT ![k] = s], client' = [client EXCEPT ![k] = c],
         ThreadOK(x), ClientOK(c), ConnOK(x, w, s, c)
  PROVE  StreamInv'
<1>1. StreamTypes /\ k \in Threads
  BY ThreadsApart DEF StreamInv
<1>2. UNCHANGED server /\ db' = db /\ version' = version /\ history' = history /\ offset' = offset
  BY DEF server
<1>3. /\ \A u \in Threads : thread'[u] = IF u = k THEN x ELSE thread[u]
      /\ \A u \in Browsers : wire'[u] = IF u = k THEN w ELSE wire[u]
      /\ \A u \in Browsers : start'[u] = IF u = k THEN s ELSE start[u]
      /\ \A u \in Browsers : client'[u] = IF u = k THEN c ELSE client[u]
  BY <1>1 DEF StreamTypes
<1>4. /\ thread' \in [Threads -> ThreadStates]
      /\ wire' \in [Browsers -> Seq(Patches \cup Resets)]
      /\ start' \in [Browsers -> Nat]
      /\ client' \in [Browsers -> [list : Lists \cup {<<>>}, hash : Hashes]]
  BY <1>1 DEF StreamTypes
<1>5. StreamTypes'
  BY <1>1, <1>2, <1>4 DEF StreamTypes
<1>6. \A u \in Threads : ThreadOK(thread'[u])
  BY <1>3 DEF StreamInv
<1>7. ASSUME NEW u \in Browsers
      PROVE  ClientOK(client'[u]) /\ ConnOK(thread'[u], wire'[u], start'[u], client'[u])
  <2>1. u \in Threads
    BY ThreadsApart
  <2> QED
    BY <1>3, <2>1 DEF StreamInv
<1> QED
  BY <1>2, <1>5, <1>6, <1>7, ServerFrame

(* What a thread step that uses EXCEPT makes of one goroutine.             *)
LEMMA ThreadTypes ==
  ASSUME StreamInv, NEW t \in Threads
  PROVE  /\ thread[t] \in ThreadStates
         /\ thread[t].list \in Lists \cup {<<>>} /\ thread[t].hash \in Hashes /\ thread[t].version \in Nat
BY DEF StreamInv, StreamTypes, ThreadStates

(* A goroutine that only goes to another place.                            *)
LEMMA GoFrame ==
  ASSUME StreamInv, UNCHANGED <<server, start, wire, client>>, db' \in Lists, version' \in Nat,
         NEW t \in Threads, NEW to \in {"rest", "notify", "lock"}, Go(t, to),
         thread[t].pc # "live", t \in Browsers => to = "rest"
  PROVE  StreamInv'
<1> DEFINE x == [thread[t] EXCEPT !.pc = to]
<1>1. x \in ThreadStates /\ x.pc = to
  BY ThreadTypes DEF ThreadStates
<1>2. thread' = [thread EXCEPT ![t] = x]
  BY DEF Go
<1>3. ThreadOK(x)
  BY <1>1 DEF ThreadOK
<1>4. ASSUME t \in Browsers PROVE ConnOK(x, wire[t], start[t], client[t])
  BY <1>1, <1>4 DEF ConnOK, StreamInv
<1> HIDE DEF x
<1> QED
  BY <1>1, <1>2, <1>3, <1>4, ThreadFrame

(* A commit is followed by a notification, with nothing of it read yet.    *)
LEMMA KeepsCommitTx ==
  ASSUME StreamInv, NEW w \in Writers, NEW list \in Lists, CommitTx(w, list)
  PROVE  StreamInv'
<1>1. w \in Threads /\ w \notin Browsers
  BY ListStreamAssumption DEF Threads
<1>2. db' \in Lists /\ version' \in Nat /\ UNCHANGED <<server, start, wire, client>> /\ Go(w, "notify")
  BY DEF CommitTx, StreamInv, StreamTypes
<1>3. thread[w].pc # "live"
  BY DEF CommitTx
<1> QED
  BY <1>1, <1>2, <1>3, GoFrame

(* A writer that found listeners goes for the lock.                        *)
LEMMA KeepsNotify ==
  ASSUME StreamInv, NEW w \in Writers, notify(w)
  PROVE  StreamInv'
<1> DEFINE to == IF listeners > 0 THEN "lock" ELSE "rest"
<1>1. w \in Threads /\ w \notin Browsers
  BY ListStreamAssumption DEF Threads
<1>2. db' \in Lists /\ version' \in Nat /\ UNCHANGED <<server, start, wire, client>> /\ Go(w, to)
  BY DEF notify, StreamInv, StreamTypes
<1>3. thread[w].pc # "live"
  BY DEF notify
<1>4. to \in {"rest", "notify", "lock"}
  OBVIOUS
<1> HIDE DEF to
<1> QED
  BY <1>1, <1>2, <1>3, <1>4, GoFrame

(* What recompute has read is a list of the database.                      *)
LEMMA KeepsRead ==
  ASSUME StreamInv, NEW t \in Threads, Read(t)
  PROVE  StreamInv'
<1> DEFINE x == [thread[t] EXCEPT !.pc = "publish", !.list = db, !.version = version]
<1>1. db \in Lists /\ version \in Nat
  BY DEF StreamInv, StreamTypes
<1>2. /\ x \in ThreadStates /\ x.pc = "publish" /\ x.list = db /\ x.hash = thread[t].hash
  BY <1>1, ThreadTypes DEF ThreadStates
<1>3. thread' = [thread EXCEPT ![t] = x]
  BY DEF Read
<1>4. ThreadOK(x)
  BY <1>1, <1>2 DEF ThreadOK
<1>5. ASSUME t \in Browsers PROVE ConnOK(x, wire[t], start[t], client[t])
  BY <1>2, <1>5 DEF ConnOK, StreamInv, Read
<1>6. UNCHANGED <<server, start, wire, client>> /\ db' \in Lists /\ version' \in Nat
  BY <1>1 DEF Read
<1> HIDE DEF x
<1> QED
  BY <1>2, <1>3, <1>4, <1>5, <1>6, ThreadFrame

(* A read that fails sends the goroutine away.                             *)
LEMMA KeepsReadFails ==
  ASSUME StreamInv, NEW t \in Threads, ReadFails(t)
  PROVE  StreamInv'
<1>1. db' \in Lists /\ version' \in Nat /\ UNCHANGED <<server, start, wire, client>> /\ Go(t, "rest")
  BY DEF ReadFails, StreamInv, StreamTypes
<1>2. thread[t].pc # "live"
  BY DEF ReadFails
<1> QED
  BY <1>1, <1>2, GoFrame

(* A connection remembers the hash its client has.                         *)
LEMMA KeepsConnect ==
  ASSUME StreamInv, NEW k \in Browsers, connect(k)
  PROVE  StreamInv'
<1> DEFINE x == [thread[k] EXCEPT !.pc = "lock", !.hash = client[k].hash]
<1>1. k \in Threads
  BY ThreadsApart
<1>2. client[k].hash \in Hashes
  BY DEF StreamInv, StreamTypes
<1>3. x \in ThreadStates /\ x.pc = "lock" /\ x.hash = client[k].hash
  BY <1>1, <1>2, ThreadTypes DEF ThreadStates
<1>4. thread' = [thread EXCEPT ![k] = x]
  BY DEF connect
<1>5. ThreadOK(x)
  BY <1>3 DEF ThreadOK
<1>6. ConnOK(x, wire[k], start[k], client[k])
  BY <1>3 DEF ConnOK, StreamInv, connect
<1>7. UNCHANGED <<server, start, wire, client>> /\ db' \in Lists /\ version' \in Nat
  BY DEF connect, StreamInv, StreamTypes
<1> HIDE DEF x
<1> QED
  BY <1>1, <1>3, <1>4, <1>5, <1>6, <1>7, ThreadFrame

(* A fetch has nothing until it has recomputed.                            *)
LEMMA KeepsFetchSnapshot ==
  ASSUME StreamInv, NEW k \in Browsers, FetchSnapshot(k)
  PROVE  StreamInv'
<1>1. db' \in Lists /\ version' \in Nat /\ UNCHANGED <<server, start, wire, client>> /\ Go(Fetch(k), "lock")
  BY DEF FetchSnapshot, StreamInv, StreamTypes
<1>2. thread[Fetch(k)].pc # "live"
  BY DEF FetchSnapshot
<1> QED
  BY <1>1, <1>2, ThreadsApart, GoFrame

(* A snapshot has a list and its hash.                                     *)
LEMMA KeepsAnswerSnapshot ==
  ASSUME StreamInv, NEW k \in Browsers, answerSnapshot(k)
  PROVE  StreamInv'
<1> DEFINE t == Fetch(k)
           x == [thread[t] EXCEPT !.pc = "fetched", !.list = current.list, !.hash = current.hash]
<1>1. t \in Threads /\ t \notin Browsers
  BY ThreadsApart
<1>2. current.hash # None
  BY <1>1 DEF StreamInv, ThreadOK, answerSnapshot
<1>3. StandsFor(current.hash, current.list)
  BY <1>2 DEF StreamInv, CurrentInv
<1>4. current.list \in Lists /\ current.hash \in Hashes
  BY <1>3 DEF StandsFor, Hashes
<1>5. x \in ThreadStates /\ x.pc = "fetched" /\ x.list = current.list /\ x.hash = current.hash
  BY <1>1, <1>4, ThreadTypes DEF ThreadStates
<1>6. thread' = [thread EXCEPT ![t] = x]
  BY DEF answerSnapshot
<1>7. ThreadOK(x)
  BY <1>3, <1>5 DEF ThreadOK
<1>8. UNCHANGED <<server, start, wire, client>> /\ db' \in Lists /\ version' \in Nat
  BY DEF answerSnapshot, StreamInv, StreamTypes
<1> HIDE DEF x, t
<1> QED
  BY <1>1, <1>5, <1>6, <1>7, <1>8, ThreadFrame

(* The history: only its first event can start from nothing.               *)
LEMMA HistoryEvents ==
  ASSUME StreamInv, NEW i \in 1..Len(history)
  PROVE  /\ history[i].new # None /\ ~history[i].reset
         /\ history[i].old # None => history[i] \in Patches
         /\ i > 1 => history[i].old # None /\ history[i].old = history[i - 1].new
<1>0. history \in Seq(Patches \cup Firsts)
  BY DEF StreamInv, StreamTypes
<1>1. \A j \in 1..Len(history) : history[j] \in Patches \/ history[j] \in Firsts
  BY <1>0
<1>2. \A e \in Patches : ~e.reset /\ e.new # None
  BY PatchShape
<1>3. \A e \in Firsts : ~e.reset /\ e.new # None /\ e.old = None
  BY FirstShape
<1>4. \A j \in 1..Len(history) : /\ history[j].new # None /\ ~history[j].reset
                                 /\ history[j].old # None => history[j] \in Patches
  BY <1>1, <1>2, <1>3
<1>5. ASSUME i > 1 PROVE history[i].old # None /\ history[i].old = history[i - 1].new
  <2>1. Len(history) \in Nat
    BY <1>0
  <2>2. i - 1 \in 1..(Len(history) - 1) /\ i - 1 \in 1..Len(history) /\ (i - 1) + 1 = i
    BY <1>5, <2>1
  <2>3. history[(i - 1) + 1].old = history[i - 1].new
    BY <2>2 DEF StreamInv, HistoryInv
  <2> QED
    BY <2>2, <2>3, <1>4
<1> QED
  BY <1>4, <1>5

(* A stretch of the history up to its end.                                 *)
LEMMA ReplayFollows ==
  ASSUME StreamInv, NEW m \in 1..Len(history), NEW h, h # None, history[m].old = h
  PROVE  LET w == SubSeq(history, m, Len(history))
         IN  w \in Seq(Patches \cup Resets) /\ w # <<>> /\ Follows(h, w) /\ Reached(h, w) = current.hash
<1> DEFINE w == SubSeq(history, m, Len(history))
<1>0. history \in Seq(Patches \cup Firsts) /\ Len(history) \in Nat /\ m \in Nat
  BY DEF StreamInv, StreamTypes
<1>1. Len(w) = Len(history) - m + 1 /\ Len(w) \in Nat \ {0}
  BY <1>0
<1>2. \A i \in 1..Len(w) : w[i] = history[i + m - 1] /\ i + m - 1 \in 1..Len(history)
  BY <1>0, <1>1
<1>3. \A i \in 1..Len(w) : w[i] \in Patches
  <2>1. TAKE i \in 1..Len(w)
  <2>2. i \in Nat /\ i >= 1
    BY <1>1
  <2>3. CASE i = 1
    <3>1. history[m].old # None /\ w[1] = history[1 + m - 1] /\ 1 + m - 1 = m
      BY <2>3, <1>2, <1>0
    <3> QED
      BY <3>1, <2>3, HistoryEvents
  <2>4. CASE i > 1
    <3>1. i + m - 1 \in 1..Len(history) /\ i + m - 1 > 1
      BY <2>4, <1>2, <1>0
    <3> QED
      BY <3>1, <1>2, HistoryEvents
  <2> QED
    BY <2>2, <2>3, <2>4
<1>4. w \in Seq(Patches \cup Resets)
  <2>1. w \in Seq(Patches \cup Firsts)
    BY <1>0
  <2>2. w = [i \in 1..Len(w) |-> w[i]]
    <3> HIDE DEF w
    <3> QED
      BY <2>1
  <2> HIDE DEF w
  <2> QED
    BY <1>1, <1>3, <2>2
<1>5. w # <<>> /\ w[1].old = h
  <2>1. w[1] = history[1 + m - 1] /\ 1 + m - 1 = m
    BY <1>0, <1>1, <1>2
  <2>2. w # <<>>
    <3> HIDE DEF w
    <3> QED
      BY <1>1
  <2> QED
    BY <1>0, <2>1, <2>2
<1>6. \A i \in 1..(Len(w) - 1) : w[i + 1].old = w[i].new
  <2>1. TAKE i \in 1..(Len(w) - 1)
  <2>2. i \in 1..Len(w) /\ i + 1 \in 1..Len(w)
    BY <1>1
  <2>3. /\ w[i] = history[i + m - 1]
        /\ w[i + 1] = history[(i + 1) + m - 1] /\ (i + 1) + m - 1 \in 1..Len(history)
    BY <1>2, <2>2
  <2>4. (i + 1) + m - 1 > 1 /\ ((i + 1) + m - 1) - 1 = i + m - 1
    BY <1>0, <2>2
  <2>5. history[(i + 1) + m - 1].old = history[((i + 1) + m - 1) - 1].new
    BY <2>3, <2>4, HistoryEvents
  <2> QED
    BY <2>3, <2>4, <2>5
<1>7. w[Len(w)].new = current.hash
  <2>1. w[Len(w)] = history[Len(w) + m - 1] /\ Len(w) + m - 1 = Len(history)
    <3>1. Len(w) \in 1..Len(w)
      BY <1>1
    <3>2. w[Len(w)] = history[Len(w) + m - 1]
      BY <1>2, <3>1
    <3>3. Len(w) + m - 1 = Len(history)
      BY <1>0, <1>1
    <3> QED
      BY <3>2, <3>3
  <2>2. history # <<>>
    BY <1>0
  <2> QED
    BY <2>1, <2>2 DEF StreamInv, HistoryInv
<1> QED
  <2> HIDE DEF w
  <2>1. Follows(h, w) /\ Reached(h, w) = current.hash
    BY <1>5, <1>6, <1>7 DEF Follows, Reached
  <2>2. w \in Seq(Patches \cup Resets) /\ w # <<>> /\ Follows(h, w) /\ Reached(h, w) = current.hash
    BY <1>4, <1>5, <2>1
  <2> QED
    BY <2>2 DEF w

(* A reset alone.                                                          *)
LEMMA ResetFollows ==
  ASSUME StreamInv, NEW h \in Hashes, current.hash # None
  PROVE  /\ resetEvent(h) \in Resets
         /\ resetEvent(h).reset /\ resetEvent(h).new = current.hash
<1>1. current.list \in Lists /\ current.hash = Hash(current.list)
  BY DEF StreamInv, CurrentInv, StandsFor
<1>2. /\ resetEvent(h) = ResetTo(h, current.list)
      /\ resetEvent(h).reset /\ resetEvent(h).new = current.hash
  BY <1>1 DEF resetEvent, ResetTo
<1>3. resetEvent(h) \in Resets
  BY <1>1, <1>2 DEF Resets
<1> QED
  BY <1>2, <1>3

(* What a connection is sent first brings its client to the current list.  *)
LEMMA InitialFollows ==
  ASSUME StreamInv, NEW h \in Hashes, NEW c, h \in {None, c}, current.hash # None
  PROVE  LET w == initialEventsLocked(h)
         IN  w \in Seq(Patches \cup Resets) /\ Follows(c, w) /\ Reached(c, w) = current.hash
<1> DEFINE from == {i \in DOMAIN history : history[i].old = h}
           w == initialEventsLocked(h)
<1>0. history \in Seq(Patches \cup Firsts) /\ Len(history) \in Nat /\ DOMAIN history = 1..Len(history)
  BY DEF StreamInv, StreamTypes
<1>1. CASE h # None /\ h = current.hash
  <2>1. initialEventsLocked(h) = <<>> /\ c = h
    BY <1>1 DEF initialEventsLocked
  <2>2. Follows(c, <<>>) /\ Reached(c, <<>>) = current.hash
    BY <1>1, <2>1 DEF Follows, Reached
  <2> QED
    BY <2>1, <2>2
<1>2. CASE h # None /\ h # current.hash /\ from # {}
  <2> DEFINE m == CHOOSE i \in from : \A x \in from : i <= x
  <2>1. from \subseteq Nat /\ from # {}
    BY <1>0, <1>2
  <2>2. \E i \in from : \A x \in from : i <= x
    <3> HIDE DEF from
    <3> QED
      BY <2>1, Least
  <2>3. m \in from
    <3> HIDE DEF from
    <3> QED
      BY <2>2
  <2>4. m \in 1..Len(history) /\ history[m].old = h
    BY <2>3, <1>0
  <2>5. initialEventsLocked(h) = SubSeq(history, m, Len(history)) /\ c = h
    BY <1>2 DEF initialEventsLocked
  <2> HIDE DEF m
  <2> QED
    BY <1>2, <2>4, <2>5, ReplayFollows
<1>3. CASE ~(h # None /\ h = current.hash) /\ ~(h # None /\ from # {})
  <2>1. initialEventsLocked(h) = <<resetEvent(h)>>
    BY <1>3 DEF initialEventsLocked
  <2> DEFINE e == resetEvent(h)
  <2>2. e \in Resets /\ e.reset /\ e.new = current.hash
    BY ResetFollows
  <2> HIDE DEF e
  <2>3. <<e>> \in Seq(Patches \cup Resets) /\ Follows(c, <<e>>) /\ Reached(c, <<e>>) = current.hash
    BY <2>2 DEF Follows, Reached
  <2> QED
    BY <2>1, <2>3 DEF e
<1> QED
  BY <1>1, <1>2, <1>3

(* The history is not empty once there is a current list.                  *)
LEMMA EndPositive ==
  ASSUME StreamInv, current.hash # None
  PROVE  End \in Nat /\ End >= 1 /\ HashAt(End) = current.hash
<1>1. history \in Seq(Patches \cup Firsts) /\ offset \in Nat
  BY DEF StreamInv, StreamTypes
<1>2. history # <<>>
  BY DEF StreamInv, HistoryInv
<1>3. Len(history) \in Nat \ {0}
  BY <1>1, <1>2
<1> QED
  BY <1>1, <1>3 DEF End, HashAt

(* What is sent first leads from the hash of the client to the end.        *)
LEMMA KeepsSendInitial ==
  ASSUME StreamInv, NEW k \in Browsers, SendInitial(k)
  PROVE  StreamInv'
<1> DEFINE x == [AtRest EXCEPT !.pc = "live"]
           w == initialEventsLocked(thread[k].hash)
           c == client[k]
<1>0. k \in Threads
  BY ThreadsApart
<1>1. /\ x \in ThreadStates /\ x.pc = "live"
  BY DEF ThreadStates, AtRest, Hashes
<1>2. c \in [list : Lists \cup {<<>>}, hash : Hashes] /\ ClientOK(c)
  BY DEF StreamInv, StreamTypes
<1>3. thread[k].pc = "answer"
  BY DEF SendInitial
<1>4. current.hash # None
  BY <1>0, <1>3 DEF StreamInv, ThreadOK
<1>5. thread[k].hash \in {None, c.hash} /\ thread[k].hash \in Hashes
  BY <1>0, <1>3, ThreadTypes DEF StreamInv, ConnOK
<1> HIDE DEF c
<1>6. w \in Seq(Patches \cup Resets) /\ Follows(c.hash, w) /\ Reached(c.hash, w) = current.hash
  BY <1>4, <1>5, InitialFollows
<1>7. End \in Nat /\ End >= 1 /\ HashAt(End) = current.hash
  BY <1>4, EndPositive
<1>8. /\ thread' = [thread EXCEPT ![k] = x] /\ wire' = [wire EXCEPT ![k] = w]
      /\ start' = [start EXCEPT ![k] = End] /\ UNCHANGED <<db, version, server, client>>
  BY DEF SendInitial
<1>9. client' = [client EXCEPT ![k] = c]
  BY <1>8 DEF StreamInv, StreamTypes, c
<1> HIDE DEF w, x
<1>10. ThreadOK(x)
  BY <1>1, <1>4 DEF ThreadOK
<1>11. End <= End
  BY <1>7
<1>12. ConnOK(x, w, End, c)
  BY <1>1, <1>6, <1>7, <1>11 DEF ConnOK, LiveOK
<1> QED
  BY <1>1, <1>2, <1>6, <1>7, <1>8, <1>9, <1>10, <1>12, ConnFrame

(* One more event on the way.                                              *)
LEMMA FollowsMore ==
  ASSUME NEW S, NEW w \in Seq(S), NEW e \in S, NEW h, Follows(h, w), e.reset \/ e.old = Reached(h, w)
  PROVE  /\ Append(w, e) \in Seq(S) /\ Follows(h, Append(w, e)) /\ Reached(h, Append(w, e)) = e.new
<1> DEFINE v == Append(w, e)
<1>1. /\ v \in Seq(S) /\ Len(w) \in Nat /\ Len(v) = Len(w) + 1 /\ v[Len(v)] = e
      /\ \A i \in 1..Len(w) : v[i] = w[i]
  OBVIOUS
<1>2. v # <<>> /\ (w = <<>> <=> Len(w) = 0)
  OBVIOUS
<1>3. v[1].reset \/ v[1].old = h
  BY <1>1, <1>2 DEF Follows, Reached
<1>4. ASSUME NEW i \in 1..(Len(v) - 1) PROVE v[i + 1].reset \/ v[i + 1].old = v[i].new
  <2>1. i \in 1..Len(w)
    BY <1>1
  <2>2. CASE i = Len(w)
    <3>1. w # <<>> /\ v[i + 1] = e /\ v[i] = w[Len(w)]
      BY <1>1, <2>1, <2>2
    <3> QED
      BY <3>1 DEF Reached
  <2>3. CASE i # Len(w)
    <3>1. i \in 1..(Len(w) - 1) /\ v[i] = w[i] /\ v[i + 1] = w[i + 1]
      BY <1>1, <2>1, <2>3
    <3> QED
      BY <3>1 DEF Follows
  <2> QED
    BY <2>2, <2>3
<1> HIDE DEF v
<1>5. Follows(h, v) /\ Reached(h, v) = e.new
  BY <1>1, <1>2, <1>3, <1>4 DEF Follows, Reached
<1> QED
  BY <1>1, <1>5 DEF v

(* One event less.                                                         *)
LEMMA FollowsLess ==
  ASSUME NEW S, NEW w \in Seq(S), w # <<>>, NEW h, Follows(h, w), w[1].new # None
  PROVE  /\ Tail(w) \in Seq(S) /\ Follows(w[1].new, Tail(w)) /\ Reached(w[1].new, Tail(w)) = Reached(h, w)
<1> DEFINE v == Tail(w)
           g == w[1].new
<1>1. /\ v \in Seq(S) /\ Len(w) \in Nat \ {0} /\ Len(v) = Len(w) - 1
      /\ \A i \in 1..Len(v) : v[i] = w[i + 1]
  OBVIOUS
<1>2. v = <<>> <=> Len(w) = 1
  <2> HIDE DEF v
  <2> QED
    BY <1>1
<1>3. ASSUME v # <<>> PROVE v[1].reset \/ v[1].old = g
  <2>1. 1 \in 1..(Len(w) - 1) /\ v[1] = w[1 + 1]
    BY <1>1, <1>2, <1>3
  <2> QED
    BY <2>1 DEF Follows
<1>4. ASSUME NEW i \in 1..(Len(v) - 1) PROVE v[i + 1].reset \/ v[i + 1].old = v[i].new
  <2>1. i + 1 \in 1..(Len(w) - 1) /\ v[i] = w[i + 1] /\ v[i + 1] = w[(i + 1) + 1]
    BY <1>1
  <2> QED
    BY <2>1 DEF Follows
<1>5. Reached(g, v) = Reached(h, w)
  <2>1. CASE v = <<>>
    BY <2>1, <1>2 DEF Reached
  <2>2. CASE v # <<>>
    <3>1. Len(v) \in 1..Len(v) /\ Len(v) + 1 = Len(w)
      BY <1>1, <1>2, <2>2
    <3>2. v[Len(v)] = w[Len(w)]
      BY <1>1, <3>1
    <3> QED
      BY <2>2, <3>2 DEF Reached
  <2> QED
    BY <2>1, <2>2
<1> HIDE DEF v, g
<1>6. Follows(g, v)
  BY <1>3, <1>4 DEF Follows, g
<1> QED
  BY <1>1, <1>5, <1>6 DEF v, g

(* A connection that sends has a client behind it.                         *)
LEMMA LiveFacts ==
  ASSUME StreamInv, NEW k \in Browsers, thread[k].pc = "live"
  PROVE  /\ current.hash # None /\ LiveOK(wire[k], start[k], client[k].hash)
         /\ wire[k] \in Seq(Patches \cup Resets) /\ start[k] \in Nat
         /\ client[k] \in [list : Lists \cup {<<>>}, hash : Hashes] /\ ClientOK(client[k])
         /\ thread[k] \in ThreadStates
<1>1. k \in Threads
  BY ThreadsApart
<1> QED
  BY <1>1 DEF StreamInv, StreamTypes, ThreadOK, ConnOK

(* The next event of the history is the one the connection's client will   *)
(* be able to read.                                                        *)
LEMMA NextEvent ==
  ASSUME StreamInv, NEW s \in Nat, s >= 1, s >= offset, s < End
  PROVE  LET e == history[s - offset + 1]
         IN  e \in Patches /\ e.old = HashAt(s) /\ e.new = HashAt(s + 1)
<1> DEFINE i == s - offset + 1
<1>0. history \in Seq(Patches \cup Firsts) /\ Len(history) \in Nat /\ offset \in Nat /\ End \in Nat
  BY DEF StreamInv, StreamTypes, End
<1>1. i \in 1..Len(history) /\ s # End
  BY <1>0 DEF End
<1>2. history[i].old = HashAt(s)
  BY <1>1 DEF HashAt
<1>3. history[i].old # None
  <2>1. CASE i > 1
    BY <2>1, <1>1, HistoryEvents
  <2>2. CASE i = 1
    <3>1. offset > 0
      BY <2>2, <1>0
    <3> QED
      BY <2>2, <3>1 DEF StreamInv, HistoryInv
  <2> QED
    BY <1>0, <1>1, <2>1, <2>2
<1>4. history[i] \in Patches
  BY <1>1, <1>3, HistoryEvents
<1>5. history[i].new = HashAt(s + 1)
  <2>1. CASE s + 1 = End
    <3>1. i = Len(history) /\ history # <<>>
      BY <2>1, <1>0, <1>1 DEF End
    <3>2. history[Len(history)].new = current.hash
      BY <3>1 DEF StreamInv, HistoryInv
    <3> QED
      BY <2>1, <3>1, <3>2 DEF HashAt
  <2>2. CASE s + 1 # End
    <3>1. i \in 1..(Len(history) - 1) /\ (s + 1) - offset + 1 = i + 1
      BY <2>2, <1>0, <1>1 DEF End
    <3>2. history[i + 1].old = history[i].new
      BY <3>1 DEF StreamInv, HistoryInv
    <3>3. HashAt(s + 1) = history[i + 1].old
      BY <2>2, <3>1 DEF HashAt
    <3> QED
      BY <3>2, <3>3
  <2> QED
    BY <2>1, <2>2
<1> QED
  BY <1>2, <1>4, <1>5

(* What is sent next leads on, or starts over.                             *)
LEMMA KeepsSendNext ==
  ASSUME StreamInv, NEW k \in Browsers, SendNext(k)
  PROVE  StreamInv'
<1> DEFINE x == thread[k]
           w == wire[k]
           s == start[k]
           c == client[k]
<1>0. x.pc = "live"
  BY DEF SendNext
<1>1. /\ current.hash # None /\ LiveOK(w, s, c.hash) /\ w \in Seq(Patches \cup Resets) /\ s \in Nat
      /\ c \in [list : Lists \cup {<<>>}, hash : Hashes] /\ ClientOK(c) /\ x \in ThreadStates
  BY <1>0, LiveFacts
<1>2. Follows(c.hash, w) /\ s >= 1 /\ s <= End /\ (s >= offset => Reached(c.hash, w) = HashAt(s))
  BY <1>1 DEF LiveOK
<1>3. k \in Threads
  BY ThreadsApart
<1>4. /\ thread' = [thread EXCEPT ![k] = x] /\ client' = [client EXCEPT ![k] = c]
      /\ UNCHANGED <<db, version, server>>
  BY <1>3 DEF SendNext, StreamInv, StreamTypes
<1>5. ThreadOK(x)
  BY <1>3 DEF StreamInv
<1>6. offset \in Nat /\ End \in Nat /\ End >= 1 /\ HashAt(End) = current.hash /\ End <= End
  BY <1>1, EndPositive DEF StreamInv, StreamTypes
<1>7. CASE /\ s < offset
           /\ wire' = [wire EXCEPT ![k] = Append(@, resetEvent(None))]
           /\ start' = [start EXCEPT ![k] = End]
  <2> DEFINE e == resetEvent(None)
             v == Append(w, e)
  <2>1. None \in Hashes
    BY DEF Hashes
  <2>2. e \in Resets /\ e.reset /\ e.new = current.hash
    BY <1>1, <2>1, ResetFollows
  <2> HIDE DEF e
  <2>3. v \in Seq(Patches \cup Resets) /\ Follows(c.hash, v) /\ Reached(c.hash, v) = current.hash
    BY <1>1, <1>2, <2>2, FollowsMore
  <2>4. wire' = [wire EXCEPT ![k] = v]
    BY <1>7 DEF e
  <2> HIDE DEF v, x, s, c
  <2>5. ConnOK(x, v, End, c)
    BY <1>0, <1>6, <2>3 DEF ConnOK, LiveOK
  <2> QED
    BY <1>1, <1>4, <1>5, <1>6, <1>7, <2>3, <2>4, <2>5, ConnFrame
<1>8. CASE /\ s >= offset /\ s < End
           /\ wire' = [wire EXCEPT ![k] = Append(@, history[start[k] - offset + 1])]
           /\ start' = [start EXCEPT ![k] = @ + 1]
  <2> DEFINE e == history[s - offset + 1]
             v == Append(w, e)
  <2>1. e \in Patches /\ e.old = HashAt(s) /\ e.new = HashAt(s + 1)
    BY <1>1, <1>2, <1>8, NextEvent
  <2>2. wire' = [wire EXCEPT ![k] = v] /\ start' = [start EXCEPT ![k] = s + 1]
    BY <1>8
  <2>3. s + 1 \in Nat /\ s + 1 >= 1 /\ s + 1 <= End
    BY <1>1, <1>6, <1>8
  <2> HIDE DEF e
  <2>4. v \in Seq(Patches \cup Resets) /\ Follows(c.hash, v) /\ Reached(c.hash, v) = e.new
    BY <1>1, <1>2, <1>8, <2>1, FollowsMore
  <2> HIDE DEF v, x, s, c
  <2>5. ConnOK(x, v, s + 1, c)
    BY <1>0, <2>1, <2>3, <2>4 DEF ConnOK, LiveOK
  <2> QED
    BY <1>1, <1>4, <1>5, <2>2, <2>3, <2>4, <2>5, ConnFrame
<1> QED
  BY <1>7, <1>8 DEF SendNext

(* A connection that ends leaves nothing on its way.                       *)
LEMMA KeepsRelease ==
  ASSUME StreamInv, NEW k \in Browsers, Release(k)
  PROVE  StreamInv'
<1> DEFINE x == AtRest
           s == start[k]
           c == client[k]
           w == <<>>
<1>1. x \in ThreadStates /\ x.pc = "rest"
  BY DEF AtRest, ThreadStates, Hashes
<1>2. /\ c \in [list : Lists \cup {<<>>}, hash : Hashes] /\ ClientOK(c) /\ s \in Nat
      /\ client' = [client EXCEPT ![k] = c] /\ start' = [start EXCEPT ![k] = s]
      /\ thread' = [thread EXCEPT ![k] = x] /\ wire' = [wire EXCEPT ![k] = w]
      /\ UNCHANGED <<db, version, server>>
  BY DEF Release, StreamInv, StreamTypes
<1>3. w \in Seq(Patches \cup Resets)
  OBVIOUS
<1> HIDE DEF x, s, c
<1>4. ThreadOK(x) /\ ConnOK(x, w, s, c)
  BY <1>1 DEF ThreadOK, ConnOK
<1> HIDE DEF w
<1> QED
  BY <1>1, <1>2, <1>3, <1>4, ConnFrame

(* The first event on its way always fits the client.                      *)
LEMMA HeadFits ==
  ASSUME StreamInv, NEW k \in Browsers, wire[k] # <<>>
  PROVE  /\ thread[k].pc = "live" /\ Head(wire[k]) = wire[k][1]
         /\ \E q \in Lists : /\ reduceConversationListPatch(k, Head(wire[k])) = {q}
                             /\ wire[k][1].new = Hash(q)
<1> DEFINE e == wire[k][1]
<1>1. thread[k].pc = "live"
  BY DEF StreamInv, ConnOK
<1>2. wire[k] \in Seq(Patches \cup Resets) /\ ClientOK(client[k]) /\ Follows(client[k].hash, wire[k])
  BY <1>1, LiveFacts DEF LiveOK
<1>3. Head(wire[k]) = e /\ e \in Patches \cup Resets
  BY <1>2
<1>4. e.reset \/ e.old = client[k].hash
  BY <1>2 DEF Follows
<1> HIDE DEF e
<1>5. CASE e \in Resets
  <2>1. e.reset /\ e.list \in Lists /\ e.new = Hash(e.list)
    BY <1>5, ResetShape DEF StandsFor
  <2>2. reduceConversationListPatch(k, e) = {e.list}
    BY <2>1 DEF reduceConversationListPatch
  <2> QED
    BY <1>1, <1>3, <2>1, <2>2 DEF e
<1>6. CASE e \in Patches
  <2>1. PICK p \in Lists, q \in Lists :
          ~e.reset /\ e.old # None /\ e.old = Hash(p) /\ e.new = Hash(q) /\ e.patch = computeListPatch(p, q)
    BY <1>6, PatchShape
  <2>2. client[k].hash = Hash(client[k].list) /\ e.old = client[k].hash
    BY <1>2, <1>4, <2>1 DEF ClientOK, StandsFor
  <2>3. client[k].list = p
    BY <2>1, <2>2 DEF Hash
  <2>4. applyConversationListPatch(p, computeListPatch(p, q)) = {q}
    <3>1. Unique(p) /\ Unique(q)
      BY ListsAssumption DEF Unique
    <3> QED
      BY <3>1, PatchMakesNew
  <2>5. reduceConversationListPatch(k, e) = {q}
    BY <2>1, <2>2, <2>3, <2>4 DEF reduceConversationListPatch
  <2> QED
    BY <1>1, <1>3, <2>1, <2>5 DEF e
<1> QED
  BY <1>3, <1>5, <1>6

(* A client that applies an event has the list the event leads to.         *)
LEMMA KeepsHandle ==
  ASSUME StreamInv, NEW k \in Browsers, handleConversationListPatch(k)
  PROVE  StreamInv'
<1> DEFINE x == thread[k]
           s == start[k]
           v == Tail(wire[k])
<1>0. wire[k] # <<>> /\ k \in Threads
  BY ThreadsApart DEF handleConversationListPatch
<1>1. PICK q \in Lists : /\ thread[k].pc = "live" /\ Head(wire[k]) = wire[k][1]
                         /\ reduceConversationListPatch(k, Head(wire[k])) = {q}
                         /\ wire[k][1].new = Hash(q)
  BY <1>0, HeadFits
<1> DEFINE c == [list |-> q, hash |-> Hash(q)]
<1>2. /\ LiveOK(wire[k], s, client[k].hash) /\ wire[k] \in Seq(Patches \cup Resets) /\ s \in Nat
      /\ x \in ThreadStates /\ x.pc = "live"
  BY <1>1, LiveFacts
<1>3. Hash(q) # None /\ Hash(q) \in Hashes
  BY ListStreamAssumption DEF Hashes
<1>4. c \in [list : Lists \cup {<<>>}, hash : Hashes] /\ ClientOK(c) /\ c.hash = Hash(q)
  BY <1>3 DEF ClientOK, StandsFor
<1>5. /\ v \in Seq(Patches \cup Resets) /\ Follows(Hash(q), v)
      /\ Reached(Hash(q), v) = Reached(client[k].hash, wire[k])
  <2>1. Follows(client[k].hash, wire[k])
    BY <1>2 DEF LiveOK
  <2> QED
    BY <1>0, <1>1, <1>2, <1>3, <2>1, FollowsLess
<1>6. (CHOOSE l \in {q} : TRUE) = q
  OBVIOUS
<1>7. /\ client' = [client EXCEPT ![k] = c] /\ wire' = [wire EXCEPT ![k] = v]
      /\ UNCHANGED <<db, version, server, thread, start>>
  BY <1>1, <1>6 DEF handleConversationListPatch
<1>8. thread' = [thread EXCEPT ![k] = x] /\ start' = [start EXCEPT ![k] = s]
  BY <1>0, <1>7 DEF StreamInv, StreamTypes
<1>9. ThreadOK(x)
  BY <1>0 DEF StreamInv
<1> HIDE DEF x, s, v, c
<1>10. ConnOK(x, v, s, c)
  BY <1>2, <1>4, <1>5 DEF ConnOK, LiveOK
<1> QED
  BY <1>2, <1>4, <1>5, <1>7, <1>8, <1>9, <1>10, ConnFrame

(* A snapshot is used while nothing but a reset can come first.            *)
LEMMA KeepsLoadConversations ==
  ASSUME StreamInv, NEW k \in Browsers, loadConversations(k)
  PROVE  StreamInv'
<1> DEFINE t == Fetch(k)
           d == [list |-> thread[t].list, hash |-> thread[t].hash]
           c == IF client[k].hash = None THEN d ELSE client[k]
<1>1. k \in Threads /\ t \in Threads /\ t # k /\ t \notin Browsers
  BY ThreadsApart
<1>2. StandsFor(thread[t].hash, thread[t].list)
  BY <1>1 DEF StreamInv, ThreadOK, loadConversations
<1>3. d \in [list : Lists \cup {<<>>}, hash : Hashes] /\ ClientOK(d)
  BY <1>2 DEF StandsFor, Hashes, ClientOK
<1>4. client[k] \in [list : Lists \cup {<<>>}, hash : Hashes] /\ ClientOK(client[k])
  BY DEF StreamInv, StreamTypes
<1>5. c \in [list : Lists \cup {<<>>}, hash : Hashes] /\ ClientOK(c)
  BY <1>3, <1>4
<1>6. client' = [client EXCEPT ![k] = c] /\ thread' = [thread EXCEPT ![t] = AtRest]
      /\ UNCHANGED <<db, version, server, start, wire>>
  BY <1>4 DEF loadConversations, StreamInv, StreamTypes
<1>7. AtRest \in ThreadStates /\ ThreadOK(AtRest)
  BY DEF AtRest, ThreadStates, Hashes, ThreadOK
<1>8. ConnOK(thread[k], wire[k], start[k], c)
  <2>1. ConnOK(thread[k], wire[k], start[k], client[k])
    BY DEF StreamInv
  <2>2. CASE client[k].hash # None
    BY <2>1, <2>2
  <2>3. CASE client[k].hash = None
    <3>1. thread[k].pc \in {"lock", "publish", "answer"} => thread[k].hash = None
      BY <2>1, <2>3 DEF ConnOK
    <3>2. ASSUME thread[k].pc = "live" PROVE LiveOK(wire[k], start[k], c.hash)
      <4>1. LiveOK(wire[k], start[k], None) /\ wire[k] \in Seq(Patches \cup Resets)
        BY <3>2, <2>3, LiveFacts
      <4>2. wire[k] # <<>> /\ (wire[k][1].reset \/ wire[k][1].old = None)
        BY <4>1 DEF LiveOK, Follows
      <4>3. wire[k][1] \in Patches \cup Resets
        BY <4>1, <4>2
      <4>4. wire[k][1].reset
        BY <4>2, <4>3, PatchShape, ResetShape
      <4>5. Follows(c.hash, wire[k]) /\ Reached(c.hash, wire[k]) = Reached(None, wire[k])
        BY <4>1, <4>2, <4>4 DEF LiveOK, Follows, Reached
      <4> QED
        BY <4>1, <4>5 DEF LiveOK
    <3> HIDE DEF c
    <3> QED
      BY <2>1, <3>1, <3>2 DEF ConnOK
  <2> QED
    BY <2>2, <2>3
<1> HIDE DEF c, d, t
<1>9. StreamTypes
  BY DEF StreamInv
<1>10. /\ \A u \in Threads : thread'[u] = IF u = t THEN AtRest ELSE thread[u]
       /\ \A u \in Browsers : client'[u] = IF u = k THEN c ELSE client[u]
       /\ thread' \in [Threads -> ThreadStates]
       /\ client' \in [Browsers -> [list : Lists \cup {<<>>}, hash : Hashes]]
  BY <1>1, <1>5, <1>6, <1>7, <1>9 DEF StreamTypes
<1>11. wire' = wire /\ start' = start /\ UNCHANGED server /\ history' = history /\ offset' = offset
       /\ db' = db /\ version' = version
  BY <1>6 DEF server
<1>12. StreamTypes'
  BY <1>9, <1>10, <1>11 DEF StreamTypes
<1>13. \A u \in Threads : ThreadOK(thread'[u])
  BY <1>7, <1>10 DEF StreamInv
<1>14. ASSUME NEW u \in Browsers
       PROVE  ClientOK(client'[u]) /\ ConnOK(thread'[u], wire'[u], start'[u], client'[u])
  <2>1. u \in Threads /\ u # t
    BY <1>1, ThreadsApart
  <2> QED
    BY <1>5, <1>8, <1>10, <1>11, <2>1 DEF StreamInv
<1> QED
  BY <1>11, <1>12, <1>13, <1>14, ServerFrame

(* One more event in the history.                                          *)
LEMMA MoreHistory ==
  ASSUME StreamInv, NEW e \in Patches \cup Firsts, e.old = current.hash,
         NEW h, h = Append(history, e),
         offset' = Trim(h)[1], history' = Trim(h)[2], current'.hash = e.new
  PROVE  /\ history' \in Seq(Patches \cup Firsts) /\ offset' \in Nat
         /\ HistoryInv' /\ End' = End + 1
         /\ \A p \in Nat : p <= End /\ p >= offset' => p >= offset /\ HashAt(p)' = HashAt(p)
<1>0. history \in Seq(Patches \cup Firsts) /\ Len(history) \in Nat /\ offset \in Nat /\ HistoryLimit \in Nat \ {0}
  BY ListStreamAssumption DEF StreamInv, StreamTypes
<1>1. /\ h \in Seq(Patches \cup Firsts) /\ Len(h) = Len(history) + 1 /\ h[Len(h)] = e
      /\ \A i \in 1..Len(history) : h[i] = history[i]
  BY <1>0
<1>2. e.new # None /\ HistoryInv
  BY PatchShape, FirstShape DEF StreamInv
<1>3. \A i \in 1..(Len(h) - 1) : h[i + 1].old = h[i].new
  <2>1. TAKE i \in 1..(Len(h) - 1)
  <2>2. i \in 1..Len(history)
    BY <1>0, <1>1
  <2>3. CASE i = Len(history)
    <3>1. history # <<>> /\ h[i + 1] = e /\ h[i] = history[Len(history)]
      BY <1>0, <1>1, <2>2, <2>3
    <3>2. history[Len(history)].new = current.hash
      BY <1>2, <3>1 DEF HistoryInv
    <3> QED
      BY <3>1, <3>2
  <2>4. CASE i # Len(history)
    <3>1. i \in 1..(Len(history) - 1) /\ i + 1 \in 1..Len(history)
      BY <1>0, <2>2, <2>4
    <3>2. h[i + 1] = history[i + 1] /\ h[i] = history[i]
      BY <1>1, <2>2, <3>1
    <3> QED
      BY <1>2, <3>1, <3>2 DEF HistoryInv
  <2> QED
    BY <2>3, <2>4
(* The history is kept whole.                                              *)
<1>4. CASE ~(Len(h) > HistoryLimit)
  <2>1. history' = h /\ offset' = offset
    BY <1>4 DEF Trim
  <2>2. h # <<>> /\ Len(h) \in Nat
    BY <1>0, <1>1
  <2>3. ASSUME offset > 0 PROVE h[1].old # None
    <3>1. history # <<>>
      BY <1>2, <2>3, <1>0 DEF HistoryInv
    <3>2. 1 \in 1..Len(history)
      BY <1>0, <3>1
    <3> QED
      BY <1>1, <1>2, <2>3, <3>2 DEF HistoryInv
  <2>4. HistoryInv'
    BY <1>1, <1>2, <1>3, <2>1, <2>2, <2>3 DEF HistoryInv
  <2>5. End' = End + 1
    BY <1>0, <1>1, <2>1 DEF End
  <2>6. ASSUME NEW p \in Nat, p <= End, p >= offset PROVE HashAt(p)' = HashAt(p)
    <3>1. p # End' /\ HashAt(p)' = h[p - offset + 1].old
      BY <2>1, <2>5, <2>6, <1>0 DEF HashAt, End
    <3>2. CASE p = End
      <4>1. p - offset + 1 = Len(h)
        BY <3>2, <1>0, <1>1 DEF End
      <4> QED
        BY <3>1, <3>2, <4>1, <1>1 DEF HashAt
    <3>3. CASE p # End
      <4>1. End = offset + Len(history)
        BY DEF End
      <4>2. p - offset + 1 \in 1..Len(history)
        BY <2>6, <3>3, <1>0, <4>1
      <4> QED
        BY <3>1, <3>3, <4>2, <1>1 DEF HashAt
    <3> QED
      BY <3>2, <3>3
  <2> QED
    BY <1>0, <1>1, <2>1, <2>4, <2>5, <2>6
(* The oldest event goes.                                                  *)
<1>5. CASE Len(h) > HistoryLimit
  <2>1. history' = Tail(h) /\ offset' = offset + 1
    BY <1>5 DEF Trim
  <2> DEFINE g == Tail(h)
  <2>2. Len(history) >= 1 /\ Len(h) \in Nat
    BY <1>0, <1>1, <1>5
  <2>3. h # <<>>
    BY <1>1, <2>2
  <2>4. /\ g \in Seq(Patches \cup Firsts) /\ Len(g) = Len(history)
        /\ \A i \in 1..Len(g) : g[i] = h[i + 1]
    BY <1>0, <1>1, <2>2, <2>3
  <2>5. \A i \in 1..(Len(g) - 1) : g[i + 1].old = g[i].new
    <3>1. TAKE i \in 1..(Len(g) - 1)
    <3>2. i + 1 \in 1..(Len(h) - 1) /\ g[i] = h[i + 1] /\ g[i + 1] = h[(i + 1) + 1]
      BY <1>0, <1>1, <2>4
    <3> QED
      BY <1>3, <3>2
  <2>6. g[Len(g)] = e
    <3>1. Len(g) \in 1..Len(g) /\ Len(g) + 1 = Len(h)
      BY <1>0, <1>1, <2>2, <2>4
    <3> QED
      BY <1>1, <2>4, <3>1
  <2>7. g[1].old # None
    <3>1. g[1] = h[1 + 1] /\ 1 \in 1..(Len(h) - 1)
      BY <1>0, <1>1, <2>2, <2>4
    <3>2. g[1].old = h[1].new
      BY <1>3, <3>1
    <3>3. h[1] = history[1] /\ 1 \in 1..Len(history)
      BY <1>0, <1>1, <2>2
    <3> QED
      BY <3>2, <3>3, HistoryEvents
  <2> HIDE DEF g
  <2>8. g # <<>> /\ history' = g /\ offset' = offset + 1
    BY <2>1, <2>2, <2>4 DEF g
  <2>9. HistoryInv'
    BY <1>2, <2>5, <2>6, <2>7, <2>8 DEF HistoryInv
  <2>10. End' = End + 1
    <3>1. End' = (offset + 1) + Len(history) /\ End = offset + Len(history)
      BY <2>4, <2>8 DEF End
    <3> QED
      BY <1>0, <3>1
  <2>11. ASSUME NEW p \in Nat, p <= End, p >= offset + 1 PROVE HashAt(p)' = HashAt(p)
    <3>1. p # End' /\ HashAt(p)' = g[p - (offset + 1) + 1].old
      <4>1. End \in Nat
        BY <1>0 DEF End
      <4>2. p # End'
        BY <2>10, <2>11, <4>1
      <4> QED
        BY <2>8, <4>2 DEF HashAt
    <3>2. p - (offset + 1) + 1 \in 1..Len(g) /\ (p - (offset + 1) + 1) + 1 = p - offset + 1
      BY <1>0, <2>4, <2>11 DEF End
    <3>3. HashAt(p)' = h[p - offset + 1].old
      BY <2>4, <3>1, <3>2
    <3>4. CASE p = End
      <4>1. p - offset + 1 = Len(h)
        BY <3>4, <1>0, <1>1 DEF End
      <4> QED
        BY <3>3, <3>4, <4>1, <1>1 DEF HashAt
    <3>5. CASE p # End
      <4>1. End = offset + Len(history)
        BY DEF End
      <4>2. p - offset + 1 \in 1..Len(history)
        BY <2>11, <3>5, <1>0, <4>1
      <4> QED
        BY <3>3, <3>5, <4>2, <1>1 DEF HashAt
    <3> QED
      BY <3>4, <3>5
  <2>12. /\ history' \in Seq(Patches \cup Firsts) /\ offset' \in Nat
         /\ \A p \in Nat : p <= End /\ p >= offset' => p >= offset /\ HashAt(p)' = HashAt(p)
    BY <1>0, <2>4, <2>8, <2>11
  <2> QED
    BY <2>9, <2>10, <2>12
<1> QED
  BY <1>4, <1>5

(* Whatever recompute finds, what was sent before still leads to the       *)
(* history as it is.                                                       *)
LEMMA PublishServer ==
  ASSUME StreamInv, NEW t \in Threads, Publish(t)
  PROVE  /\ history' \in Seq(Patches \cup Firsts) /\ offset' \in Nat
         /\ CurrentInv' /\ current'.hash # None /\ HistoryInv'
         /\ End \in Nat /\ End' \in Nat /\ End' >= End
         /\ \A p \in Nat : p <= End /\ p >= offset' => p >= offset /\ HashAt(p)' = HashAt(p)
<1> DEFINE q == thread[t].list
           e == PatchEvent(current.hash, current.list, q)
<1>0. history \in Seq(Patches \cup Firsts) /\ Len(history) \in Nat /\ offset \in Nat /\ End \in Nat
  BY DEF StreamInv, StreamTypes, End
<1>1. q \in Lists
  BY DEF StreamInv, ThreadOK, Publish
<1>2. Hash(q) # None
  BY <1>1, ListStreamAssumption
<1>3. current'.list = q /\ current'.hash = Hash(q)
  BY DEF Publish
<1>4. CurrentInv' /\ current'.hash # None
  BY <1>1, <1>2, <1>3 DEF CurrentInv, StandsFor
<1>5. CASE Hash(q) = current.hash
  <2>1. history' = history /\ offset' = offset
    BY <1>5 DEF Publish
  <2>2. End' = End
    BY <2>1 DEF End
  <2>3. HistoryInv'
    BY <1>3, <1>5, <2>1 DEF StreamInv, HistoryInv
  <2>4. \A p \in Nat : HashAt(p)' = HashAt(p)
    BY <1>3, <1>5, <2>1, <2>2 DEF HashAt
  <2> QED
    BY <1>0, <1>4, <2>1, <2>2, <2>3, <2>4
<1>6. CASE Hash(q) # current.hash
  <2> DEFINE h == Append(history, e)
  <2>1. offset' = Trim(h)[1] /\ history' = Trim(h)[2]
    BY <1>6 DEF Publish, PatchEvent
  <2>2. e.old = current.hash /\ e.new = Hash(q)
    BY DEF PatchEvent
  <2>3. e \in Patches \cup Firsts
    <3>1. CASE current.hash = None
      <4>1. current.list = <<>>
        BY <3>1, ListStreamAssumption DEF StreamInv, CurrentInv, StandsFor
      <4> QED
        BY <1>1, <3>1, <4>1 DEF Firsts
    <3>2. CASE current.hash # None
      <4>1. current.list \in Lists /\ current.hash = Hash(current.list)
        BY <3>2 DEF StreamInv, CurrentInv, StandsFor
      <4> QED
        BY <1>1, <4>1 DEF Patches
    <3> QED
      BY <3>1, <3>2
  <2> HIDE DEF e
  <2>4. h = Append(history, e)
    OBVIOUS
  <2> HIDE DEF h
  <2>5. /\ history' \in Seq(Patches \cup Firsts) /\ offset' \in Nat
        /\ HistoryInv' /\ End' = End + 1
        /\ \A p \in Nat : p <= End /\ p >= offset' => p >= offset /\ HashAt(p)' = HashAt(p)
    BY <1>3, <2>1, <2>2, <2>3, <2>4, MoreHistory
  <2> QED
    BY <1>0, <1>4, <2>5
<1> QED
  BY <1>5, <1>6

(* A publication adds to the end what recompute has found.                 *)
LEMMA KeepsPublish ==
  ASSUME StreamInv, NEW t \in Threads, Publish(t)
  PROVE  StreamInv'
<1> DEFINE x == [thread[t] EXCEPT !.pc = AfterRecompute(t)]
<1>0. thread[t].pc = "publish" /\ StreamTypes
  BY DEF Publish, StreamInv
<1>1. /\ history' \in Seq(Patches \cup Firsts) /\ offset' \in Nat
      /\ CurrentInv' /\ current'.hash # None /\ HistoryInv'
      /\ End \in Nat /\ End' \in Nat /\ End' >= End
      /\ \A p \in Nat : p <= End /\ p >= offset' => p >= offset /\ HashAt(p)' = HashAt(p)
  BY PublishServer
<1>2. AfterRecompute(t) \in {"rest", "answer"}
  BY DEF AfterRecompute
<1>3. x \in ThreadStates /\ x.pc \in {"rest", "answer"} /\ x.hash = thread[t].hash
  BY <1>2, ThreadTypes DEF ThreadStates
<1>4. thread' = [thread EXCEPT ![t] = x] /\ UNCHANGED <<db, version, start, wire, client>>
  BY DEF Publish, Go
<1> HIDE DEF x
<1>5. thread' \in [Threads -> ThreadStates] /\ \A u \in Threads : thread'[u] = IF u = t THEN x ELSE thread[u]
  BY <1>0, <1>3, <1>4 DEF StreamTypes
<1>6. StreamTypes'
  BY <1>0, <1>1, <1>4, <1>5 DEF StreamTypes
<1>7. \A u \in Threads : ThreadOK(thread[u])'
  <2>1. TAKE u \in Threads
  <2>2. ThreadOK(thread[u])
    BY DEF StreamInv
  <2>3. CASE u = t
    BY <1>1, <1>3, <1>5, <2>3 DEF ThreadOK
  <2>4. CASE u # t
    BY <1>1, <1>5, <2>2, <2>4 DEF ThreadOK, StandsFor
  <2> QED
    BY <2>3, <2>4
<1>8. \A k \in Browsers : ClientOK(client[k])' /\ ConnOK(thread[k], wire[k], start[k], client[k])'
  <2>1. TAKE k \in Browsers
  <2>2. k \in Threads /\ ClientOK(client[k]) /\ ConnOK(thread[k], wire[k], start[k], client[k])
    BY ThreadsApart DEF StreamInv
  <2>3. ClientOK(client[k])'
    BY <1>4, <2>2 DEF ClientOK, StandsFor
  <2>4. CASE k = t
    BY <1>0, <1>3, <1>4, <1>5, <2>2, <2>4 DEF ConnOK
  <2>5. CASE k # t
    <3>1. thread'[k] = thread[k] /\ wire'[k] = wire[k] /\ start'[k] = start[k] /\ client'[k] = client[k]
      BY <1>4, <1>5, <2>2, <2>5
    <3>2. ASSUME thread[k].pc = "live" PROVE LiveOK(wire[k], start[k], client[k].hash)'
      <4>1. LiveOK(wire[k], start[k], client[k].hash) /\ start[k] \in Nat
        BY <3>2, LiveFacts
      <4>2. start[k] <= End'
        BY <1>1, <4>1 DEF LiveOK
      <4>3. start[k] >= offset' => Reached(client[k].hash, wire[k]) = HashAt(start[k])'
        BY <1>1, <1>4, <4>1 DEF LiveOK
      <4> QED
        BY <1>4, <4>1, <4>2, <4>3 DEF LiveOK, Follows, Reached
    <3> QED
      BY <2>2, <3>1, <3>2 DEF ConnOK
  <2> QED
    BY <2>3, <2>4, <2>5
<1> QED
  BY <1>1, <1>6, <1>7, <1>8 DEF StreamInv

(* A restart empties the stream; clients keep list and hash.               *)
LEMMA KeepsRestart ==
  ASSUME StreamInv, Restart
  PROVE  StreamInv'
<1>0. StreamTypes
  BY DEF StreamInv
<1>1. /\ current'.hash = None /\ current'.list = <<>> /\ history' = <<>> /\ offset' = 0
      /\ thread' = [t \in Threads |-> IF thread[t].pc = "fetched" THEN thread[t] ELSE AtRest]
      /\ wire' = [k \in Browsers |-> <<>>]
      /\ db' = db /\ version' = version /\ start' = start /\ client' = client
  BY DEF Restart, Unknown
<1>2. AtRest \in ThreadStates /\ AtRest.pc = "rest"
  BY DEF AtRest, ThreadStates, Hashes
<1>3. \A t \in Threads : /\ thread'[t] \in {thread[t], AtRest} /\ thread'[t].pc \in {"rest", "fetched"}
                         /\ thread'[t].pc = "fetched" => thread'[t] = thread[t]
  BY <1>1, <1>2
<1>4. thread' \in [Threads -> ThreadStates]
  <2>1. \A t \in Threads : (IF thread[t].pc = "fetched" THEN thread[t] ELSE AtRest) \in ThreadStates
    BY <1>2, ThreadTypes
  <2> QED
    BY <1>1, <2>1
<1>5. <<>> \in Seq(Patches \cup Firsts) /\ <<>> \in Seq(Patches \cup Resets)
  OBVIOUS
<1>6. StreamTypes'
  BY <1>0, <1>1, <1>4, <1>5 DEF StreamTypes
<1>7. CurrentInv' /\ HistoryInv'
  BY <1>1 DEF CurrentInv, HistoryInv
<1>8. \A t \in Threads : ThreadOK(thread[t])'
  <2>1. TAKE t \in Threads
  <2>2. ThreadOK(thread[t])
    BY DEF StreamInv
  <2> QED
    BY <1>3, <2>2 DEF ThreadOK, StandsFor
<1>9. \A k \in Browsers : ClientOK(client[k])' /\ ConnOK(thread[k], wire[k], start[k], client[k])'
  <2>1. TAKE k \in Browsers
  <2>2. ClientOK(client[k]) /\ k \in Threads /\ wire'[k] = <<>>
    BY <1>1, ThreadsApart DEF StreamInv
  <2>3. ClientOK(client[k])'
    BY <1>1, <2>2 DEF ClientOK, StandsFor
  <2>4. ConnOK(thread[k], wire[k], start[k], client[k])'
    BY <1>3, <2>2 DEF ConnOK
  <2> QED
    BY <2>3, <2>4
<1> QED
  BY <1>6, <1>7, <1>8, <1>9 DEF StreamInv

(* The stream starts without a list.                                       *)
LEMMA ListInitInv == ListInit => StreamInv
<1> SUFFICES ASSUME ListInit PROVE StreamInv
  OBVIOUS
<1>1. AtRest \in ThreadStates /\ AtRest.pc = "rest" /\ None \in Hashes
  BY DEF AtRest, ThreadStates, Hashes
<1>2. <<>> \in Seq(Patches \cup Firsts) /\ <<>> \in Seq(Patches \cup Resets)
  OBVIOUS
<1>3. current.hash = None /\ current.list = <<>> /\ history = <<>> /\ offset = 0
  BY DEF ListInit, Unknown
<1>4. CurrentInv /\ HistoryInv
  BY <1>3 DEF CurrentInv, HistoryInv
<1>5. StreamTypes
  BY <1>1, <1>2 DEF ListInit, StreamTypes
<1>6. \A t \in Threads : ThreadOK(thread[t])
  BY <1>1 DEF ListInit, ThreadOK
<1>7. \A k \in Browsers : ClientOK(client[k]) /\ ConnOK(thread[k], wire[k], start[k], client[k])
  <2>1. TAKE k \in Browsers
  <2>2. thread[k].pc = "rest" /\ client[k].hash = None /\ wire[k] = <<>>
    BY <1>1, ThreadsApart DEF ListInit
  <2> QED
    BY <2>2 DEF ClientOK, ConnOK
<1> QED
  BY <1>4, <1>5, <1>6, <1>7 DEF StreamInv

(* Every step of ListStream keeps StreamInv.                               *)
LEMMA ListStepInv == StreamInv /\ [ListNext]_listVars => StreamInv'
<1> SUFFICES ASSUME StreamInv, [ListNext]_listVars PROVE StreamInv'
  OBVIOUS
<1>1. ASSUME NEW w \in Writers, notify(w) PROVE StreamInv'
  BY <1>1, KeepsNotify
<1>2. ASSUME NEW w \in Writers, NEW list \in Lists, CommitTx(w, list) PROVE StreamInv'
  BY <1>2, KeepsCommitTx
<1>3. ASSUME NEW t \in Threads, ThreadStep(t) \/ ReadFails(t) PROVE StreamInv'
  BY <1>3, KeepsRead, KeepsPublish, KeepsReadFails DEF ThreadStep
<1>4. ASSUME NEW k \in Browsers, ClientStep(k) PROVE StreamInv'
  BY <1>4, KeepsConnect, KeepsSendInitial, KeepsSendNext, KeepsAnswerSnapshot,
     KeepsLoadConversations
     DEF ClientStep
<1>5. ASSUME NEW k \in Browsers, handleConversationListPatch(k) \/ FetchSnapshot(k) \/ Release(k)
      PROVE  StreamInv'
  BY <1>5, KeepsHandle, KeepsFetchSnapshot, KeepsRelease
<1>6. CASE Restart
  BY <1>6, KeepsRestart
<1>7. CASE UNCHANGED listVars
  <2>1. UNCHANGED <<server, db, version, thread, start, wire, client>>
    BY <1>7 DEF listVars
  <2>2. StreamTypes' /\ history' = history /\ offset' = offset
    BY <2>1 DEF StreamInv, StreamTypes, server
  <2> QED
    BY <2>1, <2>2, ServerFrame DEF StreamInv
<1> QED
  BY <1>1, <1>2, <1>3, <1>4, <1>5, <1>6, <1>7 DEF ListNext

(* The stream of the conversation list keeps StreamInv: what is on its way *)
(* to a client, then what its connection has still to send, is a chain of  *)
(* events from the hash the client has to the hash of the current list.    *)
THEOREM StreamInvariance == ListSpec => []StreamInv
<1> QED
  BY ListInitInv, ListStepInv, PTL DEF ListSpec

(* "The two MUST advance together": whatever mixture of patches, replays,  *)
(* resets and snapshots a client has seen, the list it shows is the one    *)
(* its hash stands for.                                                    *)
THEOREM ClientsShowTheirHash == ListSpec => []ListIsItsHash
<1>1. StreamInv => ListIsItsHash
  BY DEF StreamInv, ClientOK, StandsFor, ListIsItsHash
<1> QED
  BY <1>1, StreamInvariance, PTL

(* What one step does to the hash a client has: it never has to give it up *)
(* because an event does not fit.                                          *)
LEMMA HashesStay ==
  ASSUME StreamInv, [ListNext]_listVars, NEW k \in Browsers, client[k].hash # None
  PROVE  client'[k].hash # None
<1>0. client \in [Browsers -> [list : Lists \cup {<<>>}, hash : Hashes]]
  BY DEF StreamInv, StreamTypes
<1>1. ASSUME client' = client PROVE client'[k].hash # None
  BY <1>1
<1>2. ASSUME NEW j \in Browsers, handleConversationListPatch(j) PROVE client'[k].hash # None
  <2>1. wire[j] # <<>>
    BY <1>2 DEF handleConversationListPatch
  <2>2. PICK q \in Lists : /\ reduceConversationListPatch(j, Head(wire[j])) = {q}
                           /\ Head(wire[j]).new = Hash(q)
    BY <2>1, HeadFits
  <2>3. client' = [client EXCEPT ![j] = [list |-> CHOOSE l \in {q} : TRUE, hash |-> Hash(q)]]
    BY <1>2, <2>2 DEF handleConversationListPatch
  <2>4. Hash(q) # None
    BY ListStreamAssumption
  <2> QED
    BY <1>0, <2>3, <2>4
<1>3. ASSUME NEW j \in Browsers, loadConversations(j) PROVE client'[k].hash # None
  BY <1>0, <1>3 DEF loadConversations
<1>4. CASE UNCHANGED listVars
  BY <1>1, <1>4 DEF listVars
<1>5. CASE ListNext
  <2>1. ASSUME NEW w \in Writers, notify(w) \/ \E list \in Lists : CommitTx(w, list)
        PROVE  client' = client
    BY <2>1 DEF notify, CommitTx
  <2>2. ASSUME NEW t \in Threads, ThreadStep(t) \/ ReadFails(t) PROVE client' = client
    BY <2>2 DEF ThreadStep, Read, Publish, ReadFails
  <2>3. ASSUME NEW j \in Browsers,
               connect(j) \/ SendInitial(j) \/ SendNext(j) \/ answerSnapshot(j) \/ FetchSnapshot(j) \/ Release(j)
        PROVE  client' = client
    BY <2>3 DEF connect, SendInitial, SendNext, answerSnapshot, FetchSnapshot, Release
  <2>4. CASE Restart
    BY <1>1, <2>4 DEF Restart
  <2> QED
    BY <1>1, <1>2, <1>3, <1>5, <2>1, <2>2, <2>3, <2>4 DEF ListNext, ClientStep
<1> QED
  BY <1>4, <1>5

(* The events of a connection form a chain its client can follow, however  *)
(* far it lagged or long it was away.                                      *)
THEOREM ClientsFollow == ListSpec => PatchesChain
<1>1. StreamInv /\ [ListNext]_listVars =>
        [\A k \in Browsers : client[k].hash # None => client'[k].hash # None]_listVars
  BY HashesStay
<1> QED
  BY <1>1, StreamInvariance, PTL DEF ListSpec, PatchesChain
=============================================================================
