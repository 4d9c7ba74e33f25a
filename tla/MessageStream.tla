--------------------------- MODULE MessageStream ---------------------------
(***************************************************************************)
(* From a committed message row to the clients of one conversation.        *)
(*                                                                         *)
(* Server.insertMessages commits rows and then starts a goroutine that     *)
(* publishes them (notifySubscribers), so publications can overtake each   *)
(* other; a goroutine that finds no manager, or cannot read the            *)
(* conversation, gives up.  The system prompt that hydration stores is not *)
(* published at all.  runStream serves two endpoints: /api/stream2         *)
(* subscribes to the server-wide streamPub, and only then reads its        *)
(* snapshot of the rows; the legacy /api/conversation/<id>/stream reads    *)
(* the snapshot first and then subscribes to the manager's own subpub.  A  *)
(* publish is atomic here; module SubPub shows what a subscription         *)
(* promises (module Feed): a lossless FIFO until it is cut.                *)
(***************************************************************************)
EXTENDS Integers, Sequences

CONSTANTS Unified,    \* clients of /api/stream2
          Legacy,     \* clients of the legacy endpoint
          MaxRows,    \* bound: rows ever committed
          MaxBatch,   \* bound: rows committed by one insertMessages
          Capacity    \* queued publications a client may lag behind

ASSUME ClientsAssumption == Unified \cap Legacy = {}
ASSUME BoundsAssumption == /\ MaxRows \in Nat /\ MaxBatch \in Nat \ {0}
                           /\ Capacity \in Nat \ {0}

Clients == Unified \cup Legacy

VARIABLES
  rows,        \* rows 1..rows are committed (sequence ids)
  notices,     \* batches committed whose goroutine has not published yet
  active,      \* the conversation has a manager in activeConversations
  prompted,    \* the conversation has its system message
  \* One connection per client.
  pc,          \* where runStream is
  ask,         \* what its request asks for, a member of Asks
  lastSeqID,   \* the variable of that name
  subscribed,  \* subscription registered (and not cut)
  cut,         \* subscription ended: its queue was full
  orphan,      \* the manager it subscribed to is no longer the active one
  snapshot,    \* rows read from the database and not yet written
  queue,       \* publications waiting for the handler
  \* The client itself.
  got,         \* rows it holds
  \* History of a connection.
  before,      \* rows up to this one the client did not ask for
  lost,        \* rows that will not be published, since the snapshot was read
  twice        \* rows it got twice over one connection

connVars == <<pc, ask, lastSeqID, subscribed, cut, orphan, snapshot, queue>>
clientVars == <<got, before, lost, twice>>
vars == <<rows, notices, active, prompted, connVars, clientVars>>

Batches == {b \in [lo : 1..MaxRows, hi : 1..MaxRows] : b.lo <= b.hi}
RowsOf(b) == b.lo .. b.hi
Queued(c) == UNION {RowsOf(queue[c][k]) : k \in DOMAIN queue[c]}

PCs == {"away", "subscribe", "query", "manager", "write", "live"}

(* Rows after last_sequence_id (all of them without one), the last few     *)
(* rows, or no conversation at all.                                        *)
Asks == {"since", "tail", "nothing"}

TypeOK ==
  /\ rows \in 0..MaxRows
  /\ notices \subseteq Batches
  /\ active \in BOOLEAN
  /\ prompted \in BOOLEAN
  /\ ask \in [Clients -> Asks]
  /\ pc \in [Clients -> PCs]
  /\ lastSeqID \in [Clients -> -1..MaxRows]
  /\ subscribed \in [Clients -> BOOLEAN]
  /\ cut \in [Clients -> BOOLEAN]
  /\ orphan \in [Clients -> BOOLEAN]
  /\ snapshot \in [Clients -> SUBSET (1..MaxRows)]
  /\ \A c \in Clients : queue[c] \in Seq(Batches) /\ Len(queue[c]) <= Capacity
  /\ got \in [Clients -> SUBSET (1..MaxRows)]
  /\ before \in [Clients -> 0..MaxRows]
  /\ lost \in [Clients -> SUBSET (1..MaxRows)]
  /\ twice \in [Clients -> SUBSET (1..MaxRows)]

Init ==
  /\ rows = 0
  /\ notices = {}
  /\ active = FALSE
  /\ prompted = FALSE
  /\ ask = [c \in Clients |-> "since"]
  /\ pc = [c \in Clients |-> "away"]
  /\ lastSeqID = [c \in Clients |-> -1]
  /\ subscribed = [c \in Clients |-> FALSE]
  /\ cut = [c \in Clients |-> FALSE]
  /\ orphan = [c \in Clients |-> FALSE]
  /\ snapshot = [c \in Clients |-> {}]
  /\ queue = [c \in Clients |-> <<>>]
  /\ got = [c \in Clients |-> {}]
  /\ before = [c \in Clients |-> 0]
  /\ lost = [c \in Clients |-> {}]
  /\ twice = [c \in Clients |-> {}]

-----------------------------------------------------------------------------
(* The handler of client c has read its snapshot.                          *)
Asked(c) ==
  \/ pc[c] \in {"manager", "write", "live"}
  \/ c \in Legacy /\ pc[c] = "subscribe"

(* Nobody will publish these rows.                                         *)
Lose(batch) == lost' = [c \in Clients |-> IF Asked(c) THEN lost[c] \cup batch ELSE lost[c]]

(* insertMessages or CreateMessage: one transaction.                       *)
Insert(n) == rows + n <= MaxRows /\ rows' = rows + n

Batch(n) == [lo |-> rows + 1, hi |-> rows + n]

(* Hydrate, for a manager that is not there yet: the conversation's system *)
(* prompt is stored when it is missing.  Its row is published only when a  *)
(* draft is promoted (announced); an empty prompt stores nothing.          *)
Hydrate(announced) ==
  \/ /\ ~active
     /\ ~prompted
     /\ prompted' = TRUE
     /\ Insert(1)
     /\ \/ announced /\ notices' = notices \cup {Batch(1)} /\ lost' = lost
        \/ ~announced /\ Lose({rows + 1}) /\ notices' = notices
  \/ UNCHANGED <<rows, notices, prompted, lost>>

(* getOrCreateConversationManager for any other request.                   *)
Activate ==
  /\ ~active
  /\ active' = TRUE
  /\ \E announced \in BOOLEAN : Hydrate(announced)
  /\ UNCHANGED <<connVars, got, before, twice>>

(* insertMessages: one transaction, then `go notifySubscribers`.           *)
Commit(n) ==
  /\ Insert(n)
  /\ notices' = notices \cup {Batch(n)}
  /\ UNCHANGED <<active, prompted, connVars, clientVars>>

(* SubPub.Publish on the manager's subpub, by index, and Broadcast on      *)
(* streamPub: which subscribers are sent batch b.                          *)
Receives(c, b) ==
  /\ subscribed[c]
  /\ c \in Legacy => ~orphan[c] /\ lastSeqID[c] < b.hi

(* Mutant: a full queue swallows the batch and the subscriber stays.       *)
PublishBatchDrops(b) ==
  /\ active
  /\ queue' = [c \in Clients |->
                 IF Receives(c, b) /\ Len(queue[c]) < Capacity
                 THEN Append(queue[c], b) ELSE queue[c]]
  /\ UNCHANGED <<subscribed, cut, lost>>

(* publishStream at the highest sequence id of the batch; a subscriber     *)
(* without room is cut.                                                    *)
PublishBatch(b) ==
  /\ active
  /\ LET served == {c \in Clients : Receives(c, b) /\ Len(queue[c]) < Capacity}
         full == {c \in Clients : Receives(c, b) /\ Len(queue[c]) >= Capacity}
     IN  /\ queue' = [c \in Clients |->
                        IF c \in served THEN Append(queue[c], b) ELSE queue[c]]
         /\ subscribed' = [c \in Clients |-> subscribed[c] /\ c \notin full]
         /\ cut' = [c \in Clients |-> cut[c] \/ c \in full]
  /\ lost' = lost

(* The conversation has no manager, or cannot be read: the goroutine       *)
(* returns without publishing.                                             *)
GiveUp(b) == Lose(RowsOf(b)) /\ UNCHANGED <<queue, subscribed, cut>>

(* notifySubscribers.                                                      *)
Notify(b) ==
  /\ b \in notices
  /\ notices' = notices \ {b}
  /\ PublishBatch(b) \/ GiveUp(b)
  /\ UNCHANGED <<rows, active, prompted, pc, ask, lastSeqID, orphan, snapshot, got, before, twice>>

(* Server.Cleanup drops a manager that was idle for 30 minutes.  Streams   *)
(* subscribed to that manager's subpub stay attached to it.                *)
Cleanup ==
  /\ active
  /\ active' = FALSE
  /\ orphan' = [c \in Clients |->
                  orphan[c] \/ (c \in Legacy /\ pc[c] \in {"subscribe", "write", "live"})]
  /\ UNCHANGED <<rows, notices, prompted, pc, ask, lastSeqID, subscribed, cut, snapshot, queue>>
  /\ UNCHANGED clientVars

-----------------------------------------------------------------------------
(* A client connects: for the whole history (-1), with the                 *)
(* last_sequence_id up to which it holds the rows it once asked for, for   *)
(* the last rows (tail, mutually exclusive with that), or to the unified   *)
(* endpoint without a conversation.                                        *)
Connect(c, kind, since) ==
  /\ pc[c] = "away"
  /\ kind # "since" => since = -1
  /\ kind = "nothing" => c \in Unified
  /\ pc' = [pc EXCEPT ![c] = IF c \in Unified THEN "subscribe" ELSE "query"]
  /\ ask' = [ask EXCEPT ![c] = kind]
  /\ lastSeqID' = [lastSeqID EXCEPT ![c] = since]
  /\ LET low == IF since < 0 THEN 0 ELSE IF since < before[c] THEN since ELSE before[c]
     IN  /\ (low + 1)..since \subseteq got[c]
         /\ got' = [got EXCEPT ![c] = (low + 1)..since]
         /\ before' = [before EXCEPT ![c] = low]
  /\ UNCHANGED <<rows, notices, active, prompted, subscribed, cut, orphan, snapshot, queue>>
  /\ UNCHANGED <<lost, twice>>

(* subscribeStream, or manager.subpub.SubscribeWithStatus(ctx, lastSeqID). *)
(* A unified stream without a conversation reads no snapshot: the client   *)
(* hears of what is committed from here on.                                *)
Subscribe(c) ==
  /\ pc[c] = "subscribe"
  /\ subscribed' = [subscribed EXCEPT ![c] = TRUE]
  /\ pc' = [pc EXCEPT ![c] = IF c \in Legacy THEN "write"
                             ELSE IF ask[c] = "nothing" THEN "live" ELSE "query"]
  /\ before' = [before EXCEPT ![c] = IF ask[c] = "nothing" THEN rows ELSE @]
  /\ UNCHANGED <<rows, notices, active, prompted, ask, lastSeqID, cut, orphan, snapshot, queue>>
  /\ UNCHANGED <<got, lost, twice>>

(* ListMessages, ListMessagesSince, or ListMessagesTail of n rows: the     *)
(* rows after this one.                                                    *)
After(c, n) == IF ask[c] # "tail" THEN lastSeqID[c] ELSE IF n < rows THEN rows - n ELSE 0

(* Mutant: a resumed stream keeps the index the client asked with.         *)
QueryKeepsIndex(c, n) ==
  /\ pc[c] = "query"
  /\ snapshot' = [snapshot EXCEPT ![c] = {r \in 1..rows : r > After(c, n)}]
  /\ before' = [before EXCEPT ![c] = IF ask[c] = "tail" THEN After(c, n) ELSE @]
  /\ pc' = [pc EXCEPT ![c] = "manager"]
  /\ UNCHANGED <<rows, notices, active, prompted, ask, lastSeqID, subscribed, cut, orphan, queue>>
  /\ UNCHANGED <<got, lost, twice>>

(* The rows are read, and lastSeqID moved to the last of them.             *)
Query(c, n) ==
  /\ pc[c] = "query"
  /\ snapshot' = [snapshot EXCEPT ![c] = {r \in 1..rows : r > After(c, n)}]
  /\ before' = [before EXCEPT ![c] = IF ask[c] = "tail" THEN After(c, n) ELSE @]
  /\ lastSeqID' = [lastSeqID EXCEPT
                     ![c] = IF ask[c] = "tail" \/ (rows > @ /\ rows > 0) THEN rows ELSE @]
  /\ pc' = [pc EXCEPT ![c] = "manager"]
  /\ UNCHANGED <<rows, notices, active, prompted, ask, subscribed, cut, orphan, queue>>
  /\ UNCHANGED <<got, lost, twice>>

(* getOrCreateConversationManager.                                         *)
GetManager(c) ==
  /\ pc[c] = "manager"
  /\ active' = TRUE
  /\ Hydrate(FALSE)
  /\ pc' = [pc EXCEPT ![c] = IF c \in Unified THEN "write" ELSE "subscribe"]
  /\ UNCHANGED <<ask, lastSeqID, subscribed, cut, orphan, snapshot, queue, got, before, twice>>

(* The client receives rows.                                               *)
Deliver(c, batch) ==
  /\ got' = [got EXCEPT ![c] = @ \cup batch]
  /\ twice' = [twice EXCEPT ![c] = @ \cup (got[c] \cap batch)]

WriteSnapshot(c) ==
  /\ pc[c] = "write"
  /\ Deliver(c, snapshot[c])
  /\ snapshot' = [snapshot EXCEPT ![c] = {}]
  /\ pc' = [pc EXCEPT ![c] = "live"]
  /\ UNCHANGED <<rows, notices, active, prompted, ask, lastSeqID, subscribed, cut, orphan, queue>>
  /\ UNCHANGED <<before, lost>>

WriteUpdate(c) ==
  /\ pc[c] = "live"
  /\ queue[c] # <<>>
  /\ Deliver(c, RowsOf(Head(queue[c])))
  /\ queue' = [queue EXCEPT ![c] = Tail(@)]
  /\ UNCHANGED <<rows, notices, active, prompted, pc, ask, lastSeqID, subscribed, cut, orphan>>
  /\ UNCHANGED <<snapshot, before, lost>>

(* The response ends: all the handler had is gone.                         *)
Hangup(c) ==
  /\ pc' = [pc EXCEPT ![c] = "away"]
  /\ ask' = [ask EXCEPT ![c] = "since"]
  /\ lastSeqID' = [lastSeqID EXCEPT ![c] = -1]
  /\ subscribed' = [subscribed EXCEPT ![c] = FALSE]
  /\ cut' = [cut EXCEPT ![c] = FALSE]
  /\ orphan' = [orphan EXCEPT ![c] = FALSE]
  /\ snapshot' = [snapshot EXCEPT ![c] = {}]
  /\ queue' = [queue EXCEPT ![c] = <<>>]
  /\ lost' = [lost EXCEPT ![c] = {}]
  /\ twice' = [twice EXCEPT ![c] = {}]
  /\ UNCHANGED <<rows, notices, active, prompted, got, before>>

(* Mutant: nobody watches the subscription, as on the legacy endpoint.     *)
FallBehindUnseen(c) == FALSE

(* watchSubscription: the unified handler ends the response, even out of a *)
(* blocked write, when its subscription fell behind.  The legacy handler   *)
(* only logs "legacy stream stalled".                                      *)
FallBehind(c) ==
  /\ c \in Unified
  /\ cut[c]
  /\ Hangup(c)

(* The client or the network drops the connection, or a read of the        *)
(* handler fails.                                                          *)
Disconnect(c) ==
  /\ pc[c] # "away"
  /\ Hangup(c)

-----------------------------------------------------------------------------
Handler(c) ==
  \/ Subscribe(c) \/ (\E n \in 1..MaxRows : Query(c, n)) \/ GetManager(c)
  \/ WriteSnapshot(c) \/ WriteUpdate(c) \/ FallBehind(c)

Next ==
  \/ Activate
  \/ \E n \in 1..MaxBatch : Commit(n)
  \/ \E b \in notices : Notify(b)
  \/ Cleanup
  \/ \E c \in Clients, kind \in Asks, since \in -1..MaxRows : Connect(c, kind, since)
  \/ \E c \in Clients : Handler(c) \/ Disconnect(c)

Spec == Init /\ [][Next]_vars

(* Notify goroutines and handlers run; a client that stays connected reads *)
(* what is written to it.                                                  *)
FairSpec == /\ Spec
            /\ \A b \in Batches : WF_vars(Notify(b))
            /\ \A c \in Clients : WF_vars(Handler(c))

-----------------------------------------------------------------------------
(* Rows on their way to client c, or still to be published.                *)
Coming(c) == snapshot[c] \cup Queued(c) \cup UNION {RowsOf(b) : b \in notices}

(* /api/stream2 misses no message: once the handler has both its snapshot  *)
(* and its subscription, every committed row the client asked for is with  *)
(* it or on its way unless the subscription was cut, in whatever order     *)
(* rows are committed, published and read, and through eviction of the     *)
(* manager.  A row that nobody publishes (its notifySubscribers gave up,   *)
(* or hydration stored it) is missing only if that came after the snapshot *)
(* was read: a row given up before is in the snapshot.                     *)
UnifiedNothingMissed ==
  \A c \in Unified :
    Asked(c) /\ ~cut[c] => 1..rows \subseteq 1..before[c] \cup got[c] \cup Coming(c) \cup lost[c]

(* Over one legacy connection no row arrives twice: the subscription index *)
(* is the last row of the snapshot.                                        *)
LegacyNoRepeat == \A c \in Legacy : twice[c] = {}

(* A client of /api/stream2 that stays connected gets every row it asked   *)
(* for: a row committed is eventually held by the client, or given up by   *)
(* its publisher after the snapshot was read, or the connection ends (and  *)
(* the client comes back for what it missed).                              *)
UnifiedCatchesUp ==
  \A c \in Unified : \A r \in 1..MaxRows :
    (rows >= r /\ pc[c] # "away") ~>
      (r \in got[c] \cup 1..before[c] \cup lost[c] \/ pc[c] = "away")
=============================================================================
