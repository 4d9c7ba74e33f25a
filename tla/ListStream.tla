----------------------------- MODULE ListStream -----------------------------
(***************************************************************************)
(* The conversation list as clients see it: every commit recomputes the    *)
(* list and publishes a patch from the last one, a bounded history of      *)
(* patches serves clients that reconnect or lag, and each client applies   *)
(* the patches to its own copy.  Hashes are taken to be free of collisions *)
(* and a list is read from the database in one step.  The names that       *)
(* MessageStream also has begin with List here: StreamProofs extends both. *)
(***************************************************************************)
EXTENDS Naturals, Sequences, FiniteSets

CONSTANTS
    Items,        \* the items of those lists: a conversation id and the other fields
    Lists,        \* the lists the database may hold
    Writers,      \* goroutines that commit
    Browsers,     \* clients
    HistoryLimit, \* conversationListPatchHistoryLimit
    None,
    Limits        \* how often each external event may happen

Events == {"commit", "disconnect", "fault"}

\* A client fetches the snapshot in a request of its own.
Fetch(k) == <<"fetch", k>>

\* hashList.
Hash(list) == <<list>>

ASSUME ListStreamAssumption ==
    /\ HistoryLimit \in Nat \ {0} /\ Limits \in [Events -> Nat]
    /\ \A k \in Browsers : k \notin Writers /\ Fetch(k) \notin Writers \cup Browsers
    /\ \A list \in Lists \cup {<<>>} : Hash(list) # None

\* An item is an object of fields, and conversation_id is a primary key.
ASSUME ListsAssumption ==
    /\ \A e \in Items : e = [id |-> e.id, fields |-> [f \in DOMAIN e.fields |-> e.fields[f]]]
    /\ \A list \in Lists : /\ list \in Seq(Items)
                            /\ \A i, j \in DOMAIN list : list[i].id = list[j].id => i = j

Threads == Writers \cup Browsers \cup {Fetch(k) : k \in Browsers}

VARIABLES
    db,         \* the list in the database
    version,    \* history: commits so far
    current,    \* currentList, currentHash and, as history, its version
    history,    \* the published events
    offset,     \* historyOffset
    listeners,
    holder,     \* who holds recomputeMu, or None
    thread,     \* where each goroutine is and what it has read
    start,      \* startIdx of each connection
    wire,       \* events on their way to each client
    client,     \* each client's list and hash
    missed,     \* history: a commit whose recompute failed
    left        \* what remains of Limits

server == <<current, history, offset>>
listVars == <<db, version, server, listeners, holder, thread, start, wire, client, missed, left>>

Spend(e) == left[e] > 0 /\ left' = [left EXCEPT ![e] = @ - 1]

-----------------------------------------------------------------------------
(* computeListPatch and applyConversationListPatch.                        *)

InsertAt(s, i, e) == SubSeq(s, 1, i - 1) \o <<e>> \o SubSeq(s, i, Len(s))
DeleteAt(s, i) == SubSeq(s, 1, i - 1) \o SubSeq(s, i + 1, Len(s))

\* One operation for every field of an item that differs: keys to put, of which
\* some have to exist, and keys to drop.
fieldDiffOps(j, old, new) ==
    LET put == {k \in DOMAIN new.fields :
                  k \notin DOMAIN old.fields \/ old.fields[k] # new.fields[k]}
        drop == DOMAIN old.fields \ DOMAIN new.fields
    IN  IF put \cup drop = {} THEN <<>>
        ELSE <<[op |-> "fields", at |-> j, put |-> [k \in put |-> new.fields[k]],
                must |-> put \cap DOMAIN old.fields, drop |-> drop]>>

\* Mutant: an item that moves keeps its old fields.
PlaceMoved(s, j, target) ==
    LET found == {i \in DOMAIN s.list : s.list[i].id = target.id}
        i == CHOOSE x \in found : TRUE
    IN  IF found = {} THEN [list |-> InsertAt(s.list, j, target),
                            ops |-> Append(s.ops, [op |-> "add", at |-> j, item |-> target])]
        ELSE IF i # j THEN [list |-> InsertAt(DeleteAt(s.list, i), j, target),
                            ops |-> Append(s.ops, [op |-> "move", at |-> j, from |-> i])]
        ELSE [list |-> [s.list EXCEPT ![j] = target],
              ops |-> s.ops \o fieldDiffOps(j, s.list[j], target)]

\* Bring target to position j of the working list: add it, or move it there
\* and change its fields.
Place(s, j, target) ==
    LET found == {i \in DOMAIN s.list : s.list[i].id = target.id}
        i == CHOOSE x \in found : TRUE
        move == IF i = j THEN <<>> ELSE <<[op |-> "move", at |-> j, from |-> i]>>
    IN  IF found = {} THEN [list |-> InsertAt(s.list, j, target),
                            ops |-> Append(s.ops, [op |-> "add", at |-> j, item |-> target])]
        ELSE [list |-> InsertAt(DeleteAt(s.list, i), j, target),
              ops |-> s.ops \o move \o fieldDiffOps(j, s.list[i], target)]

\* Place every item of the new list, then remove what is left, last first.
\* The steps are sets of one element.
computeListPatch(old, new) ==
    LET placed[j \in 0..Len(new)] ==
            IF j = 0 THEN {[list |-> old, ops |-> <<>>]}
            ELSE {Place(s, j, new[j]) : s \in placed[j - 1]}
        removes(n) == [k \in 1..(n - Len(new)) |-> [op |-> "remove", at |-> n + 1 - k]]
    IN  CHOOSE patch \in {s.ops \o removes(Len(s.list)) : s \in placed[Len(new)]} : TRUE

\* What one operation needs of the list, and what it makes of it.
Applies(o, s) ==
    CASE o.op = "add"    -> o.at \in 1..(Len(s) + 1)
      [] o.op = "move"   -> o.from \in DOMAIN s /\ o.at \in 1..Len(s)
      [] o.op = "fields" -> o.at \in DOMAIN s /\ o.must \subseteq DOMAIN s[o.at].fields
      [] o.op = "remove" -> o.at \in DOMAIN s

\* setAt and removeAt on the keys of one item.
WithFields(e, o) ==
    [id |-> e.id,
     fields |-> [f \in (DOMAIN e.fields \ o.drop) \cup DOMAIN o.put |->
                   IF f \in DOMAIN o.put THEN o.put[f] ELSE e.fields[f]]]

Applied(o, s) ==
    CASE o.op = "add"    -> InsertAt(s, o.at, o.item)
      [] o.op = "move"   -> InsertAt(DeleteAt(s, o.from), o.at, s[o.from])
      [] o.op = "remove" -> DeleteAt(s, o.at)
      [] o.op = "fields" -> [s EXCEPT ![o.at] = WithFields(@, o)]

AfterOp(o, lists) == {Applied(o, s) : s \in {t \in lists : Applies(o, t)}}

\* The list a patch makes of a list, as a set; empty if an operation fails.
applyConversationListPatch(list, ops) ==
    LET upTo[n \in 0..Len(ops)] == IF n = 0 THEN {list} ELSE AfterOp(ops[n], upTo[n-1])
    IN  upTo[Len(ops)]

-----------------------------------------------------------------------------
AtRest == [pc |-> "rest", list |-> <<>>, hash |-> None, version |-> 0]
Unknown == [list |-> <<>>, hash |-> None, version |-> 0]

ListInit ==
    /\ db \in Lists /\ version = 0
    /\ current = Unknown /\ history = <<>> /\ offset = 0
    /\ listeners = 0 /\ holder = None
    /\ thread = [t \in Threads |-> AtRest]
    /\ start = [k \in Browsers |-> 0] /\ wire = [k \in Browsers |-> <<>>]
    /\ client = [k \in Browsers |-> [list |-> <<>>, hash |-> None]]
    /\ missed = FALSE /\ left = Limits

Go(t, pc) == thread' = [thread EXCEPT ![t].pc = pc]

\* Pool.Tx fires the commit hook on the goroutine that committed.
CommitTx(w, list) ==
    /\ thread[w].pc = "rest" /\ list # db
    /\ Spend("commit")
    /\ db' = list /\ version' = version + 1
    /\ Go(w, "notify")
    /\ UNCHANGED <<server, listeners, holder, start, wire, client, missed>>

\* notify: nothing to do without listeners.
notify(w) ==
    /\ thread[w].pc = "notify"
    /\ Go(w, IF listeners > 0 THEN "lock" ELSE "rest")
    /\ UNCHANGED <<db, version, server, listeners, holder, start, wire, client, missed, left>>

\* recompute reads the list with recomputeMu held.
Read(t) ==
    /\ thread[t].pc = "lock" /\ holder = None
    /\ holder' = t
    /\ thread' = [thread EXCEPT ![t].pc = "publish", ![t].list = db, ![t].version = version]
    /\ UNCHANGED <<db, version, server, listeners, start, wire, client, missed, left>>

\* Where a goroutine goes on after recompute.
AfterRecompute(t) == IF t \in Writers THEN "rest" ELSE "answer"

\* The read fails: a commit goes unnoticed, a connection or fetch is refused.
ReadFails(t) ==
    /\ thread[t].pc = "lock" /\ holder = None
    /\ Spend("fault")
    /\ missed' = (missed \/ t \in Writers)
    /\ Go(t, "rest")
    /\ listeners' = IF t \in Browsers THEN listeners - 1 ELSE listeners
    /\ UNCHANGED <<db, version, server, holder, start, wire, client>>

\* The offset and the history after one more event.
Trim(h) ==
    IF Len(h) > HistoryLimit THEN <<offset + 1, Tail(h)>> ELSE <<offset, h>>

\* recompute publishes under mu the patch from the last list, if it changed.
Publish(t) ==
    LET next == thread[t].list
        event == [reset |-> FALSE, old |-> current.hash, new |-> Hash(next),
                  patch |-> computeListPatch(current.list, next), list |-> <<>>]
        kept == Trim(Append(history, event))
    IN  /\ thread[t].pc = "publish"
        /\ current' = [list |-> next, hash |-> Hash(next), version |-> thread[t].version]
        /\ IF Hash(next) = current.hash
           THEN UNCHANGED <<history, offset>>
           ELSE offset' = kept[1] /\ history' = kept[2]
        /\ holder' = IF holder = t THEN None ELSE holder
        /\ missed' = (missed /\ thread[t].version # version)
        /\ Go(t, AfterRecompute(t))
        /\ UNCHANGED <<db, version, listeners, start, wire, client, left>>

-----------------------------------------------------------------------------
(* Connections.                                                            *)

resetEvent(old) ==
    [reset |-> TRUE, old |-> old, new |-> current.hash, patch |-> <<>>, list |-> current.list]

End == offset + Len(history)

\* Mutant: the client counts as a listener once its events are computed.
ConnectUncounted(k) ==
    /\ thread[k].pc = "rest"
    /\ thread' = [thread EXCEPT ![k].pc = "lock", ![k].hash = client[k].hash]
    /\ UNCHANGED <<db, version, server, listeners, holder, start, wire, client, missed, left>>

\* connect counts the listener before it recomputes.
connect(k) ==
    /\ thread[k].pc = "rest"
    /\ listeners' = listeners + 1
    /\ thread' = [thread EXCEPT ![k].pc = "lock", ![k].hash = client[k].hash]
    /\ UNCHANGED <<db, version, server, holder, start, wire, client, missed, left>>

\* Mutant: the replay begins after the event that starts from the hash.
initialEventsLate(hash) ==
    LET from == {i \in DOMAIN history : history[i].old = hash}
    IN  IF hash # None /\ hash = current.hash THEN <<>>
        ELSE IF hash # None /\ from # {}
        THEN SubSeq(history, (CHOOSE i \in from : \A x \in from : i <= x) + 1, Len(history))
        ELSE <<resetEvent(hash)>>

\* What a client that has hash is sent first: nothing, the events since, or a
\* reset.
initialEventsLocked(hash) ==
    LET from == {i \in DOMAIN history : history[i].old = hash}
    IN  IF hash # None /\ hash = current.hash THEN <<>>
        ELSE IF hash # None /\ from # {}
        THEN SubSeq(history, CHOOSE i \in from : \A x \in from : i <= x, Len(history))
        ELSE <<resetEvent(hash)>>

SendInitial(k) ==
    /\ thread[k].pc = "answer"
    /\ wire' = [wire EXCEPT ![k] = initialEventsLocked(thread[k].hash)]
    /\ start' = [start EXCEPT ![k] = End]
    /\ thread' = [thread EXCEPT ![k] = [AtRest EXCEPT !.pc = "live"]]
    /\ UNCHANGED <<db, version, server, listeners, holder, client, missed, left>>

\* next: an event that is still there, or a reset past the trimmed ones.
SendNext(k) ==
    /\ thread[k].pc = "live"
    /\ \/ /\ start[k] < offset
          /\ wire' = [wire EXCEPT ![k] = Append(@, resetEvent(None))]
          /\ start' = [start EXCEPT ![k] = End]
       \/ /\ start[k] >= offset /\ start[k] < End
          /\ wire' = [wire EXCEPT ![k] = Append(@, history[start[k] - offset + 1])]
          /\ start' = [start EXCEPT ![k] = @ + 1]
    /\ UNCHANGED <<db, version, server, listeners, holder, thread, client, missed, left>>

\* The connection ends; what was on its way is lost and the listener released.
Release(k) ==
    /\ thread[k].pc \in {"answer", "live"}
    /\ Spend("disconnect")
    /\ wire' = [wire EXCEPT ![k] = <<>>]
    /\ listeners' = listeners - 1
    /\ thread' = [thread EXCEPT ![k] = AtRest]
    /\ UNCHANGED <<db, version, server, holder, start, client, missed>>

-----------------------------------------------------------------------------
(* The client: reduceConversationListPatch and loadConversations.          *)

\* The list the event makes of the client's list, if it fits.
reduceConversationListPatch(k, e) ==
    IF e.reset THEN {e.list}
    ELSE IF e.old # client[k].hash THEN {}
    ELSE applyConversationListPatch(client[k].list, e.patch)

\* An event that does not fit makes the client forget its hash and reconnect.
handleConversationListPatch(k) ==
    /\ wire[k] # <<>>
    /\ LET e == Head(wire[k])
           next == reduceConversationListPatch(k, e)
       IN  IF next # {}
           THEN /\ client' = [client EXCEPT ![k] = [list |-> CHOOSE l \in next : TRUE, hash |-> e.new]]
                /\ wire' = [wire EXCEPT ![k] = Tail(@)]
                /\ UNCHANGED <<thread, listeners>>
           ELSE /\ client' = [client EXCEPT ![k].hash = None]
                /\ wire' = [wire EXCEPT ![k] = <<>>]
                /\ thread' = [thread EXCEPT ![k] = AtRest]
                /\ listeners' = listeners - 1
    /\ UNCHANGED <<db, version, server, holder, start, missed, left>>

\* A client that has nothing fetches the snapshot while its stream connects.
FetchSnapshot(k) ==
    /\ thread[Fetch(k)].pc = "rest" /\ client[k].hash = None
    /\ Go(Fetch(k), "lock")
    /\ UNCHANGED <<db, version, server, listeners, holder, start, wire, client, missed, left>>

\* snapshot reads list and hash together, after its recompute.
answerSnapshot(k) ==
    /\ thread[Fetch(k)].pc = "answer"
    /\ thread' = [thread EXCEPT ![Fetch(k)] =
          [@ EXCEPT !.pc = "fetched", !.list = current.list, !.hash = current.hash]]
    /\ UNCHANGED <<db, version, server, listeners, holder, start, wire, client, missed, left>>

\* It is used only while the stream has brought nothing.
loadConversations(k) ==
    /\ thread[Fetch(k)].pc = "fetched"
    /\ client' = IF client[k].hash = None
                 THEN [client EXCEPT ![k] = [list |-> thread[Fetch(k)].list, hash |-> thread[Fetch(k)].hash]]
                 ELSE client
    /\ thread' = [thread EXCEPT ![Fetch(k)] = AtRest]
    /\ UNCHANGED <<db, version, server, listeners, holder, start, wire, missed, left>>

\* The server is restarted: nothing of the stream outlives it but an answer a
\* client already has.
Restart ==
    /\ Spend("fault")
    /\ current' = Unknown /\ history' = <<>> /\ offset' = 0
    /\ listeners' = 0 /\ holder' = None
    /\ thread' = [t \in Threads |-> IF thread[t].pc = "fetched" THEN thread[t] ELSE AtRest]
    /\ wire' = [k \in Browsers |-> <<>>]
    /\ missed' = FALSE
    /\ UNCHANGED <<db, version, start, client>>

-----------------------------------------------------------------------------
ThreadStep(t) == Read(t) \/ Publish(t)

ClientStep(k) ==
    \/ connect(k) \/ SendInitial(k) \/ SendNext(k)
    \/ answerSnapshot(k) \/ loadConversations(k)

ListNext ==
    \/ \E w \in Writers : notify(w) \/ \E list \in Lists : CommitTx(w, list)
    \/ \E t \in Threads : ThreadStep(t) \/ ReadFails(t)
    \/ \E k \in Browsers :
          ClientStep(k) \/ handleConversationListPatch(k) \/ FetchSnapshot(k) \/ Release(k)
    \/ Restart

ListSpec == ListInit /\ [][ListNext]_listVars

\* Goroutines run, clients reconnect and read what they are sent.
ListFairSpec ==
    /\ ListSpec
    /\ \A w \in Writers : WF_listVars(notify(w))
    /\ \A t \in Threads : SF_listVars(ThreadStep(t))
    /\ \A k \in Browsers : WF_listVars(ClientStep(k)) /\ WF_listVars(handleConversationListPatch(k))

-----------------------------------------------------------------------------
(* Properties.                                                             *)

Hashes == {Hash(l) : l \in Lists} \cup {None}

\* Every variable has its type.
ListTypeOK ==
    /\ db \in Lists /\ version \in Nat /\ offset \in Nat /\ listeners \in 0..Cardinality(Browsers)
    /\ current \in [list : Lists \cup {<<>>}, hash : Hashes, version : Nat]
    /\ Len(history) <= HistoryLimit
    /\ holder \in Threads \cup {None}
    /\ thread \in [Threads -> [pc : {"rest", "notify", "lock", "publish", "answer", "live", "fetched"},
                               list : Lists \cup {<<>>}, hash : Hashes, version : Nat]]
    /\ start \in [Browsers -> Nat]
    /\ missed \in BOOLEAN /\ left \in [Events -> Nat]

\* "The two MUST advance together": the list a client shows is the one its hash
\* stands for, after any mixture of patches, replays, resets and snapshots.
ListIsItsHash ==
    \A k \in Browsers : client[k].hash # None => client[k].hash = Hash(client[k].list)

\* The events of a connection form a chain the client can follow: it never has
\* to give up its hash and reconnect, however far it lagged or long it was away.
PatchesChain == [][\A k \in Browsers : client[k].hash # None => client'[k].hash # None]_listVars

\* A client that stays connected has in the end the list of the database,
\* unless the recompute of the last commit failed.
CatchesUp ==
    \A k \in Browsers :
        []<>(client[k].hash = Hash(db) \/ missed)

=============================================================================
