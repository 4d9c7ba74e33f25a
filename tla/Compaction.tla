----------------------------- MODULE Compaction -----------------------------
(***************************************************************************)
(* In-place compaction of one conversation.  The transcript is append-only *)
(* and holds compaction records among its rows; what the model sees is the *)
(* transcript with every record applied in order.  The agent compacts its  *)
(* own context in the middle of a turn, the running loop picks the result  *)
(* up before its next request, and a timer starts a turn for nothing else  *)
(* when the conversation has been idle.  RequestProofs extends this module *)
(* and ToolBatch: no name is in both.                                      *)
(***************************************************************************)
EXTENDS Integers, Sequences, FiniteSets, FiniteSetsExt

CONSTANTS
    KeepRecent,   \* tokens of the newest history that stay as they are
    MaxCollapse,  \* most tokens that one collapse of several rows replaces
    MinGrowth,    \* growth of the compactable part before another idle compaction
    ToolSets,     \* sets of tools that one response may call
    MaxRanges,    \* collapses in one request
    Limits        \* how often each event may happen

\* Nudges, stops, debug records, restarts and failed writes share one budget.
Events == {"send", "round", "record", "idle", "other"}

ASSUME CompactionAssumption ==
    /\ {KeepRecent, MaxCollapse, MinGrowth, MaxRanges} \subseteq Nat
    /\ ToolSets \subseteq (SUBSET {"work", "compact"}) \ {{}}
    /\ Limits \in [Events -> Nat]

VARIABLES
    rows,            \* the context rows; the index is the sequence id
    queue,           \* number of queued messages (queued_messages, all injectable)
    live,            \* {the installed loop's history}, or {} without a loop
    turn,            \* "rest", "ask", "wait", "tools" or "stopped"
    todo,            \* calls of compact_in_place in the running batch that have no result yet
    endsTurn,        \* a result of the running batch ends the turn
    gen,             \* cm.loopGeneration
    compactedGen,    \* cm.compactedGeneration
    working,         \* cm.agentWorking
    tearing,         \* cm.cancelling and cm.loopTearingDown
    idleCompacting,  \* cm.idleCompacting
    idleCompactedAt, \* cm.idleCompactedAt
    timer,           \* callbacks of the idle timer: "armed", "fired" (and current), "stale"
    arrived,         \* a request that has cancelled idle work and waits for the lock
    lock,            \* how far the holder of loopLifecycleMu is
    joined,          \* history: the running turn took a user message
    activity,        \* history: a request came since the last idle compaction
    left             \* what remains of Limits

manager == <<live, gen, compactedGen, tearing>>
idle == <<idleCompacting, idleCompactedAt, timer>>
openBatch == <<todo, endsTurn>>
compactionVars ==
    <<rows, queue, turn, openBatch, manager, working, idle, arrived, lock, joined, activity, left>>

Spend(e) == left[e] > 0 /\ left' = [left EXCEPT ![e] = @ - 1]

-----------------------------------------------------------------------------
(* The view: items, each standing for a span of rows.                      *)

Row(type, uses, results) == [type |-> type, uses |-> uses, results |-> results]

contextItem(k, row) ==
    [from |-> k, to |-> k, type |-> row.type, uses |-> row.uses, results |-> row.results,
     cut |-> {}]

Note(from, to) ==
    [from |-> from, to |-> to, type |-> "note", uses |-> {}, results |-> {}, cut |-> {}]

Original(item) == item.type # "note"

IDs(items, field) == UNION {items[k][field] : k \in DOMAIN items}

\* A trim names a row and a call; both must be in the view.
Trimmed(items, trims) ==
    IF \A t \in trims : \E k \in DOMAIN items :
           Original(items[k]) /\ items[k].from = t[1] /\ t[2] \in items[k].results
    THEN {[k \in DOMAIN items |->
             [items[k] EXCEPT !.cut = @ \cup {t[2] : t \in {u \in trims : u[1] = items[k].from}}]]}
    ELSE {}

\* A range becomes a note if items begin and end with it, unless that would
\* part an output from its call.
Squish(items, range) ==
    LET ends == {p \in (DOMAIN items) \X (DOMAIN items) :
                   /\ items[p[1]].from = range[1] /\ items[p[2]].to = range[2] /\ p[1] <= p[2]
                   /\ items[p[1]].results = {} /\ items[p[2]].uses = {}}
    IN  {SubSeq(items, 1, p[1] - 1) \o <<Note(range[1], range[2])>>
           \o SubSeq(items, p[2] + 1, Len(items)) : p \in ends}

\* The items at these places.
Kept(items, places) ==
    LET part[n \in 0 .. Len(items)] ==
            IF n = 0 THEN <<>>
            ELSE IF n \in places THEN Append(part[n - 1], items[n]) ELSE part[n - 1]
    IN  part[Len(items)]

Lacking(item, ids) == [item EXCEPT !.uses = @ \ ids, !.results = @ \ ids]

Emptied(item, ids) == item.uses \cup item.results # {} /\ item.uses \cup item.results \subseteq ids

\* Without some calls and their results; a message that only had those goes.
Without(items, ids) ==
    LET kept == Kept(items, {k \in DOMAIN items : ~Emptied(items[k], ids)})
    IN  [k \in DOMAIN kept |-> Lacking(kept[k], ids)]

\* Mutant: a call is hidden and its result stays.
HideCallOnly(items, seqs, ids) ==
    LET kept == Kept(items, {k \in DOMAIN items :
                               /\ items[k].from \notin seqs
                               /\ ~(items[k].uses # {} /\ items[k].uses \subseteq ids)})
    IN  {[k \in DOMAIN kept |-> [kept[k] EXCEPT !.uses = @ \ ids]]}

hideItems(items, seqs, ids) ==
    LET kept == Kept(items, {k \in DOMAIN items : ~(Original(items[k]) /\ items[k].from \in seqs)})
    IN  IF /\ \A s \in seqs : \E k \in DOMAIN items : Original(items[k]) /\ items[k].from = s
           /\ \A id \in ids :
                Cardinality({k \in DOMAIN kept : id \in kept[k].uses \cup kept[k].results}) = 2
        THEN {Without(kept, ids)}
        ELSE {}

Squished(views, range) == UNION {Squish(v, range) : v \in views}

\* The view after record c; no view when c does not apply.
applyInPlaceCompaction(items, c) ==
    LET squished[n \in 0 .. Len(c.squishes)] ==
            IF n = 0 THEN Trimmed(items, c.trims)
            ELSE Squished(squished[n - 1], c.squishes[n])
    IN  UNION {hideItems(v, c.hiddenSeqs, c.hiddenIDs) : v \in squished[Len(c.squishes)]}

\* The views once row k has been added.
Viewed(views, k, row) ==
    UNION {IF row.type = "record" THEN applyInPlaceCompaction(v, row.record)
           ELSE {Append(v, contextItem(k, row))} : v \in views}

\* What the model sees of a transcript; no view when some record does not apply.
compactedContext(rs) ==
    LET views[k \in 0 .. Len(rs)] == IF k = 0 THEN {<<>>} ELSE Viewed(views[k - 1], k, rs[k])
    IN  views[Len(rs)]

-----------------------------------------------------------------------------
(* What the agent may compact.                                             *)

\* Calls are <<row, tool>>.
Compacts(id) == id[2] # "work"

compactionEvidence(items) ==
    [seqs |-> {items[k].from : k \in {j \in DOMAIN items : items[j].type \in {"nudge", "idle"}}},
     ids  |-> {id \in IDs(items, "uses") : Compacts(id) /\ id \in IDs(items, "results")}]

\* Without the evidence of compacting, and without the call now running.
compactionView(items) ==
    LET e == compactionEvidence(items)
    IN  {Without(v, {id \in IDs(v, "uses") : Compacts(id)}) : v \in hideItems(items, e.seqs, e.ids)}

\* An untrimmed output weighs one more than what replaces it.
Tokens(item) == 1 + Cardinality(item.results \ item.cut)

TokensOf(items, i, j) ==
    LET sum[k \in i - 1 .. j] == IF k < i THEN 0 ELSE Tokens(items[k]) + sum[k - 1] IN sum[j]

\* The first item of the recent part, which never starts at an output.
recentStart(items) ==
    LET cuts == {k \in DOMAIN items : items[k].results = {}}
        full == {i \in DOMAIN items : TokensOf(items, i, Len(items)) >= KeepRecent}
        after == {k \in cuts : full # {} => k >= Max(full)}
    IN  IF cuts = {} THEN 1 ELSE IF after = {} THEN Max(cuts) ELSE Min(after)

compactableTokens(items) ==
    LET v == CHOOSE w \in compactionView(items) : TRUE IN TokensOf(v, 1, recentStart(v) - 1)

\* splitRows: a message with calls shares a row with the outputs that follow it.
RowEnd(v, k) ==
    IF k < Len(v) /\ v[k].uses # {} /\ v[k + 1].results # {} THEN k + 1 ELSE k

RowStarts(v) == DOMAIN v \ {RowEnd(v, k) : k \in {j \in DOMAIN v : RowEnd(v, j) = j + 1}}

rowTrims(v, k) ==
    UNION {{<<v[m].from, id>> : id \in v[m].results \ v[m].cut} : m \in k .. RowEnd(v, k)}

\* The ranges of rows that may become a note (which weighs one token).
Collapsible(v) ==
    LET tokens(r) == TokensOf(v, r[1], RowEnd(v, r[2]))
    IN  {r \in RowStarts(v) \X RowStarts(v) :
           /\ r[1] <= r[2] /\ r[2] < recentStart(v)
           /\ v[r[1]].results = {}                \* orphanOutput
           /\ v[RowEnd(v, r[2])].uses = {}        \* orphanCall
           /\ tokens(r) > 1
           /\ r[1] # r[2] => tokens(r) <= MaxCollapse}

\* The requests that validate: rows to trim and disjoint ranges to collapse, in
\* the order in which they are recorded, or neither, which is a skip.
Requests(v) ==
    [trim : SUBSET {k \in RowStarts(v) : k < recentStart(v) /\ rowTrims(v, k) # {}},
     collapse : {rs \in UNION {[1 .. n -> Collapsible(v)] : n \in 0 .. MaxRanges} :
                   \A i, j \in DOMAIN rs : i < j => rs[i][2] < rs[j][1]}]

buildCompaction(v, in) ==
    [trims      |-> UNION {rowTrims(v, k) : k \in in.trim},
     squishes   |-> [n \in DOMAIN in.collapse |->
                       <<v[in.collapse[n][1]].from, v[RowEnd(v, in.collapse[n][2])].to>>],
     hiddenSeqs |-> {},
     hiddenIDs  |-> {}]

\* With the evidence that is left once the rest of c has been applied.
WithEvidence(items, c) ==
    {LET e == compactionEvidence(after) IN [c EXCEPT !.hiddenSeqs = e.seqs, !.hiddenIDs = e.ids] :
       after \in applyInPlaceCompaction(items, c)}

RecordRow(c) == [type |-> "record", uses |-> {}, results |-> {}, record |-> c]

-----------------------------------------------------------------------------
CompactionInit ==
    /\ rows = <<>> /\ queue = 0
    /\ live = {} /\ turn = "rest" /\ todo = {} /\ endsTurn = FALSE
    /\ gen = 1 /\ compactedGen = 0 /\ working = FALSE /\ tearing = FALSE
    /\ idleCompacting = FALSE /\ idleCompactedAt = 0 /\ timer = {}
    /\ arrived = "none" /\ lock = "free" /\ joined = FALSE /\ activity = TRUE
    /\ left = Limits

Free == lock = "free" /\ ~tearing

\* Mutant: the timer is stopped, the mark of the running turn stays.
CancelTimerOnly ==
    /\ timer' = IF timer \cap {"fired", "stale"} = {} THEN {} ELSE {"stale"}
    /\ UNCHANGED <<idleCompacting, idleCompactedAt>>

\* cancelIdleCompactionLocked: a callback that has fired keeps an old version.
cancelIdleCompaction ==
    /\ idleCompacting' = FALSE
    /\ timer' = IF timer \cap {"fired", "stale"} = {} THEN {} ELSE {"stale"}
    /\ UNCHANGED idleCompactedAt

\* Append new rows to the transcript and to a loop's history.
Extend(history, new) ==
    /\ rows' = rows \o new
    /\ live' = {h \o [k \in DOMAIN new |-> contextItem(Len(rows) + k, new[k])] : h \in history}

\* ensureLoopLocked: a new loop starts from the rows.
ensureLoop == IF live = {} THEN compactedContext(rows) ELSE live
BuildsLoop == gen' = IF live = {} THEN gen + 1 ELSE gen

UserRow == Row("user", {}, {})

\* The write of a user message marks the agent working, which cancels idle work.
StartTurn ==
    /\ Extend(ensureLoop, <<UserRow>>)
    /\ BuildsLoop
    /\ turn' = "ask" /\ working' = TRUE /\ joined' = TRUE
    /\ cancelIdleCompaction
    /\ UNCHANGED <<openBatch, compactedGen, tearing, lock>>

-----------------------------------------------------------------------------
(* Requests: they cancel idle work first and take the lock afterwards.     *)

Arrive(what) ==
    /\ arrived = "none" /\ arrived' = what
    /\ Spend(IF what = "send" THEN what ELSE "other")
    /\ activity' = TRUE /\ cancelIdleCompaction
    /\ UNCHANGED <<rows, queue, turn, openBatch, manager, working, lock, joined>>

AcceptUserMessage ==
    /\ arrived = "send" /\ Free
    /\ arrived' = "none" /\ activity' = TRUE
    /\ \/ ~working /\ StartTurn /\ UNCHANGED queue
       \/ /\ working /\ queue' = queue + 1
          /\ UNCHANGED <<rows, turn, openBatch, manager, working, idle, lock, joined>>
    /\ UNCHANGED left

CancelConversation ==
    /\ arrived = "stop" /\ Free
    /\ arrived' = "none" /\ activity' = TRUE /\ queue' = 0
    /\ \/ live = {} /\ working' = FALSE /\ UNCHANGED <<turn, gen, tearing>>
       \/ /\ live # {} /\ tearing' = TRUE /\ gen' = gen + 1
          /\ turn' = IF turn = "tools" THEN turn ELSE "stopped"
          /\ UNCHANGED working
    /\ UNCHANGED <<rows, openBatch, live, compactedGen, idle, lock, joined, left>>

\* The loop is gone; the cancelled turn gets its end row and arms nothing.
TeardownRecords ==
    /\ turn = "stopped" /\ lock = "free"
    /\ rows' = Append(rows, Row("agent", {}, {}))
    /\ live' = {} /\ turn' = "rest" /\ working' = FALSE /\ tearing' = FALSE
    /\ todo' = {} /\ endsTurn' = FALSE
    /\ UNCHANGED <<queue, gen, compactedGen, idle, arrived, lock, joined, left, activity>>

\* RecordInPlaceCompaction, for any range that applies; it drops the loop.
RecordInPlaceCompaction ==
    /\ arrived = "debug" /\ Free
    /\ arrived' = "none" /\ activity' = TRUE
    /\ \/ working /\ UNCHANGED <<rows, live, gen>>
       \/ /\ ~working
          /\ \E items \in compactedContext(rows) : \E i, j \in DOMAIN items :
               LET c == [trims |-> {}, squishes |-> <<<<items[i].from, items[j].to>>>>,
                         hiddenSeqs |-> {}, hiddenIDs |-> {}]
               IN  /\ applyInPlaceCompaction(items, c) # {}
                   /\ rows' = Append(rows, RecordRow(c))
          /\ live' = {} /\ gen' = IF live = {} THEN gen ELSE gen + 1
       \/ ~working /\ UNCHANGED <<rows, live, gen>>
    /\ UNCHANGED <<queue, turn, openBatch, compactedGen, tearing, working, idle, lock, joined, left>>

\* The queue of an idle conversation: its head starts a turn, which takes the rest.
DrainPendingMessages ==
    /\ queue > 0 /\ ~working /\ Free
    /\ queue' = queue - 1
    /\ StartTurn
    /\ UNCHANGED <<arrived, left, activity>>

-----------------------------------------------------------------------------
(* The loop.                                                               *)

\* Mutant: the record is expected of the generation before.
CompactedBefore == compactedGen = gen - 1

\* This loop's turn recorded a compaction that its history lacks.
compacted == compactedGen = gen

\* Before every request: pick up a compaction, then the queue, then a nudge.
takeInjectable(nudge) ==
    LET users == [k \in 1 .. queue |-> UserRow]
    IN  /\ turn = "ask" /\ Free
        /\ nudge => Spend("other") /\ ~compacted /\ (queue > 0 \/ ~idleCompacting)
        /\ ~nudge => UNCHANGED left
        /\ Extend(IF compacted THEN compactedContext(rows) ELSE live,
                  users \o (IF nudge THEN <<Row("nudge", {}, {})>> ELSE <<>>))
        /\ compactedGen' = IF compacted THEN 0 ELSE compactedGen
        /\ IF queue > 0 THEN cancelIdleCompaction /\ joined' = TRUE
                        ELSE UNCHANGED <<idle, joined>>
        /\ queue' = 0 /\ turn' = "wait"
        /\ UNCHANGED <<openBatch, gen, tearing, working, arrived, lock, activity>>

\* A response with calls.
CallTools ==
    /\ turn = "wait" /\ ~tearing
    /\ Spend("round")
    /\ \E tools \in ToolSets :
         LET calls == {<<Len(rows) + 1, t>> : t \in tools}
         IN  Extend(live, <<Row("agent", calls, {})>>) /\ todo' = {id \in calls : Compacts(id)}
    /\ turn' = "tools" /\ endsTurn' = FALSE
    /\ UNCHANGED <<queue, gen, compactedGen, tearing, working, idle, arrived, lock, joined, activity>>

\* The end of a turn arms one compaction, unless the turn was one itself.
scheduleIdleWork ==
    \/ idleCompacting /\ idleCompacting' = FALSE /\ UNCHANGED <<idleCompactedAt, timer>>
    \/ /\ ~idleCompacting
       /\ timer' = {"armed"} \cup (IF timer \cap {"fired", "stale"} = {} THEN {} ELSE {"stale"})
       /\ UNCHANGED <<idleCompacting, idleCompactedAt>>

EndTurn ==
    /\ turn = "wait" /\ ~tearing
    /\ Extend(live, <<Row("agent", {}, {})>>)
    /\ turn' = "rest" /\ working' = FALSE
    /\ scheduleIdleWork
    /\ UNCHANGED <<queue, openBatch, gen, compactedGen, tearing, arrived, lock, joined, left, activity>>

\* compact_in_place changes nothing when it lists the index, refuses the
\* request, or finds its loop being stopped.
CallReturns(id) ==
    /\ turn = "tools" /\ id \in todo
    /\ todo' = todo \ {id}
    /\ UNCHANGED <<rows, queue, turn, endsTurn, manager, working, idle, arrived, lock, joined, left, activity>>

\* A skip with no evidence to drop records nothing.
Skips(in, c) == in.trim = {} /\ in.collapse = <<>> /\ c.hiddenSeqs = {} /\ c.hiddenIDs = {}

\* Mutant: the evidence is taken before the collapses, and not checked again.
CompactUnchecked(id, items, v, in) ==
    LET e == compactionEvidence(items)
        c == [buildCompaction(v, in) EXCEPT !.hiddenSeqs = e.seqs, !.hiddenIDs = e.ids]
    IN  /\ turn = "tools" /\ id \in todo /\ Free
        /\ Spend("record")
        /\ rows' = Append(rows, RecordRow(c)) /\ compactedGen' = gen
        /\ todo' = todo \ {id} /\ endsTurn' = (endsTurn \/ idleCompacting)
        /\ UNCHANGED <<queue, turn, live, gen, tearing, working, idle, arrived, lock, joined, activity>>

compactMidTurn(id, items, v, in) ==
    /\ turn = "tools" /\ id \in todo /\ Free
    /\ todo' = todo \ {id}
    /\ endsTurn' = (endsTurn \/ idleCompacting)
    /\ \E c \in WithEvidence(items, buildCompaction(v, in)) : \E after \in applyInPlaceCompaction(items, c) :
         \/ /\ Skips(in, c)
            /\ UNCHANGED <<rows, compactedGen, idleCompactedAt, left>>
         \/ /\ ~Skips(in, c)
            /\ Spend("record")
            /\ rows' = Append(rows, RecordRow(c))
            /\ compactedGen' = gen
            /\ idleCompactedAt' = IF idleCompacting THEN compactableTokens(after) ELSE idleCompactedAt
    /\ UNCHANGED <<queue, turn, live, gen, tearing, working, idleCompacting, timer, arrived, lock, joined, activity>>

CompactCall ==
    \E id \in todo, items \in compactedContext(rows) : \E v \in compactionView(items) :
        \E in \in Requests(v) : compactMidTurn(id, items, v, in)

\* The calls that have no results: those of the running batch.
OpenCalls(rs) == IDs(rs, "uses") \ IDs(rs, "results")

\* The results of the batch, and what follows them.
RecordResults ==
    /\ turn = "tools" /\ todo = {}
    /\ Extend(live, <<Row("results", {}, OpenCalls(rows))>>)
    /\ endsTurn' = FALSE
    /\ \/ tearing /\ turn' = "stopped" /\ UNCHANGED <<working, idle>>
       \/ /\ ~tearing /\ endsTurn /\ turn' = "rest" /\ working' = FALSE
          /\ scheduleIdleWork
       \/ ~tearing /\ ~endsTurn /\ turn' = "ask" /\ UNCHANGED <<working, idle>>
    /\ UNCHANGED <<queue, todo, gen, compactedGen, tearing, arrived, lock, joined, left, activity>>

-----------------------------------------------------------------------------
(* The idle timer.                                                         *)

Fire ==
    /\ "armed" \in timer
    /\ Spend("idle")
    /\ timer' = (timer \ {"armed"}) \cup {"fired"}
    /\ UNCHANGED <<rows, queue, turn, openBatch, manager, working, idleCompacting, idleCompactedAt,
                   arrived, lock, joined, activity>>

Growth == \E items \in compactedContext(rows) : compactableTokens(items) >= idleCompactedAt + MinGrowth

claimIdleCompaction(callback) ==
    callback = "fired" /\ ~working /\ ~tearing /\ queue = 0 /\ Growth

\* compactIdleConversation, up to the claim.
CallbackRuns(callback) ==
    /\ callback \in timer \cap {"fired", "stale"} /\ lock = "free"
    /\ timer' = timer \ {callback}
    /\ \/ /\ claimIdleCompaction(callback)
          /\ lock' = "claimed"
          /\ \E items \in compactedContext(rows) : idleCompactedAt' = compactableTokens(items)
          /\ idleCompacting' = FALSE
       \/ ~claimIdleCompaction(callback) /\ UNCHANGED <<lock, idleCompacting, idleCompactedAt>>
    /\ UNCHANGED <<rows, queue, turn, openBatch, manager, working, arrived, joined, left, activity>>

\* A request may have cancelled idle work since the claim.
StartIdle ==
    /\ lock = "claimed" /\ lock' = "started"
    /\ live' = ensureLoop /\ BuildsLoop
    /\ working' = TRUE /\ idleCompacting' = TRUE /\ joined' = FALSE /\ activity' = FALSE
    /\ UNCHANGED <<rows, queue, turn, openBatch, compactedGen, tearing, idleCompactedAt, timer, arrived, left>>

\* No model service or no loop: the attempt is spent.
IdleUnavailable ==
    /\ lock = "claimed" /\ lock' = "free"
    /\ Spend("other")
    /\ UNCHANGED <<rows, queue, turn, openBatch, manager, working, idle, arrived, joined, activity>>

NudgeIdle ==
    /\ lock = "started" /\ lock' = "free"
    /\ \/ Extend(live, <<Row("idle", {}, {})>>) /\ turn' = "ask" /\ UNCHANGED <<working, left>>
       \/ Spend("other") /\ working' = FALSE /\ UNCHANGED <<rows, live, turn>>
    /\ UNCHANGED <<queue, openBatch, gen, compactedGen, tearing, idle, arrived, joined, activity>>

\* The process dies; the next one closes the calls the turn left open.
Restart ==
    /\ Spend("other")
    /\ rows' = IF OpenCalls(rows) = {} THEN rows
               ELSE Append(rows, Row("results", {}, OpenCalls(rows)))
    /\ live' = {} /\ turn' = "rest" /\ todo' = {} /\ endsTurn' = FALSE
    /\ gen' = 1 /\ compactedGen' = 0 /\ working' = FALSE /\ tearing' = FALSE
    /\ idleCompacting' = FALSE /\ idleCompactedAt' = 0 /\ timer' = {}
    /\ arrived' = "none" /\ lock' = "free" /\ joined' = FALSE
    /\ UNCHANGED <<queue, activity>>

CompactionNext ==
    \/ \E what \in {"send", "stop", "debug"} : Arrive(what)
    \/ AcceptUserMessage \/ CancelConversation \/ TeardownRecords
    \/ RecordInPlaceCompaction \/ DrainPendingMessages
    \/ \E nudge \in BOOLEAN : takeInjectable(nudge)
    \/ CallTools \/ EndTurn \/ CompactCall \/ RecordResults
    \/ \E id \in todo : CallReturns(id)
    \/ Fire \/ StartIdle \/ IdleUnavailable \/ NudgeIdle
    \/ \E callback \in {"fired", "stale"} : CallbackRuns(callback)
    \/ Restart

CompactionSpec == CompactionInit /\ [][CompactionNext]_compactionVars

-----------------------------------------------------------------------------
(* Properties.                                                             *)

\* Every record in the transcript still applies when the context is rebuilt,
\* whatever rows and records came since it was validated (one that does not
\* would fail every later turn), and compaction forgets nothing but its own
\* traces: every other row is in view with all its calls or outputs, or in the
\* span of exactly one note.
NothingForgotten ==
    \E v \in compactedContext(rows) : \A k \in DOMAIN rows :
        LET Others(ids) == {id \in ids : ~Compacts(id)}
            ids == rows[k].uses \cup rows[k].results
            covers == {m \in DOMAIN v : v[m].from <= k /\ k <= v[m].to}
        IN  \/ rows[k].type \in {"record", "nudge", "idle"}
            \/ ids # {} /\ Others(ids) = {}
            \/ /\ Cardinality(covers) = 1
               /\ \A m \in covers : Original(v[m]) => Others(v[m].uses \cup v[m].results) = Others(ids)

\* No collapse, trim or hidden call separates a call from its output in what
\* the model sees: outputs come right after the message that made the calls,
\* and only the batch now running has none.
PairsKept ==
    \A v \in compactedContext(rows) : \A k \in DOMAIN v :
        /\ v[k].results # {} => k > 1 /\ v[k - 1].uses = v[k].results
        /\ v[k].uses # {} => IF k = Len(v) THEN turn = "tools" ELSE v[k + 1].results = v[k].uses

\* Every request sends what a rebuild from the database would give: a
\* compaction recorded in the turn, or in an idle turn that ended on it, is
\* picked up before the next request, and no other loop's is.
LiveIsRebuilt == turn = "wait" => live = compactedContext(rows)

\* An idle compaction is one attempt and the server's own: it is not claimed
\* again until somebody uses the conversation, however its turn ended and
\* however late a callback is; and a turn that took a user message is none, so
\* compact_in_place does not end it unanswered, although the message may come
\* between the claim and the mark.
IdleTurnIsOwn ==
    /\ lock = "claimed" => activity
    /\ turn # "rest" /\ joined => ~idleCompacting /\ ~endsTurn
=============================================================================
