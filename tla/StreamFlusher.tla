--------------------------- MODULE StreamFlusher ----------------------------
(***************************************************************************)
(* The stream flusher (server/stream_flusher.go) of one conversation: how  *)
(* the partial text of a model response is buffered, coalesced, numbered   *)
(* and broadcast.                                                          *)
(*                                                                         *)
(* Concurrent actors: the goroutine of each loop (it pushes, flushes when  *)
(* the response is complete, then has the message recorded), the timer     *)
(* callbacks, and whoever cancels or replaces the loop.  A critical        *)
(* section of sf.mu is one step; flush gives the mutex up before it asks   *)
(* shouldPublish and before each broadcast.                                *)
(***************************************************************************)
EXTENDS Integers, Sequences, FiniteSets

CONSTANTS Types,        \* StreamDelta.Type and Index, as one value
          Text,         \* bound: the types of the pieces the model streams
          MaxGen,       \* bound: loops of the conversation
          MaxMessages   \* bound: messages recorded

ASSUME MaxGenAssumption == MaxGen \in Nat
ASSUME TextAssumption == Text \in Seq(Types)
ASSUME MaxMessagesAssumption == MaxMessages \in Nat

Gens == 1..MaxGen
Pieces == DOMAIN Text
Hubs == {"conversation", "server"}   \* cm.subpub and cm.streamPub

VARIABLES
  \* The manager.
  current,          \* the generation isCurrentLoopGeneration accepts, or 0
  streamDeltaSeq,
  pc,               \* per loop: where its goroutine is
  \* Per loop, its streamFlusher.
  buf, running,
  timer,            \* an armed timer is pending
  fired,            \* callbacks that have started and not taken sf.mu yet
  \* flush calls that have released sf.mu: the deltas they took.
  flights,
  out,              \* per hub: the deltas and messages broadcast, in order
  \* Bookkeeping of the model.
  pushed,           \* the loops that pushed the pieces, each known by its number
  messages,         \* messages recorded so far
  replaced          \* generations that were cancelled or replaced

flusherVars == <<buf, running, timer, fired>>
vars == <<current, streamDeltaSeq, pc, flusherVars, flights, out, pushed, messages,
          replaced>>

(* A delta's text is the sequence of the pieces that were coalesced.       *)
Deltas == [type : Types, text : Seq(Pieces)]
Numbered == [type : Types, text : Seq(Pieces), seq : Nat]
Message(n) == [message |-> n]     \* it replaces the pieces up to n
IsDelta(e) == "seq" \in DOMAIN e

Flights == [gen : Gens, by : {"loop", "timer"}, at : {"check", "send"},
            deltas : Seq(Numbered), left : Seq(Numbered)]

TypeOK ==
  /\ current \in Gens \cup {0}
  /\ streamDeltaSeq \in Nat
  /\ pc \in [Gens -> {"none", "idle", "stream", "flush", "dead"}]
  /\ buf \in [Gens -> Seq(Deltas)]
  /\ running \in [Gens -> BOOLEAN]
  /\ timer \in [Gens -> BOOLEAN]
  /\ fired \in [Gens -> Nat]
  /\ flights \subseteq Flights
  /\ out \in [Hubs -> Seq(Numbered \cup [message : Nat])]
  /\ pushed \in Seq(Gens) /\ Len(pushed) <= Len(Text)
  /\ messages \in 0..MaxMessages
  /\ replaced \subseteq Gens

Init ==
  /\ current = 0
  /\ streamDeltaSeq = 0
  /\ pc = [g \in Gens |-> "none"]
  /\ buf = [g \in Gens |-> <<>>]
  /\ running = [g \in Gens |-> FALSE]
  /\ timer = [g \in Gens |-> FALSE]
  /\ fired = [g \in Gens |-> 0]
  /\ flights = {}
  /\ out = [h \in Hubs |-> <<>>]
  /\ pushed = <<>> /\ messages = 0 /\ replaced = {}

-----------------------------------------------------------------------------
(* ensureLoopLocked: a loop and its flusher, once the loop before it is    *)
(* gone (see OneLoop of Conversation).                                     *)
NewLoop(g) ==
  /\ current = 0 /\ pc[g] = "none"
  /\ \A h \in Gens : h < g => pc[h] = "dead"
  /\ current' = g
  /\ pc' = [pc EXCEPT ![g] = "idle"]
  /\ UNCHANGED <<streamDeltaSeq, flusherVars, flights, out, pushed, messages, replaced>>

(* detachLoopLocked: a cancellation, a reset, a fatal exit.                *)
Detach ==
  /\ current # 0
  /\ replaced' = replaced \cup {current}
  /\ current' = 0
  /\ UNCHANGED <<streamDeltaSeq, pc, flusherVars, flights, out, pushed, messages>>

(* run: a model request starts.                                            *)
Request(g) ==
  /\ pc[g] = "idle"
  /\ Len(pushed) < Len(Text)
  /\ pc' = [pc EXCEPT ![g] = "stream"]
  /\ UNCHANGED <<current, streamDeltaSeq, flusherVars, flights, out, pushed, messages,
                 replaced>>

(* Push: adjacent deltas of one type and index become one.                 *)
Coalesce(b, type, piece) ==
  IF b # <<>> /\ b[Len(b)].type = type
  THEN [b EXCEPT ![Len(b)].text = Append(@, piece)]
  ELSE Append(b, [type |-> type, text |-> <<piece>>])

(* The first delta of a batch arms the timer.                              *)
Push(g) ==
  /\ pc[g] = "stream" /\ Len(pushed) < Len(Text)
  /\ pushed' = Append(pushed, g)
  /\ buf' = [buf EXCEPT ![g] = Coalesce(@, Text[Len(pushed) + 1], Len(pushed) + 1)]
  /\ running' = [running EXCEPT ![g] = TRUE]
  /\ timer' = [timer EXCEPT ![g] = @ \/ ~running[g]]
  /\ UNCHANGED <<current, streamDeltaSeq, pc, fired, flights, out, messages, replaced>>

(* The interval has passed: the callback's goroutine starts.               *)
Fire(g) ==
  /\ timer[g]
  /\ timer' = [timer EXCEPT ![g] = FALSE]
  /\ fired' = [fired EXCEPT ![g] = @ + 1]
  /\ UNCHANGED <<current, streamDeltaSeq, pc, buf, running, flights, out, pushed,
                 messages, replaced>>

(* The deltas of a batch with the sequence numbers after n.                *)
Number(deltas, n) ==
  [k \in DOMAIN deltas |->
     [type |-> deltas[k].type, text |-> deltas[k].text, seq |-> n + k]]

(* Mutant: the flag stays up, so that no timer is armed again.             *)
TakeStuck(g, by) ==
  /\ buf' = [buf EXCEPT ![g] = <<>>]
  /\ timer' = [timer EXCEPT ![g] = FALSE]
  /\ streamDeltaSeq' = streamDeltaSeq + Len(buf[g])
  /\ flights' = IF buf[g] = <<>> THEN flights
                ELSE LET deltas == Number(buf[g], streamDeltaSeq)
                     IN  flights \cup {[gen |-> g, by |-> by, at |-> "check",
                                        deltas |-> deltas, left |-> deltas]}
  /\ UNCHANGED running

(* Mutant: the buffer is copied and not emptied.                           *)
TakeCopy(g, by) ==
  /\ running' = [running EXCEPT ![g] = FALSE]
  /\ timer' = [timer EXCEPT ![g] = FALSE]
  /\ streamDeltaSeq' = streamDeltaSeq + Len(buf[g])
  /\ flights' = IF buf[g] = <<>> THEN flights
                ELSE LET deltas == Number(buf[g], streamDeltaSeq)
                     IN  flights \cup {[gen |-> g, by |-> by, at |-> "check",
                                        deltas |-> deltas, left |-> deltas]}
  /\ UNCHANGED buf

(* flush, under sf.mu: take the buffer, stop the timer (a callback that    *)
(* has started is not stopped), number the deltas.                         *)
Take(g, by) ==
  /\ buf' = [buf EXCEPT ![g] = <<>>]
  /\ running' = [running EXCEPT ![g] = FALSE]
  /\ timer' = [timer EXCEPT ![g] = FALSE]
  /\ streamDeltaSeq' = streamDeltaSeq + Len(buf[g])
  /\ flights' = IF buf[g] = <<>> THEN flights
                ELSE LET deltas == Number(buf[g], streamDeltaSeq)
                     IN  flights \cup {[gen |-> g, by |-> by, at |-> "check",
                                        deltas |-> deltas, left |-> deltas]}

TimerFlush(g) ==
  /\ fired[g] > 0
  /\ fired' = [fired EXCEPT ![g] = @ - 1]
  /\ Take(g, "timer")
  /\ UNCHANGED <<current, pc, out, pushed, messages, replaced>>

(* OnStreamDone: the response is complete, or the request failed.          *)
Flush(g) ==
  /\ pc[g] = "stream"
  /\ pc' = [pc EXCEPT ![g] = "flush"]
  /\ Take(g, "loop")
  /\ UNCHANGED <<current, fired, out, pushed, messages, replaced>>

(* Mutant: the deltas are numbered as they are broadcast, without sf.mu.   *)
ShouldPublishNumbers(f) ==
  /\ f.at = "check"
  /\ LET deltas == Number(f.deltas, streamDeltaSeq)
     IN  flights' = (flights \ {f}) \cup
                      (IF f.gen = current
                       THEN {[f EXCEPT !.at = "send", !.deltas = deltas, !.left = deltas]}
                       ELSE {})
  /\ streamDeltaSeq' = streamDeltaSeq + Len(f.deltas)
  /\ UNCHANGED <<current, pc, flusherVars, out, pushed, messages, replaced>>

(* flush, without sf.mu: shouldPublish ...                                 *)
ShouldPublish(f) ==
  /\ f.at = "check"
  /\ flights' = (flights \ {f}) \cup
                  (IF f.gen = current THEN {[f EXCEPT !.at = "send"]} ELSE {})
  /\ UNCHANGED <<current, streamDeltaSeq, pc, flusherVars, out, pushed, messages,
                 replaced>>

(* ... and broadcastStreamDeltas: one by one to the conversation's         *)
(* subscribers, then as one batch to the server-wide ones.                 *)
BroadcastDelta(f) ==
  /\ f.at = "send" /\ f.left # <<>>
  /\ out' = [out EXCEPT !["conversation"] = Append(@, Head(f.left))]
  /\ flights' = (flights \ {f}) \cup {[f EXCEPT !.left = Tail(@)]}
  /\ UNCHANGED <<current, streamDeltaSeq, pc, flusherVars, pushed, messages, replaced>>

BroadcastBatch(f) ==
  /\ f.at = "send" /\ f.left = <<>>
  /\ out' = [out EXCEPT !["server"] = @ \o f.deltas]
  /\ flights' = flights \ {f}
  /\ UNCHANGED <<current, streamDeltaSeq, pc, flusherVars, pushed, messages, replaced>>

(* Flush has returned and the response is recorded: publishStream, to both *)
(* hubs (their subscribers differ, so one step will do).                   *)
Flushed(g) ==
  pc[g] = "flush" /\ \A f \in flights : ~(f.gen = g /\ f.by = "loop")
RecordMessage(g) ==
  /\ Flushed(g) /\ messages < MaxMessages
  /\ messages' = messages + 1
  /\ out' = [h \in Hubs |-> Append(out[h], Message(Len(pushed)))]
  /\ pc' = [pc EXCEPT ![g] = "idle"]
  /\ UNCHANGED <<current, streamDeltaSeq, flusherVars, flights, pushed, replaced>>

(* The response is not recorded (emitResponse's error is ignored).         *)
EndUnrecorded(g) ==
  /\ Flushed(g)
  /\ pc' = [pc EXCEPT ![g] = "idle"]
  /\ UNCHANGED <<current, streamDeltaSeq, flusherVars, flights, out, pushed, messages,
                 replaced>>

(* A loop that was cancelled or replaced ends.                             *)
LoopEnds(g) ==
  /\ g \in replaced
  /\ pc[g] = "idle" \/ Flushed(g)
  /\ pc' = [pc EXCEPT ![g] = "dead"]
  /\ UNCHANGED <<current, streamDeltaSeq, flusherVars, flights, out, pushed, messages,
                 replaced>>

-----------------------------------------------------------------------------
Callback(g) == Fire(g) \/ TimerFlush(g)
Broadcast == \E f \in flights : ShouldPublish(f) \/ BroadcastDelta(f) \/ BroadcastBatch(f)
Loop(g) == Request(g) \/ Push(g) \/ Flush(g) \/ RecordMessage(g)
           \/ EndUnrecorded(g) \/ LoopEnds(g)

Next ==
  \/ Detach \/ Broadcast
  \/ \E g \in Gens : NewLoop(g) \/ Callback(g) \/ Loop(g)

Spec == Init /\ [][Next]_vars

(* A timer fires, its callback gets the mutex and a flush call returns.    *)
(* Nothing is assumed of the loops: a provider may stall for long.         *)
FairSpec ==
  /\ Spec
  /\ \A g \in Gens : WF_vars(Fire(g)) /\ WF_vars(TimerFlush(g))
  /\ WF_vars(Broadcast)

-----------------------------------------------------------------------------
Has(d, p) == \E i \in DOMAIN d.text : d.text[i] = p
Broadcasts(h) == {i \in DOMAIN out[h] : IsDelta(out[h][i])}

(* A piece of text that a loop pushed is, until that loop is replaced, in  *)
(* exactly one place: the buffer, a flush call on its way, or broadcast to *)
(* the conversation's subscribers.  Push, the timer and the final Flush    *)
(* neither lose nor repeat text, although a callback may start before the  *)
(* Flush that stops its timer and run after it.                            *)
NothingLost ==
  \A p \in DOMAIN pushed : pushed[p] \notin replaced =>
    LET buffered == {k \in DOMAIN buf[pushed[p]] : Has(buf[pushed[p]][k], p)}
        flying == {f \in flights : \E k \in DOMAIN f.left : Has(f.left[k], p)}
        sent == {i \in Broadcasts("conversation") : Has(out["conversation"][i], p)}
    IN  Cardinality(buffered) + Cardinality(flying) + Cardinality(sent) = 1

(* llm.StreamDelta: Seq "lets clients detect dropped or out-of-order       *)
(* deltas".  Broadcasts of two flush calls can overtake each other, but    *)
(* sorted by Seq the deltas a hub received are the text in the order it    *)
(* was pushed, each piece under its own type, across replaced loops too.   *)
SeqIsTextOrder ==
  \A h \in Hubs : \A i, j \in Broadcasts(h) :
    LET d == out[h][i]
        e == out[h][j]
    IN  /\ i # j => d.seq # e.seq
        /\ d.seq < e.seq => \A p, q \in Pieces : Has(d, p) /\ Has(e, q) => p < q
        /\ \A k \in DOMAIN d.text : Text[d.text[k]] = d.type
        /\ \A k \in 2..Len(d.text) : d.text[k] = d.text[k - 1] + 1

(* Pushed text reaches the subscribers of the server-wide stream by the    *)
(* timer alone, however long the response goes on, unless its loop is      *)
(* cancelled or replaced: no order of Push, Flush and late callbacks       *)
(* leaves a buffer without a timer.                                        *)
Delivered ==
  \A p \in Pieces :
    p \in DOMAIN pushed ~>
      /\ p \in DOMAIN pushed
      /\ \/ pushed[p] \in replaced
         \/ \E i \in Broadcasts("server") : Has(out["server"][i], p)

=============================================================================
