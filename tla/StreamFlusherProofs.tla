------------------------ MODULE StreamFlusherProofs ------------------------
(***************************************************************************)
(* Proofs about StreamFlusher, for any text, types, loops and messages:    *)
(* no piece of a loop that was not replaced is lost or repeated, and the   *)
(* sequence numbers put the pieces into the order in which they were       *)
(* pushed, although flush calls overtake each other.                       *)
(*                                                                         *)
(* Both rest on one picture.  A delta is a run of consecutive pieces.  The *)
(* runs that have a number are ordered as their numbers are, and all of    *)
(* them come before the runs still in a buffer; only one loop can have a   *)
(* buffer, because a loop starts when the ones before it are dead and a    *)
(* dead loop has flushed.                                                  *)
(***************************************************************************)
EXTENDS StreamFlusher, FiniteSetTheorems, TLAPS

Lo(d) == d.text[1]
Hi(d) == Lo(d) + Len(d.text) - 1

(* A delta holds consecutive pieces, all of its type.                      *)
Run(d) ==
  /\ d.text # <<>>
  /\ \A m \in DOMAIN d.text : d.text[m] = Lo(d) + m - 1 /\ Text[d.text[m]] = d.type

(* By the record of the pushes, its pieces came from loop g.               *)
From(ps, d, g) == Hi(d) <= Len(ps) /\ \A m \in DOMAIN d.text : ps[d.text[m]] = g

(* The numbered deltas: on their way, or broadcast.                        *)
TakenBy(f) == {f.deltas[k] : k \in DOMAIN f.deltas}
Marks(s) == {i \in DOMAIN s : IsDelta(s[i])}
Shown(s) == {s[i] : i \in Marks(s)}
KnownIn(fl, o) == (UNION {TakenBy(f) : f \in fl}) \cup (UNION {Shown(o[h]) : h \in Hubs})
Known == KnownIn(flights, out)

(* Which loops there are, and who can have a buffer.                       *)
LoopInv ==
  /\ \A g, h \in Gens : g < h /\ pc[h] # "none" => pc[g] = "dead"
  /\ \A g \in Gens : pc[g] # "none" => g = current \/ g \in replaced
  /\ \A g \in Gens : pc[g] # "stream" => buf[g] = <<>>
  /\ \A f \in flights : pc[f.gen] # "none"

(* A buffer is a sequence of runs up to the piece pushed last.             *)
BufInv(g) ==
  /\ \A k \in DOMAIN buf[g] : Run(buf[g][k]) /\ From(pushed, buf[g][k], g)
  /\ \A i, k \in DOMAIN buf[g] : i < k => Hi(buf[g][i]) < Lo(buf[g][k])
  /\ buf[g] # <<>> => Hi(buf[g][Len(buf[g])]) = Len(pushed)

(* Numbers are in the order of the text, and before every buffer.          *)
NumberInv ==
  /\ \A d \in Known : Run(d) /\ Hi(d) <= Len(pushed) /\ d.seq <= streamDeltaSeq
  /\ \A d, e \in Known : d.seq < e.seq => Hi(d) < Lo(e)
  /\ \A d \in Known : \A g \in Gens : \A k \in DOMAIN buf[g] : Hi(d) < Lo(buf[g][k])

(* A flush call has taken deltas of its loop, numbered in order, and has   *)
(* still to send the last ones of them.                                    *)
FlightInv(f) ==
  /\ f.deltas # <<>>
  /\ \A i, k \in DOMAIN f.deltas : i < k => f.deltas[i].seq < f.deltas[k].seq
  /\ \A k \in DOMAIN f.deltas : From(pushed, f.deltas[k], f.gen)
  /\ Len(f.left) <= Len(f.deltas)
  /\ \A k \in DOMAIN f.left : f.left[k] = f.deltas[k + (Len(f.deltas) - Len(f.left))]

(* No two flush calls took the same delta, and no hub gets one twice.      *)
ApartInv ==
  \A f, e \in flights : f # e =>
    \A k \in DOMAIN f.deltas, m \in DOMAIN e.deltas : f.deltas[k].seq # e.deltas[m].seq

SentInv ==
  /\ \A h \in Hubs : \A i, j \in Broadcasts(h) : i # j => out[h][i].seq # out[h][j].seq
  /\ \A f \in flights : \A k \in DOMAIN f.left : \A i \in Broadcasts("conversation") :
       f.left[k].seq # out["conversation"][i].seq
  /\ \A f \in flights : \A k \in DOMAIN f.deltas : \A i \in Broadcasts("server") :
       f.deltas[k].seq # out["server"][i].seq

(* The places where a piece can be.                                        *)
Buffered(p) == \E k \in DOMAIN buf[pushed[p]] : Has(buf[pushed[p]][k], p)
Flying(p) == \E f \in flights : \E k \in DOMAIN f.left : Has(f.left[k], p)
Sent(p) == \E i \in Broadcasts("conversation") : Has(out["conversation"][i], p)

HeldInv ==
  \A p \in DOMAIN pushed : pushed[p] \notin replaced => Buffered(p) \/ Flying(p) \/ Sent(p)

DataInv ==
  /\ \A g \in Gens : BufInv(g)
  /\ NumberInv
  /\ \A f \in flights : FlightInv(f)
  /\ ApartInv
  /\ SentInv
  /\ HeldInv

IInv == TypeOK /\ LoopInv /\ DataInv

-----------------------------------------------------------------------------
(* Facts about deltas and what was broadcast.                              *)

Entries == Numbered \cup [message : Nat]

(* Pieces are numbered from one.                                           *)
LEMMA PieceFacts == Pieces = 1..Len(Text) /\ Len(Text) \in Nat /\ \A p \in Pieces : Text[p] \in Types
BY TextAssumption DEF Pieces

(* A numbered delta is a delta with a number.                              *)
LEMMA NumberedFacts ==
  ASSUME NEW d \in Numbered
  PROVE  d.type \in Types /\ d.text \in Seq(Pieces) /\ d.seq \in Nat /\ IsDelta(d)
BY DEF Numbered, IsDelta

(* The pieces of a run are the ones between its first and its last.        *)
LEMMA RunFacts ==
  ASSUME NEW d, d.text \in Seq(Pieces), Run(d)
  PROVE  /\ Lo(d) \in Nat /\ Hi(d) \in Nat /\ 1 <= Lo(d) /\ Lo(d) <= Hi(d)
         /\ \A p : Has(d, p) <=> p \in Nat /\ Lo(d) <= p /\ p <= Hi(d)
         /\ d.text[Len(d.text)] = Hi(d) /\ Len(d.text) \in Nat /\ Len(d.text) > 0
         /\ DOMAIN d.text = 1..Len(d.text)
<1>1. /\ d.text # <<>>
      /\ \A m \in DOMAIN d.text : d.text[m] = Lo(d) + m - 1
  BY DEF Run
<1>2. DOMAIN d.text = 1..Len(d.text) /\ Len(d.text) \in Nat /\ Len(d.text) > 0
  BY <1>1
<1>3. Lo(d) \in Pieces
  BY <1>2 DEF Lo
<1>4. Lo(d) \in Nat /\ 1 <= Lo(d)
  BY <1>3, PieceFacts
<1>5. Hi(d) \in Nat /\ Lo(d) <= Hi(d)
  BY <1>2, <1>4 DEF Hi
<1>6. ASSUME NEW q PROVE Has(d, q) <=> q \in Nat /\ Lo(d) <= q /\ q <= Hi(d)
  <2>1. ASSUME Has(d, q) PROVE q \in Nat /\ Lo(d) <= q /\ q <= Hi(d)
    <3>1. PICK m \in DOMAIN d.text : d.text[m] = q
      BY <2>1 DEF Has
    <3>2. q = Lo(d) + m - 1 /\ m \in 1..Len(d.text)
      BY <1>1, <1>2, <3>1
    <3> QED
      BY <1>2, <1>4, <3>2 DEF Hi
  <2>2. ASSUME q \in Nat, Lo(d) <= q, q <= Hi(d) PROVE Has(d, q)
    <3> DEFINE m == q - Lo(d) + 1
    <3>1. m \in DOMAIN d.text /\ Lo(d) + m - 1 = q
      BY <1>2, <1>4, <2>2 DEF Hi
    <3>2. d.text[m] = q
      BY <1>1, <3>1
    <3> QED
      BY <3>1, <3>2 DEF Has
  <2> QED
    BY <2>1, <2>2
<1>7. d.text[Len(d.text)] = Hi(d)
  BY <1>1, <1>2 DEF Hi
<1> QED
  BY <1>2, <1>4, <1>5, <1>6, <1>7

(* What it means for a delta to be known.                                  *)
LEMMA KnownInFacts ==
  ASSUME NEW fl, NEW o, NEW d
  PROVE  d \in KnownIn(fl, o) <=> \/ \E f \in fl : \E k \in DOMAIN f.deltas : d = f.deltas[k]
                                \/ \E h \in Hubs : \E i \in Marks(o[h]) : d = o[h][i]
<1>1. \A f : d \in TakenBy(f) <=> \E k \in DOMAIN f.deltas : d = f.deltas[k]
  BY DEF TakenBy
<1>2. \A h : d \in Shown(o[h]) <=> \E i \in Marks(o[h]) : d = o[h][i]
  BY DEF Shown
<1>3. d \in UNION {TakenBy(f) : f \in fl} <=> \E f \in fl : d \in TakenBy(f)
  BY Zenon
<1>4. d \in UNION {Shown(o[h]) : h \in Hubs} <=> \E h \in Hubs : d \in Shown(o[h])
  BY Zenon
<1>5. d \in KnownIn(fl, o) <=> \/ d \in UNION {TakenBy(f) : f \in fl}
                               \/ d \in UNION {Shown(o[h]) : h \in Hubs}
  BY Zenon DEF KnownIn
<1> QED
  BY <1>1, <1>2, <1>3, <1>4, <1>5

(* What is known is numbered.                                              *)
LEMMA KnownFacts ==
  ASSUME TypeOK
  PROVE  /\ \A d \in Known : d \in Numbered
         /\ \A f \in flights : \A k \in DOMAIN f.deltas : f.deltas[k] \in Known
         /\ \A h \in Hubs : \A i \in Broadcasts(h) : out[h][i] \in Known /\ out[h][i] \in Numbered
<1>1. \A f \in flights : \A k \in DOMAIN f.deltas : f.deltas[k] \in Known
  BY KnownInFacts DEF Known
<1>2. \A h \in Hubs : \A i \in Broadcasts(h) : out[h][i] \in Known
  BY KnownInFacts DEF Known, Marks, Broadcasts
<1>3. \A d \in Known : \/ \E f \in flights : \E k \in DOMAIN f.deltas : d = f.deltas[k]
                       \/ \E h \in Hubs : \E i \in Broadcasts(h) : d = out[h][i]
  BY KnownInFacts DEF Known, Marks, Broadcasts
<1>4. ASSUME NEW h \in Hubs, NEW i \in Broadcasts(h) PROVE out[h][i] \in Numbered
  <2>1. i \in DOMAIN out[h] /\ IsDelta(out[h][i])
    BY <1>4 DEF Broadcasts
  <2>2. out[h] \in Seq(Numbered \cup [message : Nat])
    BY <1>4 DEF TypeOK
  <2>3. out[h][i] \in Numbered \cup [message : Nat]
    BY <2>1, <2>2
  <2>4. \A e \in [message : Nat] : ~IsDelta(e)
    BY DEF IsDelta
  <2> QED
    BY <2>1, <2>3, <2>4
<1>5. ASSUME NEW f \in flights, NEW k \in DOMAIN f.deltas PROVE f.deltas[k] \in Numbered
  <2>1. f.deltas \in Seq(Numbered)
    BY <1>5 DEF TypeOK, Flights
  <2> QED
    BY <1>5, <2>1
<1> QED
  BY <1>1, <1>2, <1>3, <1>4, <1>5

(* A delta still to be sent is one that the flush call took.               *)
LEMMA LeftFacts ==
  ASSUME TypeOK, NEW f \in flights, FlightInv(f), NEW k \in DOMAIN f.left
  PROVE  /\ k + (Len(f.deltas) - Len(f.left)) \in DOMAIN f.deltas
         /\ f.left[k] = f.deltas[k + (Len(f.deltas) - Len(f.left))]
         /\ f.left[k] \in Known /\ f.left[k] \in Numbered
<1>1. f.deltas \in Seq(Numbered) /\ f.left \in Seq(Numbered)
  BY DEF TypeOK, Flights
<1>2. Len(f.left) <= Len(f.deltas) /\ Len(f.left) \in Nat /\ Len(f.deltas) \in Nat
  BY <1>1 DEF FlightInv
<1>3. k + (Len(f.deltas) - Len(f.left)) \in DOMAIN f.deltas
  <2>1. k \in Nat /\ k \in 1..Len(f.left) /\ DOMAIN f.deltas = 1..Len(f.deltas)
    BY <1>1
  <2>2. \A i, m, n \in Nat : i \in 1..m /\ m <= n => i + (n - m) \in 1..n
    OBVIOUS
  <2> QED
    BY <1>2, <2>1, <2>2
<1>4. f.left[k] = f.deltas[k + (Len(f.deltas) - Len(f.left))]
  BY DEF FlightInv
<1> QED
  BY <1>1, <1>3, <1>4, KnownFacts

-----------------------------------------------------------------------------
(* Two known deltas with a piece in common have the same number.           *)
LEMMA SamePiece ==
  ASSUME IInv, NEW d \in Known, NEW e \in Known, NEW q, Has(d, q), Has(e, q)
  PROVE  d.seq = e.seq
<1>1. d \in Numbered /\ e \in Numbered /\ Run(d) /\ Run(e)
  BY KnownFacts DEF IInv, DataInv, NumberInv
<1>2. d.seq \in Nat /\ e.seq \in Nat /\ d.text \in Seq(Pieces) /\ e.text \in Seq(Pieces)
  BY <1>1, NumberedFacts
<1>3. /\ q \in Nat /\ Lo(d) <= q /\ q <= Hi(d) /\ Lo(d) \in Nat /\ Hi(d) \in Nat
      /\ Lo(e) <= q /\ q <= Hi(e) /\ Lo(e) \in Nat /\ Hi(e) \in Nat
  BY <1>1, <1>2, RunFacts
<1>4. (d.seq < e.seq => Hi(d) < Lo(e)) /\ (e.seq < d.seq => Hi(e) < Lo(d))
  BY DEF IInv, DataInv, NumberInv
<1> QED
  BY <1>2, <1>3, <1>4

(* The invariant says that a piece has one place.                          *)
LEMMA OnePlace == IInv => NothingLost
<1> SUFFICES ASSUME IInv, NEW q \in DOMAIN pushed, pushed[q] \notin replaced
             PROVE  LET buffered == {k \in DOMAIN buf[pushed[q]] : Has(buf[pushed[q]][k], q)}
                        flying == {f \in flights : \E k \in DOMAIN f.left : Has(f.left[k], q)}
                        sent == {i \in Broadcasts("conversation") : Has(out["conversation"][i], q)}
                    IN  Cardinality(buffered) + Cardinality(flying) + Cardinality(sent) = 1
  BY DEF NothingLost
<1> DEFINE B == {k \in DOMAIN buf[pushed[q]] : Has(buf[pushed[q]][k], q)}
           F == {f \in flights : \E k \in DOMAIN f.left : Has(f.left[k], q)}
           S == {i \in Broadcasts("conversation") : Has(out["conversation"][i], q)}
<1>1. TypeOK /\ pushed[q] \in Gens /\ "conversation" \in Hubs
  <2>1. pushed \in Seq(Gens)
    BY DEF IInv, TypeOK
  <2> QED
    BY <2>1 DEF IInv, Hubs
<1>2. ASSUME NEW k \in B
      PROVE  /\ k \in DOMAIN buf[pushed[q]] /\ k \in Nat
             /\ Lo(buf[pushed[q]][k]) \in Nat /\ Hi(buf[pushed[q]][k]) \in Nat
             /\ q \in Nat /\ Lo(buf[pushed[q]][k]) <= q /\ q <= Hi(buf[pushed[q]][k])
  <2>1. buf[pushed[q]] \in Seq(Deltas) /\ k \in DOMAIN buf[pushed[q]]
    BY <1>1, <1>2 DEF TypeOK
  <2>2. buf[pushed[q]][k] \in Deltas /\ k \in Nat
    BY <2>1
  <2>3. buf[pushed[q]][k].text \in Seq(Pieces)
    BY <2>2 DEF Deltas
  <2>4. Run(buf[pushed[q]][k]) /\ Has(buf[pushed[q]][k], q)
    BY <1>1, <1>2, <2>1 DEF IInv, DataInv, BufInv
  <2> QED
    BY <2>1, <2>2, <2>3, <2>4, RunFacts
<1>3. ASSUME NEW k \in B, NEW m \in B PROVE k = m
  <2>1. \A i, j \in DOMAIN buf[pushed[q]] : i < j => Hi(buf[pushed[q]][i]) < Lo(buf[pushed[q]][j])
    BY <1>1 DEF IInv, DataInv, BufInv
  <2> HIDE DEF B
  <2> QED
    BY <1>2, <1>3, <2>1
<1>4. ASSUME NEW f \in F
      PROVE  f \in flights /\ \E k \in DOMAIN f.left : f.left[k] \in Known /\ Has(f.left[k], q)
                                /\ \E m \in DOMAIN f.deltas : f.left[k] = f.deltas[m]
  BY <1>1, <1>4, LeftFacts DEF IInv, DataInv
<1>5. ASSUME NEW f \in F, NEW e \in F PROVE f = e
  <2>1. PICK k \in DOMAIN f.left : f.left[k] \in Known /\ Has(f.left[k], q)
                                /\ \E m \in DOMAIN f.deltas : f.left[k] = f.deltas[m]
    BY <1>4
  <2>2. PICK j \in DOMAIN e.left : e.left[j] \in Known /\ Has(e.left[j], q)
                                /\ \E m \in DOMAIN e.deltas : e.left[j] = e.deltas[m]
    BY <1>4
  <2>3. f.left[k].seq = e.left[j].seq
    BY <2>1, <2>2, SamePiece
  <2> QED
    BY <1>4, <2>1, <2>2, <2>3 DEF IInv, DataInv, ApartInv
<1>6. ASSUME NEW i \in S PROVE i \in Broadcasts("conversation") /\ out["conversation"][i] \in Known
                               /\ Has(out["conversation"][i], q)
  BY <1>1, <1>6, KnownFacts
<1>7. ASSUME NEW i \in S, NEW j \in S PROVE i = j
  <2>1. out["conversation"][i].seq = out["conversation"][j].seq
    BY <1>6, SamePiece
  <2> QED
    BY <1>1, <1>6, <2>1 DEF IInv, DataInv, SentInv
<1>8. ASSUME NEW k \in B, NEW d \in Known, Has(d, q) PROVE FALSE
  <2>1. Hi(d) < Lo(buf[pushed[q]][k])
    BY <1>1, <1>2, <1>8 DEF IInv, DataInv, NumberInv
  <2>2. d \in Numbered /\ Run(d)
    BY <1>1, KnownFacts DEF IInv, DataInv, NumberInv
  <2>3. q <= Hi(d) /\ Hi(d) \in Nat
    BY <1>8, <2>2, NumberedFacts, RunFacts
  <2> HIDE DEF B
  <2> QED
    BY <1>2, <1>8, <2>1, <2>3
<1>9. ASSUME NEW f \in F, NEW i \in S PROVE FALSE
  <2>1. PICK k \in DOMAIN f.left : f.left[k] \in Known /\ Has(f.left[k], q)
    BY <1>4
  <2>2. f.left[k].seq = out["conversation"][i].seq
    BY <1>6, <2>1, SamePiece
  <2> QED
    BY <1>4, <1>6, <2>1, <2>2 DEF IInv, DataInv, SentInv
<1>10. B # {} \/ F # {} \/ S # {}
  BY DEF IInv, DataInv, HeldInv, Buffered, Flying, Sent
<1>11. \A f \in F : \E d \in Known : Has(d, q)
  BY <1>4
<1>12. \A i \in S : \E d \in Known : Has(d, q)
  BY <1>6
<1> HIDE DEF B, F, S
<1>13. \/ \E x : B = {x} /\ F = {} /\ S = {}
       \/ \E x : B = {} /\ F = {x} /\ S = {}
       \/ \E x : B = {} /\ F = {} /\ S = {x}
  <2>1. CASE B # {}
    <3>1. PICK x \in B : TRUE
      BY <2>1
    <3>2. B = {x}
      BY <1>3, <3>1
    <3>3. F = {} /\ S = {}
      BY <1>8, <1>11, <1>12, <3>1
    <3> QED
      BY <3>2, <3>3
  <2>2. CASE B = {} /\ F # {}
    <3>1. PICK x \in F : TRUE
      BY <2>2
    <3>2. F = {x}
      BY <1>5, <3>1
    <3>3. S = {}
      BY <1>9, <3>1
    <3> QED
      BY <2>2, <3>2, <3>3
  <2>3. CASE B = {} /\ F = {}
    <3>1. PICK x \in S : TRUE
      BY <1>10, <2>3
    <3>2. S = {x}
      BY <1>7, <3>1
    <3> QED
      BY <2>3, <3>2
  <2> QED
    BY <2>1, <2>2, <2>3
<1>14. Cardinality({}) = 0 /\ \A x : Cardinality({x}) = 1
  BY FS_EmptySet, FS_Singleton
<1>15. Cardinality(B) + Cardinality(F) + Cardinality(S) = 1
  <2>1. CASE \E x : B = {x} /\ F = {} /\ S = {}
    <3>1. Cardinality(B) = 1 /\ Cardinality(F) = 0 /\ Cardinality(S) = 0
      BY <1>14, <2>1
    <3> QED
      BY <3>1
  <2>2. CASE \E x : B = {} /\ F = {x} /\ S = {}
    <3>1. Cardinality(B) = 0 /\ Cardinality(F) = 1 /\ Cardinality(S) = 0
      BY <1>14, <2>2
    <3> QED
      BY <3>1
  <2>3. CASE \E x : B = {} /\ F = {} /\ S = {x}
    <3>1. Cardinality(B) = 0 /\ Cardinality(F) = 0 /\ Cardinality(S) = 1
      BY <1>14, <2>3
    <3> QED
      BY <3>1
  <2> QED
    BY <1>13, <2>1, <2>2, <2>3
<1> QED
  BY <1>15 DEF B, F, S

(* And that the numbers give the order of the text.                        *)
LEMMA OrderIsText == IInv => SeqIsTextOrder
<1> SUFFICES ASSUME IInv, NEW h \in Hubs, NEW i \in Broadcasts(h), NEW j \in Broadcasts(h)
             PROVE  /\ i # j => out[h][i].seq # out[h][j].seq
                    /\ out[h][i].seq < out[h][j].seq =>
                         \A q, r \in Pieces : Has(out[h][i], q) /\ Has(out[h][j], r) => q < r
                    /\ \A k \in DOMAIN out[h][i].text : Text[out[h][i].text[k]] = out[h][i].type
                    /\ \A k \in 2..Len(out[h][i].text) :
                         out[h][i].text[k] = out[h][i].text[k - 1] + 1
  BY DEF SeqIsTextOrder
<1> DEFINE d == out[h][i]
           e == out[h][j]
<1>1. d \in Known /\ e \in Known /\ d \in Numbered /\ e \in Numbered
  BY KnownFacts DEF IInv
<1>2. Run(d) /\ Run(e) /\ (d.seq < e.seq => Hi(d) < Lo(e))
  BY <1>1 DEF IInv, DataInv, NumberInv
<1>3. d.text \in Seq(Pieces) /\ e.text \in Seq(Pieces)
  BY <1>1, NumberedFacts
<1>4. i # j => d.seq # e.seq
  BY DEF IInv, DataInv, SentInv
<1> HIDE DEF d, e
<1>5. ASSUME d.seq < e.seq, NEW q \in Pieces, NEW r \in Pieces, Has(d, q), Has(e, r) PROVE q < r
  <2>1. q \in Nat /\ q <= Hi(d) /\ Hi(d) \in Nat /\ r \in Nat /\ Lo(e) <= r /\ Lo(e) \in Nat
    BY <1>2, <1>3, <1>5, RunFacts
  <2> QED
    BY <1>2, <1>5, <2>1
<1>6. \A k \in DOMAIN d.text : Text[d.text[k]] = d.type
  BY <1>2 DEF Run
<1>7. ASSUME NEW k \in 2..Len(d.text) PROVE d.text[k] = d.text[k - 1] + 1
  <2>1. Lo(d) \in Nat /\ DOMAIN d.text = 1..Len(d.text) /\ Len(d.text) \in Nat
    BY <1>2, <1>3, RunFacts
  <2>2. k \in DOMAIN d.text /\ k - 1 \in DOMAIN d.text
    BY <1>7, <2>1
  <2>3. d.text[k] = Lo(d) + k - 1 /\ d.text[k - 1] = Lo(d) + (k - 1) - 1
    BY <1>2, <2>2 DEF Run
  <2> QED
    BY <1>7, <2>1, <2>3
<1> QED
  BY <1>4, <1>5, <1>6, <1>7 DEF d, e

-----------------------------------------------------------------------------
(* Facts about what the steps do to a broadcast sequence and to a buffer.  *)

(* One more entry.                                                         *)
LEMMA MarksAppend ==
  ASSUME NEW s \in Seq(Entries), NEW x \in Entries
  PROVE  /\ \A i \in Marks(s) : i \in Marks(Append(s, x)) /\ Append(s, x)[i] = s[i] /\ i # Len(s) + 1
         /\ \A i \in Marks(Append(s, x)) :
              i \in Marks(s) \/ (i = Len(s) + 1 /\ IsDelta(x) /\ Append(s, x)[i] = x)
         /\ IsDelta(x) => Len(s) + 1 \in Marks(Append(s, x)) /\ Append(s, x)[Len(s) + 1] = x
<1>1. /\ DOMAIN s = 1..Len(s) /\ Len(s) \in Nat
      /\ DOMAIN Append(s, x) = 1..(Len(s) + 1)
      /\ \A i \in DOMAIN s : Append(s, x)[i] = s[i]
      /\ Append(s, x)[Len(s) + 1] = x
  OBVIOUS
<1> QED
  BY <1>1 DEF Marks

(* A batch of deltas at the end.                                           *)
LEMMA MarksConcat ==
  ASSUME NEW s \in Seq(Entries), NEW t \in Seq(Numbered)
  PROVE  /\ \A i \in Marks(s) : i \in Marks(s \o t) /\ (s \o t)[i] = s[i] /\ i \in 1..Len(s)
         /\ \A i \in Marks(s \o t) :
              i \in Marks(s) \/ \E k \in DOMAIN t : i = Len(s) + k /\ (s \o t)[i] = t[k]
<1>1. /\ DOMAIN s = 1..Len(s) /\ Len(s) \in Nat /\ DOMAIN t = 1..Len(t) /\ Len(t) \in Nat
      /\ DOMAIN (s \o t) = 1..(Len(s) + Len(t))
      /\ \A i \in DOMAIN s : (s \o t)[i] = s[i]
      /\ \A k \in DOMAIN t : (s \o t)[Len(s) + k] = t[k]
  <2>1. t \in Seq(Entries)
    BY DEF Entries
  <2>2. s \o t \in Seq(Entries) /\ Len(s \o t) = Len(s) + Len(t)
    BY <2>1
  <2>3. \A i \in 1..(Len(s) + Len(t)) : (s \o t)[i] = IF i <= Len(s) THEN s[i] ELSE t[i - Len(s)]
    BY <2>1
  <2> QED
    BY <2>2, <2>3
<1>2. ASSUME NEW i \in Marks(s)
      PROVE  i \in Marks(s \o t) /\ (s \o t)[i] = s[i] /\ i \in 1..Len(s)
  BY <1>1, <1>2 DEF Marks
<1>3. ASSUME NEW i \in Marks(s \o t)
      PROVE  i \in Marks(s) \/ \E k \in DOMAIN t : i = Len(s) + k /\ (s \o t)[i] = t[k]
  <2>1. i \in 1..(Len(s) + Len(t)) /\ IsDelta((s \o t)[i])
    BY <1>1, <1>3 DEF Marks
  <2>2. CASE i <= Len(s)
    BY <1>1, <2>1, <2>2 DEF Marks
  <2>3. CASE i > Len(s)
    <3> DEFINE k == i - Len(s)
    <3>1. k \in DOMAIN t /\ i = Len(s) + k
      BY <1>1, <2>1, <2>3
    <3> QED
      BY <1>1, <3>1
  <2> QED
    BY <1>1, <2>1, <2>2, <2>3
<1> QED
  BY <1>2, <1>3

(* A push extends the last run by its piece, or starts a run with it.      *)
LEMMA CoalesceFacts ==
  ASSUME NEW b \in Seq(Deltas), NEW n \in Nat, n + 1 \in Pieces,
         \A k \in DOMAIN b : Run(b[k]) /\ Hi(b[k]) <= n,
         \A i, k \in DOMAIN b : i < k => Hi(b[i]) < Lo(b[k]),
         b # <<>> => Hi(b[Len(b)]) = n
  PROVE  LET c == Coalesce(b, Text[n + 1], n + 1)
         IN  /\ c \in Seq(Deltas) /\ c # <<>> /\ Hi(c[Len(c)]) = n + 1
             /\ \A k \in DOMAIN c : Run(c[k]) /\ Hi(c[k]) <= n + 1
             /\ \A i, k \in DOMAIN c : i < k => Hi(c[i]) < Lo(c[k])
             /\ \A k \in DOMAIN c : Lo(c[k]) = n + 1 \/ (k \in DOMAIN b /\ Lo(c[k]) = Lo(b[k]))
             /\ \A k \in DOMAIN b : k \in DOMAIN c /\ \A q : Has(b[k], q) => Has(c[k], q)
             /\ \A k \in DOMAIN c : \A m \in DOMAIN c[k].text :
                  \/ c[k].text[m] = n + 1
                  \/ k \in DOMAIN b /\ m \in DOMAIN b[k].text /\ c[k].text[m] = b[k].text[m]
<1> DEFINE c == Coalesce(b, Text[n + 1], n + 1)
           L == Len(b)
<1>1. /\ DOMAIN b = 1..L /\ L \in Nat
      /\ \A k \in DOMAIN b : b[k] \in Deltas
  OBVIOUS
<1>2. ASSUME NEW k \in DOMAIN b
      PROVE  /\ b[k].text \in Seq(Pieces) /\ b[k].type \in Types
             /\ Lo(b[k]) \in Nat /\ Hi(b[k]) \in Nat /\ Lo(b[k]) <= Hi(b[k])
             /\ DOMAIN b[k].text = 1..Len(b[k].text) /\ Len(b[k].text) \in Nat /\ Len(b[k].text) > 0
  <2>1. b[k].text \in Seq(Pieces) /\ b[k].type \in Types
    BY <1>1, <1>2 DEF Deltas
  <2> QED
    BY <1>2, <2>1, RunFacts
<1>3. Text[n + 1] \in Types
  BY PieceFacts
<1>4. CASE b # <<>> /\ b[L].type = Text[n + 1]
  <2> DEFINE d == b[L]
             e == [b[L] EXCEPT !.text = Append(@, n + 1)]
  <2>1. c = [b EXCEPT ![L] = e] /\ L \in DOMAIN b /\ Hi(d) = n /\ Run(d)
    BY <1>1, <1>4 DEF Coalesce
  <2>2. /\ e \in Deltas /\ e.type = d.type /\ e.text = Append(d.text, n + 1)
    <3>1. d \in Deltas /\ d.text \in Seq(Pieces)
      BY <1>1, <1>2, <2>1
    <3>2. Append(d.text, n + 1) \in Seq(Pieces)
      BY <3>1
    <3>3. e = [d EXCEPT !.text = Append(d.text, n + 1)]
      OBVIOUS
    <3> HIDE DEF d, e
    <3>4. \A t \in Seq(Pieces) : /\ [d EXCEPT !.text = t] \in Deltas
                                /\ [d EXCEPT !.text = t].type = d.type
                                /\ [d EXCEPT !.text = t].text = t
      BY <3>1 DEF Deltas
    <3> QED
      BY <3>2, <3>3, <3>4
  <2>3. /\ d.text \in Seq(Pieces) /\ DOMAIN d.text = 1..Len(d.text)
        /\ Len(d.text) \in Nat /\ Len(d.text) > 0 /\ Lo(d) \in Nat
    BY <1>2, <2>1
  <2> HIDE DEF d, e
  <2>4. /\ Len(e.text) = Len(d.text) + 1 /\ DOMAIN e.text = 1..(Len(d.text) + 1)
        /\ \A m \in DOMAIN d.text : e.text[m] = d.text[m]
        /\ e.text[Len(d.text) + 1] = n + 1
        /\ e.text # <<>>
    BY <2>2, <2>3
  <2>5. Lo(e) = Lo(d) /\ Hi(e) = n + 1
    <3>1. Lo(e) = Lo(d)
      BY <2>3, <2>4 DEF Lo
    <3>2. Lo(d) + Len(d.text) - 1 = n
      BY <2>1 DEF Hi
    <3> QED
      BY <2>3, <2>4, <3>1, <3>2 DEF Hi
  <2>6. Run(e)
    <3>1. Lo(d) + Len(d.text) - 1 = n
      BY <2>1 DEF Hi
    <3>2. ASSUME NEW m \in DOMAIN e.text PROVE e.text[m] = Lo(e) + m - 1 /\ Text[e.text[m]] = e.type
      <4>1. CASE m \in DOMAIN d.text
        BY <2>1, <2>2, <2>4, <2>5, <4>1 DEF Run
      <4>2. CASE m = Len(d.text) + 1
        <5>1. e.text[m] = n + 1 /\ e.type = Text[n + 1]
          BY <1>4, <2>2, <2>4, <4>2 DEF d
        <5> QED
          BY <2>3, <2>5, <3>1, <4>2, <5>1
      <4> QED
        BY <2>3, <2>4, <3>2, <4>1, <4>2
    <3> QED
      BY <2>4, <3>2 DEF Run
  <2>7. /\ c \in Seq(Deltas) /\ DOMAIN c = DOMAIN b /\ Len(c) = L /\ c[L] = e
        /\ \A k \in DOMAIN b : k # L => c[k] = b[k]
    <3> HIDE DEF c, L
    <3>1. /\ DOMAIN c = 1..L /\ c[L] = e /\ \A k \in DOMAIN b : k # L => c[k] = b[k]
          /\ c = [k \in 1..L |-> c[k]]
      BY <1>1, <2>1
    <3>2. \A k \in 1..L : c[k] \in Deltas
      BY <1>1, <2>2, <3>1
    <3>3. c \in [1..L -> Deltas]
      BY <3>1, <3>2
    <3>4. c \in Seq(Deltas) /\ Len(c) = L
      BY <1>1, <3>3
    <3> QED
      BY <1>1, <3>1, <3>4
  <2> HIDE DEF c
  <2>8. c # <<>> /\ Hi(c[Len(c)]) = n + 1
    BY <1>1, <2>1, <2>5, <2>7
  <2>9. \A k \in DOMAIN c : Run(c[k]) /\ Hi(c[k]) <= n + 1
    BY <1>2, <2>5, <2>6, <2>7
  <2>10. \A k \in DOMAIN c : k \in DOMAIN b /\ Lo(c[k]) = Lo(b[k])
    BY <2>5, <2>7 DEF d
  <2>11. \A i, k \in DOMAIN c : i < k => Hi(c[i]) < Lo(c[k])
    BY <1>1, <2>7, <2>10
  <2>12. \A k \in DOMAIN b : k \in DOMAIN c /\ \A q : Has(b[k], q) => Has(c[k], q)
    <3>1. ASSUME NEW q, Has(d, q) PROVE Has(e, q)
      <4>1. PICK m \in DOMAIN d.text : d.text[m] = q
        BY <3>1 DEF Has
      <4>2. m \in DOMAIN e.text /\ e.text[m] = q
        BY <2>3, <2>4, <4>1
      <4> QED
        BY <4>2 DEF Has
    <3> QED
      BY <2>7, <3>1 DEF d
  <2>13. ASSUME NEW k \in DOMAIN c, NEW m \in DOMAIN c[k].text
         PROVE  \/ c[k].text[m] = n + 1
                \/ k \in DOMAIN b /\ m \in DOMAIN b[k].text /\ c[k].text[m] = b[k].text[m]
    <3>1. CASE k = L
      <4>1. k \in DOMAIN b /\ b[k] = d /\ c[k] = e
        BY <2>1, <2>7, <3>1 DEF d
      <4>2. m \in 1..(Len(d.text) + 1)
        BY <2>4, <2>13, <4>1
      <4>3. m = Len(d.text) + 1 \/ m \in DOMAIN d.text
        BY <2>3, <4>2
      <4> QED
        BY <2>4, <4>1, <4>3
    <3>2. CASE k # L
      BY <2>7, <2>13, <3>2
    <3> QED
      BY <3>1, <3>2
  <2> QED
    BY <2>7, <2>8, <2>9, <2>10, <2>11, <2>12, <2>13 DEF c
<1>5. CASE ~(b # <<>> /\ b[L].type = Text[n + 1])
  <2> DEFINE e == [type |-> Text[n + 1], text |-> <<n + 1>>]
  <2>1. c = Append(b, e)
    BY <1>5 DEF Coalesce
  <2>2. /\ e \in Deltas /\ e.type = Text[n + 1] /\ e.text = <<n + 1>>
    <3>1. <<n + 1>> \in Seq(Pieces)
      OBVIOUS
    <3> QED
      BY <1>3, <3>1 DEF Deltas
  <2> HIDE DEF e
  <2>3. DOMAIN e.text = {1} /\ e.text[1] = n + 1 /\ Len(e.text) = 1 /\ e.text # <<>>
    BY <2>2
  <2>4. Lo(e) = n + 1 /\ Hi(e) = n + 1
    BY <2>3 DEF Lo, Hi
  <2>5. Run(e)
    BY <2>2, <2>3, <2>4 DEF Run
  <2>6. /\ c \in Seq(Deltas) /\ DOMAIN c = 1..(L + 1) /\ Len(c) = L + 1 /\ c[L + 1] = e
        /\ \A k \in DOMAIN b : k \in DOMAIN c /\ c[k] = b[k]
        /\ \A k \in DOMAIN c : k \in DOMAIN b \/ k = L + 1
    BY <1>1, <2>1, <2>2
  <2> HIDE DEF c
  <2>7. c # <<>> /\ Hi(c[Len(c)]) = n + 1
    BY <1>1, <2>4, <2>6
  <2>8. \A k \in DOMAIN c : Run(c[k]) /\ Hi(c[k]) <= n + 1
    BY <1>2, <2>4, <2>5, <2>6
  <2>9. \A k \in DOMAIN c : Lo(c[k]) = n + 1 \/ (k \in DOMAIN b /\ Lo(c[k]) = Lo(b[k]))
    BY <2>4, <2>6
  <2>10. ASSUME NEW i \in DOMAIN c, NEW k \in DOMAIN c, i < k PROVE Hi(c[i]) < Lo(c[k])
    <3>1. i \in DOMAIN b
      BY <1>1, <2>6, <2>10
    <3>2. CASE k \in DOMAIN b
      BY <2>6, <2>10, <3>1, <3>2
    <3>3. CASE k = L + 1
      BY <1>2, <2>4, <2>6, <3>1, <3>3
    <3> QED
      BY <2>6, <3>2, <3>3
  <2>11. \A k \in DOMAIN b : k \in DOMAIN c /\ \A q : Has(b[k], q) => Has(c[k], q)
    BY <2>6
  <2>12. ASSUME NEW k \in DOMAIN c, NEW m \in DOMAIN c[k].text
         PROVE  \/ c[k].text[m] = n + 1
                \/ k \in DOMAIN b /\ m \in DOMAIN b[k].text /\ c[k].text[m] = b[k].text[m]
    BY <2>3, <2>6, <2>12
  <2> QED
    BY <2>6, <2>7, <2>8, <2>9, <2>10, <2>11, <2>12 DEF c
<1> QED
  BY <1>4, <1>5

(* What a buffer holds.                                                    *)
LEMMA DeltaFacts ==
  ASSUME NEW b \in Seq(Deltas), NEW k \in DOMAIN b
  PROVE  b[k] \in Deltas /\ b[k].text \in Seq(Pieces) /\ b[k].type \in Types
<1>1. b[k] \in Deltas
  OBVIOUS
<1> QED
  BY <1>1 DEF Deltas

(* A piece already pushed keeps the loop it came from.                     *)
LEMMA FromKept ==
  ASSUME NEW ps \in Seq(Gens), NEW x \in Gens, NEW g, NEW d,
         d.text \in Seq(Pieces), Run(d), From(ps, d, g)
  PROVE  /\ \A m \in DOMAIN d.text : d.text[m] \in DOMAIN ps
         /\ From(Append(ps, x), d, g)
<1>1. /\ Hi(d) <= Len(ps) /\ \A m \in DOMAIN d.text : ps[d.text[m]] = g
      /\ Len(ps) \in Nat /\ DOMAIN ps = 1..Len(ps)
  BY DEF From
<1>2. Lo(d) \in Nat /\ Hi(d) \in Nat /\ 1 <= Lo(d)
      /\ \A q : Has(d, q) => q \in Nat /\ Lo(d) <= q /\ q <= Hi(d)
  BY RunFacts
<1>3. ASSUME NEW m \in DOMAIN d.text PROVE d.text[m] \in DOMAIN ps
  <2>1. Has(d, d.text[m])
    BY <1>3 DEF Has
  <2> QED
    BY <1>1, <1>2, <2>1
<1>4. Len(Append(ps, x)) = Len(ps) + 1 /\ \A i \in DOMAIN ps : Append(ps, x)[i] = ps[i]
  OBVIOUS
<1>5. Hi(d) <= Len(Append(ps, x))
  BY <1>1, <1>2, <1>4
<1> QED
  BY <1>1, <1>3, <1>4, <1>5 DEF From

(* Numbering a buffer keeps its deltas and counts on from n.               *)
LEMMA NumberFacts ==
  ASSUME NEW b \in Seq(Deltas), NEW n \in Nat
  PROVE  /\ Number(b, n) \in Seq(Numbered) /\ Len(Number(b, n)) = Len(b)
         /\ DOMAIN Number(b, n) = DOMAIN b
         /\ \A k \in DOMAIN b : /\ Number(b, n)[k].type = b[k].type
                                /\ Number(b, n)[k].text = b[k].text
                                /\ Number(b, n)[k].seq = n + k
<1> DEFINE D == Number(b, n)
<1>1. DOMAIN b = 1..Len(b) /\ Len(b) \in Nat /\ \A k \in DOMAIN b : b[k] \in Deltas
  OBVIOUS
<1>2. /\ D = [k \in 1..Len(b) |-> D[k]]
      /\ \A k \in DOMAIN b : D[k] = [type |-> b[k].type, text |-> b[k].text, seq |-> n + k]
  BY <1>1 DEF Number
<1> HIDE DEF D
<1>3. ASSUME NEW k \in DOMAIN b
      PROVE  D[k] \in Numbered /\ D[k].type = b[k].type /\ D[k].text = b[k].text /\ D[k].seq = n + k
  <2>1. b[k].type \in Types /\ b[k].text \in Seq(Pieces) /\ n + k \in Nat
    BY <1>1, <1>3 DEF Deltas
  <2>2. \A t \in Types, x \in Seq(Pieces), m \in Nat : [type |-> t, text |-> x, seq |-> m] \in Numbered
    BY DEF Numbered
  <2>3. D[k] = [type |-> b[k].type, text |-> b[k].text, seq |-> n + k]
    BY <1>2, <1>3
  <2>4. D[k].type = b[k].type /\ D[k].text = b[k].text /\ D[k].seq = n + k
    BY <2>3
  <2> QED
    BY <2>1, <2>2, <2>3, <2>4
<1>4. D \in [1..Len(b) -> Numbered]
  BY <1>1, <1>2, <1>3
<1>5. D \in Seq(Numbered) /\ Len(D) = Len(b) /\ DOMAIN D = DOMAIN b
  BY <1>1, <1>4
<1> QED
  BY <1>3, <1>5 DEF D

(* While a loop streams, no other loop has a buffer.                       *)
LEMMA OthersEmpty ==
  ASSUME IInv, NEW g \in Gens, pc[g] = "stream", NEW h \in Gens, h # g
  PROVE  buf[h] = <<>>
<1>1. g \in Int /\ h \in Int
  BY MaxGenAssumption DEF Gens
<1>2. CASE h < g
  <2>1. pc[h] = "dead"
    BY <1>2 DEF IInv, LoopInv
  <2> QED
    BY <2>1 DEF IInv, LoopInv
<1>3. CASE g < h
  <2>1. pc[h] = "none"
    BY <1>3 DEF IInv, LoopInv
  <2> QED
    BY <2>1 DEF IInv, LoopInv
<1> QED
  BY <1>1, <1>2, <1>3

(* The broadcasts of a hub are the deltas in its sequence.                 *)
LEMMA BroadcastFacts ==
  ASSUME TypeOK
  PROVE  /\ \A h \in Hubs : Broadcasts(h) = Marks(out[h]) /\ Broadcasts(h)' = Marks(out'[h])
         /\ \A h \in Hubs : out[h] \in Seq(Entries)
         /\ "conversation" \in Hubs /\ "server" \in Hubs
         /\ \A h \in Hubs : h = "conversation" \/ h = "server"
BY DEF TypeOK, Entries, Broadcasts, Marks, Hubs

(* The numbers are still in order when no delta becomes known.             *)
LEMMA NumberKept ==
  ASSUME NumberInv, UNCHANGED <<buf, pushed, streamDeltaSeq>>,
         \A d \in KnownIn(flights', out') : d \in Known
  PROVE  NumberInv'
BY DEF NumberInv, Known

-----------------------------------------------------------------------------
(* Each step preserves the invariant on the data.                          *)

(* The steps that touch neither the buffers nor the deltas.                *)
LEMMA QuietData ==
  ASSUME DataInv, UNCHANGED <<buf, flights, out, pushed, streamDeltaSeq>>,
         replaced \subseteq replaced'
  PROVE  DataInv'
<1>1. \A g \in Gens : BufInv(g)'
  BY DEF DataInv, BufInv
<1>2. NumberInv'
  BY DEF DataInv, NumberInv, Known
<1>3. \A f \in flights' : FlightInv(f)'
  BY DEF DataInv, FlightInv
<1>4. ApartInv' /\ SentInv'
  BY DEF DataInv, ApartInv, SentInv, Broadcasts
<1>5. HeldInv'
  BY DEF DataInv, HeldInv, Buffered, Flying, Sent, Broadcasts
<1> QED
  BY <1>1, <1>2, <1>3, <1>4, <1>5 DEF DataInv

(* Push.                                                                   *)
LEMMA PushData ==
  ASSUME IInv, NEW g \in Gens, Push(g)
  PROVE  DataInv'
<1> DEFINE n == Len(pushed)
           b == buf[g]
           c == Coalesce(b, Text[n + 1], n + 1)
<1>1. TypeOK /\ DataInv /\ pushed \in Seq(Gens) /\ n \in Nat /\ b \in Seq(Deltas) /\ buf \in [Gens -> Seq(Deltas)]
  BY DEF IInv, TypeOK
<1>2. /\ pc[g] = "stream" /\ n + 1 \in Pieces
      /\ pushed' = Append(pushed, g) /\ buf' = [buf EXCEPT ![g] = c]
      /\ UNCHANGED <<flights, out, streamDeltaSeq, replaced>>
  BY <1>1, PieceFacts DEF Push
<1>3. /\ Len(pushed') = n + 1 /\ pushed'[n + 1] = g /\ DOMAIN pushed' = 1..(n + 1) /\ DOMAIN pushed = 1..n
      /\ \A i \in DOMAIN pushed : pushed'[i] = pushed[i] /\ pushed[i] \in Gens
  BY <1>1, <1>2
<1>4. buf'[g] = c /\ \A h \in Gens : h # g => buf'[h] = buf[h] /\ buf[h] = <<>>
  BY <1>1, <1>2, OthersEmpty
<1>5. /\ \A k \in DOMAIN b : Run(b[k]) /\ From(pushed, b[k], g) /\ Hi(b[k]) <= n
      /\ \A i, k \in DOMAIN b : i < k => Hi(b[i]) < Lo(b[k])
      /\ b # <<>> => Hi(b[Len(b)]) = n
  BY <1>1 DEF DataInv, BufInv, From
<1>6. /\ c \in Seq(Deltas) /\ c # <<>> /\ Hi(c[Len(c)]) = n + 1
      /\ \A k \in DOMAIN c : Run(c[k]) /\ Hi(c[k]) <= n + 1
      /\ \A i, k \in DOMAIN c : i < k => Hi(c[i]) < Lo(c[k])
      /\ \A k \in DOMAIN c : Lo(c[k]) = n + 1 \/ (k \in DOMAIN b /\ Lo(c[k]) = Lo(b[k]))
      /\ \A k \in DOMAIN b : k \in DOMAIN c /\ \A q : Has(b[k], q) => Has(c[k], q)
      /\ \A k \in DOMAIN c : \A m \in DOMAIN c[k].text :
           \/ c[k].text[m] = n + 1
           \/ k \in DOMAIN b /\ m \in DOMAIN b[k].text /\ c[k].text[m] = b[k].text[m]
  <2> HIDE DEF n, b
  <2> QED
    BY <1>1, <1>2, <1>5, CoalesceFacts
<1>7. \A k \in DOMAIN b : b[k].text \in Seq(Pieces)
  BY <1>1, DeltaFacts
<1>8. \A k \in DOMAIN b : \A m \in DOMAIN b[k].text : b[k].text[m] \in DOMAIN pushed /\ pushed[b[k].text[m]] = g
  BY <1>1, <1>5, <1>7, FromKept DEF From
<1> HIDE DEF n, b, c
<1>9. ASSUME NEW h \in Gens PROVE BufInv(h)'
  <2>1. CASE h = g
    <3>1. ASSUME NEW k \in DOMAIN c PROVE From(pushed', c[k], g)
      <4>1. ASSUME NEW m \in DOMAIN c[k].text PROVE pushed'[c[k].text[m]] = g
        BY <1>3, <1>6, <1>8, <3>1, <4>1
      <4> QED
        BY <1>3, <1>6, <3>1, <4>1 DEF From
    <3> QED
      BY <1>3, <1>4, <1>6, <2>1, <3>1 DEF BufInv
  <2>2. CASE h # g
    <3>1. buf'[h] = <<>>
      BY <1>4, <2>2
    <3> QED
      BY <3>1 DEF BufInv
  <2> QED
    BY <2>1, <2>2
<1>10. Known' = Known
  BY <1>2 DEF Known
<1>11. ASSUME NEW d \in Known PROVE Run(d) /\ Hi(d) \in Nat /\ Hi(d) <= n /\ d.seq <= streamDeltaSeq
  <2>1. d \in Numbered /\ Run(d) /\ Hi(d) <= n /\ d.seq <= streamDeltaSeq
    BY <1>1, <1>11, KnownFacts DEF DataInv, NumberInv, n
  <2> QED
    BY <2>1, NumberedFacts, RunFacts
<1>12. NumberInv'
  <2>1. \A d \in Known : Run(d) /\ Hi(d) <= Len(pushed') /\ d.seq <= streamDeltaSeq'
    BY <1>1, <1>2, <1>3, <1>11 DEF n
  <2>2. \A d, e \in Known : d.seq < e.seq => Hi(d) < Lo(e)
    BY <1>1 DEF DataInv, NumberInv
  <2>3. ASSUME NEW d \in Known, NEW h \in Gens, NEW k \in DOMAIN buf'[h] PROVE Hi(d) < Lo(buf'[h][k])
    <3>1. h = g /\ k \in DOMAIN c /\ buf'[h][k] = c[k]
      BY <1>4, <2>3
    <3>2. CASE Lo(c[k]) = n + 1
      BY <1>1, <1>11, <2>3, <3>1, <3>2 DEF n
    <3>3. CASE k \in DOMAIN b /\ Lo(c[k]) = Lo(b[k])
      BY <1>1, <2>3, <3>1, <3>3 DEF DataInv, NumberInv, b
    <3> QED
      BY <1>6, <3>1, <3>2, <3>3
  <2> QED
    BY <1>10, <2>1, <2>2, <2>3 DEF NumberInv
<1>13. ASSUME NEW f \in flights' PROVE FlightInv(f)'
  <2>1. f \in flights /\ FlightInv(f) /\ f.deltas \in Seq(Numbered)
    BY <1>1, <1>2, <1>13 DEF DataInv, TypeOK, Flights
  <2>2. ASSUME NEW k \in DOMAIN f.deltas PROVE From(pushed', f.deltas[k], f.gen)
    <3>1. f.deltas[k] \in Known /\ f.deltas[k] \in Numbered /\ From(pushed, f.deltas[k], f.gen)
      BY <1>1, <2>1, <2>2, KnownFacts DEF FlightInv
    <3> QED
      BY <1>1, <1>2, <1>11, <3>1, NumberedFacts, FromKept
  <2> QED
    BY <2>1, <2>2 DEF FlightInv
<1>14. ApartInv' /\ SentInv'
  BY <1>1, <1>2 DEF DataInv, ApartInv, SentInv, Broadcasts
<1>15. HeldInv'
  <2> SUFFICES ASSUME NEW q \in DOMAIN pushed', pushed'[q] \notin replaced'
               PROVE  Buffered(q)' \/ Flying(q)' \/ Sent(q)'
    BY DEF HeldInv
  <2>1. CASE q = n + 1
    <3>1. Len(c) \in DOMAIN c /\ Run(c[Len(c)]) /\ c[Len(c)].text \in Seq(Pieces)
      <4>1. Len(c) \in DOMAIN c /\ c[Len(c)] \in Deltas
        BY <1>6
      <4> QED
        BY <1>6, <4>1 DEF Deltas
    <3>2. Has(c[Len(c)], q)
      BY <1>1, <1>6, <2>1, <3>1, RunFacts DEF n
    <3>3. pushed'[q] = g
      BY <1>3, <2>1
    <3> QED
      BY <1>4, <3>1, <3>2, <3>3 DEF Buffered
  <2>2. CASE q \in DOMAIN pushed
    <3>1. pushed'[q] = pushed[q] /\ pushed[q] \in Gens /\ pushed[q] \notin replaced
      BY <1>2, <1>3, <2>2
    <3>2. Buffered(q) \/ Flying(q) \/ Sent(q)
      BY <1>1, <2>2, <3>1 DEF DataInv, HeldInv
    <3>3. CASE Buffered(q)
      <4>1. PICK k \in DOMAIN buf[pushed[q]] : Has(buf[pushed[q]][k], q)
        BY <3>3 DEF Buffered
      <4>2. pushed[q] = g
        BY <1>4, <3>1, <4>1
      <4>3. k \in DOMAIN c /\ Has(c[k], q)
        BY <1>6, <4>1, <4>2 DEF b
      <4> QED
        BY <1>4, <3>1, <4>2, <4>3 DEF Buffered
    <3>4. CASE Flying(q) \/ Sent(q)
      BY <1>2, <3>4 DEF Flying, Sent, Broadcasts
    <3> QED
      BY <3>2, <3>3, <3>4
  <2> QED
    BY <1>1, <1>3, <2>1, <2>2 DEF n
<1> QED
  BY <1>9, <1>12, <1>13, <1>14, <1>15 DEF DataInv

(* A flush call takes the buffer, by the timer or by the loop.             *)
LEMMA TakeData ==
  ASSUME IInv, NEW g \in Gens, NEW by \in {"loop", "timer"}, Take(g, by),
         UNCHANGED <<out, pushed, replaced>>
  PROVE  DataInv'
<1> DEFINE n == streamDeltaSeq
           b == buf[g]
           D == Number(b, n)
           F == [gen |-> g, by |-> by, at |-> "check", deltas |-> D, left |-> D]
<1>1. TypeOK /\ DataInv /\ n \in Nat /\ b \in Seq(Deltas) /\ buf \in [Gens -> Seq(Deltas)]
  BY DEF IInv, TypeOK
<1>2. /\ buf' = [buf EXCEPT ![g] = <<>>]
      /\ streamDeltaSeq' = n + Len(b)
      /\ flights' = IF b = <<>> THEN flights ELSE flights \cup {F}
  BY DEF Take
<1>3. CASE b = <<>>
  <2>1. buf' = buf
    BY <1>1, <1>2, <1>3
  <2>2. streamDeltaSeq' = streamDeltaSeq /\ flights' = flights
    BY <1>1, <1>2, <1>3
  <2> QED
    BY <1>1, <2>1, <2>2, QuietData
<1>4. CASE b # <<>>
  <2>1. pc[g] = "stream"
    BY <1>4 DEF IInv, LoopInv
  <2>2. \A h \in Gens : buf'[h] = <<>> /\ (h # g => buf[h] = <<>>)
    BY <1>1, <1>2, <2>1, OthersEmpty
  <2>3. /\ D \in Seq(Numbered) /\ Len(D) = Len(b) /\ DOMAIN D = DOMAIN b
        /\ \A k \in DOMAIN b : D[k].type = b[k].type /\ D[k].text = b[k].text /\ D[k].seq = n + k
    <3> HIDE DEF n, b
    <3> QED
      BY <1>1, NumberFacts
  <2>4. /\ DOMAIN b = 1..Len(b) /\ Len(b) \in Nat /\ \A k \in DOMAIN b : b[k] \in Deltas
        /\ \A k \in DOMAIN b : b[k].text \in Seq(Pieces)
    BY <1>1, DeltaFacts
  <2>5. /\ \A k \in DOMAIN b : Run(b[k]) /\ From(pushed, b[k], g) /\ Hi(b[k]) <= Len(pushed)
        /\ \A i, k \in DOMAIN b : i < k => Hi(b[i]) < Lo(b[k])
    BY <1>1 DEF DataInv, BufInv, From
  <2>6. /\ F.gen = g /\ F.deltas = D /\ F.left = D /\ flights' = flights \cup {F}
    BY <1>2, <1>4
  <2> HIDE DEF n, b, D, F
  <2>7. ASSUME NEW k \in DOMAIN b
        PROVE  /\ Lo(D[k]) = Lo(b[k]) /\ Hi(D[k]) = Hi(b[k]) /\ Run(D[k]) /\ From(pushed, D[k], g)
               /\ D[k].seq \in Nat /\ n < D[k].seq /\ D[k].seq <= streamDeltaSeq'
               /\ \A q : Has(b[k], q) => Has(D[k], q)
    <3>1. Lo(D[k]) = Lo(b[k]) /\ Hi(D[k]) = Hi(b[k])
      BY <2>3, <2>7 DEF Lo, Hi
    <3>2. Run(D[k]) /\ From(pushed, D[k], g) /\ \A q : Has(b[k], q) => Has(D[k], q)
      BY <2>3, <2>5, <2>7, <3>1 DEF Run, From, Has
    <3>3. D[k].seq = n + k /\ k \in 1..Len(b)
      BY <2>3, <2>4, <2>7
    <3> QED
      BY <1>1, <1>2, <2>4, <3>1, <3>2, <3>3
  <2>8. ASSUME NEW d \in Known
        PROVE  /\ d.seq \in Nat /\ d.seq <= n /\ Run(d) /\ Hi(d) <= Len(pushed) /\ d.seq <= streamDeltaSeq'
    <3>1. d.seq \in Nat /\ d.seq <= n /\ Run(d) /\ Hi(d) <= Len(pushed)
      BY <1>1, <2>8, KnownFacts, NumberedFacts DEF DataInv, NumberInv, n
    <3> QED
      BY <1>1, <1>2, <2>4, <3>1
  <2>9. ASSUME NEW d \in Known' PROVE d \in Known \/ \E k \in DOMAIN b : d = D[k]
    <3>1. \/ \E f \in flights' : \E k \in DOMAIN f.deltas : d = f.deltas[k]
          \/ \E h \in Hubs : \E i \in Marks(out'[h]) : d = out'[h][i]
      BY <2>9, KnownInFacts DEF Known
    <3>2. CASE \E f \in flights' : \E k \in DOMAIN f.deltas : d = f.deltas[k]
      BY <1>1, <2>3, <2>6, <3>2, KnownFacts
    <3>3. CASE \E h \in Hubs : \E i \in Marks(out'[h]) : d = out'[h][i]
      BY <3>3, KnownInFacts DEF Known
    <3> QED
      BY <3>1, <3>2, <3>3
  <2>10. NumberInv'
    <3>1. \A d \in Known' : Run(d) /\ Hi(d) <= Len(pushed') /\ d.seq <= streamDeltaSeq'
      BY <2>5, <2>7, <2>8, <2>9
    <3>2. ASSUME NEW d \in Known', NEW e \in Known', d.seq < e.seq PROVE Hi(d) < Lo(e)
      <4>1. CASE d \in Known /\ e \in Known
        BY <1>1, <3>2, <4>1 DEF DataInv, NumberInv
      <4>2. CASE d \in Known /\ \E k \in DOMAIN b : e = D[k]
        <5>1. PICK k \in DOMAIN b : e = D[k]
          BY <4>2
        <5>2. Hi(d) < Lo(b[k])
          BY <1>1, <4>2, <5>1 DEF DataInv, NumberInv, b
        <5> QED
          BY <2>7, <5>1, <5>2
      <4>3. CASE e \in Known /\ \E k \in DOMAIN b : d = D[k]
        BY <1>1, <2>7, <2>8, <3>2, <4>3
      <4>4. CASE (\E k \in DOMAIN b : d = D[k]) /\ (\E k \in DOMAIN b : e = D[k])
        <5>1. PICK k \in DOMAIN b : d = D[k]
          BY <4>4
        <5>2. PICK m \in DOMAIN b : e = D[m]
          BY <4>4
        <5>3. k < m
          BY <1>1, <2>3, <2>4, <3>2, <5>1, <5>2
        <5> QED
          BY <2>5, <2>7, <5>1, <5>2, <5>3
      <4> QED
        BY <2>9, <3>2, <4>1, <4>2, <4>3, <4>4
    <3>3. \A h \in Gens : DOMAIN buf'[h] = {}
      BY <2>2
    <3> QED
      BY <3>1, <3>2, <3>3 DEF NumberInv
  <2>11. ASSUME NEW h \in Gens PROVE BufInv(h)'
    <3>1. buf'[h] = <<>>
      BY <2>2
    <3> QED
      BY <3>1 DEF BufInv
  <2>12. ASSUME NEW f \in flights' PROVE FlightInv(f)'
    <3>1. CASE f \in flights
      BY <1>1, <3>1 DEF DataInv, FlightInv
    <3>2. CASE f = F
      <4>1. D # <<>>
        BY <1>4, <2>3, <2>4
      <4>2. \A i, k \in DOMAIN D : i < k => D[i].seq < D[k].seq
        BY <1>1, <2>3, <2>4
      <4>3. Len(D) <= Len(D) /\ \A k \in DOMAIN D : D[k] = D[k + (Len(D) - Len(D))]
        BY <2>3, <2>4
      <4> QED
        BY <2>3, <2>6, <2>7, <3>2, <4>1, <4>2, <4>3 DEF FlightInv
    <3> QED
      BY <2>6, <2>12, <3>1, <3>2
  <2>13. ApartInv'
    <3>1. \A f, e \in flights : f # e =>
            \A k \in DOMAIN f.deltas, m \in DOMAIN e.deltas : f.deltas[k].seq # e.deltas[m].seq
      BY <1>1 DEF DataInv, ApartInv
    <3>2. \A f \in flights : \A k \in DOMAIN f.deltas, m \in DOMAIN D : f.deltas[k].seq # D[m].seq
      BY <1>1, <2>3, <2>7, <2>8, KnownFacts
    <3> QED
      BY <2>6, <3>1, <3>2 DEF ApartInv
  <2>14. SentInv'
    <3>1. \A h \in Hubs : Broadcasts(h)' = Broadcasts(h) /\ out'[h] = out[h]
      BY DEF Broadcasts
    <3>2. "conversation" \in Hubs /\ "server" \in Hubs
      BY DEF Hubs
    <3>3. \A h \in Hubs : \A i \in Broadcasts(h) : \A k \in DOMAIN D : D[k].seq # out[h][i].seq
      BY <1>1, <2>3, <2>7, <2>8, KnownFacts
    <3>4. SentInv
      BY <1>1 DEF DataInv
    <3> QED
      BY <2>6, <3>1, <3>2, <3>3, <3>4 DEF SentInv
  <2>15. HeldInv'
    <3> SUFFICES ASSUME NEW q \in DOMAIN pushed, pushed[q] \notin replaced
                 PROVE  Buffered(q)' \/ Flying(q)' \/ Sent(q)'
      BY DEF HeldInv
    <3>1. Buffered(q) \/ Flying(q) \/ Sent(q)
      BY <1>1 DEF DataInv, HeldInv
    <3>2. CASE Buffered(q)
      <4>1. PICK k \in DOMAIN buf[pushed[q]] : Has(buf[pushed[q]][k], q)
        BY <3>2 DEF Buffered
      <4>2. pushed[q] \in Gens
        BY <1>1 DEF TypeOK
      <4>3. pushed[q] = g
        BY <2>2, <4>1, <4>2
      <4>4. k \in DOMAIN D /\ Has(D[k], q)
        BY <2>3, <2>7, <4>1, <4>3 DEF b
      <4> QED
        BY <2>6, <4>4 DEF Flying
    <3>3. CASE Flying(q)
      BY <2>6, <3>3 DEF Flying
    <3>4. CASE Sent(q)
      BY <3>4 DEF Sent, Broadcasts
    <3> QED
      BY <3>1, <3>2, <3>3, <3>4
  <2> QED
    BY <2>10, <2>11, <2>12, <2>13, <2>14, <2>15 DEF DataInv
<1> QED
  BY <1>3, <1>4

(* shouldPublish: only a flush call of a replaced loop is dropped.         *)
LEMMA ShouldPublishData ==
  ASSUME IInv, NEW f \in flights, ShouldPublish(f)
  PROVE  DataInv'
<1> DEFINE f2 == [f EXCEPT !.at = "send"]
<1>1. TypeOK /\ DataInv /\ LoopInv /\ f \in Flights
  BY DEF IInv, TypeOK
<1>2. /\ UNCHANGED <<buf, out, pushed, streamDeltaSeq, replaced>>
      /\ flights' = (flights \ {f}) \cup (IF f.gen = current THEN {f2} ELSE {})
  BY DEF ShouldPublish, flusherVars
<1>3. f2.gen = f.gen /\ f2.deltas = f.deltas /\ f2.left = f.left
  BY <1>1 DEF Flights
<1> HIDE DEF f2
<1>4. \A e \in flights' : (e \in flights /\ e # f) \/ e = f2
  BY <1>2
<1>5. \A e \in flights' : \E e0 \in flights :
        e.gen = e0.gen /\ e.deltas = e0.deltas /\ e.left = e0.left /\ (e # f2 => e = e0) /\ (e = f2 => e0 = f)
  BY <1>3, <1>4
<1>6. ASSUME NEW d \in KnownIn(flights', out') PROVE d \in Known
  <2>1. \/ \E e \in flights' : \E k \in DOMAIN e.deltas : d = e.deltas[k]
        \/ \E h \in Hubs : \E i \in Marks(out'[h]) : d = out'[h][i]
    BY <1>6, KnownInFacts
  <2>2. CASE \E e \in flights' : \E k \in DOMAIN e.deltas : d = e.deltas[k]
    BY <1>1, <1>5, <2>2, KnownFacts
  <2>3. CASE \E h \in Hubs : \E i \in Marks(out'[h]) : d = out'[h][i]
    BY <1>2, <2>3, KnownInFacts DEF Known
  <2> QED
    BY <2>1, <2>2, <2>3
<1>7. \A g \in Gens : BufInv(g)'
  BY <1>1, <1>2 DEF DataInv, BufInv
<1>8. NumberInv'
  BY <1>1, <1>2, <1>6, NumberKept DEF DataInv
<1>9. ASSUME NEW e \in flights' PROVE FlightInv(e)'
  <2>1. PICK e0 \in flights : e.gen = e0.gen /\ e.deltas = e0.deltas /\ e.left = e0.left
    BY <1>5, <1>9
  <2>2. FlightInv(e0)
    BY <1>1 DEF DataInv
  <2> QED
    BY <1>2, <2>1, <2>2 DEF FlightInv
<1>10. ApartInv'
  <2> SUFFICES ASSUME NEW e1 \in flights', NEW e2 \in flights', e1 # e2,
                      NEW k \in DOMAIN e1.deltas, NEW m \in DOMAIN e2.deltas
               PROVE  e1.deltas[k].seq # e2.deltas[m].seq
    BY DEF ApartInv
  <2>1. \E c1, c2 \in flights : c1 # c2 /\ c1.deltas = e1.deltas /\ c2.deltas = e2.deltas
    BY <1>3, <1>4
  <2> QED
    BY <1>1, <2>1 DEF DataInv, ApartInv
<1>11. SentInv'
  <2>1. \A h \in Hubs : Broadcasts(h)' = Broadcasts(h) /\ out'[h] = out[h]
    BY <1>2 DEF Broadcasts
  <2>2. "conversation" \in Hubs /\ "server" \in Hubs /\ SentInv
    BY <1>1 DEF Hubs, DataInv
  <2> QED
    BY <1>5, <2>1, <2>2 DEF SentInv
<1>12. HeldInv'
  <2> SUFFICES ASSUME NEW q \in DOMAIN pushed, pushed[q] \notin replaced
               PROVE  Buffered(q)' \/ Flying(q)' \/ Sent(q)'
    BY <1>2 DEF HeldInv
  <2>1. Buffered(q) \/ Flying(q) \/ Sent(q)
    BY <1>1 DEF DataInv, HeldInv
  <2>2. CASE Buffered(q) \/ Sent(q)
    BY <1>2, <2>2 DEF Buffered, Sent, Broadcasts
  <2>3. CASE Flying(q)
    <3>1. PICK e \in flights : \E k \in DOMAIN e.left : Has(e.left[k], q)
      BY <2>3 DEF Flying
    <3>2. CASE e # f
      BY <1>2, <3>1, <3>2 DEF Flying
    <3>3. CASE e = f /\ f.gen = current
      BY <1>2, <1>3, <3>1, <3>3 DEF Flying
    <3>4. CASE e = f /\ f.gen # current
      <4>1. PICK k \in DOMAIN f.left : Has(f.left[k], q)
        BY <3>1, <3>4
      <4>2. PICK m \in DOMAIN f.deltas : f.left[k] = f.deltas[m]
        BY <1>1, <4>1, LeftFacts DEF DataInv
      <4>3. From(pushed, f.deltas[m], f.gen)
        BY <1>1, <4>2 DEF DataInv, FlightInv
      <4>4. pushed[q] = f.gen
        BY <4>1, <4>2, <4>3 DEF From, Has
      <4>5. f.gen \in replaced
        <5>1. f.gen \in Gens /\ pc[f.gen] # "none"
          BY <1>1 DEF Flights, LoopInv
        <5> QED
          BY <1>1, <3>4, <5>1 DEF LoopInv
      <4> QED
        BY <4>4, <4>5
    <3> QED
      BY <3>2, <3>3, <3>4
  <2> QED
    BY <2>1, <2>2, <2>3
<1> QED
  BY <1>7, <1>8, <1>9, <1>10, <1>11, <1>12 DEF DataInv

(* broadcastStreamDeltas: the next delta, to the conversation.             *)
LEMMA BroadcastDeltaData ==
  ASSUME IInv, NEW f \in flights, BroadcastDelta(f)
  PROVE  DataInv'
<1> DEFINE f2 == [f EXCEPT !.left = Tail(@)]
           x == f.left[1]
           s == out["conversation"]
<1>1. /\ TypeOK /\ DataInv /\ f \in Flights /\ FlightInv(f)
      /\ f.left \in Seq(Numbered) /\ f.deltas \in Seq(Numbered) /\ f.left # <<>>
  BY DEF IInv, DataInv, TypeOK, Flights, BroadcastDelta
<1>2. /\ UNCHANGED <<buf, pushed, streamDeltaSeq, replaced>>
      /\ flights' = (flights \ {f}) \cup {f2}
      /\ out' = [out EXCEPT !["conversation"] = Append(s, x)]
  BY <1>1 DEF BroadcastDelta, flusherVars
<1>3. f2.gen = f.gen /\ f2.deltas = f.deltas /\ f2.left = Tail(f.left)
  BY <1>1 DEF Flights
<1>4. 1 \in DOMAIN f.left /\ x \in Known /\ x \in Numbered /\ IsDelta(x)
  <2>1. 1 \in DOMAIN f.left
    BY <1>1
  <2> QED
    BY <1>1, <2>1, LeftFacts, NumberedFacts
<1>5. /\ s \in Seq(Entries) /\ x \in Entries
      /\ out'["conversation"] = Append(s, x) /\ out'["server"] = out["server"]
      /\ Broadcasts("conversation") = Marks(s) /\ Broadcasts("conversation")' = Marks(Append(s, x))
      /\ Broadcasts("server")' = Broadcasts("server")
  <2>1. out \in [Hubs -> Seq(Entries)] /\ "conversation" \in Hubs /\ "server" \in Hubs
    BY <1>1 DEF TypeOK, Entries, Hubs
  <2>2. out'["conversation"] = Append(s, x) /\ out'["server"] = out["server"]
    BY <1>2, <2>1
  <2> QED
    BY <1>4, <2>1, <2>2 DEF Broadcasts, Marks, Entries
<1> HIDE DEF f2, x, s
<1>6. /\ \A i \in Marks(s) : i \in Marks(Append(s, x)) /\ Append(s, x)[i] = s[i] /\ i # Len(s) + 1
      /\ \A i \in Marks(Append(s, x)) : i \in Marks(s) \/ (i = Len(s) + 1 /\ Append(s, x)[i] = x)
      /\ Len(s) + 1 \in Marks(Append(s, x)) /\ Append(s, x)[Len(s) + 1] = x
  <2>1. s \in Seq(Entries) /\ x \in Entries /\ IsDelta(x)
    BY <1>4, <1>5
  <2>2. /\ \A i \in Marks(s) : i \in Marks(Append(s, x)) /\ Append(s, x)[i] = s[i] /\ i # Len(s) + 1
        /\ \A i \in Marks(Append(s, x)) :
             i \in Marks(s) \/ (i = Len(s) + 1 /\ IsDelta(x) /\ Append(s, x)[i] = x)
        /\ IsDelta(x) => Len(s) + 1 \in Marks(Append(s, x)) /\ Append(s, x)[Len(s) + 1] = x
    BY <2>1, MarksAppend, Zenon
  <2> QED
    BY <2>1, <2>2, Zenon
<1>7. \A e \in flights' : (e \in flights /\ e # f) \/ e = f2
  BY <1>2
<1>8. /\ Len(f.left) \in Nat /\ Len(f.left) > 0 /\ DOMAIN f.left = 1..Len(f.left)
      /\ Len(f2.left) = Len(f.left) - 1 /\ DOMAIN f2.left = 1..(Len(f.left) - 1)
      /\ \A k \in DOMAIN f2.left : k + 1 \in DOMAIN f.left /\ f2.left[k] = f.left[k + 1]
  BY <1>1, <1>3
<1>9. ASSUME NEW d \in KnownIn(flights', out') PROVE d \in Known
  <2>1. \/ \E e \in flights' : \E k \in DOMAIN e.deltas : d = e.deltas[k]
        \/ \E h \in Hubs : \E i \in Marks(out'[h]) : d = out'[h][i]
    BY <1>9, KnownInFacts
  <2>2. CASE \E e \in flights' : \E k \in DOMAIN e.deltas : d = e.deltas[k]
    BY <1>1, <1>3, <1>7, <2>2, KnownFacts
  <2>3. CASE \E h \in Hubs : \E i \in Marks(out'[h]) : d = out'[h][i]
    <3>1. PICK h \in Hubs : \E i \in Marks(out'[h]) : d = out'[h][i]
      BY <2>3
    <3>2. CASE h = "conversation"
      <4>1. PICK i \in Marks(Append(s, x)) : d = Append(s, x)[i]
        BY <1>5, <3>1, <3>2
      <4>2. CASE i \in Marks(s)
        <5>1. d = out["conversation"][i] /\ i \in Broadcasts("conversation")
          BY <1>5, <1>6, <4>1, <4>2 DEF s
        <5> QED
          BY <1>1, <3>2, <5>1, KnownFacts
      <4>3. CASE i \notin Marks(s)
        BY <1>4, <1>6, <4>1, <4>3
      <4> QED
        BY <4>2, <4>3
    <3>3. CASE h = "server"
      BY <1>1, <1>5, <3>1, <3>3, KnownFacts, BroadcastFacts
    <3> QED
      BY <3>1, <3>2, <3>3 DEF Hubs
  <2> QED
    BY <2>1, <2>2, <2>3
<1>10. \A g \in Gens : BufInv(g)'
  BY <1>1, <1>2 DEF DataInv, BufInv
<1>11. NumberInv'
  BY <1>1, <1>2, <1>9, NumberKept DEF DataInv
<1>12. ASSUME NEW e \in flights' PROVE FlightInv(e)'
  <2>1. CASE e \in flights
    BY <1>1, <1>2, <2>1 DEF DataInv, FlightInv
  <2>2. CASE e = f2
    <3>1. Len(f.deltas) \in Nat /\ Len(f.left) <= Len(f.deltas)
      BY <1>1 DEF FlightInv
    <3>2. Len(f2.left) <= Len(f.deltas)
      BY <1>8, <3>1
    <3>3. ASSUME NEW k \in DOMAIN f2.left
          PROVE  f2.left[k] = f.deltas[k + (Len(f.deltas) - Len(f2.left))]
      <4>1. f2.left[k] = f.deltas[(k + 1) + (Len(f.deltas) - Len(f.left))]
        BY <1>1, <1>8, <3>3 DEF FlightInv
      <4>2. (k + 1) + (Len(f.deltas) - Len(f.left)) = k + (Len(f.deltas) - Len(f2.left))
        <5> DEFINE l == Len(f.left)
                   m == Len(f.deltas)
                   n == Len(f2.left)
        <5>1. k \in Int /\ l \in Int /\ m \in Int /\ n = l - 1
          BY <1>8, <3>1, <3>3
        <5> HIDE DEF l, m, n
        <5>2. (k + 1) + (m - l) = k + (m - n)
          BY <5>1
        <5> QED
          BY <5>2 DEF l, m, n
      <4> QED
        BY <4>1, <4>2
    <3> QED
      BY <1>1, <1>2, <1>3, <2>2, <3>2, <3>3 DEF FlightInv
  <2> QED
    BY <1>7, <1>12, <2>1, <2>2
<1>13. ApartInv'
  <2> SUFFICES ASSUME NEW e1 \in flights', NEW e2 \in flights', e1 # e2,
                      NEW k \in DOMAIN e1.deltas, NEW m \in DOMAIN e2.deltas
               PROVE  e1.deltas[k].seq # e2.deltas[m].seq
    BY DEF ApartInv
  <2>1. \E c1, c2 \in flights : c1 # c2 /\ c1.deltas = e1.deltas /\ c2.deltas = e2.deltas
    BY <1>3, <1>7
  <2> QED
    BY <1>1, <2>1 DEF DataInv, ApartInv
<1>14. \A k \in DOMAIN f.left : \E m \in DOMAIN f.deltas : f.left[k] = f.deltas[m]
  BY <1>1, LeftFacts
<1>15. ASSUME NEW k \in DOMAIN f.left, k # 1 PROVE f.left[k].seq # x.seq
  <2> DEFINE z == Len(f.deltas) - Len(f.left)
  <2>1. k + z \in DOMAIN f.deltas /\ f.left[k] = f.deltas[k + z]
    BY <1>1, <1>15, LeftFacts
  <2>2. 1 + z \in DOMAIN f.deltas /\ x = f.deltas[1 + z]
    BY <1>1, <1>4, LeftFacts DEF x
  <2>3. 1 + z < k + z
    <3>1. z \in Int /\ k \in Int /\ 1 < k
      BY <1>1, <1>8, <1>15
    <3> HIDE DEF z
    <3> QED
      BY <3>1
  <2>4. x.seq < f.left[k].seq
    BY <1>1, <2>1, <2>2, <2>3 DEF FlightInv
  <2>5. x.seq \in Nat /\ f.left[k].seq \in Nat
    BY <1>1, <1>4, <1>15, LeftFacts, NumberedFacts
  <2> QED
    BY <2>4, <2>5
<1>16. SentInv
  BY <1>1 DEF DataInv
<1>17. SentInv'
  <2>0. \A e \in flights : \A k \in DOMAIN e.left : \A i \in Marks(s) : e.left[k].seq # s[i].seq
    <3>1. \A e \in flights : \A k \in DOMAIN e.left : \A i \in Broadcasts("conversation") :
            e.left[k].seq # out["conversation"][i].seq
      BY <1>16 DEF SentInv
    <3> QED
      BY <1>5, <3>1 DEF s
  <2>1. \A i \in Marks(s) : x.seq # s[i].seq
    BY <1>4, <2>0 DEF x
  <2>2. ASSUME NEW i \in Marks(Append(s, x)), NEW j \in Marks(Append(s, x)), i # j
        PROVE  Append(s, x)[i].seq # Append(s, x)[j].seq
    <3>1. \A m1, m2 \in Marks(s) : m1 # m2 => s[m1].seq # s[m2].seq
      BY <1>5, <1>16 DEF SentInv, s, Hubs
    <3> QED
      BY <1>6, <2>1, <2>2, <3>1
  <2>3. \A h \in Hubs : \A i, j \in Broadcasts(h)' : i # j => out'[h][i].seq # out'[h][j].seq
    BY <1>5, <1>16, <2>2, ZenonT(60) DEF SentInv, Hubs
  <2>4. ASSUME NEW e \in flights', NEW k \in DOMAIN e.left, NEW i \in Marks(Append(s, x))
        PROVE  e.left[k].seq # Append(s, x)[i].seq
    <3>1. CASE e = f2
      <4>1. k + 1 \in DOMAIN f.left /\ k + 1 # 1 /\ e.left[k] = f.left[k + 1]
        BY <1>8, <2>4, <3>1
      <4>2. CASE i \in Marks(s)
        BY <1>6, <2>0, <4>1, <4>2
      <4>3. CASE Append(s, x)[i] = x
        BY <1>15, <4>1, <4>3
      <4> QED
        BY <1>6, <2>4, <4>2, <4>3
    <3>2. CASE e \in flights /\ e # f
      <4>1. CASE i \in Marks(s)
        BY <1>6, <2>0, <2>4, <3>2, <4>1
      <4>2. CASE Append(s, x)[i] = x
        <5>1. PICK m \in DOMAIN f.deltas : x = f.deltas[m]
          BY <1>4, <1>14 DEF x
        <5>2. PICK j \in DOMAIN e.deltas : e.left[k] = e.deltas[j]
          BY <1>1, <2>4, <3>2, LeftFacts DEF DataInv
        <5>3. f.deltas[m].seq # e.deltas[j].seq
          BY <1>1, <3>2 DEF DataInv, ApartInv
        <5> QED
          BY <4>2, <5>1, <5>2, <5>3
      <4> QED
        BY <1>6, <2>4, <4>1, <4>2
    <3> QED
      BY <1>7, <2>4, <3>1, <3>2
  <2>5. \A e \in flights' : \A k \in DOMAIN e.deltas : \A i \in Broadcasts("server")' :
          e.deltas[k].seq # out'["server"][i].seq
    BY <1>3, <1>5, <1>7, <1>16 DEF SentInv
  <2> QED
    BY <1>5, <2>3, <2>4, <2>5, ZenonT(60) DEF SentInv
<1>18. HeldInv'
  <2> SUFFICES ASSUME NEW q \in DOMAIN pushed, pushed[q] \notin replaced
               PROVE  Buffered(q)' \/ Flying(q)' \/ Sent(q)'
    BY <1>2 DEF HeldInv
  <2>1. Buffered(q) \/ Flying(q) \/ Sent(q)
    BY <1>1 DEF DataInv, HeldInv
  <2>2. CASE Buffered(q)
    BY <1>2, <2>2 DEF Buffered
  <2>3. CASE Sent(q)
    BY <1>5, <1>6, <2>3 DEF Sent, s
  <2>4. CASE Flying(q)
    <3>1. PICK e \in flights : \E k \in DOMAIN e.left : Has(e.left[k], q)
      BY <2>4 DEF Flying
    <3>2. CASE e # f
      BY <1>2, <3>1, <3>2 DEF Flying
    <3>3. CASE e = f
      <4>1. PICK k \in DOMAIN f.left : Has(f.left[k], q)
        BY <3>1, <3>3
      <4>2. CASE k = 1
        BY <1>5, <1>6, <4>1, <4>2 DEF Sent, x
      <4>3. CASE k # 1
        <5>1. k - 1 \in DOMAIN f2.left /\ (k - 1) + 1 = k
          BY <1>8, <4>1, <4>3
        <5>2. f2.left[k - 1] = f.left[k]
          BY <1>8, <5>1
        <5>3. f2 \in flights'
          BY <1>2
        <5> QED
          BY <4>1, <5>1, <5>2, <5>3 DEF Flying
      <4> QED
        BY <4>2, <4>3
    <3> QED
      BY <3>2, <3>3
  <2> QED
    BY <2>1, <2>2, <2>3, <2>4
<1> QED
  BY <1>10, <1>11, <1>12, <1>13, <1>17, <1>18 DEF DataInv

(* broadcastStreamDeltas: the whole batch, server-wide.                    *)
LEMMA BroadcastBatchData ==
  ASSUME IInv, NEW f \in flights, BroadcastBatch(f)
  PROVE  DataInv'
<1> DEFINE s == out["server"]
           t == f.deltas
<1>1. /\ TypeOK /\ DataInv /\ SentInv /\ f \in Flights /\ FlightInv(f)
      /\ t \in Seq(Numbered) /\ f.left = <<>>
  BY DEF IInv, DataInv, TypeOK, Flights, BroadcastBatch
<1>2. /\ UNCHANGED <<buf, pushed, streamDeltaSeq, replaced>>
      /\ flights' = flights \ {f}
      /\ out' = [out EXCEPT !["server"] = s \o t]
  BY <1>1 DEF BroadcastBatch, flusherVars
<1>3. /\ s \in Seq(Entries)
      /\ out'["server"] = s \o t /\ out'["conversation"] = out["conversation"]
      /\ Broadcasts("server") = Marks(s) /\ Broadcasts("server")' = Marks(s \o t)
      /\ Broadcasts("conversation")' = Broadcasts("conversation")
  <2>1. out \in [Hubs -> Seq(Entries)] /\ "conversation" \in Hubs /\ "server" \in Hubs
    BY <1>1 DEF TypeOK, Entries, Hubs
  <2>2. out'["server"] = s \o t /\ out'["conversation"] = out["conversation"]
    BY <1>2, <2>1
  <2> QED
    BY <2>1, <2>2 DEF Broadcasts, Marks
<1>4. \A k \in DOMAIN t : t[k] \in Known /\ t[k].seq \in Nat /\ k \in Nat
  BY <1>1, KnownFacts, NumberedFacts
<1> HIDE DEF s, t
<1>5. /\ \A i \in Marks(s) : i \in Marks(s \o t) /\ (s \o t)[i] = s[i]
      /\ \A i \in Marks(s \o t) :
           i \in Marks(s) \/ \E k \in DOMAIN t : i = Len(s) + k /\ (s \o t)[i] = t[k]
  BY <1>1, <1>3, MarksConcat
<1>6. ASSUME NEW d \in KnownIn(flights', out') PROVE d \in Known
  <2>1. \/ \E e \in flights' : \E k \in DOMAIN e.deltas : d = e.deltas[k]
        \/ \E h \in Hubs : \E i \in Marks(out'[h]) : d = out'[h][i]
    BY <1>6, KnownInFacts
  <2>2. CASE \E e \in flights' : \E k \in DOMAIN e.deltas : d = e.deltas[k]
    BY <1>1, <1>2, <2>2, KnownFacts
  <2>3. CASE \E h \in Hubs : \E i \in Marks(out'[h]) : d = out'[h][i]
    <3>1. PICK h \in Hubs : \E i \in Marks(out'[h]) : d = out'[h][i]
      BY <2>3
    <3>2. CASE h = "server"
      <4>1. PICK i \in Marks(s \o t) : d = (s \o t)[i]
        BY <1>3, <3>1, <3>2
      <4>2. CASE i \in Marks(s)
        BY <1>1, <1>3, <1>5, <3>2, <4>1, <4>2, KnownFacts DEF s
      <4>3. CASE i \notin Marks(s)
        BY <1>4, <1>5, <4>1, <4>3
      <4> QED
        BY <4>2, <4>3
    <3>3. CASE h = "conversation"
      BY <1>1, <1>3, <3>1, <3>3, KnownFacts, BroadcastFacts
    <3> QED
      BY <3>1, <3>2, <3>3 DEF Hubs
  <2> QED
    BY <2>1, <2>2, <2>3
<1>7. \A g \in Gens : BufInv(g)'
  BY <1>1, <1>2 DEF DataInv, BufInv
<1>8. NumberInv'
  BY <1>1, <1>2, <1>6, NumberKept DEF DataInv
<1>9. \A e \in flights' : FlightInv(e)'
  BY <1>1, <1>2 DEF DataInv, FlightInv
<1>10. ApartInv'
  BY <1>1, <1>2 DEF DataInv, ApartInv
<1>11. SentInv'
  <2>1. \A i \in Marks(s) : \A k \in DOMAIN t : t[k].seq # s[i].seq
    BY <1>1, <1>3 DEF SentInv, s, t
  <2>2. \A k, m \in DOMAIN t : k # m => t[k].seq # t[m].seq
    <3>1. \A k, m \in DOMAIN t : k < m => t[k].seq < t[m].seq
      BY <1>1 DEF FlightInv, t
    <3> QED
      BY <1>4, <3>1
  <2>3. ASSUME NEW i \in Marks(s \o t), NEW j \in Marks(s \o t), i # j
        PROVE  (s \o t)[i].seq # (s \o t)[j].seq
    <3>1. \A m1, m2 \in Marks(s) : m1 # m2 => s[m1].seq # s[m2].seq
      BY <1>1, <1>3 DEF SentInv, s, Hubs
    <3>2. CASE i \in Marks(s) /\ j \in Marks(s)
      BY <1>5, <2>3, <3>1, <3>2
    <3>3. CASE i \in Marks(s) /\ j \notin Marks(s)
      BY <1>5, <2>1, <3>3
    <3>4. CASE i \notin Marks(s) /\ j \in Marks(s)
      BY <1>5, <2>1, <3>4
    <3>5. CASE i \notin Marks(s) /\ j \notin Marks(s)
      <4>1. PICK k \in DOMAIN t : i = Len(s) + k /\ (s \o t)[i] = t[k]
        BY <1>5, <2>3, <3>5
      <4>2. PICK m \in DOMAIN t : j = Len(s) + m /\ (s \o t)[j] = t[m]
        BY <1>5, <2>3, <3>5
      <4> QED
        BY <2>2, <2>3, <4>1, <4>2
    <3> QED
      BY <3>2, <3>3, <3>4, <3>5
  <2>4. \A h \in Hubs : \A i, j \in Broadcasts(h)' : i # j => out'[h][i].seq # out'[h][j].seq
    BY <1>1, <1>3, <2>3, ZenonT(60) DEF SentInv, Hubs
  <2>5. \A e \in flights' : \A k \in DOMAIN e.left : \A i \in Broadcasts("conversation")' :
          e.left[k].seq # out'["conversation"][i].seq
    BY <1>1, <1>2, <1>3 DEF SentInv
  <2>6. ASSUME NEW e \in flights', NEW k \in DOMAIN e.deltas, NEW i \in Marks(s \o t)
        PROVE  e.deltas[k].seq # (s \o t)[i].seq
    <3>1. e \in flights /\ e # f
      BY <1>2, <2>6
    <3>2. \A m \in DOMAIN t : e.deltas[k].seq # t[m].seq
      BY <1>1, <2>6, <3>1 DEF DataInv, ApartInv, t
    <3>3. \A j \in Marks(s) : e.deltas[k].seq # s[j].seq
      BY <1>1, <1>3, <2>6, <3>1 DEF SentInv, s
    <3> QED
      BY <1>5, <2>6, <3>2, <3>3
  <2> QED
    BY <1>3, <2>4, <2>5, <2>6, ZenonT(60) DEF SentInv
<1>12. HeldInv'
  <2> SUFFICES ASSUME NEW q \in DOMAIN pushed, pushed[q] \notin replaced
               PROVE  Buffered(q)' \/ Flying(q)' \/ Sent(q)'
    BY <1>2 DEF HeldInv
  <2>1. Buffered(q) \/ Flying(q) \/ Sent(q)
    BY <1>1 DEF DataInv, HeldInv
  <2>2. CASE Buffered(q)
    BY <1>2, <2>2 DEF Buffered
  <2>3. CASE Sent(q)
    BY <1>3, <2>3 DEF Sent
  <2>4. CASE Flying(q)
    <3>1. DOMAIN f.left = {}
      BY <1>1
    <3> QED
      BY <1>2, <2>4, <3>1 DEF Flying
  <2> QED
    BY <2>1, <2>2, <2>3, <2>4
<1> QED
  BY <1>7, <1>8, <1>9, <1>10, <1>11, <1>12 DEF DataInv

(* The message is recorded: a message is not a delta.                      *)
LEMMA RecordMessageData ==
  ASSUME IInv, NEW g \in Gens, RecordMessage(g)
  PROVE  DataInv'
<1> DEFINE x == Message(Len(pushed))
<1>1. /\ TypeOK /\ DataInv /\ x \in Entries /\ ~IsDelta(x)
      /\ out \in [Hubs -> Seq(Entries)]
  <2>1. TypeOK /\ DataInv /\ out \in [Hubs -> Seq(Entries)] /\ Len(pushed) \in Nat
    BY DEF IInv, TypeOK, Entries
  <2> QED
    BY <2>1 DEF Message, IsDelta, Entries
<1>2. /\ UNCHANGED <<buf, flights, pushed, streamDeltaSeq, replaced>>
      /\ \A h \in Hubs : out'[h] = Append(out[h], x)
  BY DEF RecordMessage, flusherVars
<1> HIDE DEF x
<1>3. ASSUME NEW h \in Hubs
      PROVE  /\ Broadcasts(h)' = Broadcasts(h) /\ \A i \in Broadcasts(h) : out'[h][i] = out[h][i]
             /\ Broadcasts(h) = Marks(out[h]) /\ Marks(out'[h]) = Marks(out[h])
  <2>1. out[h] \in Seq(Entries)
    BY <1>1
  <2>2. /\ \A i \in Marks(out[h]) : i \in Marks(Append(out[h], x)) /\ Append(out[h], x)[i] = out[h][i]
        /\ \A i \in Marks(Append(out[h], x)) : i \in Marks(out[h])
    BY <1>1, <2>1, MarksAppend
  <2>3. Broadcasts(h) = Marks(out[h]) /\ Broadcasts(h)' = Marks(out'[h])
    BY <1>1, BroadcastFacts
  <2> QED
    BY <1>2, <2>2, <2>3
<1>4. ASSUME NEW d \in KnownIn(flights', out') PROVE d \in Known
  <2>1. \/ \E e \in flights' : \E k \in DOMAIN e.deltas : d = e.deltas[k]
        \/ \E h \in Hubs : \E i \in Marks(out'[h]) : d = out'[h][i]
    BY <1>4, KnownInFacts
  <2> QED
    BY <1>1, <1>2, <1>3, <2>1, KnownFacts
<1>5. \A h \in Gens : BufInv(h)'
  BY <1>1, <1>2 DEF DataInv, BufInv
<1>6. NumberInv'
  BY <1>1, <1>2, <1>4, NumberKept DEF DataInv
<1>7. \A e \in flights' : FlightInv(e)'
  BY <1>1, <1>2 DEF DataInv, FlightInv
<1>8. ApartInv'
  BY <1>1, <1>2 DEF DataInv, ApartInv
<1>9. SentInv'
  <2>1. SentInv /\ "conversation" \in Hubs /\ "server" \in Hubs
    BY <1>1 DEF DataInv, Hubs
  <2> QED
    BY <1>2, <1>3, <2>1, SMTT(60) DEF SentInv
<1>10. HeldInv'
  <2>1. HeldInv /\ "conversation" \in Hubs
    BY <1>1 DEF DataInv, Hubs
  <2> QED
    BY <1>2, <1>3, <2>1 DEF HeldInv, Buffered, Flying, Sent
<1> QED
  BY <1>5, <1>6, <1>7, <1>8, <1>9, <1>10 DEF DataInv

-----------------------------------------------------------------------------
(* Each step preserves the types and the invariant on the loops.           *)

(* Where a loop goes: only a loop that streams may have a buffer.          *)
LEMMA LoopMoves ==
  ASSUME IInv, NEW g \in Gens, NEW x \in {"idle", "stream", "flush", "dead"},
         pc[g] # "none", pc[g] # "dead", pc' = [pc EXCEPT ![g] = x],
         UNCHANGED <<current, replaced>>,
         \A h \in Gens : buf'[h] = buf[h] \/ buf'[h] = <<>>,
         buf'[g] = <<>>,
         \A f \in flights' : f \in flights \/ f.gen = g
  PROVE  LoopInv'
<1>1. TypeOK /\ LoopInv
  BY DEF IInv
<1>2. pc \in [Gens -> {"none", "idle", "stream", "flush", "dead"}] /\ \A f \in flights : f.gen \in Gens
  BY <1>1 DEF TypeOK, Flights
<1>3. pc'[g] = x /\ \A h \in Gens : h # g => pc'[h] = pc[h]
  BY <1>2
<1>4. \A h, k \in Gens : h < k /\ pc'[k] # "none" => pc'[h] = "dead"
  BY <1>1, <1>3 DEF LoopInv
<1>5. \A h \in Gens : pc'[h] # "none" => h = current' \/ h \in replaced'
  BY <1>1, <1>3 DEF LoopInv
<1>6. \A h \in Gens : pc'[h] # "stream" => buf'[h] = <<>>
  BY <1>1, <1>3 DEF LoopInv
<1>7. \A f \in flights' : pc'[f.gen] # "none"
  BY <1>1, <1>2, <1>3 DEF LoopInv
<1> QED
  BY <1>4, <1>5, <1>6, <1>7 DEF LoopInv

(* Taking the buffer.                                                      *)
LEMMA TakeTypes ==
  ASSUME IInv, NEW g \in Gens, NEW by \in {"loop", "timer"}, Take(g, by)
  PROVE  /\ buf' \in [Gens -> Seq(Deltas)] /\ running' \in [Gens -> BOOLEAN]
         /\ timer' \in [Gens -> BOOLEAN] /\ streamDeltaSeq' \in Nat /\ flights' \subseteq Flights
         /\ buf'[g] = <<>> /\ \A h \in Gens : h # g => buf'[h] = buf[h]
         /\ \A f \in flights' : f \in flights \/ (f.gen = g /\ pc[g] = "stream")
<1>1. /\ buf \in [Gens -> Seq(Deltas)] /\ running \in [Gens -> BOOLEAN] /\ timer \in [Gens -> BOOLEAN]
      /\ streamDeltaSeq \in Nat /\ flights \subseteq Flights /\ buf[g] \in Seq(Deltas)
  BY DEF IInv, TypeOK
<1>2. /\ buf' \in [Gens -> Seq(Deltas)] /\ buf'[g] = <<>> /\ \A h \in Gens : h # g => buf'[h] = buf[h]
  BY <1>1 DEF Take
<1>3. running' \in [Gens -> BOOLEAN]
  BY <1>1, Zenon DEF Take
<1>4. timer' \in [Gens -> BOOLEAN]
  BY <1>1, Zenon DEF Take
<1>5. streamDeltaSeq' \in Nat
  BY <1>1 DEF Take
<1> DEFINE D == Number(buf[g], streamDeltaSeq)
           F == [gen |-> g, by |-> by, at |-> "check", deltas |-> D, left |-> D]
<1>6. F \in Flights /\ F.gen = g
  <2>1. D \in Seq(Numbered)
    BY <1>1, NumberFacts
  <2> HIDE DEF D
  <2> QED
    BY <2>1 DEF Flights
<1>7. (flights' = flights /\ buf[g] = <<>>) \/ (flights' = flights \cup {F} /\ buf[g] # <<>>)
  BY DEF Take
<1>8. buf[g] # <<>> => pc[g] = "stream"
  BY DEF IInv, LoopInv
<1> HIDE DEF F
<1> QED
  BY <1>1, <1>2, <1>3, <1>4, <1>5, <1>6, <1>7, <1>8

(* The steps of the manager and of the loops that touch no data.           *)
LEMMA QuietStep ==
  ASSUME IInv, NEW g \in Gens,
         NewLoop(g) \/ Detach \/ Request(g) \/ EndUnrecorded(g) \/ LoopEnds(g)
  PROVE  TypeOK' /\ LoopInv'
<1>1. /\ TypeOK /\ LoopInv /\ current \in Gens \cup {0}
      /\ pc \in [Gens -> {"none", "idle", "stream", "flush", "dead"}] /\ replaced \subseteq Gens
      /\ \A f \in flights : f.gen \in Gens
  BY DEF IInv, TypeOK, Flights
<1>2. 0 \notin Gens /\ \A h, k \in Gens : h < k \/ k < h \/ h = k
  BY MaxGenAssumption DEF Gens
<1>3. UNCHANGED <<streamDeltaSeq, buf, running, timer, fired, flights, out, pushed, messages>>
  BY DEF NewLoop, Detach, Request, EndUnrecorded, LoopEnds, flusherVars
<1>4. CASE NewLoop(g)
  <2>1. /\ current = 0 /\ pc[g] = "none" /\ \A h \in Gens : h < g => pc[h] = "dead"
        /\ current' = g /\ replaced' = replaced /\ pc'[g] = "idle" /\ \A h \in Gens : h # g => pc'[h] = pc[h]
        /\ pc' \in [Gens -> {"none", "idle", "stream", "flush", "dead"}]
    BY <1>1, <1>4 DEF NewLoop
  <2>2. TypeOK'
    BY <1>1, <1>3, <2>1 DEF TypeOK
  <2>3. ASSUME NEW h \in Gens, NEW k \in Gens, h < k, pc'[k] # "none" PROVE pc'[h] = "dead"
    <3>1. CASE k = g
      BY <1>2, <2>1, <2>3, <3>1 DEF Gens
    <3>2. CASE k # g
      <4>1. pc[h] = "dead"
        BY <1>1, <2>1, <2>3, <3>2 DEF LoopInv
      <4> QED
        BY <2>1, <4>1
    <3> QED
      BY <3>1, <3>2
  <2>4. \A h \in Gens : pc'[h] # "none" => h = current' \/ h \in replaced'
    BY <1>1, <1>2, <2>1 DEF LoopInv
  <2>5. \A h \in Gens : pc'[h] # "stream" => buf'[h] = <<>>
    BY <1>1, <1>3, <2>1 DEF LoopInv
  <2>6. \A f \in flights' : pc'[f.gen] # "none"
    BY <1>1, <1>3, <2>1 DEF LoopInv
  <2> QED
    BY <2>2, <2>3, <2>4, <2>5, <2>6 DEF LoopInv
<1>5. CASE Detach
  <2>1. current' = 0 /\ current # 0 /\ replaced' = replaced \cup {current} /\ pc' = pc
    BY <1>5 DEF Detach
  <2>2. TypeOK'
    BY <1>1, <1>3, <2>1 DEF TypeOK
  <2> QED
    BY <1>1, <1>3, <2>1, <2>2 DEF LoopInv
<1>6. CASE Request(g)
  <2>1. /\ pc[g] = "idle" /\ pc' = [pc EXCEPT ![g] = "stream"] /\ UNCHANGED <<current, replaced>>
        /\ pc' \in [Gens -> {"none", "idle", "stream", "flush", "dead"}]
    BY <1>1, <1>6 DEF Request
  <2>2. TypeOK'
    BY <1>1, <1>3, <2>1 DEF TypeOK
  <2>3. buf'[g] = <<>>
    BY <1>1, <1>3, <2>1 DEF LoopInv
  <2>4. LoopInv'
    BY <1>3, <2>1, <2>3, LoopMoves
  <2> QED
    BY <2>2, <2>4
<1>7. CASE EndUnrecorded(g)
  <2>1. /\ pc[g] = "flush" /\ pc' = [pc EXCEPT ![g] = "idle"] /\ UNCHANGED <<current, replaced>>
        /\ pc' \in [Gens -> {"none", "idle", "stream", "flush", "dead"}]
    BY <1>1, <1>7 DEF EndUnrecorded, Flushed
  <2>2. TypeOK'
    BY <1>1, <1>3, <2>1 DEF TypeOK
  <2>3. buf'[g] = <<>>
    BY <1>1, <1>3, <2>1 DEF LoopInv
  <2>4. LoopInv'
    BY <1>3, <2>1, <2>3, LoopMoves
  <2> QED
    BY <2>2, <2>4
<1>8. CASE LoopEnds(g)
  <2>1. /\ pc[g] \in {"idle", "flush"} /\ pc' = [pc EXCEPT ![g] = "dead"] /\ UNCHANGED <<current, replaced>>
        /\ pc' \in [Gens -> {"none", "idle", "stream", "flush", "dead"}]
    BY <1>1, <1>8 DEF LoopEnds, Flushed
  <2>2. TypeOK'
    BY <1>1, <1>3, <2>1 DEF TypeOK
  <2>3. buf'[g] = <<>>
    BY <1>1, <1>3, <2>1 DEF LoopInv
  <2>4. LoopInv'
    BY <1>3, <2>1, <2>3, LoopMoves
  <2> QED
    BY <2>2, <2>4
<1> QED
  BY <1>4, <1>5, <1>6, <1>7, <1>8

(* The steps on a buffer and its timer.                                    *)
LEMMA FlusherStep ==
  ASSUME IInv, NEW g \in Gens,
         Push(g) \/ Fire(g) \/ TimerFlush(g) \/ Flush(g) \/ RecordMessage(g)
  PROVE  TypeOK' /\ LoopInv'
<1>1. /\ TypeOK /\ LoopInv /\ pushed \in Seq(Gens) /\ Len(pushed) \in Nat
      /\ pc \in [Gens -> {"none", "idle", "stream", "flush", "dead"}]
      /\ buf \in [Gens -> Seq(Deltas)] /\ fired \in [Gens -> Nat]
      /\ running \in [Gens -> BOOLEAN] /\ timer \in [Gens -> BOOLEAN]
      /\ \A f \in flights : f.gen \in Gens
  BY SMTT(60) DEF IInv, TypeOK, Flights
<1>2. CASE Push(g)
  <2> DEFINE n == Len(pushed)
             c == Coalesce(buf[g], Text[n + 1], n + 1)
  <2>1. /\ pc[g] = "stream" /\ n < Len(Text) /\ n + 1 \in Pieces
        /\ pushed' = Append(pushed, g) /\ buf' = [buf EXCEPT ![g] = c]
        /\ running' = [running EXCEPT ![g] = TRUE]
        /\ timer' = [timer EXCEPT ![g] = timer[g] \/ ~running[g]]
        /\ UNCHANGED <<current, streamDeltaSeq, pc, fired, flights, out, messages, replaced>>
    BY <1>1, <1>2, PieceFacts DEF Push
  <2>2. c \in Seq(Deltas)
    <3>1. /\ \A k \in DOMAIN buf[g] : Run(buf[g][k]) /\ Hi(buf[g][k]) <= n
          /\ \A i, k \in DOMAIN buf[g] : i < k => Hi(buf[g][i]) < Lo(buf[g][k])
          /\ buf[g] # <<>> => Hi(buf[g][Len(buf[g])]) = n
      BY DEF IInv, DataInv, BufInv, From
    <3>2. buf[g] \in Seq(Deltas) /\ n \in Nat
      BY <1>1
    <3> HIDE DEF n
    <3> QED
      BY <2>1, <3>1, <3>2, CoalesceFacts
  <2> HIDE DEF c
  <2>3. buf' \in [Gens -> Seq(Deltas)]
    BY <1>1, <2>1, <2>2
  <2>4. running' \in [Gens -> BOOLEAN]
    BY <1>1, <2>1, Zenon
  <2>5. timer' \in [Gens -> BOOLEAN]
    BY <1>1, <2>1, Zenon
  <2>6. pushed' \in Seq(Gens) /\ Len(pushed') <= Len(Text)
    BY <1>1, <2>1, PieceFacts
  <2>7. TypeOK'
    BY <1>1, <2>1, <2>3, <2>4, <2>5, <2>6 DEF TypeOK
  <2>8. LoopInv'
    BY <1>1, <2>1 DEF LoopInv
  <2> QED
    BY <2>7, <2>8
<1>3. CASE Fire(g)
  <2>1. UNCHANGED <<current, streamDeltaSeq, pc, buf, running, flights, out, pushed, messages, replaced>>
    BY <1>3 DEF Fire
  <2>2. timer' \in [Gens -> BOOLEAN]
    BY <1>1, <1>3, Zenon DEF Fire
  <2>3. fired' \in [Gens -> Nat]
    BY <1>1, <1>3 DEF Fire
  <2> QED
    BY <1>1, <2>1, <2>2, <2>3 DEF TypeOK, LoopInv
<1>4. CASE TimerFlush(g)
  <2>1. Take(g, "timer") /\ UNCHANGED <<current, pc, out, pushed, messages, replaced>>
    BY <1>4 DEF TimerFlush
  <2>2. fired' \in [Gens -> Nat]
    BY <1>1, <1>4 DEF TimerFlush
  <2>3. /\ buf' \in [Gens -> Seq(Deltas)] /\ running' \in [Gens -> BOOLEAN]
        /\ timer' \in [Gens -> BOOLEAN] /\ streamDeltaSeq' \in Nat /\ flights' \subseteq Flights
        /\ buf'[g] = <<>> /\ \A h \in Gens : h # g => buf'[h] = buf[h]
        /\ \A f \in flights' : f \in flights \/ (f.gen = g /\ pc[g] = "stream")
    BY <2>1, TakeTypes
  <2>4. TypeOK'
    BY <1>1, <2>1, <2>2, <2>3 DEF TypeOK
  <2>5. \A h \in Gens : pc'[h] # "stream" => buf'[h] = <<>>
    BY <1>1, <2>1, <2>3 DEF LoopInv
  <2>6. \A f \in flights' : pc'[f.gen] # "none"
    BY <1>1, <2>1, <2>3 DEF LoopInv
  <2> QED
    BY <1>1, <2>1, <2>4, <2>5, <2>6 DEF LoopInv
<1>5. CASE Flush(g)
  <2>1. /\ Take(g, "loop") /\ UNCHANGED <<current, fired, out, pushed, messages, replaced>>
        /\ pc[g] = "stream" /\ pc' = [pc EXCEPT ![g] = "flush"]
    BY <1>5 DEF Flush
  <2>2. pc' \in [Gens -> {"none", "idle", "stream", "flush", "dead"}]
    BY <1>1, <2>1
  <2>3. /\ buf' \in [Gens -> Seq(Deltas)] /\ running' \in [Gens -> BOOLEAN]
        /\ timer' \in [Gens -> BOOLEAN] /\ streamDeltaSeq' \in Nat /\ flights' \subseteq Flights
        /\ buf'[g] = <<>> /\ \A h \in Gens : h # g => buf'[h] = buf[h]
        /\ \A f \in flights' : f \in flights \/ (f.gen = g /\ pc[g] = "stream")
    BY <2>1, TakeTypes
  <2>4. TypeOK'
    BY <1>1, <2>1, <2>2, <2>3 DEF TypeOK
  <2>5. LoopInv'
    BY <2>1, <2>3, LoopMoves
  <2> QED
    BY <2>4, <2>5
<1>6. CASE RecordMessage(g)
  <2>1. /\ pc[g] = "flush" /\ messages < MaxMessages /\ messages' = messages + 1
        /\ out' = [h \in Hubs |-> Append(out[h], Message(Len(pushed)))]
        /\ pc' = [pc EXCEPT ![g] = "idle"]
        /\ UNCHANGED <<current, streamDeltaSeq, buf, running, timer, fired, flights, pushed, replaced>>
    BY <1>6 DEF RecordMessage, Flushed, flusherVars
  <2>2. pc' \in [Gens -> {"none", "idle", "stream", "flush", "dead"}]
    BY <1>1, <2>1
  <2>3. messages' \in 0..MaxMessages
    BY <1>1, <2>1, MaxMessagesAssumption DEF TypeOK
  <2>4. out' \in [Hubs -> Seq(Numbered \cup [message : Nat])]
    <3>1. Message(Len(pushed)) \in [message : Nat]
      BY <1>1 DEF Message
    <3>2. \A h \in Hubs : out[h] \in Seq(Numbered \cup [message : Nat])
      BY <1>1 DEF TypeOK
    <3>3. \A h \in Hubs : Append(out[h], Message(Len(pushed))) \in Seq(Numbered \cup [message : Nat])
      BY <3>1, <3>2
    <3> QED
      BY <2>1, <3>3
  <2>5. TypeOK'
    BY <1>1, <2>1, <2>2, <2>3, <2>4 DEF TypeOK
  <2>6. buf'[g] = <<>>
    BY <1>1, <2>1 DEF LoopInv
  <2>7. LoopInv'
    BY <2>1, <2>6, LoopMoves
  <2> QED
    BY <2>5, <2>7
<1> QED
  BY <1>2, <1>3, <1>4, <1>5, <1>6

(* The steps of a flush call.                                              *)
LEMMA FlightStep ==
  ASSUME IInv, NEW f \in flights, ShouldPublish(f) \/ BroadcastDelta(f) \/ BroadcastBatch(f)
  PROVE  TypeOK' /\ LoopInv'
<1>1. /\ TypeOK /\ LoopInv /\ f \in Flights /\ flights \subseteq Flights
      /\ f.left \in Seq(Numbered) /\ f.deltas \in Seq(Numbered)
      /\ out \in [Hubs -> Seq(Entries)] /\ "conversation" \in Hubs /\ "server" \in Hubs
  BY DEF IInv, TypeOK, Flights, Entries, Hubs
<1>2. UNCHANGED <<current, streamDeltaSeq, pc, buf, running, timer, fired, pushed, messages, replaced>>
  BY DEF ShouldPublish, BroadcastDelta, BroadcastBatch, flusherVars
<1>3. /\ out' \in [Hubs -> Seq(Entries)] /\ flights' \subseteq Flights
      /\ \A e \in flights' : e \in flights \/ e.gen = f.gen
  <2>1. CASE ShouldPublish(f)
    <3> DEFINE f2 == [f EXCEPT !.at = "send"]
    <3>1. f2 \in Flights /\ f2.gen = f.gen
      BY <1>1 DEF Flights
    <3>2. flights' = (flights \ {f}) \cup (IF f.gen = current THEN {f2} ELSE {}) /\ out' = out
      BY <2>1 DEF ShouldPublish
    <3> HIDE DEF f2
    <3> QED
      BY <1>1, <3>1, <3>2
  <2>2. CASE BroadcastDelta(f)
    <3> DEFINE f2 == [f EXCEPT !.left = Tail(@)]
    <3>1. f.left # <<>>
      BY <2>2 DEF BroadcastDelta
    <3>2. Tail(f.left) \in Seq(Numbered) /\ Head(f.left) \in Entries
      BY <1>1, <3>1 DEF Entries
    <3>3. f2 \in Flights /\ f2.gen = f.gen
      BY <1>1, <3>2 DEF Flights
    <3>4. flights' = (flights \ {f}) \cup {f2}
      BY <2>2 DEF BroadcastDelta
    <3>5. out' \in [Hubs -> Seq(Entries)]
      <4>1. Append(out["conversation"], Head(f.left)) \in Seq(Entries)
        BY <1>1, <3>2
      <4>2. out' = [out EXCEPT !["conversation"] = Append(out["conversation"], Head(f.left))]
        BY <2>2 DEF BroadcastDelta
      <4> QED
        BY <1>1, <4>1, <4>2
    <3> HIDE DEF f2
    <3> QED
      BY <1>1, <3>3, <3>4, <3>5
  <2>3. CASE BroadcastBatch(f)
    <3>1. out["server"] \o f.deltas \in Seq(Entries)
      <4>1. out["server"] \in Seq(Entries) /\ f.deltas \in Seq(Entries)
        BY <1>1 DEF Entries
      <4> QED
        BY <4>1
    <3>2. out' = [out EXCEPT !["server"] = out["server"] \o f.deltas] /\ flights' = flights \ {f}
      BY <2>3 DEF BroadcastBatch
    <3> QED
      BY <1>1, <3>1, <3>2
  <2> QED
    BY <2>1, <2>2, <2>3
<1>4. TypeOK'
  BY <1>1, <1>2, <1>3 DEF TypeOK, Entries
<1>5. LoopInv'
  BY <1>1, <1>2, <1>3 DEF LoopInv
<1> QED
  BY <1>4, <1>5

-----------------------------------------------------------------------------
(* The initial states satisfy the invariant: nothing was pushed.           *)
LEMMA InitInv == Init => IInv
<1> SUFFICES ASSUME Init PROVE IInv
  OBVIOUS
<1>1. TypeOK
  <2>1. running \in [Gens -> BOOLEAN] /\ timer \in [Gens -> BOOLEAN]
    BY Zenon DEF Init
  <2>2. /\ buf \in [Gens -> Seq(Deltas)] /\ out \in [Hubs -> Seq(Numbered \cup [message : Nat])]
        /\ pushed \in Seq(Gens) /\ Len(pushed) <= Len(Text)
    BY PieceFacts DEF Init
  <2> QED
    BY <2>1, <2>2, MaxMessagesAssumption DEF Init, TypeOK
<1>2. LoopInv
  BY DEF Init, LoopInv
<1>3. \A h \in Hubs : Broadcasts(h) = {} /\ Marks(out[h]) = {}
  BY DEF Init, Broadcasts, Marks
<1>4. \A d : d \notin Known
  BY <1>3, KnownInFacts DEF Known, Init
<1>5. \A g \in Gens : buf[g] = <<>>
  BY DEF Init
<1>6. \A g \in Gens : BufInv(g)
  BY <1>5 DEF BufInv
<1>7. NumberInv
  BY <1>4 DEF NumberInv
<1>8. flights = {} /\ pushed = <<>>
  BY DEF Init
<1>9. ApartInv /\ SentInv /\ HeldInv /\ \A f \in flights : FlightInv(f)
  BY <1>3, <1>8 DEF ApartInv, SentInv, HeldInv
<1> QED
  BY <1>1, <1>2, <1>6, <1>7, <1>9 DEF IInv, DataInv

(* Every step of the manager, a loop, a callback or a flush call preserves *)
(* the invariant.                                                          *)
LEMMA StepInv == IInv /\ [Next]_vars => IInv'
<1> SUFFICES ASSUME IInv, [Next]_vars PROVE IInv'
  OBVIOUS
<1>1. DataInv
  BY DEF IInv
<1>2. CASE UNCHANGED vars
  <2>1. DataInv'
    BY <1>1, <1>2, QuietData DEF vars, flusherVars
  <2>2. TypeOK' /\ LoopInv'
    BY <1>2 DEF vars, flusherVars, IInv, TypeOK, LoopInv
  <2> QED
    BY <2>1, <2>2 DEF IInv
<1>3. CASE Broadcast
  <2>1. PICK f \in flights : ShouldPublish(f) \/ BroadcastDelta(f) \/ BroadcastBatch(f)
    BY <1>3 DEF Broadcast
  <2>2. DataInv'
    BY <2>1, ShouldPublishData, BroadcastDeltaData, BroadcastBatchData
  <2> QED
    BY <2>1, <2>2, FlightStep DEF IInv
<1>4. CASE Detach
  <2>1. \E g \in Gens : g = current
    BY <1>4 DEF Detach, IInv, TypeOK
  <2>2. TypeOK' /\ LoopInv'
    BY <1>4, <2>1, QuietStep
  <2>3. DataInv'
    BY <1>1, <1>4, QuietData DEF Detach, flusherVars
  <2> QED
    BY <2>2, <2>3 DEF IInv
<1>5. ASSUME NEW g \in Gens, NewLoop(g) \/ Callback(g) \/ Loop(g) PROVE IInv'
  <2>1. CASE NewLoop(g) \/ Request(g) \/ EndUnrecorded(g) \/ LoopEnds(g)
    <3>1. TypeOK' /\ LoopInv'
      BY <2>1, QuietStep
    <3>2. UNCHANGED <<buf, flights, out, pushed, streamDeltaSeq, replaced>>
      BY <2>1 DEF NewLoop, Request, EndUnrecorded, LoopEnds, flusherVars
    <3>3. DataInv'
      BY <1>1, <3>2, QuietData
    <3> QED
      BY <3>1, <3>3 DEF IInv
  <2>2. CASE Fire(g)
    <3>1. UNCHANGED <<buf, flights, out, pushed, streamDeltaSeq, replaced>>
      BY <2>2 DEF Fire
    <3>2. DataInv'
      BY <1>1, <3>1, QuietData
    <3> QED
      BY <2>2, <3>2, FlusherStep DEF IInv
  <2>3. CASE Push(g)
    BY <2>3, PushData, FlusherStep DEF IInv
  <2>4. CASE TimerFlush(g)
    <3>1. Take(g, "timer") /\ UNCHANGED <<out, pushed, replaced>>
      BY <2>4 DEF TimerFlush
    <3>2. DataInv'
      BY <3>1, TakeData
    <3> QED
      BY <2>4, <3>2, FlusherStep DEF IInv
  <2>5. CASE Flush(g)
    <3>1. Take(g, "loop") /\ UNCHANGED <<out, pushed, replaced>>
      BY <2>5 DEF Flush
    <3>2. DataInv'
      BY <3>1, TakeData
    <3> QED
      BY <2>5, <3>2, FlusherStep DEF IInv
  <2>6. CASE RecordMessage(g)
    BY <2>6, RecordMessageData, FlusherStep DEF IInv
  <2> QED
    BY <1>5, <2>1, <2>2, <2>3, <2>4, <2>5, <2>6 DEF Callback, Loop
<1> QED
  BY <1>2, <1>3, <1>4, <1>5 DEF Next

-----------------------------------------------------------------------------
(* The invariant holds in every reachable state, for any text, loops and   *)
(* messages.                                                               *)
THEOREM Invariance == Spec => []IInv
<1> QED
  BY InitInv, StepInv, PTL DEF Spec

(* streamFlusher: Push, the timer callbacks and the final Flush neither    *)
(* lose nor repeat a piece of a loop that was not replaced.                *)
THEOREM TextKept == Spec => []NothingLost
<1> QED
  BY Invariance, OnePlace, PTL

(* StreamDelta.Seq: sorted by their numbers, the deltas that a hub got are *)
(* the text in the order it was pushed, whichever flush call was first.    *)
THEOREM NumbersOrderText == Spec => []SeqIsTextOrder
<1> QED
  BY Invariance, OrderIsText, PTL

=============================================================================
