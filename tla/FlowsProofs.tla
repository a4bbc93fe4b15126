------------------------------ MODULE FlowsProofs ------------------------------
(***************************************************************************)
(* Proofs about the two queues of module Flows.                            *)
(***************************************************************************)
EXTENDS Flows, SequenceFacts, TLAPS

-----------------------------------------------------------------------------
(* The rows of the tables.                                                 *)

Rows == [n : Nat, shape : Shapes]
Parts == [n : Nat, part : Nat]
PartsOf(I) == {r \in Parts : r.n \in I}

LEMMA RowsAssociative ==
  \A x, y, z \in Seq(Rows) : (x \o y) \o z = x \o (y \o z)
<1> TAKE x, y, z \in Seq(Rows)
<1> QED
  BY ONLY x \in Seq(Rows), y \in Seq(Rows), z \in Seq(Rows), ConcatAssociative

LEMMA PlanFacts ==
  /\ Len(W!Plan) = 14 /\ DOMAIN W!Plan = 1 .. 14
  /\ \A i \in 1 .. 14 : W!KindAt(i) \in W!Kinds /\ W!TableAt(i) \in W!Tables
  /\ \A i, j \in 1 .. 14 : W!TableAt(i) = W!TableAt(j) => i = j
<1>1. Len(W!Plan) = 14 /\ DOMAIN W!Plan = 1 .. 14
  BY DEF W!Plan
<1>2. ASSUME NEW i \in 1 .. 14 PROVE W!KindAt(i) \in W!Kinds
  BY DEF W!KindAt, W!Plan, W!Kinds, W!Json
<1>3. ASSUME NEW i \in 1 .. 14 PROVE W!TableAt(i) \in W!Tables
  BY <1>1 DEF W!Tables
<1>4. ASSUME NEW i \in 1 .. 14, NEW j \in 1 .. 14, W!TableAt(i) = W!TableAt(j) PROVE i = j
  BY <1>4 DEF W!TableAt, W!Plan
<1> QED
  BY <1>1, <1>2, <1>3, <1>4

LEMMA SameFlatten == \A s : W!FlattenSeq(s) = FlattenSeq(s)
BY DEF W!FlattenSeq, FlattenSeq

LEMMA TableNames ==
  \A t \in W!Tables :
     t \in {"profiling_event", "flame_graph", "jvm_gc", "onoff_metric", "span_trace",
            "originx_app_info", "slow_report", "error_report", "error_propagation", "report_metric",
            "originx_agent_event", "service_relationship", "service_client", "client_metric"}
BY PlanFacts DEF W!Tables, W!TableAt, W!Plan

LEMMA RowsOfType ==
  ASSUME NEW t \in W!Tables, NEW row \in Rows
  PROVE  W!RowsOf(t, row) \in Seq(PartsOf({row.n}))
<1> DEFINE S == PartsOf({row.n})
<1>1. \A count \in Nat : W!Parts(row, count) \in Seq(S)
  <2> SUFFICES ASSUME NEW count \in Nat PROVE W!Parts(row, count) \in Seq(S)
    OBVIOUS
  <2>1. \A i \in 1 .. count : [n |-> row.n, part |-> i] \in S
    BY DEF Rows, Parts, PartsOf
  <2> HIDE DEF S
  <2> QED
    BY <2>1 DEF W!Parts
<1>2. <<>> \in Seq(S) /\ W!Whole(row) \in Seq(S) /\ W!Decoded(row) \in Seq(S)
  <2> HIDE DEF S
  <2> QED
    BY <1>1 DEF W!Whole, W!Decoded
<1>3. W!WriteErrorPropagations(row) \in Seq(S)
  BY <1>2 DEF W!WriteErrorPropagations
<1>4. row.shape.relationships \in Nat /\ row.shape.calls \in Seq(STRING)
  BY ShapesAssumption DEF Rows
<1>5. W!WriteServiceRelationships(row) \in Seq(S) /\ W!WriteServiceClients(row) \in Seq(S)
  <2>1. Len(row.shape.calls) \in Nat
    BY <1>4
  <2> QED
    BY <2>1, <1>1, <1>4 DEF W!WriteServiceRelationships, W!WriteServiceClients
<1>6. W!WriteClientMetric(row) \in Seq(S)
  <2> DEFINE c == row.shape.calls
             m == [i \in DOMAIN c |->
                     IF c[i] \in {"external", "db", "mq"} THEN <<[n |-> row.n, part |-> i]>> ELSE <<>>]
  <2>1. DOMAIN c = 1 .. Len(c) /\ Len(c) \in Nat
    BY <1>4
  <2>2. ASSUME NEW i \in DOMAIN c PROVE m[i] \in Seq(S)
    <3>1. [n |-> row.n, part |-> i] \in S
      BY <2>1 DEF Rows, Parts, PartsOf
    <3> HIDE DEF S
    <3>2. <<[n |-> row.n, part |-> i]>> \in Seq(S) /\ <<>> \in Seq(S)
      BY <3>1
    <3> QED
      BY <3>2
  <2>3. m \in Seq(Seq(S))
    <3> HIDE DEF S
    <3>1. m = [i \in 1 .. Len(c) |-> m[i]]
      BY <2>1
    <3> HIDE DEF m
    <3> QED
      BY <3>1, <2>1, <2>2
  <2> HIDE DEF S
  <2>4. FlattenSeq(m) \in Seq(S)
    BY <2>3, FlattenType
  <2> QED
    BY <2>4, SameFlatten DEF W!WriteClientMetric
<1> HIDE DEF S
<1>7. W!RowsOf(t, row) \in Seq(S)
  BY <1>2, <1>3, <1>5, <1>6, TableNames
     DEF W!RowsOf, W!WriteProfilingEvents, W!WriteFlameGraph, W!WriteJvmGcs, W!WriteOnOffMetrics,
         W!WriteSpanTraces, W!WriteSlowReports, W!WriteErrorReports, W!WriteReportMetrics,
         W!WriteAgentEvents, W!WriteAppInfos
<1> QED
  BY <1>7 DEF S

\* The rows that are made of rows with numbers in I have numbers in I.
LEMMA RowsForType ==
  ASSUME NEW t \in W!Tables, NEW s \in Seq(Rows), NEW I, \A i \in 1 .. Len(s) : s[i].n \in I
  PROVE  W!RowsFor(t, s) \in Seq(PartsOf(I))
<1> DEFINE m == [i \in DOMAIN s |-> W!RowsOf(t, s[i])]
<1>1. DOMAIN s = 1 .. Len(s) /\ Len(s) \in Nat /\ \A i \in DOMAIN s : s[i] \in Rows
  OBVIOUS
<1>2. ASSUME NEW i \in DOMAIN s PROVE m[i] \in Seq(PartsOf(I))
  <2>1. W!RowsOf(t, s[i]) \in Seq(PartsOf({s[i].n}))
    BY <1>1, RowsOfType
  <2>2. PartsOf({s[i].n}) \subseteq PartsOf(I)
    BY <1>1 DEF PartsOf
  <2>3. Seq(PartsOf({s[i].n})) \subseteq Seq(PartsOf(I))
    BY <2>2, SeqMonotonic
  <2> QED
    BY <2>1, <2>3
<1>3. m \in Seq(Seq(PartsOf(I)))
  <2>1. m = [i \in 1 .. Len(s) |-> m[i]]
    BY <1>1
  <2> HIDE DEF m
  <2> QED
    BY <2>1, <1>1, <1>2
<1>4. FlattenSeq(m) \in Seq(PartsOf(I))
  BY <1>3, FlattenType
<1> QED
  BY <1>4, SameFlatten DEF W!RowsFor

LEMMA RowsForConcat ==
  ASSUME NEW t \in W!Tables, NEW s \in Seq(Rows), NEW u \in Seq(Rows)
  PROVE  W!RowsFor(t, s \o u) = W!RowsFor(t, s) \o W!RowsFor(t, u)
<1> DEFINE f == [row \in Rows |-> W!RowsOf(t, row)]
<1>1. Maps(f, Rows, Seq(Parts))
  <2>1. ASSUME NEW row \in Rows PROVE W!RowsOf(t, row) \in Seq(Parts)
    <3>1. PartsOf({row.n}) \subseteq Parts
      BY DEF PartsOf
    <3>2. Seq(PartsOf({row.n})) \subseteq Seq(Parts)
      BY <3>1, SeqMonotonic
    <3> QED
      BY <3>2, RowsOfType
  <2> QED
    BY <2>1 DEF Maps
<1>2. \A x \in Seq(Rows) : W!RowsFor(t, x) = FlattenSeq(Mapped(f, x))
  <2> SUFFICES ASSUME NEW x \in Seq(Rows) PROVE W!RowsFor(t, x) = FlattenSeq(Mapped(f, x))
    OBVIOUS
  <2>1. \A i \in DOMAIN x : x[i] \in Rows
    OBVIOUS
  <2>2. [i \in DOMAIN x |-> W!RowsOf(t, x[i])] = Mapped(f, x)
    BY <2>1 DEF Mapped
  <2> HIDE DEF f
  <2> QED
    BY <2>2, SameFlatten DEF W!RowsFor
<1> HIDE DEF f
<1>3. Mapped(f, s) \in Seq(Seq(Parts)) /\ Mapped(f, u) \in Seq(Seq(Parts)) /\ Mapped(f, s \o u) = Mapped(f, s) \o Mapped(f, u)
  BY <1>1, MapConcat
<1>4. s \o u \in Seq(Rows)
  OBVIOUS
<1>5. FlattenSeq(Mapped(f, s) \o Mapped(f, u)) = FlattenSeq(Mapped(f, s)) \o FlattenSeq(Mapped(f, u))
  BY <1>3, FlattenConcat
<1> QED
  BY <1>2, <1>3, <1>4, <1>5

LEMMA WithoutType ==
  ASSUME NEW s \in Seq(Parts), NEW gone
  PROVE  W!Without(s, gone) \in Seq(Parts)
<1> DEFINE m == [i \in DOMAIN s |-> IF s[i] \in gone THEN <<>> ELSE <<s[i]>>]
<1>1. m \in Seq(Seq(Parts))
  <2>1. DOMAIN s = 1 .. Len(s) /\ Len(s) \in Nat /\ \A i \in DOMAIN s : s[i] \in Parts
    OBVIOUS
  <2>2. \A i \in DOMAIN s : <<s[i]>> \in Seq(Parts) /\ <<>> \in Seq(Parts)
    BY <2>1
  <2> QED
    BY <2>1, <2>2
<1>2. FlattenSeq(m) \in Seq(Parts)
  BY <1>1, FlattenType
<1> QED
  BY <1>2, SameFlatten DEF W!Without

LEMMA WithoutConcat ==
  ASSUME NEW s \in Seq(Parts), NEW u \in Seq(Parts), NEW gone
  PROVE  W!Without(s \o u, gone) = W!Without(s, gone) \o W!Without(u, gone)
<1> DEFINE f == [r \in Parts |-> IF r \in gone THEN <<>> ELSE <<r>>]
<1>1. Maps(f, Parts, Seq(Parts))
  <2>1. ASSUME NEW r \in Parts PROVE (IF r \in gone THEN <<>> ELSE <<r>>) \in Seq(Parts)
    <3>1. <<>> \in Seq(Parts) /\ <<r>> \in Seq(Parts)
      OBVIOUS
    <3> QED
      BY <3>1
  <2> QED
    BY <2>1 DEF Maps
<1>2. \A x \in Seq(Parts) : W!Without(x, gone) = FlattenSeq(Mapped(f, x))
  <2> SUFFICES ASSUME NEW x \in Seq(Parts) PROVE W!Without(x, gone) = FlattenSeq(Mapped(f, x))
    OBVIOUS
  <2>1. \A i \in DOMAIN x : x[i] \in Parts
    OBVIOUS
  <2>2. [i \in DOMAIN x |-> IF x[i] \in gone THEN <<>> ELSE <<x[i]>>] = Mapped(f, x)
    BY <2>1 DEF Mapped
  <2> HIDE DEF f
  <2> QED
    BY <2>2, SameFlatten DEF W!Without
<1> HIDE DEF f
<1>3. Mapped(f, s) \in Seq(Seq(Parts)) /\ Mapped(f, u) \in Seq(Seq(Parts)) /\ Mapped(f, s \o u) = Mapped(f, s) \o Mapped(f, u)
  BY <1>1, MapConcat
<1>4. s \o u \in Seq(Parts)
  OBVIOUS
<1>5. FlattenSeq(Mapped(f, s) \o Mapped(f, u)) = FlattenSeq(Mapped(f, s)) \o FlattenSeq(Mapped(f, u))
  BY <1>3, FlattenConcat
<1> QED
  BY <1>2, <1>3, <1>4, <1>5

LEMMA WithoutSame ==
  ASSUME NEW s, NEW gone, NEW gone2, \A i \in DOMAIN s : s[i] \in gone <=> s[i] \in gone2
  PROVE  W!Without(s, gone) = W!Without(s, gone2)
<1>1. [i \in DOMAIN s |-> IF s[i] \in gone THEN <<>> ELSE <<s[i]>>]
        = [i \in DOMAIN s |-> IF s[i] \in gone2 THEN <<>> ELSE <<s[i]>>]
  OBVIOUS
<1> QED
  BY <1>1 DEF W!Without

LEMMA WithoutAll ==
  ASSUME NEW s \in Seq(Parts), NEW gone, \A i \in DOMAIN s : s[i] \in gone
  PROVE  W!Without(s, gone) = <<>>
<1>1. Len(s) \in Nat /\ DOMAIN s = 1 .. Len(s)
  OBVIOUS
<1>2. [i \in DOMAIN s |-> IF s[i] \in gone THEN <<>> ELSE <<s[i]>>] = [i \in 1 .. Len(s) |-> <<>>]
  BY <1>1
<1>3. FlattenSeq([i \in 1 .. Len(s) |-> <<>>]) = <<>>
  BY <1>1, FlattenNothing
<1> QED
  BY <1>2, <1>3, SameFlatten DEF W!Without

-----------------------------------------------------------------------------
(* RowsConserved.  What is appended to a buffer is always in three pieces: *)
(* the rows that earlier ticks dealt with, this tick's batch, the buffer.  *)

RowTypes == /\ accepted \in [W!Kinds -> Seq(Rows)]
            /\ buffer \in [W!Kinds -> Seq(Rows)]
            /\ batch \in [W!Kinds -> Seq(Rows)]
            /\ written \in [W!Tables -> Seq(Parts)]
            /\ lost \in [W!Tables -> SUBSET Parts]
            /\ step \in 0 .. 14 /\ size \in Nat

Numbered == \A k \in W!Kinds : \A j \in 1 .. Len(accepted[k]) : accepted[k][j].n = j

\* A length that was read is not more than there is to cut, and it is for a batch
\* that is not there yet.
CutInv == size > 0 => /\ step # 0 /\ W!Cuts(step)
                      /\ batch[W!KindAt(step)] = <<>>
                      /\ size <= Len(buffer[W!KindAt(step)])

\* The rows the i-th table has dealt with, done being those of earlier ticks.
DealtWith(i, done) == IF step # 0 /\ step <= i THEN done[W!KindAt(i)]
                      ELSE done[W!KindAt(i)] \o batch[W!KindAt(i)]

Conserved(t, rows) == /\ \A r \in lost[t] : r.n \in 1 .. Len(rows)
                      /\ written[t] = W!Without(W!RowsFor(t, rows), lost[t])

Pieces(done) == /\ done \in [W!Kinds -> Seq(Rows)]
                /\ \A k \in W!Kinds : accepted[k] = (done[k] \o batch[k]) \o buffer[k]
                /\ \A i \in 1 .. 14 : Conserved(W!TableAt(i), DealtWith(i, done))

RowInv == /\ RowTypes
          /\ Numbered
          /\ CutInv
          /\ \E done : Pieces(done)

LEMMA RowInvInit == W!Init => RowInv
<1> SUFFICES ASSUME W!Init PROVE RowInv
  OBVIOUS
<1> USE DEF W!Init
<1>1. <<>> \in Seq(Rows) /\ <<>> \in Seq(Parts) /\ Len(<<>>) = 0
  OBVIOUS
<1>2. RowTypes
  BY <1>1 DEF RowTypes
<1>3. Numbered /\ CutInv
  BY <1>1 DEF Numbered, CutInv
<1> DEFINE done == [k \in W!Kinds |-> <<>>]
<1>4. Pieces(done)
  <2>1. done \in [W!Kinds -> Seq(Rows)]
    BY <1>1
  <2>2. <<>> \o <<>> = <<>>
    BY <1>1
  <2>3. \A k \in W!Kinds : accepted[k] = (done[k] \o batch[k]) \o buffer[k]
    BY <2>2
  <2>4. ASSUME NEW i \in 1 .. 14
        PROVE  Conserved(W!TableAt(i), DealtWith(i, done))
    <3>1. W!KindAt(i) \in W!Kinds /\ W!TableAt(i) \in W!Tables
      BY PlanFacts
    <3>2. DealtWith(i, done) = <<>>
      BY <2>2, <3>1 DEF DealtWith
    <3>3. W!RowsFor(W!TableAt(i), <<>>) = <<>> /\ W!Without(<<>>, {}) = <<>>
      <4>1. FlattenSeq(<<>>) = <<>> /\ DOMAIN <<>> = {}
        BY DEF FlattenSeq
      <4>2. /\ [j \in DOMAIN <<>> |-> W!RowsOf(W!TableAt(i), <<>>[j])] = <<>>
            /\ [j \in DOMAIN <<>> |-> IF <<>>[j] \in {} THEN <<>> ELSE <<<<>>[j]>>] = <<>>
        OBVIOUS
      <4> QED
        BY <4>1, <4>2, SameFlatten DEF W!RowsFor, W!Without
    <3> QED
      BY <3>1, <3>2, <3>3 DEF Conserved
  <2> HIDE DEF done
  <2> QED
    BY <2>1, <2>3, <2>4 DEF Pieces
<1> QED
  BY <1>2, <1>3, <1>4 DEF RowInv

LEMMA Appended ==
  ASSUME RowInv, NEW k \in W!Kinds, NEW rows \in Seq(Rows),
         \A i \in 1 .. Len(rows) : rows[i].n = Len(accepted[k]) + i,
         W!AppendTo(k, rows)
  PROVE  RowInv'
<1> USE DEF W!AppendTo
<1>1. RowTypes'
  <2>1. \A s \in Seq(Rows) : s \o rows \in Seq(Rows)
    OBVIOUS
  <2>2. accepted' \in [W!Kinds -> Seq(Rows)] /\ buffer' \in [W!Kinds -> Seq(Rows)]
    BY <2>1 DEF RowInv, RowTypes
  <2> QED
    BY <2>2 DEF RowInv, RowTypes
<1>2. Numbered'
  <2> SUFFICES ASSUME NEW q \in W!Kinds, NEW j \in 1 .. Len(accepted'[q])
               PROVE  accepted'[q][j].n = j
    BY DEF Numbered
  <2>1. CASE q # k
    BY <2>1 DEF RowInv, RowTypes, Numbered
  <2>2. CASE q = k
    <3> DEFINE a == accepted[k]
    <3>1. a \in Seq(Rows) /\ accepted'[k] = a \o rows /\ \A l \in 1 .. Len(a) : a[l].n = l
      BY DEF RowInv, RowTypes, Numbered
    <3> HIDE DEF a
    <3>2. Len(a \o rows) = Len(a) + Len(rows) /\ Len(a) \in Nat /\ Len(rows) \in Nat
      BY <3>1
    <3>3. CASE j <= Len(a)
      BY <2>2, <3>1, <3>2, <3>3
    <3>4. CASE j > Len(a)
      <4>1. (a \o rows)[j] = rows[j - Len(a)] /\ j - Len(a) \in 1 .. Len(rows)
        BY <2>2, <3>1, <3>2, <3>4
      <4>2. rows[j - Len(a)].n = Len(a) + (j - Len(a))
        BY <4>1 DEF a
      <4> QED
        BY <2>2, <3>1, <3>2, <4>1, <4>2
    <3> QED
      BY <2>2, <3>1, <3>2, <3>3, <3>4
  <2> QED
    BY <2>1, <2>2
<1>3. CutInv'
  <2>1. ASSUME NEW q \in W!Kinds PROVE Len(buffer[q]) <= Len(buffer'[q])
    BY DEF RowInv, RowTypes
  <2>2. step # 0 => W!KindAt(step) \in W!Kinds
    <3>1. step # 0 => step \in 1 .. 14
      BY DEF RowInv, RowTypes
    <3> QED
      BY <3>1, PlanFacts
  <2>3. \A q \in W!Kinds : Len(buffer[q]) \in Nat /\ Len(buffer'[q]) \in Nat
    BY <1>1 DEF RowInv, RowTypes
  <2>4. UNCHANGED <<step, size, batch>>
    OBVIOUS
  <2> QED
    BY <2>1, <2>2, <2>3, <2>4 DEF RowInv, CutInv, RowTypes, W!Cuts
<1>4. PICK done : Pieces(done)
  BY DEF RowInv
<1>5. Pieces(done)'
  <2>1. ASSUME NEW q \in W!Kinds
        PROVE  accepted'[q] = (done[q] \o batch[q]) \o buffer'[q]
    <3>1. done[q] \in Seq(Rows) /\ batch[q] \in Seq(Rows) /\ buffer[q] \in Seq(Rows)
      BY <1>4 DEF RowInv, RowTypes, Pieces
    <3> DEFINE d == done[q] \o batch[q]
    <3>2. d \in Seq(Rows) /\ accepted[q] = d \o buffer[q]
      <4>1. d \in Seq(Rows)
        BY <3>1
      <4> QED
        BY <1>4, <4>1 DEF Pieces
    <3> HIDE DEF d
    <3>3. CASE q # k
      BY <3>2, <3>3 DEF RowInv, RowTypes, d
    <3>4. CASE q = k
      <4>1. accepted'[q] = (d \o buffer[q]) \o rows /\ buffer'[q] = buffer[q] \o rows
        BY <3>2, <3>4 DEF RowInv, RowTypes
      <4>2. (d \o buffer[q]) \o rows = d \o (buffer[q] \o rows)
        BY ONLY <3>1, <3>2, rows \in Seq(Rows), RowsAssociative, Zenon
      <4> QED
        BY <4>1, <4>2 DEF d
    <3> QED
      BY <3>3, <3>4
  <2>2. ASSUME NEW i \in 1 .. 14
        PROVE  Conserved(W!TableAt(i), DealtWith(i, done))'
    BY <1>4 DEF Pieces, Conserved, DealtWith
  <2> QED
    BY <1>4, <2>1, <2>2 DEF Pieces
<1> QED
  BY <1>1, <1>2, <1>3, <1>5 DEF RowInv

\* Facts about the table that is due and the next one.
LEMMA StepFacts ==
  ASSUME RowTypes, step # 0
  PROVE  /\ step \in 1 .. 14 /\ W!KindAt(step) \in W!Kinds /\ W!TableAt(step) \in W!Tables
         /\ W!Following(step) \in 0 .. 14
         /\ \A i \in 1 .. 14 : (W!Following(step) # 0 /\ W!Following(step) <= i) <=> (step <= i /\ i # step)
<1>1. step \in 1 .. 14
  BY DEF RowTypes
<1>2. W!Following(step) = (step + 1) % 15
  BY PlanFacts DEF W!Following
<1>3. W!Following(step) = IF step = 14 THEN 0 ELSE step + 1
  BY <1>1, <1>2
<1> QED
  BY <1>1, <1>3, PlanFacts

LEMMA TickKeeps ==
  ASSUME RowInv, W!Tick
  PROVE  RowInv'
<1> USE DEF W!Tick
<1>1. RowTypes'
  <2>1. <<>> \in Seq(Rows)
    OBVIOUS
  <2>2. batch' \in [W!Kinds -> Seq(Rows)]
    BY <2>1
  <2> QED
    BY <2>2 DEF RowInv, RowTypes
<1>2. Numbered'
  BY DEF RowInv, Numbered
<1>3. CutInv'
  BY DEF RowInv, CutInv, RowTypes
<1>4. PICK done : Pieces(done)
  BY DEF RowInv
<1>6. PICK then : then = [k \in W!Kinds |-> done[k] \o batch[k]]
  OBVIOUS
<1>5. Pieces(then)'
  <2>1. ASSUME NEW q \in W!Kinds
        PROVE  /\ then[q] = done[q] \o batch[q] /\ then[q] \in Seq(Rows)
               /\ then[q] \o batch'[q] = then[q]
    <3>1. done[q] \in Seq(Rows) /\ batch[q] \in Seq(Rows)
      BY <1>4 DEF RowInv, RowTypes, Pieces
    <3>2. done[q] \o batch[q] \in Seq(Rows) /\ batch'[q] = <<>>
      BY <3>1
    <3>3. then[q] = done[q] \o batch[q]
      BY <1>6
    <3>4. \A x \in Seq(Rows) : x \o <<>> = x
      OBVIOUS
    <3> QED
      BY <3>2, <3>3, <3>4
  <2>2. then \in [W!Kinds -> Seq(Rows)]
    BY <2>1, <1>6
  <2>3. \A q \in W!Kinds : accepted'[q] = (then[q] \o batch'[q]) \o buffer'[q]
    BY <2>1, <1>4 DEF Pieces
  <2>4. ASSUME NEW i \in 1 .. 14
        PROVE  Conserved(W!TableAt(i), DealtWith(i, then))'
    <3>1. W!KindAt(i) \in W!Kinds
      BY PlanFacts
    <3>2. DealtWith(i, then)' = DealtWith(i, done)
      BY <3>1, <2>1 DEF DealtWith
    <3>3. Conserved(W!TableAt(i), DealtWith(i, done))
      BY <1>4 DEF Pieces
    <3> QED
      BY <3>2, <3>3 DEF Conserved
  <2> QED
    BY <2>2, <2>3, <2>4 DEF Pieces
<1> QED
  BY <1>1, <1>2, <1>3, <1>5 DEF RowInv

\* A table with nothing to write is passed over.
LEMMA PassedOver ==
  ASSUME RowInv, step # 0, size = 0, size' = 0, batch[W!KindAt(step)] = <<>>, step' = W!Following(step),
         UNCHANGED <<buffer, batch, written, accepted, lost>>
  PROVE  RowInv'
<1>1. RowTypes'
  BY StepFacts DEF RowInv, RowTypes
<1>2. Numbered' /\ CutInv'
  BY DEF RowInv, Numbered, CutInv
<1>3. PICK done : Pieces(done)
  BY DEF RowInv
<1>4. ASSUME NEW i \in 1 .. 14
      PROVE  DealtWith(i, done)' = DealtWith(i, done)
  <2>1. CASE i # step
    BY <2>1, StepFacts DEF RowInv, DealtWith
  <2>2. CASE i = step
    <3>1. done[W!KindAt(i)] \in Seq(Rows)
      BY <1>3, PlanFacts DEF Pieces
    <3>2. done[W!KindAt(i)] \o <<>> = done[W!KindAt(i)]
      BY <3>1
    <3> QED
      BY <2>2, <3>2, StepFacts DEF RowInv, DealtWith
  <2> QED
    BY <2>1, <2>2
<1>5. Pieces(done)'
  BY <1>3, <1>4 DEF Pieces, Conserved
<1> QED
  BY <1>1, <1>2, <1>5 DEF RowInv

LEMMA ReadLengthKeeps ==
  ASSUME RowInv, W!ReadLength
  PROVE  RowInv'
<1>1. /\ step # 0 /\ W!Cuts(step) /\ size = 0 /\ batch[W!KindAt(step)] = <<>>
      /\ size' = Len(buffer[W!KindAt(step)])
      /\ UNCHANGED <<buffer, batch, written, accepted, lost>>
  BY DEF W!ReadLength, W!Length
<1>2. CASE size' = 0
  BY <1>1, <1>2, PassedOver DEF W!ReadLength
<1>3. CASE size' # 0
  <2>1. step' = step
    BY <1>3 DEF W!ReadLength
  <2>2. size' \in Nat
    BY <1>1, StepFacts DEF RowInv, RowTypes
  <2>3. RowTypes' /\ Numbered'
    BY <1>1, <2>1, <2>2 DEF RowInv, RowTypes, Numbered
  <2>4. CutInv'
    BY <1>1, <2>1, <2>2 DEF CutInv
  <2>5. PICK done : Pieces(done)
    BY DEF RowInv
  <2>6. Pieces(done)'
    BY <1>1, <2>1, <2>5 DEF Pieces, Conserved, DealtWith
  <2> QED
    BY <2>3, <2>4, <2>6 DEF RowInv
<1> QED
  BY <1>2, <1>3

LEMMA GetToSendKeeps ==
  ASSUME RowInv, W!GetToSend
  PROVE  RowInv'
<1> DEFINE k == W!KindAt(step)
           front == SubSeq(buffer[k], 1, size)
           rest == SubSeq(buffer[k], size + 1, Len(buffer[k]))
<1>1. /\ size > 0
      /\ batch' = [batch EXCEPT ![k] = front]
      /\ buffer' = [buffer EXCEPT ![k] = rest]
      /\ size' = 0
      /\ UNCHANGED <<step, written, accepted, lost>>
  BY DEF W!GetToSend, W!Remaining
<1>2. /\ step # 0 /\ W!Cuts(step) /\ batch[k] = <<>> /\ size <= Len(buffer[k])
  BY <1>1 DEF RowInv, CutInv
<1>3. k \in W!Kinds /\ step \in 1 .. 14
  BY <1>2, StepFacts DEF RowInv
<1>4. buffer[k] \in Seq(Rows) /\ size \in 0 .. Len(buffer[k])
  BY <1>2, <1>3 DEF RowInv, RowTypes
<1>5. front \in Seq(Rows) /\ rest \in Seq(Rows) /\ front \o rest = buffer[k]
  <2>1. front \in Seq(Rows) /\ rest \in Seq(Rows)
    BY <1>4
  <2>2. front \o rest = buffer[k]
    BY <1>4, SplitJoins
  <2> QED
    BY <2>1, <2>2
<1> HIDE DEF front, rest, k
<1>6. RowTypes'
  BY <1>1, <1>5 DEF RowInv, RowTypes
<1>7. Numbered' /\ CutInv'
  BY <1>1 DEF RowInv, Numbered, CutInv
<1>8. PICK done : Pieces(done)
  BY DEF RowInv
<1>9. Pieces(done)'
  <2>1. ASSUME NEW q \in W!Kinds
        PROVE  accepted'[q] = (done[q] \o batch'[q]) \o buffer'[q]
    <3>1. accepted[q] = (done[q] \o batch[q]) \o buffer[q] /\ done[q] \in Seq(Rows)
      BY <1>8 DEF Pieces
    <3>2. CASE q # k
      BY <3>1, <3>2, <1>1 DEF RowInv, RowTypes
    <3>3. CASE q = k
      <4>1. batch'[q] = front /\ buffer'[q] = rest
        BY <3>3, <1>1 DEF RowInv, RowTypes
      <4>2. done[q] \o <<>> = done[q]
        BY <3>1
      <4>3. (done[q] \o front) \o rest = done[q] \o (front \o rest)
        BY ONLY <3>1, <1>5, RowsAssociative, Zenon
      <4> QED
        BY <1>1, <1>2, <1>5, <3>1, <3>3, <4>1, <4>2, <4>3
    <3> QED
      BY <3>2, <3>3
  <2>2. ASSUME NEW i \in 1 .. 14
        PROVE  Conserved(W!TableAt(i), DealtWith(i, done))'
    <3>1. W!KindAt(i) \in W!Kinds
      BY PlanFacts
    <3>2. DealtWith(i, done)' = DealtWith(i, done)
      <4>1. CASE W!KindAt(i) = k
        <5>1. step <= i
          BY <4>1, <1>2, <1>3 DEF W!Cuts, k
        <5> QED
          BY <5>1, <1>1, <1>2 DEF DealtWith
      <4>2. CASE W!KindAt(i) # k
        BY <4>2, <3>1, <1>1 DEF DealtWith, RowInv, RowTypes
      <4> QED
        BY <4>1, <4>2
    <3>3. Conserved(W!TableAt(i), DealtWith(i, done))
      BY <1>8 DEF Pieces
    <3> QED
      BY <1>1, <3>2, <3>3 DEF Conserved
  <2> QED
    BY <1>8, <2>1, <2>2 DEF Pieces
<1> QED
  BY <1>6, <1>7, <1>9 DEF RowInv

\* The rows of a batch follow those of the earlier ones.
LEMMA BatchNumbers ==
  ASSUME RowTypes, Numbered, NEW done, Pieces(done), NEW k \in W!Kinds
  PROVE  /\ done[k] \in Seq(Rows) /\ batch[k] \in Seq(Rows)
         /\ \A j \in 1 .. Len(done[k]) : done[k][j].n \in 1 .. Len(done[k])
         /\ \A j \in 1 .. Len(batch[k]) :
               batch[k][j].n \in Len(done[k]) + 1 .. Len(done[k]) + Len(batch[k])
<1> DEFINE d == done[k]
           b == batch[k]
           u == buffer[k]
<1>1. d \in Seq(Rows) /\ b \in Seq(Rows) /\ u \in Seq(Rows) /\ accepted[k] = (d \o b) \o u
  BY DEF RowTypes, Pieces
<1>2. \A j \in 1 .. Len(accepted[k]) : accepted[k][j].n = j
  BY DEF Numbered
<1> HIDE DEF d, b, u
<1>3. d \o b \in Seq(Rows) /\ Len(d) \in Nat /\ Len(b) \in Nat /\ Len(d \o b) = Len(d) + Len(b)
  BY <1>1
<1>4. /\ Len((d \o b) \o u) = Len(d) + Len(b) + Len(u) /\ Len(u) \in Nat
      /\ \A j \in 1 .. Len(d) + Len(b) : ((d \o b) \o u)[j] = (d \o b)[j]
  BY <1>1, <1>3
<1>5. \A j \in 1 .. Len(d) + Len(b) : (d \o b)[j].n = j
  BY <1>1, <1>2, <1>3, <1>4
<1>6. ASSUME NEW j \in 1 .. Len(d) PROVE d[j].n \in 1 .. Len(d)
  <2>1. (d \o b)[j] = d[j]
    BY <1>1
  <2> QED
    BY <2>1, <1>3, <1>5
<1>7. ASSUME NEW j \in 1 .. Len(b) PROVE b[j].n \in Len(d) + 1 .. Len(d) + Len(b)
  <2>1. (d \o b)[Len(d) + j] = b[j] /\ Len(d) + j \in 1 .. Len(d) + Len(b)
    BY <1>1, <1>3
  <2>2. (d \o b)[Len(d) + j].n = Len(d) + j
    BY <2>1, <1>5
  <2> QED
    BY <2>1, <2>2, <1>3
<1> QED
  BY <1>1, <1>6, <1>7 DEF d, b

\* A table gets its rows but for those that are refused.
LEMMA TableWritten ==
  ASSUME RowInv, W!Writing,
         NEW refused \in SUBSET Range(W!RowsFor(W!TableAt(step), batch[W!KindAt(step)])),
         lost' = [lost EXCEPT ![W!TableAt(step)] = @ \cup refused],
         written' = [written EXCEPT ![W!TableAt(step)] =
                       @ \o W!Without(W!RowsFor(W!TableAt(step), batch[W!KindAt(step)]), refused)],
         step' = W!Following(step),
         UNCHANGED <<buffer, size, batch, accepted>>
  PROVE  RowInv'
<1>0. PICK k, t, b : k = W!KindAt(step) /\ t = W!TableAt(step) /\ b = batch[k]
  OBVIOUS
<1> DEFINE rows == W!RowsFor(t, b)
<1>1. RowTypes /\ step # 0 /\ size = 0
  BY DEF W!Writing, RowInv
<1>2. step \in 1 .. 14 /\ k \in W!Kinds /\ t \in W!Tables
  BY <1>0, <1>1, StepFacts
<1>3. PICK done : Pieces(done)
  BY DEF RowInv
<1> DEFINE d == done[k]
           new == Len(d) + 1 .. Len(d) + Len(b)
<1>4. /\ d \in Seq(Rows) /\ b \in Seq(Rows)
      /\ \A j \in 1 .. Len(d) : d[j].n \in 1 .. Len(d)
      /\ \A j \in 1 .. Len(b) : b[j].n \in new
  BY <1>0, <1>1, <1>2, <1>3, BatchNumbers DEF RowInv
<1>5. rows \in Seq(PartsOf(new)) /\ W!RowsFor(t, d) \in Seq(PartsOf(1 .. Len(d)))
  <2> HIDE DEF new, d
  <2> QED
    BY <1>2, <1>4, RowsForType
<1>6. lost[t] \subseteq Parts /\ written[t] \in Seq(Parts)
  BY <1>1, <1>2 DEF RowTypes
<1>7. Conserved(t, d)
  <2>1. DealtWith(step, done) = d
    BY <1>0, <1>1, <1>2 DEF DealtWith
  <2> QED
    BY <1>0, <1>2, <1>3, <2>1 DEF Pieces
<1>8. refused \subseteq PartsOf(new)
  <2>1. Range(rows) \subseteq PartsOf(new)
    <3> HIDE DEF rows, new
    <3> QED
      BY <1>5 DEF Range
  <2>2. refused \subseteq Range(rows)
    BY <1>0
  <2> QED
    BY <2>1, <2>2
<1>9. /\ lost' = [lost EXCEPT ![t] = @ \cup refused]
      /\ written' = [written EXCEPT ![t] = @ \o W!Without(rows, refused)]
      /\ step' = W!Following(step)
      /\ UNCHANGED <<buffer, size, batch, accepted>>
  BY <1>0
<1>10. rows \in Seq(Parts) /\ W!RowsFor(t, d) \in Seq(Parts)
  <2>1. PartsOf(new) \subseteq Parts /\ PartsOf(1 .. Len(d)) \subseteq Parts
    BY DEF PartsOf
  <2> HIDE DEF rows, d, new
  <2> QED
    BY <2>1, <1>5, SeqMonotonic
<1>11. Len(d) \in Nat /\ Len(b) \in Nat
  BY <1>4
<1> HIDE DEF rows, d
<1>12. RowTypes'
  <2>1. W!Without(rows, refused) \in Seq(Parts)
    BY <1>10, WithoutType
  <2>2. written[t] \o W!Without(rows, refused) \in Seq(Parts)
    BY <2>1, <1>6
  <2>3. refused \subseteq Parts
    BY <1>8 DEF PartsOf
  <2>4. step' \in 0 .. 14
    BY <1>1, <1>9, StepFacts
  <2> QED
    BY <1>1, <1>2, <1>9, <2>2, <2>3, <2>4 DEF RowTypes
<1>13. Numbered' /\ CutInv'
  BY <1>1, <1>9 DEF RowInv, Numbered, CutInv
<1>14. Conserved(t, d \o b)'
  <2>1. lost'[t] = lost[t] \cup refused /\ written'[t] = written[t] \o W!Without(rows, refused)
    BY <1>1, <1>2, <1>9 DEF RowTypes
  <2>2. Len(d \o b) = Len(d) + Len(b)
    BY <1>4
  <2>3. \A r \in lost'[t] : r.n \in 1 .. Len(d \o b)
    <3>1. \A r \in lost[t] : r.n \in 1 .. Len(d)
      BY <1>7 DEF Conserved
    <3>2. \A r \in refused : r.n \in new
      BY <1>8 DEF PartsOf
    <3> QED
      BY <2>1, <2>2, <3>1, <3>2, <1>11
  <2>4. W!RowsFor(t, d \o b) = W!RowsFor(t, d) \o rows
    BY <1>2, <1>4, RowsForConcat DEF rows
  <2>5. W!Without(W!RowsFor(t, d) \o rows, lost'[t])
          = W!Without(W!RowsFor(t, d), lost'[t]) \o W!Without(rows, lost'[t])
    BY <1>10, WithoutConcat
  <2>6. W!Without(W!RowsFor(t, d), lost'[t]) = W!Without(W!RowsFor(t, d), lost[t])
    <3> DEFINE old == W!RowsFor(t, d)
    <3>1. ASSUME NEW i \in DOMAIN old PROVE old[i] \in lost'[t] <=> old[i] \in lost[t]
      <4>1. old[i] \in PartsOf(1 .. Len(d))
        <5> HIDE DEF old
        <5>1. old \in Seq(PartsOf(1 .. Len(d)))
          BY <1>5 DEF old
        <5> QED
          BY <5>1
      <4>2. old[i] \notin refused
        BY <4>1, <1>8, <1>11 DEF PartsOf
      <4> QED
        BY <4>2, <2>1
    <3> HIDE DEF old
    <3>2. W!Without(old, lost'[t]) = W!Without(old, lost[t])
      BY <3>1, WithoutSame
    <3> QED
      BY <3>2 DEF old
  <2>7. W!Without(rows, lost'[t]) = W!Without(rows, refused)
    <3>1. ASSUME NEW i \in DOMAIN rows PROVE rows[i] \in lost'[t] <=> rows[i] \in refused
      <4>1. rows[i] \in PartsOf(new)
        BY <1>5
      <4>2. rows[i] \notin lost[t]
        BY <4>1, <1>7, <1>11 DEF PartsOf, Conserved
      <4> QED
        BY <4>2, <2>1
    <3> QED
      BY <3>1, WithoutSame
  <2>8. written'[t] = W!Without(W!RowsFor(t, d \o b), lost'[t])
    <3>1. written[t] = W!Without(W!RowsFor(t, d), lost[t])
      BY <1>7 DEF Conserved
    <3> QED
      BY ONLY <2>1, <2>4, <2>5, <2>6, <2>7, <3>1
  <2> QED
    BY <2>3, <2>8 DEF Conserved
<1>15. Pieces(done)'
  <2>1. \A q \in W!Kinds : accepted'[q] = (done[q] \o batch'[q]) \o buffer'[q]
    BY <1>3, <1>9 DEF Pieces
  <2>2. ASSUME NEW i \in 1 .. 14
        PROVE  Conserved(W!TableAt(i), DealtWith(i, done))'
    <3>1. CASE i = step
      <4>1. DealtWith(i, done)' = d \o b /\ W!TableAt(i) = t
        BY <3>1, <1>0, <1>1, <1>9, StepFacts DEF DealtWith, d
      <4> QED
        BY <4>1, <1>14
    <3>2. CASE i # step
      <4>1. DealtWith(i, done)' = DealtWith(i, done)
        BY <3>2, <1>1, <1>9, StepFacts DEF DealtWith
      <4>2. W!TableAt(i) # t /\ W!TableAt(i) \in W!Tables
        BY <3>2, <1>0, <1>2, PlanFacts
      <4>3. lost'[W!TableAt(i)] = lost[W!TableAt(i)] /\ written'[W!TableAt(i)] = written[W!TableAt(i)]
        BY <4>2, <1>1, <1>9 DEF RowTypes
      <4>4. Conserved(W!TableAt(i), DealtWith(i, done))
        BY <1>3 DEF Pieces
      <4> QED
        BY <4>1, <4>3, <4>4 DEF Conserved
    <3> QED
      BY <3>1, <3>2
  <2> QED
    BY <1>3, <2>1, <2>2 DEF Pieces
<1> QED
  BY <1>12, <1>13, <1>15 DEF RowInv

LEMMA CommitKeeps ==
  ASSUME RowInv, W!Commit
  PROVE  RowInv'
<1> DEFINE t == W!TableAt(step)
           rows == W!RowsFor(t, batch[W!KindAt(step)])
<1>1. PICK refused \in W!Missing(t, rows) :
         /\ written' = [written EXCEPT ![t] = @ \o W!Without(rows, refused)]
         /\ lost' = [lost EXCEPT ![t] = @ \cup refused]
  BY DEF W!Commit
<1>2. W!Writing /\ step' = W!Following(step) /\ UNCHANGED <<buffer, size, batch, accepted>>
  BY DEF W!Commit
<1>3. refused \in SUBSET Range(rows)
  <2> HIDE DEF rows
  <2> QED
    BY DEF W!Missing, W!Range, Range
<1> QED
  BY <1>1, <1>2, <1>3, TableWritten

LEMMA WriteFailsKeeps ==
  ASSUME RowInv, W!WriteFails
  PROVE  RowInv'
<1>0. PICK t, b : t = W!TableAt(step) /\ b = batch[W!KindAt(step)]
  OBVIOUS
<1> DEFINE rows == W!RowsFor(t, b)
<1>1. /\ W!Writing /\ step' = W!Following(step)
      /\ lost' = [lost EXCEPT ![t] = @ \cup Range(rows)]
      /\ UNCHANGED <<buffer, size, batch, written, accepted>>
  BY <1>0 DEF W!WriteFails, W!Range, Range
<1>2. step # 0 /\ RowTypes
  BY <1>1 DEF W!Writing, RowInv
<1>3. t \in W!Tables /\ b \in Seq(Rows) /\ written[t] \in Seq(Parts)
  BY <1>0, <1>2, StepFacts DEF RowTypes
<1>4. rows \in Seq(Parts)
  <2>1. \A i \in 1 .. Len(b) : b[i].n \in Nat
    <3>1. \A i \in 1 .. Len(b) : b[i] \in Rows
      BY <1>3
    <3> QED
      BY <3>1 DEF Rows
  <2>2. rows \in Seq(PartsOf(Nat))
    BY <1>3, <2>1, RowsForType
  <2>3. PartsOf(Nat) \subseteq Parts
    BY DEF PartsOf
  <2> HIDE DEF rows
  <2> QED
    BY <2>2, <2>3, SeqMonotonic
<1> HIDE DEF rows
<1>5. W!Without(rows, Range(rows)) = <<>>
  <2>1. \A i \in DOMAIN rows : rows[i] \in Range(rows)
    BY DEF Range
  <2> QED
    BY <1>4, <2>1, WithoutAll
<1>6. written' = [written EXCEPT ![t] = @ \o W!Without(rows, Range(rows))]
  <2>1. written[t] \o <<>> = written[t]
    BY <1>3
  <2> QED
    BY <1>1, <1>2, <1>3, <1>5, <2>1 DEF RowTypes
<1>7. Range(rows) \in SUBSET Range(rows)
  OBVIOUS
<1>8. /\ rows = W!RowsFor(W!TableAt(step), batch[W!KindAt(step)]) /\ t = W!TableAt(step)
      /\ UNCHANGED <<buffer, size, batch, accepted>>
  BY <1>0, <1>1 DEF rows
<1> QED
  BY <1>1, <1>6, <1>7, <1>8, TableWritten

LEMMA RowInvStep == RowInv /\ [W!Next]_wVars => RowInv'
<1> SUFFICES ASSUME RowInv, [W!Next]_wVars PROVE RowInv'
  OBVIOUS
<1>1. CASE W!Tick
  BY <1>1, TickKeeps
<1>2. CASE W!ReadLength
  BY <1>2, ReadLengthKeeps
<1>3. CASE W!GetToSend
  BY <1>3, GetToSendKeeps
<1>4. CASE W!NothingCut
  <2>1. CASE size = 0
    BY <1>4, <2>1, PassedOver DEF W!NothingCut
  <2>2. CASE size # 0
    BY <1>4, <2>2 DEF W!NothingCut, RowInv, RowTypes, CutInv
  <2> QED
    BY <2>1, <2>2
<1>5. CASE W!Commit
  BY <1>5, CommitKeeps
<1>6. CASE W!WriteFails
  BY <1>6, WriteFailsKeeps
<1>7. ASSUME NEW k \in W!Kinds, NEW shape \in Shapes, W!CacheRow(k, shape) PROVE RowInv'
  <2> DEFINE rows == <<W!Number(k, 1, shape)>>
  <2>1. Len(accepted[k]) \in Nat
    BY DEF RowInv, RowTypes
  <2>2. W!Number(k, 1, shape) \in Rows
    BY <2>1 DEF W!Number, Rows
  <2>3. rows \in Seq(Rows) /\ Len(rows) = 1 /\ rows[1].n = Len(accepted[k]) + 1
    BY <2>2 DEF W!Number
  <2>4. W!AppendTo(k, rows)
    BY <1>7 DEF W!CacheRow
  <2> HIDE DEF rows
  <2> QED
    BY <2>3, <2>4, Appended
<1>8. ASSUME NEW k \in W!Json, NEW shapes \in W!BoundedSeq(Shapes, 2), W!BatchStore(k, shapes) PROVE RowInv'
  <2> DEFINE rows == [i \in DOMAIN shapes |-> W!Number(k, i, shapes[i])]
  <2>1. k \in W!Kinds
    BY DEF W!Kinds
  <2>2. shapes \in Seq(Shapes)
    <3>1. PICK m \in 0 .. 2 : shapes \in [1 .. m -> Shapes]
      BY DEF W!BoundedSeq, W!SeqOf
    <3> QED
      BY <3>1
  <2>3. Len(accepted[k]) \in Nat
    BY <2>1 DEF RowInv, RowTypes
  <2>4. \A i \in DOMAIN shapes : rows[i] \in Rows /\ rows[i].n = Len(accepted[k]) + i
    BY <2>2, <2>3 DEF W!Number, Rows
  <2>5. DOMAIN shapes = 1 .. Len(shapes) /\ Len(shapes) \in Nat /\ DOMAIN rows = DOMAIN shapes
    BY <2>2
  <2>6. W!AppendTo(k, rows)
    BY <1>8 DEF W!BatchStore
  <2>7. rows \in Seq(Rows) /\ Len(rows) = Len(shapes)
    <3>1. rows = [i \in 1 .. Len(shapes) |-> rows[i]]
      BY <2>5
    <3> HIDE DEF rows
    <3> QED
      BY <3>1, <2>4, <2>5
  <2> HIDE DEF rows
  <2>8. \A i \in 1 .. Len(rows) : rows[i].n = Len(accepted[k]) + i
    BY <2>4, <2>5, <2>7
  <2> QED
    BY <2>1, <2>6, <2>7, <2>8, Appended
<1>9. CASE UNCHANGED wVars
  BY <1>9 DEF wVars, RowInv, RowTypes, Numbered, CutInv, Pieces, Conserved, DealtWith
<1> QED
  BY <1>1, <1>2, <1>3, <1>4, <1>5, <1>6, <1>7, <1>8, <1>9 DEF W!Next, W!BatchSendToServer

\* The rows a table has dealt with are those module WriteBuffer calls settled.
LEMMA RowInvConserves == RowInv => RowsConserved
<1> SUFFICES ASSUME RowInv, NEW i \in 1 .. 14
             PROVE  written[W!TableAt(i)] = W!Without(W!RowsFor(W!TableAt(i), W!Settled(i)), lost[W!TableAt(i)])
  BY PlanFacts DEF RowsConserved, W!RowsConserved
<1>1. PICK done : Pieces(done)
  BY DEF RowInv
<1> DEFINE k == W!KindAt(i)
<1>2. /\ k \in W!Kinds /\ done[k] \in Seq(Rows) /\ batch[k] \in Seq(Rows) /\ buffer[k] \in Seq(Rows)
      /\ accepted[k] = (done[k] \o batch[k]) \o buffer[k]
  BY <1>1, PlanFacts DEF RowInv, RowTypes, Pieces
<1> HIDE DEF k
<1>3. \A x, y \in Seq(Rows) : SubSeq(x \o y, 1, Len(x \o y) - Len(y)) = x
  <2> SUFFICES ASSUME NEW x \in Seq(Rows), NEW y \in Seq(Rows)
               PROVE  SubSeq(x \o y, 1, Len(x \o y) - Len(y)) = x
    OBVIOUS
  <2> DEFINE c == x \o y
  <2>1. c \in Seq(Rows) /\ Len(c) - Len(y) = Len(x) /\ Len(x) \in 0 .. Len(c)
    OBVIOUS
  <2>2. \A j \in 1 .. Len(x) : c[j] = x[j]
    OBVIOUS
  <2> HIDE DEF c
  <2>3. /\ SubSeq(c, 1, Len(x)) \in Seq(Rows) /\ Len(SubSeq(c, 1, Len(x))) = Len(x)
        /\ \A j \in 1 .. Len(x) : SubSeq(c, 1, Len(x))[j] = c[j]
    BY <2>1, SplitFacts
  <2>4. SubSeq(c, 1, Len(x)) = x
    BY <2>2, <2>3, SeqEqual
  <2> QED
    BY <2>1, <2>4 DEF c
<1>4. DealtWith(i, done) = W!Settled(i)
  <2>1. done[k] \o batch[k] \in Seq(Rows) /\ batch[k] \o buffer[k] \in Seq(Rows)
    BY <1>2
  <2>2. CASE step # 0 /\ step <= i
    <3>1. (done[k] \o batch[k]) \o buffer[k] = done[k] \o (batch[k] \o buffer[k])
      BY ONLY <1>2, RowsAssociative, Zenon
    <3>2. Len(batch[k] \o buffer[k]) = Len(buffer[k]) + Len(batch[k])
      <4>1. Len(batch[k] \o buffer[k]) = Len(batch[k]) + Len(buffer[k])
        BY <1>2
      <4>2. PICK m, n \in Nat : m = Len(batch[k]) /\ n = Len(buffer[k])
        BY <1>2
      <4>3. m + n = n + m
        OBVIOUS
      <4> QED
        BY ONLY <4>1, <4>2, <4>3, Zenon
    <3>4. accepted[k] = done[k] \o (batch[k] \o buffer[k])
      BY ONLY <1>2, <3>1
    <3>3. SubSeq(accepted[k], 1, Len(accepted[k]) - (Len(buffer[k]) + Len(batch[k]))) = done[k]
      BY ONLY <1>2, <1>3, <2>1, <3>2, <3>4, Zenon
    <3> QED
      BY <2>2, <3>3 DEF DealtWith, W!Settled, W!Behind, k
  <2>3. CASE ~ (step # 0 /\ step <= i)
    <3>1. SubSeq(accepted[k], 1, Len(accepted[k]) - Len(buffer[k])) = done[k] \o batch[k]
      BY <1>2, <1>3, <2>1
    <3>2. Len(buffer[k]) + 0 = Len(buffer[k])
      BY <1>2
    <3> QED
      BY <2>3, <3>1, <3>2 DEF DealtWith, W!Settled, W!Behind, k
  <2> QED
    BY <2>2, <2>3
<1>5. Conserved(W!TableAt(i), DealtWith(i, done))
  BY <1>1 DEF Pieces
<1> QED
  BY <1>4, <1>5 DEF Conserved

(* For any rows, any interleaving of producers and the writer, and any     *)
(* failures, each table holds its rows in order and once, but for those of *)
(* its failed writes.                                                      *)
THEOREM RowsConservedTheorem == Spec => []RowsConserved
<1>1. Init => RowInv
  BY RowInvInit DEF Init
<1>2. RowInv /\ [Next]_vars => RowInv'
  <2> SUFFICES ASSUME RowInv, [Next]_vars PROVE RowInv'
    OBVIOUS
  <2>1. [W!Next]_wVars
    BY DEF Next, vars, wVars
  <2> QED
    BY <2>1, RowInvStep
<1> QED
  BY <1>1, <1>2, RowInvConserves, PTL DEF Spec

-----------------------------------------------------------------------------
(* DeliverySafety: module ReportQueue implements module Delivery.          *)

Numbers == 1 .. sent
Given == {stream[i] : i \in {j \in DOMAIN stream : j <= group}}
Todo(r) == Range(subscriber[r].todo)

QueueTypes == /\ local \in BOOLEAN
              /\ reportTraceIds \in Seq(Nat) /\ stream \in Seq(Nat) /\ consumed \in Seq(Nat)
              /\ group \in Nat
              /\ subscriber \in [Receivers -> [pc : {"down", "idle", "locking", "consuming"},
                                               todo : Seq(Nat), given : SUBSET Nat]]
              /\ sent \in 0 .. MaxSent /\ unreachable \subseteq Numbers
              /\ IsInjective(reportTraceIds) /\ IsInjective(stream) /\ IsInjective(consumed)
              /\ Range(reportTraceIds) \cup Range(stream) \cup Range(consumed) \subseteq Numbers
              /\ local => stream = <<>>
              /\ ~local => reportTraceIds = <<>>

Consuming(r) == subscriber[r].pc = "consuming"

\* In memory: one receiver, and what it consumes are the rest of the list.
LocalInv ==
  local =>
    /\ \A p, q \in Receivers : Q!Up(p) /\ Q!Up(q) => p = q
    /\ (\A r \in Receivers : ~Consuming(r)) => Range(reportTraceIds) \cap Range(consumed) = {}
    /\ \A r \in Receivers : Consuming(r) =>
         /\ IsInjective(subscriber[r].todo)
         /\ Todo(r) \subseteq Range(reportTraceIds)
         /\ Range(reportTraceIds) \subseteq Todo(r) \cup Range(consumed)
         /\ Todo(r) \cap Range(consumed) = {}

\* In Redis: what a receiver has to consume was given to it alone.
RedisInv ==
  ~local =>
    /\ group <= Len(stream) \/ group = Q!NoGroup
    /\ Len(stream) <= sent
    /\ \A i \in DOMAIN stream : i > group => stream[i] \notin unreachable
    /\ Range(consumed) \subseteq Given
    /\ \A r \in Receivers :
         /\ subscriber[r].pc # "locking"
         /\ ~Consuming(r) => subscriber[r].todo = <<>>
         /\ IsInjective(subscriber[r].todo)
         /\ Todo(r) \subseteq Given /\ Todo(r) \cap Range(consumed) = {}
    /\ \A p, q \in Receivers : p # q => Todo(p) \cap Todo(q) = {}

QueueInv == QueueTypes /\ LocalInv /\ RedisInv

\* As nothing is consumed twice, a notification has one of four states.
HowFar(m) == IF m > sent THEN "unsent"
             ELSE IF m \in Range(consumed) THEN "consumed"
             ELSE IF Q!Waiting(m) THEN "queued" ELSE "lost"

LEMMA StateIsHowFar ==
  QueueTypes => \A m \in 1 .. MaxSent : Q!StateOf(m) = HowFar(m)
<1> SUFFICES ASSUME QueueTypes, NEW m \in 1 .. MaxSent
             PROVE  Q!StateOf(m) = HowFar(m)
  OBVIOUS
<1>1. sent \in Nat /\ m \in Nat
  BY SentAssumption DEF QueueTypes
<1>2. ASSUME m \in Range(consumed)
      PROVE  \E i \in Q!Consumptions(m) : Q!Consumptions(m) = {i}
  <2>1. PICK i \in DOMAIN consumed : consumed[i] = m
    BY <1>2 DEF Range
  <2>2. \A j \in DOMAIN consumed : consumed[j] = m => j = i
    BY <2>1 DEF QueueTypes, IsInjective
  <2> QED
    BY <2>1, <2>2 DEF Q!Consumptions
<1>3. m \notin Range(consumed) => Q!Consumptions(m) = {}
  BY DEF Range, Q!Consumptions
<1>4. CASE m > sent
  BY <1>4 DEF Q!StateOf, HowFar
<1>5. CASE m <= sent /\ m \in Range(consumed)
  <2>1. PICK i \in Q!Consumptions(m) : Q!Consumptions(m) = {i}
    BY <1>2, <1>5
  <2>2. ~ \E x, y \in Q!Consumptions(m) : x # y
    BY <2>1
  <2>3. ~ (m > sent)
    BY <1>1, <1>5
  <2>4. Q!StateOf(m) = "consumed"
    BY <2>1, <2>2, <2>3 DEF Q!StateOf
  <2> QED
    BY <2>3, <2>4, <1>5 DEF HowFar
<1>6. CASE m <= sent /\ m \notin Range(consumed)
  <2>1. Q!Consumptions(m) = {} /\ ~ (m > sent)
    BY <1>1, <1>3, <1>6
  <2>2. ~ (\E x, y \in Q!Consumptions(m) : x # y) /\ ~ \E i \in Q!Consumptions(m) : Q!Consumptions(m) = {i}
    BY <2>1
  <2>3. Q!StateOf(m) = IF Q!Waiting(m) THEN "queued" ELSE "lost"
    BY <2>1, <2>2 DEF Q!StateOf
  <2> QED
    BY <2>1, <2>3, <1>6 DEF HowFar
<1> QED
  BY <1>1, <1>4, <1>5, <1>6

LEMMA QueueInit == Q!Init => QueueInv /\ Q!D!DeliveryInit
<1> SUFFICES ASSUME Q!Init PROVE QueueInv /\ Q!D!DeliveryInit
  OBVIOUS
<1> USE DEF Q!Init
<1>1. <<>> \in Seq(Nat) /\ Range(<<>>) = {} /\ IsInjective(<<>>) /\ Len(<<>>) = 0
  BY DEF Range, IsInjective
<1>2. QueueTypes
  <2>1. Q!NoGroup \in Nat
    BY SentAssumption DEF Q!NoGroup
  <2>2. subscriber \in [Receivers -> [pc : {"down", "idle", "locking", "consuming"},
                                      todo : Seq(Nat), given : SUBSET Nat]]
    BY <1>1 DEF Q!Down
  <2> QED
    BY <1>1, <2>1, <2>2, SentAssumption DEF QueueTypes
<1>3. \A r \in Receivers : subscriber[r].pc = "down" /\ subscriber[r].todo = <<>>
  BY DEF Q!Down
<1>4. LocalInv
  BY <1>1, <1>3 DEF LocalInv, Q!Up, Consuming
<1>5. RedisInv
  <2>1. \A r \in Receivers : Todo(r) = {}
    BY <1>1, <1>3 DEF Todo
  <2>2. Range(consumed) = {} /\ Len(stream) = 0 /\ sent = 0 /\ group = Q!NoGroup /\ unreachable = {}
    BY <1>1
  <2> QED
    BY <1>1, <1>3, <2>1, <2>2 DEF RedisInv, Consuming
<1>6. \A m \in 1 .. MaxSent : Q!StateOf(m) = "unsent"
  <2> SUFFICES ASSUME NEW m \in 1 .. MaxSent PROVE Q!StateOf(m) = "unsent"
    OBVIOUS
  <2>1. m > sent
    BY SentAssumption
  <2> QED
    BY <2>1 DEF Q!StateOf
<1>7. Q!D!DeliveryInit
  BY <1>6 DEF Q!D!DeliveryInit
<1> QED
  BY <1>2, <1>4, <1>5, <1>7 DEF QueueInv

-----------------------------------------------------------------------------
(* What kinds of steps are there for a notification?                       *)

\* Nothing happens to it.
LEMMA NothingHappens ==
  ASSUME QueueTypes, QueueTypes', UNCHANGED <<sent, consumed, disruptions>>,
         \A m \in Numbers : m \notin Range(consumed) => (Q!Waiting(m)' <=> Q!Waiting(m))
  PROVE  UNCHANGED Q!D!deliveryVars
<1>0. QueueTypes' => (\A m \in 1 .. MaxSent : Q!StateOf(m) = HowFar(m))'
  BY StateIsHowFar, PTL
<1>1. ASSUME NEW m \in 1 .. MaxSent PROVE Q!StateOf(m)' = Q!StateOf(m)
  <2>1. Q!StateOf(m) = HowFar(m)
    BY StateIsHowFar
  <2>2. Q!StateOf(m)' = HowFar(m)'
    BY <1>0
  <2>3. ~ (m > sent) => m \in Numbers
    BY SentAssumption DEF Numbers, QueueTypes
  <2>4. HowFar(m)' = HowFar(m)
    BY <2>3 DEF HowFar
  <2> QED
    BY <2>1, <2>2, <2>4
<1> QED
  BY <1>1 DEF Q!D!deliveryVars

\* It is consumed.
LEMMA OneConsumed ==
  ASSUME QueueTypes, QueueTypes', NEW c \in Numbers, c \notin Range(consumed), Q!Waiting(c),
         consumed' = Append(consumed, c), UNCHANGED <<sent, disruptions>>,
         \A m \in Numbers : m \notin Range(consumed) /\ m # c => (Q!Waiting(m)' <=> Q!Waiting(m))
  PROVE  Q!D!Receive(c)
<1>0. QueueTypes' => (\A m \in 1 .. MaxSent : Q!StateOf(m) = HowFar(m))'
  BY StateIsHowFar, PTL
<1>1. Range(consumed') = Range(consumed) \cup {c}
  <2>1. consumed \in Seq(Nat) /\ c \in Nat
    BY DEF QueueTypes, Numbers
  <2> QED
    BY <2>1, AppendFacts
<1>2. c \in 1 .. MaxSent /\ ~ (c > sent)
  BY SentAssumption DEF QueueTypes, Numbers
<1>3. Q!StateOf(c) = "queued" /\ Q!StateOf(c)' = "consumed"
  <2>1. Q!StateOf(c) = HowFar(c) /\ Q!StateOf(c)' = HowFar(c)'
    BY <1>0, <1>2, StateIsHowFar
  <2> QED
    BY <2>1, <1>1, <1>2 DEF HowFar
<1>4. ASSUME NEW m \in 1 .. MaxSent, m # c PROVE Q!StateOf(m)' = Q!StateOf(m)
  <2>1. Q!StateOf(m) = HowFar(m) /\ Q!StateOf(m)' = HowFar(m)'
    BY <1>0, StateIsHowFar
  <2>2. ~ (m > sent) => m \in Numbers
    BY SentAssumption DEF Numbers, QueueTypes
  <2> QED
    BY <2>1, <2>2, <1>1, <1>4 DEF HowFar
<1> QED
  BY <1>2, <1>3, <1>4 DEF Q!D!Receive

\* Some are lost in a disruption.
LEMMA SomeLost ==
  ASSUME QueueTypes, QueueTypes', UNCHANGED <<sent, consumed>>, disruptions' = disruptions + 1,
         \A m \in Numbers : Q!Waiting(m)' => Q!Waiting(m)
  PROVE  Q!D!Disrupt
<1>0. QueueTypes' => (\A m \in 1 .. MaxSent : Q!StateOf(m) = HowFar(m))'
  BY StateIsHowFar, PTL
<1> DEFINE gone == {m \in 1 .. MaxSent : Q!StateOf(m) = "queued" /\ Q!StateOf(m)' = "lost"}
<1>1. ASSUME NEW m \in 1 .. MaxSent
      PROVE  Q!StateOf(m)' = IF m \in gone THEN "lost" ELSE Q!StateOf(m)
  <2>1. Q!StateOf(m) = HowFar(m) /\ Q!StateOf(m)' = HowFar(m)'
    BY <1>0, StateIsHowFar
  <2>2. ~ (m > sent) => m \in Numbers
    BY SentAssumption DEF Numbers, QueueTypes
  <2>3. \/ HowFar(m)' = HowFar(m)
        \/ HowFar(m) = "queued" /\ HowFar(m)' = "lost"
    BY <2>2 DEF HowFar
  <2> QED
    BY <2>1, <2>3
<1>2. gone \in SUBSET {m \in 1 .. MaxSent : Q!StateOf(m) = "queued"}
  OBVIOUS
<1>3. PICK lot : lot = gone
  OBVIOUS
<1> HIDE DEF gone
<1> QED
  BY <1>1, <1>2, <1>3 DEF Q!D!Disrupt

\* It is made.
LEMMA OneSent ==
  ASSUME QueueTypes, QueueTypes', sent < MaxSent, sent' = sent + 1, UNCHANGED <<consumed, disruptions>>,
         \A m \in Numbers : Q!Waiting(m)' <=> Q!Waiting(m)
  PROVE  Q!D!Send(sent')
<1>0. QueueTypes' => (\A m \in 1 .. MaxSent : Q!StateOf(m) = HowFar(m))'
  BY StateIsHowFar, PTL
<1>1. PICK c : c = sent'
  OBVIOUS
<1>2. c \in 1 .. MaxSent /\ c = sent + 1 /\ sent \in Nat
  BY <1>1, SentAssumption DEF QueueTypes
<1>3. Q!StateOf(c) = "unsent" /\ Q!StateOf(c)' \in {"queued", "lost"}
  <2>1. Q!StateOf(c) = HowFar(c) /\ Q!StateOf(c)' = HowFar(c)'
    BY <1>0, <1>2, StateIsHowFar
  <2>2. c > sent /\ ~ (c > sent') /\ c \notin Range(consumed')
    BY <1>1, <1>2 DEF QueueTypes, Numbers
  <2>3. HowFar(c) = "unsent"
    BY <2>2 DEF HowFar
  <2>4. HowFar(c)' \in {"queued", "lost"}
    BY <2>2 DEF HowFar
  <2> QED
    BY <2>1, <2>3, <2>4
<1>4. ASSUME NEW m \in 1 .. MaxSent, m # c PROVE Q!StateOf(m)' = Q!StateOf(m)
  <2>1. Q!StateOf(m) = HowFar(m) /\ Q!StateOf(m)' = HowFar(m)'
    BY <1>0, StateIsHowFar
  <2>2. (m > sent <=> m > sent') /\ (~ (m > sent) => m \in Numbers)
    BY <1>2, <1>4 DEF Numbers
  <2> QED
    BY <2>1, <2>2 DEF HowFar
<1>5. PICK s \in {"queued", "lost"} : s = Q!StateOf(c)'
  BY <1>3
<1>6. Q!D!Send(c)
  BY <1>2, <1>3, <1>4, <1>5 DEF Q!D!Send
<1> QED
  BY <1>1, <1>6

-----------------------------------------------------------------------------
(* The actions of module ReportQueue.                                      *)

Behind(m) == \E i \in DOMAIN stream : i > group /\ stream[i] = m /\ m \notin unreachable
Waits(m) == \/ m \in Range(reportTraceIds)
            \/ Behind(m)
            \/ ~local /\ \E r \in Receivers : m \in Todo(r)

LEMMA WaitingIsWaits == QueueTypes => \A m : Q!Waiting(m) <=> Waits(m)
<1> SUFFICES ASSUME QueueTypes, NEW m PROVE Q!Waiting(m) <=> Waits(m)
  OBVIOUS
<1>1. ASSUME NEW s \in Seq(Nat) PROVE Q!Contains(s, m) <=> m \in Range(s)
  BY DEF Q!Contains, Range
<1>2. Q!Contains(reportTraceIds, m) <=> m \in Range(reportTraceIds)
  BY <1>1 DEF QueueTypes
<1>3. ASSUME NEW r \in Receivers PROVE Q!Contains(subscriber[r].todo, m) <=> m \in Todo(r)
  BY <1>1 DEF QueueTypes, Todo
<1> QED
  BY <1>2, <1>3 DEF Q!Waiting, Waits, Behind

LEMMA WaitingNext == QueueTypes' => (\A m : Q!Waiting(m) <=> Waits(m))'
BY WaitingIsWaits, PTL

LEMMA NoRange == Range(<<>>) = {} /\ IsInjective(<<>>) /\ <<>> \in Seq(Nat)
BY DEF Range, IsInjective

LEMMA StartStep ==
  ASSUME QueueInv, NEW r \in Receivers, Q!Start(r)
  PROVE  QueueInv' /\ UNCHANGED Q!D!deliveryVars
<1> USE DEF QueueInv
<1>1. /\ subscriber[r].pc = "down" /\ (local => \A q \in Receivers : subscriber[q].pc = "down")
      /\ subscriber' = [subscriber EXCEPT ![r] = Q!Idle]
      /\ \/ group' = group
         \/ ~local /\ group = Q!NoGroup /\ group' = Len(stream)
      /\ UNCHANGED <<local, reportTraceIds, stream, pending, sent, unreachable, consumed, disruptions>>
  BY DEF Q!Start, Q!Up
<1>2. Q!Idle \in [pc : {"down", "idle", "locking", "consuming"}, todo : Seq(Nat), given : SUBSET Nat]
      /\ Q!Idle.pc = "idle" /\ Q!Idle.todo = <<>>
  BY DEF Q!Idle
<1>3. Len(stream) \in Nat
  BY DEF QueueTypes
<1>4. QueueTypes'
  BY <1>1, <1>2, <1>3 DEF QueueTypes, Numbers
<1>5. /\ \A q \in Receivers : q # r => subscriber'[q] = subscriber[q]
      /\ subscriber'[r] = Q!Idle
  BY <1>1 DEF QueueTypes
<1>6. LocalInv'
  <2>1. local => \A q \in Receivers : q # r => subscriber'[q].pc = "down"
    BY <1>1, <1>5
  <2>2. local => \A q \in Receivers : ~Consuming(q) /\ ~Consuming(q)'
    BY <1>1, <1>2, <1>5 DEF Consuming
  <2> QED
    BY <1>1, <2>1, <2>2 DEF LocalInv, Q!Up
<1>7. ~local /\ group = Q!NoGroup => \A i \in DOMAIN stream : i <= group /\ i <= Len(stream)
  BY SentAssumption DEF Q!NoGroup, RedisInv, QueueTypes
<1>8. ~local => Given' = Given
  BY <1>1, <1>7 DEF Given
<1>9. ~local => Todo(r) = {} /\ \A q \in Receivers : Todo(q)' = Todo(q)
  <2> SUFFICES ASSUME ~local PROVE Todo(r) = {} /\ \A q \in Receivers : Todo(q)' = Todo(q)
    OBVIOUS
  <2>1. subscriber[r].todo = <<>>
    BY <1>1 DEF RedisInv, Consuming
  <2> QED
    BY <2>1, <1>2, <1>5, NoRange DEF Todo
<1>10. RedisInv'
  <2> SUFFICES ASSUME ~local PROVE RedisInv'
    BY <1>1 DEF RedisInv
  <2>1. group' <= Len(stream) \/ group' = Q!NoGroup
    BY <1>1, <1>3 DEF RedisInv
  <2>2. \A q \in Receivers : /\ subscriber'[q].pc # "locking"
                             /\ ~Consuming(q)' => subscriber'[q].todo = <<>>
                             /\ IsInjective(subscriber'[q].todo)
    BY <1>2, <1>5, NoRange DEF RedisInv, Consuming
  <2>3. \A i \in DOMAIN stream : i > group' => stream[i] \notin unreachable
    <3>1. CASE group' = group
      BY <3>1 DEF RedisInv
    <3>2. CASE group = Q!NoGroup /\ group' = Len(stream)
      BY <3>2, <1>3, <1>7 DEF QueueTypes
    <3> QED
      BY <1>1, <3>1, <3>2
  <2> QED
    BY <1>1, <1>8, <1>9, <2>1, <2>2, <2>3 DEF RedisInv
<1>11. \A m \in Numbers : Q!Waiting(m)' <=> Q!Waiting(m)
  <2>1. ~local => \A m : Behind(m)' <=> Behind(m)
    <3>1. CASE group' = group
      BY <1>1, <3>1 DEF Behind
    <3>2. CASE ~local /\ group = Q!NoGroup /\ group' = Len(stream)
      <4>1. \A i \in DOMAIN stream : ~ (i > group) /\ ~ (i > group')
        BY <1>7, <3>2, <1>3 DEF QueueTypes
      <4> QED
        BY <1>1, <4>1 DEF Behind
    <3> QED
      BY <1>1, <3>1, <3>2
  <2>2. local => \A m : Behind(m)' <=> Behind(m)
    BY <1>1 DEF Behind
  <2>3. \A m : Waits(m)' <=> Waits(m)
    BY <1>1, <1>9, <2>1, <2>2 DEF Waits
  <2> QED
    BY <1>4, <2>3, WaitingIsWaits, WaitingNext
<1> QED
  BY <1>1, <1>4, <1>6, <1>10, <1>11, NothingHappens

LEMMA CrashStep ==
  ASSUME QueueInv, NEW r \in Receivers, Q!Crash(r)
  PROVE  QueueInv' /\ Q!D!Disrupt
<1> USE DEF QueueInv
<1>1. /\ subscriber[r].pc # "down"
      /\ subscriber' = [subscriber EXCEPT ![r] = Q!Down]
      /\ reportTraceIds' = <<>>
      /\ disruptions' = disruptions + 1
      /\ UNCHANGED <<local, stream, group, pending, sent, unreachable, consumed>>
  BY DEF Q!Crash, Q!Up, Q!Disruption
<1>2. Q!Down \in [pc : {"down", "idle", "locking", "consuming"}, todo : Seq(Nat), given : SUBSET Nat]
      /\ Q!Down.pc = "down" /\ Q!Down.todo = <<>>
  BY DEF Q!Down
<1>4. QueueTypes'
  BY <1>1, <1>2, NoRange DEF QueueTypes, Numbers
<1>5. /\ \A q \in Receivers : q # r => subscriber'[q] = subscriber[q]
      /\ subscriber'[r] = Q!Down
  BY <1>1 DEF QueueTypes
<1>6. LocalInv'
  <2> SUFFICES ASSUME local PROVE LocalInv'
    BY <1>1 DEF LocalInv
  <2>1. \A q \in Receivers : subscriber'[q].pc = "down"
    BY <1>1, <1>2, <1>5 DEF LocalInv, Q!Up
  <2> QED
    BY <1>1, <2>1, NoRange DEF LocalInv, Q!Up, Consuming
<1>9. Todo(r)' = {} /\ \A q \in Receivers : q # r => Todo(q)' = Todo(q)
  BY <1>2, <1>5, NoRange DEF Todo
<1>10. RedisInv'
  <2> SUFFICES ASSUME ~local PROVE RedisInv'
    BY <1>1 DEF RedisInv
  <2>1. Given' = Given
    BY <1>1 DEF Given
  <2>2. \A q \in Receivers : /\ subscriber'[q].pc # "locking"
                             /\ ~Consuming(q)' => subscriber'[q].todo = <<>>
                             /\ IsInjective(subscriber'[q].todo)
    BY <1>2, <1>5, NoRange DEF RedisInv, Consuming
  <2> QED
    BY <1>1, <1>9, <2>1, <2>2 DEF RedisInv
<1>11. \A m \in Numbers : Q!Waiting(m)' => Q!Waiting(m)
  <2>1. \A m : Behind(m)' <=> Behind(m)
    BY <1>1 DEF Behind
  <2>2. \A m : Waits(m)' => Waits(m)
    BY <1>1, <1>9, <2>1, NoRange DEF Waits
  <2> QED
    BY <1>4, <2>2, WaitingIsWaits, WaitingNext
<1> QED
  BY <1>1, <1>4, <1>6, <1>10, <1>11, SomeLost

LEMMA NotifyStep ==
  ASSUME QueueInv, NEW r \in Receivers, Q!NotifyReportTraceId(r)
  PROVE  QueueInv' /\ Q!D!Send(sent') /\ sent' \in 1 .. MaxSent
<1> USE DEF QueueInv
<1>1. /\ ~ (local /\ \E q \in Receivers : Consuming(q)) /\ sent < MaxSent /\ sent' = sent + 1
      /\ \/ local /\ reportTraceIds' = Append(reportTraceIds, sent') /\ UNCHANGED <<stream, unreachable>>
         \/ /\ ~local /\ UNCHANGED reportTraceIds
            /\ stream' = Append(stream, sent')
            /\ unreachable' = IF group = Q!NoGroup THEN unreachable \cup {sent'} ELSE unreachable
         \/ ~local /\ UNCHANGED <<stream, reportTraceIds>> /\ unreachable' = unreachable \cup {sent'}
      /\ UNCHANGED <<local, group, pending, subscriber, consumed, disruptions>>
  BY DEF Q!NotifyReportTraceId, Q!Up, Q!Locked, Consuming
<1>2. sent \in Nat /\ sent' \in 1 .. MaxSent /\ sent' \notin Numbers /\ Numbers' = Numbers \cup {sent'}
  <2>1. sent \in Nat /\ sent' = sent + 1 /\ sent' \in 1 .. MaxSent
    BY <1>1, SentAssumption DEF QueueTypes
  <2>2. \A n \in Nat : 1 .. n + 1 = (1 .. n) \cup {n + 1} /\ n + 1 \notin 1 .. n
    OBVIOUS
  <2> QED
    BY <2>1, <2>2 DEF Numbers
<1>3. ASSUME NEW s \in Seq(Nat), IsInjective(s), Range(s) \subseteq Numbers
      PROVE  /\ Append(s, sent') \in Seq(Nat) /\ IsInjective(Append(s, sent'))
             /\ Range(Append(s, sent')) = Range(s) \cup {sent'}
  <2>1. PICK c : c = sent'
    OBVIOUS
  <2>2. c \in Nat /\ c \notin Range(s)
    BY <1>2, <1>3, <2>1
  <2>3. /\ Append(s, c) \in Seq(Nat) /\ IsInjective(Append(s, c))
        /\ Range(Append(s, c)) = Range(s) \cup {c}
    BY <2>2, <1>3, AppendFacts
  <2> QED
    BY <2>1, <2>3
<1>4. QueueTypes'
  <2>1. /\ reportTraceIds' \in Seq(Nat) /\ IsInjective(reportTraceIds') /\ Range(reportTraceIds') \subseteq Numbers'
        /\ ~local => reportTraceIds' = <<>>
    BY <1>1, <1>2, <1>3 DEF QueueTypes
  <2>2. /\ stream' \in Seq(Nat) /\ IsInjective(stream') /\ Range(stream') \subseteq Numbers'
        /\ local => stream' = <<>>
    BY <1>1, <1>2, <1>3 DEF QueueTypes
  <2>3. sent' \in 0 .. MaxSent
    BY <1>2, SentAssumption
  <2> QED
    BY <1>1, <1>2, <2>1, <2>2, <2>3 DEF QueueTypes
<1>5. LocalInv'
  <2>1. local => Range(reportTraceIds') = Range(reportTraceIds) \cup {sent'}
    BY <1>1, <1>3 DEF QueueTypes
  <2>2. sent' \notin Range(consumed)
    BY <1>2 DEF QueueTypes
  <2>3. local => \A q \in Receivers : ~Consuming(q)
    BY <1>1
  <2> QED
    BY <1>1, <2>1, <2>2, <2>3 DEF LocalInv, Q!Up, Consuming
<1>6. ASSUME ~local, stream' = Append(stream, sent')
      PROVE  /\ Len(stream') = Len(stream) + 1 /\ DOMAIN stream' = 1 .. Len(stream) + 1
             /\ DOMAIN stream = 1 .. Len(stream) /\ Len(stream) \in Nat
             /\ \A i \in DOMAIN stream : stream'[i] = stream[i]
             /\ stream'[Len(stream) + 1] = sent'
             /\ Given \subseteq Given'
  <2>1. stream \in Seq(Nat) /\ sent' \in Nat
    BY <1>2 DEF QueueTypes
  <2>2. /\ Len(stream') = Len(stream) + 1 /\ DOMAIN stream' = 1 .. Len(stream) + 1
        /\ DOMAIN stream = 1 .. Len(stream) /\ Len(stream) \in Nat
        /\ \A i \in DOMAIN stream : stream'[i] = stream[i]
        /\ stream'[Len(stream) + 1] = sent'
    BY <2>1, <1>6
  <2>3. \A i \in DOMAIN stream : i \in DOMAIN stream'
    BY <2>2
  <2> QED
    BY <2>2, <2>3, <1>1 DEF Given
<1>7. RedisInv'
  <2> SUFFICES ASSUME ~local PROVE RedisInv'
    BY <1>1 DEF RedisInv
  <2>1. Given \subseteq Given'
    <3>1. CASE stream' = stream
      BY <3>1, <1>1 DEF Given
    <3> QED
      BY <3>1, <1>1, <1>6
  <2>2. Len(stream') <= sent' /\ (group' <= Len(stream') \/ group' = Q!NoGroup)
    <3>1. Len(stream') = Len(stream) \/ Len(stream') = Len(stream) + 1
      BY <1>1, <1>6
    <3>2. Len(stream) \in Nat /\ group \in Nat
      BY DEF QueueTypes
    <3> QED
      BY <1>1, <1>2, <3>1, <3>2 DEF RedisInv
  <2>3. \A q \in Receivers : Todo(q)' = Todo(q)
    BY <1>1 DEF Todo
  <2>4. \A i \in DOMAIN stream' : i > group => stream'[i] \notin unreachable'
    <3>1. \A i \in DOMAIN stream : i > group => stream[i] \notin unreachable /\ stream[i] # sent'
      BY <1>2 DEF RedisInv, QueueTypes, Range
    <3>2. CASE stream' = stream
      BY <3>1, <3>2, <1>1
    <3>3. CASE /\ stream' = Append(stream, sent')
               /\ unreachable' = IF group = Q!NoGroup THEN unreachable \cup {sent'} ELSE unreachable
      <4>1. group = Q!NoGroup => \A i \in DOMAIN stream' : ~ (i > group)
        <5>1. Len(stream) <= sent /\ sent < MaxSent /\ DOMAIN stream' = 1 .. Len(stream) + 1 /\ Len(stream) \in Nat
          BY <1>1, <1>6, <3>3 DEF RedisInv
        <5> QED
          BY <5>1, <1>2, SentAssumption DEF Q!NoGroup
      <4>2. sent' \notin unreachable
        BY <1>2 DEF QueueTypes
      <4>3. \A i \in DOMAIN stream' : \/ i \in DOMAIN stream /\ stream'[i] = stream[i]
                                     \/ stream'[i] = sent'
        BY <1>6, <3>3
      <4> QED
        BY <4>1, <4>2, <4>3, <3>1, <3>3
    <3> QED
      BY <1>1, <3>2, <3>3
  <2> QED
    BY <1>1, <2>1, <2>2, <2>3, <2>4 DEF RedisInv, Consuming
<1>8. \A m \in Numbers : Q!Waiting(m)' <=> Q!Waiting(m)
  <2> SUFFICES ASSUME NEW m \in Numbers PROVE Waits(m)' <=> Waits(m)
    BY <1>4, WaitingIsWaits, WaitingNext
  <2>1. m # sent'
    BY <1>2
  <2>2. m \in Range(reportTraceIds') <=> m \in Range(reportTraceIds)
    <3>1. local => Range(reportTraceIds') = Range(reportTraceIds) \cup {sent'}
      BY <1>1, <1>3 DEF QueueTypes
    <3>2. ~local => reportTraceIds' = reportTraceIds
      BY <1>1
    <3> QED
      BY <2>1, <3>1, <3>2
  <2>3. Behind(m)' <=> Behind(m)
    <3>0. m \in unreachable' <=> m \in unreachable
      BY <1>1, <2>1
    <3>1. CASE stream' = stream
      BY <3>0, <3>1, <1>1 DEF Behind
    <3>2. CASE ~local /\ stream' = Append(stream, sent')
      <4>1. \A i \in DOMAIN stream' : stream'[i] = m => i \in DOMAIN stream /\ stream[i] = m
        BY <3>2, <1>6, <2>1
      <4>2. \A i \in DOMAIN stream : i \in DOMAIN stream' /\ stream'[i] = stream[i]
        BY <3>2, <1>6
      <4> QED
        BY <4>1, <4>2, <3>0, <1>1 DEF Behind
    <3> QED
      BY <3>1, <3>2, <1>1
  <2>4. \A q \in Receivers : Todo(q)' = Todo(q)
    BY <1>1 DEF Todo
  <2> QED
    BY <1>1, <2>2, <2>3, <2>4 DEF Waits
<1>9. Q!D!Send(sent')
  BY <1>1, <1>4, <1>8, OneSent
<1> QED
  BY <1>2, <1>4, <1>5, <1>7, <1>9

LEMMA SeeStep ==
  ASSUME QueueInv, NEW r \in Receivers, Q!See(r)
  PROVE  QueueInv' /\ UNCHANGED Q!D!deliveryVars
<1> USE DEF QueueInv
<1> DEFINE seen == [Q!Idle EXCEPT !.pc = "locking", !.todo = reportTraceIds]
<1>1. /\ local /\ subscriber[r].pc = "idle"
      /\ subscriber' = [subscriber EXCEPT ![r] = seen]
      /\ UNCHANGED <<local, reportTraceIds, stream, group, pending, sent, unreachable, consumed, disruptions>>
  BY DEF Q!See
<1>2. seen \in [pc : {"down", "idle", "locking", "consuming"}, todo : Seq(Nat), given : SUBSET Nat]
      /\ seen.pc = "locking"
  BY DEF Q!Idle, QueueTypes
<1>3. QueueTypes'
  BY <1>1, <1>2 DEF QueueTypes, Numbers
<1>4. /\ \A q \in Receivers : q # r => subscriber'[q] = subscriber[q]
      /\ subscriber'[r].pc = "locking"
  BY <1>1, <1>2 DEF QueueTypes
<1>5. \A q \in Receivers : Q!Up(q)' <=> Q!Up(q)
  BY <1>1, <1>4 DEF Q!Up
<1>6. \A q \in Receivers : /\ Consuming(q)' <=> Consuming(q)
                           /\ Consuming(q) => subscriber'[q] = subscriber[q]
  BY <1>1, <1>4 DEF Consuming
<1>7. LocalInv'
  BY <1>1, <1>5, <1>6 DEF LocalInv, Todo
<1>8. RedisInv'
  BY <1>1 DEF RedisInv
<1>9. \A m \in Numbers : Q!Waiting(m)' <=> Q!Waiting(m)
  <2>1. \A m : Waits(m)' <=> Waits(m)
    BY <1>1 DEF Waits, Behind
  <2> QED
    BY <1>3, <2>1, WaitingIsWaits, WaitingNext
<1> QED
  BY <1>1, <1>3, <1>7, <1>8, <1>9, NothingHappens

LEMMA LockStep ==
  ASSUME QueueInv, NEW r \in Receivers, Q!Lock(r)
  PROVE  QueueInv' /\ UNCHANGED Q!D!deliveryVars
<1> USE DEF QueueInv
<1>1. /\ subscriber[r].pc = "locking"
      /\ subscriber' = [subscriber EXCEPT ![r] = [@ EXCEPT !.pc = "consuming", !.todo = reportTraceIds]]
      /\ UNCHANGED <<local, reportTraceIds, stream, group, pending, sent, unreachable, consumed, disruptions>>
  BY DEF Q!Lock, Q!ToConsume
<1>2. local
  BY <1>1 DEF RedisInv, QueueTypes
<1>3. QueueTypes'
  BY <1>1 DEF QueueTypes, Numbers
<1>4. /\ \A q \in Receivers : q # r => subscriber'[q] = subscriber[q]
      /\ subscriber'[r].pc = "consuming" /\ subscriber'[r].todo = reportTraceIds
  BY <1>1 DEF QueueTypes
<1>5. \A q \in Receivers : (Q!Up(q)' <=> Q!Up(q)) /\ (Q!Up(q) => q = r)
  BY <1>1, <1>2, <1>4 DEF Q!Up, LocalInv
<1>6. \A q \in Receivers : ~Consuming(q) /\ (Consuming(q)' => q = r)
  BY <1>1, <1>4, <1>5 DEF Consuming, Q!Up
<1>7. Todo(r)' = Range(reportTraceIds)
  BY <1>4 DEF Todo
<1>8. LocalInv'
  BY <1>1, <1>2, <1>4, <1>5, <1>6, <1>7 DEF LocalInv, QueueTypes, Consuming
<1>9. RedisInv'
  BY <1>1, <1>2 DEF RedisInv
<1>10. \A m \in Numbers : Q!Waiting(m)' <=> Q!Waiting(m)
  <2>1. \A m : Waits(m)' <=> Waits(m)
    BY <1>1, <1>2 DEF Waits, Behind
  <2> QED
    BY <1>3, <2>1, WaitingIsWaits, WaitingNext
<1> QED
  BY <1>1, <1>3, <1>8, <1>9, <1>10, NothingHappens

LEMMA ConsumeStep ==
  ASSUME QueueInv, NEW r \in Receivers, Q!Consume(r)
  PROVE  QueueInv' /\ \E c \in 1 .. MaxSent : Q!D!Receive(c)
<1> USE DEF QueueInv
<1>1. PICK todo : todo = subscriber[r].todo
  OBVIOUS
<1>2. /\ Consuming(r) /\ todo # <<>>
      /\ consumed' = Append(consumed, Head(todo))
      /\ subscriber' = [subscriber EXCEPT ![r].todo = Tail(todo)]
      /\ UNCHANGED <<local, reportTraceIds, stream, group, pending, sent, unreachable, disruptions>>
  BY <1>1 DEF Q!Consume, Consuming
<1>3. todo \in Seq(Nat) /\ IsInjective(todo) /\ Range(todo) = Todo(r)
  BY <1>1, <1>2 DEF QueueTypes, LocalInv, RedisInv, Todo
<1>4. PICK c, rest : c = Head(todo) /\ rest = Tail(todo)
  OBVIOUS
<1>5. /\ c \in Nat /\ rest \in Seq(Nat) /\ IsInjective(rest)
      /\ Todo(r) = {c} \cup Range(rest) /\ c \notin Range(rest)
  BY <1>2, <1>3, <1>4, TailFacts
<1>6. /\ \A q \in Receivers : q # r => subscriber'[q] = subscriber[q]
      /\ subscriber'[r].todo = rest /\ subscriber'[r].pc = "consuming"
      /\ subscriber'[r].given = subscriber[r].given
  BY <1>2, <1>4 DEF QueueTypes, Consuming
<1>7. c \in Numbers /\ c \notin Range(consumed) /\ Waits(c)
  <2>1. CASE local
    BY <2>1, <1>2, <1>5 DEF LocalInv, QueueTypes, Waits
  <2>2. CASE ~local
    <3>1. c \in Given /\ c \notin Range(consumed)
      BY <2>2, <1>5 DEF RedisInv
    <3>2. Given \subseteq Range(stream)
      BY DEF Given, Range
    <3> QED
      BY <2>2, <3>1, <3>2, <1>5 DEF QueueTypes, Waits
  <2> QED
    BY <2>1, <2>2
<1>8. consumed' \in Seq(Nat) /\ Range(consumed') = Range(consumed) \cup {c} /\ IsInjective(consumed')
  <2>1. consumed \in Seq(Nat) /\ IsInjective(consumed)
    BY DEF QueueTypes
  <2> QED
    BY <2>1, <1>2, <1>4, <1>5, <1>7, AppendFacts
<1>9. QueueTypes'
  <2>1. subscriber' \in [Receivers -> [pc : {"down", "idle", "locking", "consuming"},
                                       todo : Seq(Nat), given : SUBSET Nat]]
    BY <1>2, <1>4, <1>5 DEF QueueTypes
  <2> QED
    BY <1>2, <1>7, <1>8, <2>1 DEF QueueTypes, Numbers
<1>10. /\ \A q \in Receivers : (Q!Up(q)' <=> Q!Up(q)) /\ (Consuming(q)' <=> Consuming(q))
       /\ \A q \in Receivers : q # r => Todo(q)' = Todo(q)
       /\ Todo(r)' = Range(rest)
  BY <1>2, <1>6 DEF Q!Up, Consuming, Todo
<1>11. LocalInv'
  <2> SUFFICES ASSUME local PROVE LocalInv'
    BY <1>2 DEF LocalInv
  <2>1. \A q \in Receivers : Q!Up(q) => q = r
    BY <1>2 DEF LocalInv, Consuming, Q!Up
  <2>2. \A q \in Receivers : Consuming(q) => q = r
    BY <2>1 DEF Consuming, Q!Up
  <2>3. /\ Range(rest) \subseteq Range(reportTraceIds)
        /\ Range(reportTraceIds) \subseteq Range(rest) \cup Range(consumed')
        /\ Range(rest) \cap Range(consumed') = {}
    BY <1>2, <1>5, <1>8 DEF LocalInv
  <2> QED
    <3>1. \A p, q \in Receivers : Q!Up(p)' /\ Q!Up(q)' => p = q
      BY <1>10, <2>1
    <3>2. ASSUME NEW q \in Receivers, Consuming(q)'
          PROVE  /\ IsInjective(subscriber'[q].todo)
                 /\ Todo(q)' = Range(rest)
      BY <3>2, <1>5, <1>6, <1>10, <2>2
    <3>3. Consuming(r)'
      BY <1>2, <1>10
    <3> QED
      BY <1>2, <2>3, <3>1, <3>2, <3>3 DEF LocalInv
<1>12. RedisInv'
  <2> SUFFICES ASSUME ~local PROVE RedisInv'
    BY <1>2 DEF RedisInv
  <2>1. Given' = Given
    BY <1>2 DEF Given
  <2>2. \A q \in Receivers : /\ subscriber'[q].pc # "locking"
                             /\ ~Consuming(q)' => subscriber'[q].todo = <<>>
                             /\ IsInjective(subscriber'[q].todo)
    BY <1>2, <1>5, <1>6 DEF RedisInv, Consuming
  <2>3. \A q \in Receivers : Todo(q)' \subseteq Todo(q)
    BY <1>5, <1>10
  <2>4. \A q \in Receivers : Todo(q)' \cap Range(consumed') = {}
    <3>1. \A q \in Receivers : Todo(q) \cap Range(consumed) = {}
      BY DEF RedisInv
    <3>2. \A q \in Receivers : q # r => Todo(q) \cap Todo(r) = {}
      BY DEF RedisInv
    <3> QED
      BY <3>1, <3>2, <1>5, <1>8, <1>10
  <2>5. c \in Given
    BY <1>5 DEF RedisInv
  <2>6. \A p, q \in Receivers : p # q => Todo(p)' \cap Todo(q)' = {}
    <3>1. \A p, q \in Receivers : p # q => Todo(p) \cap Todo(q) = {}
      BY DEF RedisInv
    <3> QED
      BY <3>1, <2>3
  <2>7. \A q \in Receivers : Todo(q)' \subseteq Given'
    BY <2>1, <2>3 DEF RedisInv
  <2> QED
    BY <1>2, <1>8, <2>1, <2>2, <2>4, <2>5, <2>6, <2>7 DEF RedisInv
<1>13. \A m \in Numbers : m # c => (Q!Waiting(m)' <=> Q!Waiting(m))
  <2> SUFFICES ASSUME NEW m \in Numbers, m # c PROVE Waits(m)' <=> Waits(m)
    BY <1>9, WaitingIsWaits, WaitingNext
  <2>1. \A q \in Receivers : m \in Todo(q)' <=> m \in Todo(q)
    BY <1>5, <1>10
  <2> QED
    BY <1>2, <2>1 DEF Waits, Behind
<1>14. Q!Waiting(c)
  BY <1>7, WaitingIsWaits
<1>15. Q!D!Receive(c)
  BY <1>2, <1>4, <1>7, <1>9, <1>13, <1>14, OneConsumed
<1>16. c \in 1 .. MaxSent
  BY <1>7, SentAssumption DEF QueueTypes, Numbers
<1> QED
  BY <1>9, <1>11, <1>12, <1>15, <1>16

LEMMA UnlockStep ==
  ASSUME QueueInv, NEW r \in Receivers, Q!Unlock(r)
  PROVE  QueueInv' /\ UNCHANGED Q!D!deliveryVars
<1> USE DEF QueueInv
<1>1. /\ local /\ Consuming(r) /\ subscriber[r].todo = <<>>
      /\ reportTraceIds' = <<>>
      /\ subscriber' = [subscriber EXCEPT ![r] = Q!Idle]
      /\ UNCHANGED <<local, stream, group, pending, sent, unreachable, consumed, disruptions>>
  BY DEF Q!Unlock, Consuming
<1>2. Q!Idle \in [pc : {"down", "idle", "locking", "consuming"}, todo : Seq(Nat), given : SUBSET Nat]
      /\ Q!Idle.pc = "idle"
  BY DEF Q!Idle
<1>3. QueueTypes'
  BY <1>1, <1>2, NoRange DEF QueueTypes, Numbers
<1>4. /\ \A q \in Receivers : q # r => subscriber'[q] = subscriber[q]
      /\ subscriber'[r].pc = "idle"
  BY <1>1, <1>2 DEF QueueTypes
<1>5. \A q \in Receivers : (Q!Up(q)' <=> Q!Up(q)) /\ (Q!Up(q) => q = r)
  BY <1>1, <1>4 DEF Q!Up, LocalInv, Consuming
<1>6. \A q \in Receivers : ~Consuming(q)'
  BY <1>4, <1>5 DEF Consuming, Q!Up
<1>7. LocalInv'
  BY <1>1, <1>5, <1>6, NoRange DEF LocalInv
<1>8. RedisInv'
  BY <1>1 DEF RedisInv
<1>9. \A m \in Numbers : m \notin Range(consumed) => (Q!Waiting(m)' <=> Q!Waiting(m))
  <2> SUFFICES ASSUME NEW m \in Numbers, m \notin Range(consumed) PROVE Waits(m)' <=> Waits(m)
    BY <1>3, WaitingIsWaits, WaitingNext
  <2>1. m \notin Range(reportTraceIds)
    BY <1>1, NoRange DEF LocalInv, Todo
  <2> QED
    BY <1>1, <2>1, NoRange DEF Waits, Behind
<1> QED
  BY <1>1, <1>3, <1>7, <1>8, <1>9, NothingHappens

\* What Redis gives to a consumer is given to nobody else, and was not given before.
LEMMA GivenNext ==
  ASSUME QueueInv, ~local, Q!Give, UNCHANGED <<local, stream>>
  PROVE  /\ group' = group + 1 /\ group' \in DOMAIN stream /\ group \in Nat /\ group' <= Len(stream)
         /\ stream[group'] \in Numbers /\ stream[group'] \notin Given
         /\ Given' = Given \cup {stream[group']}
<1>1. /\ group \in Nat /\ group' = group + 1 /\ Len(stream) \in Nat /\ DOMAIN stream = 1 .. Len(stream)
      /\ group < Len(stream)
  BY DEF QueueInv, QueueTypes, Q!Give
<1>2. group' \in DOMAIN stream /\ group' <= Len(stream)
  BY <1>1
<1>3. stream[group'] \in Numbers
  BY <1>2 DEF QueueInv, QueueTypes, Range
<1>4. stream[group'] \notin Given
  <2>1. ASSUME NEW i \in DOMAIN stream, i <= group, stream[i] = stream[group'] PROVE FALSE
    <3>1. i = group'
      BY <2>1, <1>2 DEF QueueInv, QueueTypes, IsInjective
    <3> QED
      BY <3>1, <2>1, <1>1
  <2> QED
    BY <2>1 DEF Given
<1>5. \A i \in DOMAIN stream : i <= group' <=> i <= group \/ i = group'
  BY <1>1
<1>6. Given' = Given \cup {stream[group']}
  BY <1>2, <1>5 DEF Given
<1> QED
  BY <1>1, <1>2, <1>3, <1>4, <1>6

LEMMA ReadStep ==
  ASSUME QueueInv, NEW r \in Receivers, Q!Read(r)
  PROVE  QueueInv' /\ UNCHANGED Q!D!deliveryVars
<1> USE DEF QueueInv
<1>0. PICK c : c = stream[group']
  OBVIOUS
<1>1. /\ ~local /\ subscriber[r].pc = "idle" /\ Q!Give
      /\ subscriber' = [subscriber EXCEPT ![r] = [pc |-> "consuming", todo |-> <<c>>, given |-> {c}]]
      /\ UNCHANGED <<local, reportTraceIds, stream, sent, unreachable, consumed, disruptions>>
  BY <1>0 DEF Q!Read
<1>2. /\ group' = group + 1 /\ group' \in DOMAIN stream /\ group \in Nat /\ group' <= Len(stream)
      /\ c \in Numbers /\ c \notin Given /\ Given' = Given \cup {c}
  BY <1>0, <1>1, GivenNext
<1>3. c \in Nat /\ <<c>> \in Seq(Nat) /\ IsInjective(<<c>>) /\ Range(<<c>>) = {c}
  BY <1>2 DEF Numbers, IsInjective, Range
<1>4. QueueTypes'
  <2>1. [pc |-> "consuming", todo |-> <<c>>, given |-> {c}]
          \in [pc : {"down", "idle", "locking", "consuming"}, todo : Seq(Nat), given : SUBSET Nat]
    BY <1>3
  <2>2. subscriber' \in [Receivers -> [pc : {"down", "idle", "locking", "consuming"},
                                       todo : Seq(Nat), given : SUBSET Nat]]
    BY <1>1, <2>1 DEF QueueTypes
  <2> QED
    BY <1>1, <1>2, <2>2 DEF QueueTypes, Numbers
<1>5. /\ \A q \in Receivers : q # r => subscriber'[q] = subscriber[q]
      /\ subscriber'[r] = [pc |-> "consuming", todo |-> <<c>>, given |-> {c}]
  BY <1>1 DEF QueueTypes
<1>6. Todo(r) = {} /\ Todo(r)' = {c} /\ \A q \in Receivers : q # r => Todo(q)' = Todo(q)
  <2>1. subscriber[r].todo = <<>>
    BY <1>1 DEF RedisInv, Consuming
  <2> QED
    BY <2>1, <1>3, <1>5, NoRange DEF Todo
<1>7. LocalInv'
  BY <1>1 DEF LocalInv
<1>8. RedisInv'
  <2>1. \A q \in Receivers : /\ subscriber'[q].pc # "locking"
                             /\ ~Consuming(q)' => subscriber'[q].todo = <<>>
                             /\ IsInjective(subscriber'[q].todo)
    BY <1>1, <1>3, <1>5 DEF RedisInv, Consuming
  <2>2. \A q \in Receivers : Todo(q)' \subseteq Given' /\ Todo(q)' \cap Range(consumed) = {}
    BY <1>1, <1>2, <1>6 DEF RedisInv
  <2>3. \A p, q \in Receivers : p # q => Todo(p)' \cap Todo(q)' = {}
    <3>1. \A q \in Receivers : c \notin Todo(q)
      BY <1>1, <1>2 DEF RedisInv
    <3>2. \A p, q \in Receivers : p # q => Todo(p) \cap Todo(q) = {}
      BY <1>1 DEF RedisInv
    <3> QED
      BY <3>1, <3>2, <1>6
  <2>4. Range(consumed) \subseteq Given' /\ Len(stream') <= sent' /\ group' <= Len(stream')
    BY <1>1, <1>2 DEF RedisInv
  <2>5. \A i \in DOMAIN stream : i > group' => stream[i] \notin unreachable
    <3>1. \A i \in DOMAIN stream : i > group' => i > group
      BY <1>2
    <3> QED
      BY <3>1, <1>1 DEF RedisInv
  <2> QED
    BY <1>1, <2>1, <2>2, <2>3, <2>4, <2>5 DEF RedisInv
<1>9. \A m \in Numbers : Q!Waiting(m)' <=> Q!Waiting(m)
  <2> SUFFICES ASSUME NEW m \in Numbers PROVE Waits(m)' <=> Waits(m)
    BY <1>4, WaitingIsWaits, WaitingNext
  <2>1. Behind(m) <=> Behind(m)' \/ m = c
    <3>1. \A i \in DOMAIN stream : i > group <=> i > group' \/ i = group'
      BY <1>2
    <3>2. c \notin unreachable
      BY <1>0, <1>1, <1>2 DEF RedisInv
    <3> QED
      BY <3>1, <3>2, <1>0, <1>1, <1>2 DEF Behind
  <2>2. (\E q \in Receivers : m \in Todo(q)') <=> (\E q \in Receivers : m \in Todo(q)) \/ m = c
    BY <1>6
  <2> QED
    BY <1>1, <2>1, <2>2 DEF Waits
<1> QED
  BY <1>1, <1>4, <1>7, <1>8, <1>9, NothingHappens

LEMMA ReadFailsStep ==
  ASSUME QueueInv, NEW r \in Receivers, Q!ReadFails(r)
  PROVE  QueueInv' /\ Q!D!Disrupt
<1> USE DEF QueueInv
<1>1. /\ ~local /\ Q!Give /\ disruptions' = disruptions + 1
      /\ UNCHANGED <<local, reportTraceIds, stream, subscriber, sent, unreachable, consumed>>
  BY DEF Q!ReadFails, Q!Disruption
<1>2. PICK c : c = stream[group']
  OBVIOUS
<1>3. /\ group' = group + 1 /\ group' \in DOMAIN stream /\ group \in Nat /\ group' <= Len(stream)
      /\ Given' = Given \cup {c}
  BY <1>1, <1>2, GivenNext
<1>4. QueueTypes'
  BY <1>1, <1>3 DEF QueueTypes, Numbers
<1>5. LocalInv'
  BY <1>1 DEF LocalInv
<1>6. \A q \in Receivers : Todo(q)' = Todo(q)
  BY <1>1 DEF Todo
<1>7. RedisInv'
  <2>1. \A i \in DOMAIN stream : i > group' => i > group
    BY <1>3
  <2> QED
    BY <1>1, <1>3, <1>6, <2>1 DEF RedisInv, Consuming
<1>8. \A m \in Numbers : Q!Waiting(m)' => Q!Waiting(m)
  <2>1. \A i \in DOMAIN stream : i > group' => i > group
    BY <1>3
  <2>2. \A m : Waits(m)' => Waits(m)
    BY <1>1, <1>6, <2>1 DEF Waits, Behind
  <2> QED
    BY <1>4, <2>2, WaitingIsWaits, WaitingNext
<1> QED
  BY <1>1, <1>4, <1>5, <1>7, <1>8, SomeLost

LEMMA AckStep ==
  ASSUME QueueInv, NEW r \in Receivers, Q!Ack(r)
  PROVE  QueueInv' /\ UNCHANGED Q!D!deliveryVars
<1> USE DEF QueueInv
<1>1. /\ ~local /\ Consuming(r) /\ subscriber[r].todo = <<>>
      /\ subscriber' = [subscriber EXCEPT ![r] = Q!Idle]
      /\ UNCHANGED <<local, reportTraceIds, stream, group, sent, unreachable, consumed, disruptions>>
  BY DEF Q!Ack, Consuming
<1>2. Q!Idle \in [pc : {"down", "idle", "locking", "consuming"}, todo : Seq(Nat), given : SUBSET Nat]
      /\ Q!Idle.pc = "idle" /\ Q!Idle.todo = <<>>
  BY DEF Q!Idle
<1>3. QueueTypes'
  BY <1>1, <1>2 DEF QueueTypes, Numbers
<1>4. /\ \A q \in Receivers : q # r => subscriber'[q] = subscriber[q]
      /\ subscriber'[r].pc = "idle" /\ subscriber'[r].todo = <<>>
  BY <1>1, <1>2 DEF QueueTypes
<1>5. \A q \in Receivers : Todo(q)' = Todo(q)
  BY <1>1, <1>4 DEF Todo
<1>6. LocalInv'
  BY <1>1 DEF LocalInv
<1>7. RedisInv'
  <2>1. Given' = Given
    BY <1>1 DEF Given
  <2>2. \A q \in Receivers : /\ subscriber'[q].pc # "locking"
                             /\ ~Consuming(q)' => subscriber'[q].todo = <<>>
                             /\ IsInjective(subscriber'[q].todo)
    BY <1>1, <1>4, NoRange DEF RedisInv, Consuming
  <2> QED
    BY <1>1, <1>5, <2>1, <2>2 DEF RedisInv
<1>8. \A m \in Numbers : Q!Waiting(m)' <=> Q!Waiting(m)
  <2>1. \A m : Waits(m)' <=> Waits(m)
    BY <1>1, <1>5 DEF Waits, Behind
  <2> QED
    BY <1>3, <2>1, WaitingIsWaits, WaitingNext
<1> QED
  BY <1>1, <1>3, <1>6, <1>7, <1>8, NothingHappens

\* Every step of the queue is one of Delivery's, or none.
LEMMA QueueStep ==
  QueueInv /\ [Q!Next]_qVars => QueueInv' /\ [Q!D!DeliveryNext]_(Q!D!deliveryVars)
<1> SUFFICES ASSUME QueueInv, [Q!Next]_qVars
             PROVE  QueueInv' /\ [Q!D!DeliveryNext]_(Q!D!deliveryVars)
  OBVIOUS
<1>1. CASE UNCHANGED qVars
  <2>1. QueueInv'
    <3>1. QueueTypes'
      BY <1>1 DEF QueueInv, QueueTypes, qVars, Numbers
    <3>2. LocalInv'
      BY <1>1 DEF QueueInv, LocalInv, qVars, Todo, Consuming, Q!Up
    <3>3. Given' = Given /\ \A r \in Receivers : (Consuming(r)' <=> Consuming(r)) /\ Todo(r)' = Todo(r)
      BY <1>1 DEF qVars, Given, Todo, Consuming
    <3>4. RedisInv'
      BY <1>1, <3>3 DEF QueueInv, RedisInv, qVars
    <3> QED
      BY <3>1, <3>2, <3>4 DEF QueueInv
  <2>2. QueueTypes /\ QueueTypes'
    BY <2>1 DEF QueueInv
  <2>3. \A m : Waits(m)' <=> Waits(m)
    BY <1>1 DEF Waits, Behind, Todo, qVars
  <2>4. \A m \in Numbers : Q!Waiting(m)' <=> Q!Waiting(m)
    BY <2>2, <2>3, WaitingIsWaits, WaitingNext
  <2>5. UNCHANGED <<sent, consumed, disruptions>>
    BY <1>1 DEF qVars
  <2> QED
    BY <2>1, <2>2, <2>4, <2>5, NothingHappens
<1>2. ASSUME NEW r \in Receivers,
             \/ Q!Start(r) \/ Q!Crash(r) \/ Q!NotifyReportTraceId(r)
             \/ Q!Subscribe(r) \/ Q!ReadFails(r)
      PROVE  QueueInv' /\ [Q!D!DeliveryNext]_(Q!D!deliveryVars)
  <2>1. CASE Q!Start(r)
    BY <2>1, StartStep
  <2>2. CASE Q!Crash(r)
    BY <2>2, CrashStep DEF Q!D!DeliveryNext
  <2>3. CASE Q!NotifyReportTraceId(r)
    BY <2>3, NotifyStep DEF Q!D!DeliveryNext
  <2>4. CASE Q!See(r)
    BY <2>4, SeeStep
  <2>5. CASE Q!Lock(r)
    BY <2>5, LockStep
  <2>6. CASE Q!Consume(r)
    BY <2>6, ConsumeStep DEF Q!D!DeliveryNext
  <2>7. CASE Q!Unlock(r)
    BY <2>7, UnlockStep
  <2>8. CASE Q!Read(r)
    BY <2>8, ReadStep
  <2>9. CASE Q!Ack(r)
    BY <2>9, AckStep
  <2>10. CASE Q!ReadFails(r)
    BY <2>10, ReadFailsStep DEF Q!D!DeliveryNext
  <2> QED
    BY <1>2, <2>1, <2>2, <2>3, <2>4, <2>5, <2>6, <2>7, <2>8, <2>9, <2>10 DEF Q!Subscribe
<1> QED
  BY <1>1, <1>2 DEF Q!Next

\* Whatever receivers, crashes and notifications do in between: a notification is
\* consumed at most once, and one that is queued leaves the queue to be consumed or
\* in a disruption (SubscribeReportTraceId of both caches refines module Delivery).
THEOREM DeliverySafetyTheorem == Spec => Q!D!DeliverySafety
<1>1. Init => QueueInv /\ Q!D!DeliveryInit
  BY QueueInit DEF Init
<1>2. QueueInv /\ [Next]_vars => QueueInv' /\ [Q!D!DeliveryNext]_(Q!D!deliveryVars)
  <2>1. [Next]_vars => [Q!Next]_qVars
    BY DEF Next, vars
  <2> QED
    BY <2>1, QueueStep
<1> QED
  BY <1>1, <1>2, PTL DEF Spec, Q!D!DeliverySafety
=============================================================================
