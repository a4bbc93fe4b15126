------------------------------ MODULE Histogram ------------------------------
(***************************************************************************)
(* The histograms of metrics: VictoriaMetrics' with fixed logarithmic      *)
(* buckets (vm/vm_histogram.go) and Prometheus' with configured bounds     *)
(* (pm/prom_histogram.go).                                                 *)
(*                                                                         *)
(* A value is its position on the logarithmic scale in half buckets: 2 * i *)
(* is the lower bound of bucket i exactly, 2 * i + 1 lies within it; below *)
(* 0 it is under the first bucket.  Ignored is a negative value.           *)
(* The Prometheus library is external: it counts, per bound, the values    *)
(* that are at most the bound.                                             *)
(***************************************************************************)
EXTENDS Integers, Sequences, FiniteSets

CONSTANTS Buckets,      \* bucketsCount: 486
          Bounds,       \* configured bounds: ascending sequences of values and Inf
          Histograms,   \* histograms; each may be merged into another
          MaxUpdates

VARIABLES counters,     \* per histogram: lower, upper, buckets
          bounds,       \* the configured bounds of this instance
          exported,     \* the lines of an export just done
          seen          \* history: the values of each histogram, in order

vars == <<counters, bounds, exported, seen>>

Ignored == -9
Values == {Ignored, -1} \cup 0 .. 2 * Buckets + 1
Inf == 2 * Buckets + 9
Empty == [lower |-> 0, upper |-> 0, buckets |-> [i \in 0 .. Buckets - 1 |-> 0]]

Init == /\ counters = [h \in Histograms |-> Empty]
        /\ bounds \in Bounds
        /\ exported = <<>>
        /\ seen = [h \in Histograms |-> <<>>]

\* A value on a bound belongs to the bucket below, but for that of the first.
\* (slip: bounds belong to the bucket above)
IndexSlip(v) == v \div 2
Index(v) == IF v % 2 = 0 /\ v > 0 THEN v \div 2 - 1 ELSE v \div 2

Update(h, v) ==
  /\ Len(seen[h]) < MaxUpdates
  /\ LET c == counters[h]
     IN  counters' = [counters EXCEPT ![h] =
           IF v = Ignored THEN c
           ELSE IF v < 0 THEN [c EXCEPT !.lower = @ + 1]
           ELSE IF v >= 2 * Buckets THEN [c EXCEPT !.upper = @ + 1]
           ELSE [c EXCEPT !.buckets[Index(v)] = @ + 1]]
  /\ seen' = [seen EXCEPT ![h] = Append(@, v)]
  /\ exported' = <<>>
  /\ UNCHANGED bounds

Merge(h, src) ==
  /\ h # src /\ Len(seen[h]) + Len(seen[src]) <= MaxUpdates /\ seen[src] # <<>>
  /\ counters' = [counters EXCEPT ![h] =
       [lower |-> @.lower + counters[src].lower, upper |-> @.upper + counters[src].upper,
        buckets |-> [i \in 0 .. Buckets - 1 |-> @.buckets[i] + counters[src].buckets[i]]]]
  /\ seen' = [seen EXCEPT ![h] = @ \o seen[src]]
  /\ exported' = <<>>
  /\ UNCHANGED bounds

Reset(h) ==
  /\ counters' = [counters EXCEPT ![h] = Empty]
  /\ seen' = [seen EXCEPT ![h] = <<>>]
  /\ exported' = <<>>
  /\ UNCHANGED bounds

-----------------------------------------------------------------------------
Line(range, count) == [range |-> range, count |-> count]

\* The counters in the order of a visit, each with its <<start, end>> in half buckets.
LineOf(c, k) ==
  IF k = 1 THEN Line(<<-9, 0>>, c.lower)
  ELSE IF k = Buckets + 2 THEN Line(<<2 * Buckets, Inf>>, c.upper)
  ELSE Line(<<2 * (k - 2), 2 * (k - 1)>>, c.buckets[k - 2])

\* VisitNonZeroBuckets: what was visited up to counter k, and its sum.
Visit(c) ==
  LET after[k \in 0 .. Buckets + 2] ==
        IF k = 0 THEN [lines |-> <<>>, count |-> 0]
        ELSE LET line == LineOf(c, k)
             IN  IF line.count = 0 THEN after[k - 1]
                 ELSE [lines |-> Append(after[k - 1].lines, line), count |-> after[k - 1].count + line.count]
  IN  after

VmExport(h) ==
  /\ LET visited == Visit(counters[h])[Buckets + 2]
     IN  exported' = [lines |-> visited.lines, of |-> seen[h], kind |-> "vm", count |-> visited.count]
  /\ UNCHANGED <<counters, bounds, seen>>

AtMost(h, bound) == Cardinality({i \in DOMAIN seen[h] : bound = Inf \/ seen[h][i] <= bound})

\* MarshalTo, ExportTimeSeries: the bound +Inf is added when it was not configured.
Ends == IF \E i \in DOMAIN bounds : bounds[i] = Inf THEN bounds ELSE Append(bounds, Inf)

PromExport(h) ==
  /\ exported' = [lines |-> [i \in DOMAIN Ends |-> Line(<<-9, Ends[i]>>, AtMost(h, Ends[i]))],
                  of |-> seen[h], kind |-> "prom", count |-> Len(seen[h])]
  /\ UNCHANGED <<counters, bounds, seen>>

Next == \E h \in Histograms :
          \/ \E v \in Values : Update(h, v)
          \/ \E src \in Histograms : Merge(h, src)
          \/ Reset(h) \/ VmExport(h) \/ PromExport(h)
Spec == Init /\ [][Next]_vars

-----------------------------------------------------------------------------
TypeOK == \A h \in Histograms : /\ counters[h].lower \in Nat /\ counters[h].upper \in Nat
                                /\ counters[h].buckets \in [0 .. Buckets - 1 -> Nat]
                                /\ seen[h] \in Seq(Values) /\ Len(seen[h]) <= MaxUpdates

InRange(v, range) == \/ range[1] < v /\ v <= range[2]
                     \/ v = range[1] /\ v \in {0, 2 * Buckets}
                     \/ range[2] = Inf /\ v > range[1]

\* Each recorded value is counted in one exported bucket, whose range holds it: the
\* end included, the start not but at the two ends of the scale (Update,
\* VisitNonZeroBuckets); the buckets of a Prometheus histogram grow up to +Inf,
\* which is there once and counts them all (MarshalTo).
CountedInRange ==
  exported # <<>> =>
    LET lines == exported.lines
        recorded == {i \in DOMAIN exported.of : exported.of[i] # Ignored}
    IN  IF exported.kind = "vm"
        THEN /\ exported.count = Cardinality(recorded)
             /\ \A i \in DOMAIN lines :
                  lines[i].count <= Cardinality({j \in recorded : InRange(exported.of[j], lines[i].range)})
        ELSE /\ \A i \in 1 .. Len(lines) - 1 : /\ lines[i].count <= lines[i + 1].count
                                               /\ lines[i].range[2] < lines[i + 1].range[2]
             /\ lines[Len(lines)] = Line(<<-9, Inf>>, exported.count)
=============================================================================
