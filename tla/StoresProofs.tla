---------------------------- MODULE StoresProofs ----------------------------
(***************************************************************************)
(* Theorems about the stores, for any receivers, agents, traces, tables    *)
(* and configurations.                                                     *)
(***************************************************************************)
EXTENDS Stores, SequenceFacts, FiniteSetTheorems, TLAPS

\* The kind of cache stays what it is.
LEMMA LocalStays ==
    ASSUME L!Next \/ G!Next \/ S!Next
    PROVE  local' = local
<1>1. L!Next => local' = local
  BY DEF L!Next, L!Clock, L!Check, L!Delete, L!Load, L!RPush, L!Put, L!Add, L!Expire,
     L!ExpireFails
<1>2. G!Next => local' = local
  BY DEF G!Next, G!StoreSignal, G!Load, G!StoreList, G!AddSignal, G!KeyExpires, G!TakeLocked,
     G!GetListSize, G!GetList, G!LTrim
<1>3. S!Next => local' = local
  BY DEF S!Next, S!QueryProfiles, S!GetTraceIndex, S!Answer, S!IncrTraceIndex, S!Store,
     S!CleanExpireTraceId
<1> QED
  BY <1>1, <1>2, <1>3

\* A step of the stores is a step of each, or leaves its variables alone.
LEMMA StepOfEach ==
    ASSUME [Next]_vars
    PROVE  /\ P!Next \/ UNCHANGED pVars
           /\ I!Next \/ UNCHANGED iVars
           /\ M!Next \/ UNCHANGED mVars
           /\ H!Next \/ UNCHANGED hVars
           /\ L!Next \/ (UNCHANGED lVars /\ local' = local)
           /\ G!Next \/ (UNCHANGED gVars /\ local' = local)
           /\ S!Next \/ (UNCHANGED sVars /\ local' = local)
           /\ Z!Next \/ UNCHANGED zVars
<1>1. local' = local
  BY LocalStays DEF Next, vars
<1>2. (P!Next \/ UNCHANGED pVars) /\ (I!Next \/ UNCHANGED iVars)
  BY DEF Next, vars
<1>3. (M!Next \/ UNCHANGED mVars) /\ (H!Next \/ UNCHANGED hVars)
  BY DEF Next, vars
<1>4. (L!Next \/ UNCHANGED lVars) /\ (G!Next \/ UNCHANGED gVars)
  BY DEF Next, vars
<1>5. (S!Next \/ UNCHANGED sVars) /\ (Z!Next \/ UNCHANGED zVars)
  BY DEF Next, vars
<1> QED
  BY <1>1, <1>2, <1>3, <1>4, <1>5

(* Replacing an element of a sequence. *)
LEMMA ReplaceFacts ==
    ASSUME NEW X, NEW s \in Seq(X), NEW i \in 1 .. Len(s), NEW x \in X
    PROVE  /\ [s EXCEPT ![i] = x] \in Seq(X)
           /\ Len([s EXCEPT ![i] = x]) = Len(s)
           /\ \A j \in 1 .. Len(s) : [s EXCEPT ![i] = x][j] = IF j = i THEN x ELSE s[j]
<1> DEFINE f == [s EXCEPT ![i] = x]
<1>1. f \in [1 .. Len(s) -> X] /\ Len(s) \in Nat
  OBVIOUS
<1>2. f \in Seq(X) /\ DOMAIN f = 1 .. Len(s)
  <2> HIDE DEF f
  <2> QED
    BY <1>1
<1>3. Len(f) = Len(s)
  <2> HIDE DEF f
  <2> QED
    BY <1>1, <1>2
<1> QED
  BY <1>2, <1>3

-----------------------------------------------------------------------------
(* SilentSwitches                                                          *)

Urls == {PidUrl[t] : t \in Tuples}
Metric == [total : Nat, success : Nat, status : {"Init", "Closing", "Finished"}]
Query == [pc : {"range", "check"}, todo : SUBSET Tuples, tuple : Tuples \cup {0}, metric : Nat,
          close : SUBSET Urls, recover : SUBSET Urls, silent : SUBSET Urls]

\* Metric m was made for tuple t.
OfTuple(m, t) == m \in 1 .. Len(metrics) /\ \A u \in Tuples \ {t} : current[u] # m

\* Every tuple has a metric of its own, and each loop knows whose metric it holds;
\* the collection finds those it is to delete.
MetricsOk == /\ metrics \in Seq(Metric)
             /\ current \in [Tuples -> 0 .. Len(metrics)]
             /\ \A t \in Tuples : current[t] # 0 => OfTuple(current[t], t)
AddingOk == /\ adding.pc \in {"idle", "total", "success"}
            /\ adding.pc # "idle" => /\ adding \in [pc : {"total", "success"}, tuple : Tuples,
                                                    metric : Nat, success : BOOLEAN]
                                     /\ OfTuple(adding.metric, adding.tuple)
QueryOk == /\ query.pc \in {"idle", "range", "check"}
           /\ query.pc # "idle" => query \in Query
           /\ query.pc = "check" => /\ query.tuple \in Tuples \ query.todo
                                    /\ OfTuple(query.metric, query.tuple)
CollectOk == /\ collect.pc \in {"idle", "range", "delete"}
             /\ collect.pc # "idle" => collect.todo \subseteq {t \in Tuples : current[t] # 0}
             /\ collect.pc = "delete" => /\ collect.tuple \in Tuples \ collect.todo
                                         /\ current[collect.tuple] # 0
OwnerInv == MetricsOk /\ AddingOk /\ QueryOk /\ CollectOk /\ uncounted \in [Tuples -> Int]

\* What happens to the metrics of the tuples in a step.
OneChanged == \E m \in 1 .. Len(metrics), x \in Metric : metrics' = [metrics EXCEPT ![m] = x]
OneAdded(t) == /\ t \in Tuples /\ current[t] = 0
               /\ metrics' = Append(metrics, Z!NewMetric)
               /\ current' = [current EXCEPT ![t] = Len(metrics) + 1]
OneDeleted(t) == /\ t \in Tuples /\ metrics' = metrics /\ current' = [current EXCEPT ![t] = 0]

LEMMA MetricsSteps ==
    ASSUME MetricsOk,
           \/ UNCHANGED <<metrics, current>>
           \/ OneChanged /\ current' = current
           \/ \E t \in Tuples : OneAdded(t) \/ OneDeleted(t)
    PROVE  /\ MetricsOk'
           /\ Len(metrics) <= Len(metrics')
           /\ \A m, t : OfTuple(m, t) => OfTuple(m, t)'
<1>1. CASE UNCHANGED <<metrics, current>>
  BY <1>1 DEF MetricsOk, OfTuple
<1>2. CASE OneChanged /\ current' = current
  <2>1. metrics' \in Seq(Metric) /\ Len(metrics') = Len(metrics)
    BY <1>2, ReplaceFacts DEF OneChanged, MetricsOk
  <2> QED
    BY <1>2, <2>1 DEF MetricsOk, OfTuple
<1>3. ASSUME NEW t \in Tuples, OneAdded(t)
      PROVE  /\ MetricsOk' /\ Len(metrics) <= Len(metrics')
             /\ \A m, u : OfTuple(m, u) => OfTuple(m, u)'
  <2>1. Z!NewMetric \in Metric
    BY DEF Z!NewMetric, Metric
  <2>2. metrics' \in Seq(Metric) /\ Len(metrics') = Len(metrics) + 1 /\ Len(metrics) \in Nat
    BY <1>3, <2>1 DEF OneAdded, MetricsOk
  <2>3. /\ current' \in [Tuples -> 0 .. Len(metrics')]
        /\ current'[t] = Len(metrics) + 1
        /\ \A u \in Tuples \ {t} : current'[u] = current[u]
    BY <1>3, <2>2 DEF OneAdded, MetricsOk
  <2>4. \A m, u : OfTuple(m, u) => OfTuple(m, u)'
    BY <2>2, <2>3 DEF OfTuple
  <2>5. ASSUME NEW u \in Tuples, current'[u] # 0 PROVE OfTuple(current[u], u)'
    BY <2>2, <2>3, <2>5 DEF OfTuple, MetricsOk
  <2> QED
    BY <2>2, <2>3, <2>4, <2>5 DEF MetricsOk
<1>4. ASSUME NEW t \in Tuples, OneDeleted(t)
      PROVE  /\ MetricsOk' /\ Len(metrics) <= Len(metrics')
             /\ \A m, u : OfTuple(m, u) => OfTuple(m, u)'
  <2>1. /\ current' \in [Tuples -> 0 .. Len(metrics)] /\ current'[t] = 0 /\ metrics' = metrics
        /\ \A u \in Tuples \ {t} : current'[u] = current[u]
    BY <1>4 DEF OneDeleted, MetricsOk
  <2> QED
    BY <2>1 DEF OfTuple, MetricsOk
<1> QED
  BY <1>1, <1>2, <1>3, <1>4

LEMMA OwnerInit == Z!Init => OwnerInv
BY DEF Z!Init, Z!Idle, OwnerInv, MetricsOk, AddingOk, QueryOk, CollectOk

\* Each step, by what it does to the metrics.
LEMMA MetricsOfStep ==
    ASSUME OwnerInv, Z!Next
    PROVE  \/ UNCHANGED <<metrics, current>>
           \/ OneChanged /\ current' = current
           \/ \E t \in Tuples : OneAdded(t) \/ OneDeleted(t)
<1> USE DEF OwnerInv
<1>1. ASSUME NEW t \in Tuples, NEW p \in BOOLEAN, Z!AddSignal(t, p)
      PROVE  UNCHANGED <<metrics, current>> \/ OneAdded(t)
  <2>1. CASE current[t] = 0
    <3>1. metrics' = Append(metrics, Z!NewMetric) /\ current' = [current EXCEPT ![t] = Len(metrics')]
      BY <1>1, <2>1 DEF Z!AddSignal
    <3>2. Z!NewMetric \in Metric
      BY DEF Z!NewMetric, Metric
    <3>3. Len(metrics') = Len(metrics) + 1
      BY <3>1, <3>2 DEF MetricsOk
    <3> QED
      BY <2>1, <3>1, <3>3 DEF OneAdded
  <2> QED
    BY <1>1, <2>1 DEF Z!AddSignal
<1>2. CASE Z!AddTotal
  <2> DEFINE m == adding.metric
             x == [metrics[m] EXCEPT !.total = @ + 1]
  <2>1. m \in 1 .. Len(metrics) /\ metrics' = [metrics EXCEPT ![m] = x] /\ current' = current
    BY <1>2 DEF Z!AddTotal, AddingOk, OfTuple
  <2>2. metrics[m] \in Metric
    BY <2>1 DEF MetricsOk
  <2>3. x \in Metric
    BY <2>2 DEF Metric
  <2> QED
    BY <2>1, <2>3 DEF OneChanged
<1>3. CASE Z!AddSuccess
  <2> DEFINE m == adding.metric
             x == [metrics[m] EXCEPT !.success = @ + 1]
  <2>1. m \in 1 .. Len(metrics) /\ metrics' = [metrics EXCEPT ![m] = x] /\ current' = current
    BY <1>3 DEF Z!AddSuccess, AddingOk, OfTuple
  <2>2. metrics[m] \in Metric
    BY <2>1 DEF MetricsOk
  <2>3. x \in Metric
    BY <2>2 DEF Metric
  <2> QED
    BY <2>1, <2>3 DEF OneChanged
<1>4. CASE Z!CheckStatus
  <2> DEFINE m == query.metric
             x == [metrics[m] EXCEPT !.status = Z!Status(metrics[m])]
  <2>1. m \in 1 .. Len(metrics) /\ metrics' = [metrics EXCEPT ![m] = x] /\ current' = current
    BY <1>4 DEF Z!CheckStatus, QueryOk, OfTuple
  <2>2. metrics[m] \in Metric
    BY <2>1 DEF MetricsOk
  <2>3. x \in Metric
    BY <2>2 DEF Metric, Z!Status
  <2> QED
    BY <2>1, <2>3 DEF OneChanged
<1>5. CASE Z!DeleteMetric
  BY <1>5 DEF Z!DeleteMetric, Z!Deleted, CollectOk, OneDeleted
<1>6. ASSUME NEW t \in Tuples, Z!Visit(t) \/ Z!ReadCounts(t) PROVE UNCHANGED <<metrics, current>>
  BY <1>6 DEF Z!Visit, Z!ReadCounts
<1>7. CASE Z!QuerySilentSwitches \/ Z!AnswerSwitches \/ Z!CollectMetrics \/ Z!EndCollection
  BY <1>7 DEF Z!QuerySilentSwitches, Z!AnswerSwitches, Z!CollectMetrics, Z!EndCollection
<1> QED
  BY <1>1, <1>2, <1>3, <1>4, <1>5, <1>6, <1>7 DEF Z!Next

LEMMA OwnerStep == OwnerInv /\ Z!Next => OwnerInv'
<1> SUFFICES ASSUME OwnerInv, Z!Next PROVE OwnerInv'
  OBVIOUS
<1>a. /\ MetricsOk' /\ Len(metrics) <= Len(metrics')
      /\ \A m, t : OfTuple(m, t) => OfTuple(m, t)'
  BY MetricsOfStep, MetricsSteps DEF OwnerInv
<1>b. MetricsOk /\ AddingOk /\ QueryOk /\ CollectOk /\ uncounted \in [Tuples -> Int]
  BY DEF OwnerInv
<1>c. UNCHANGED adding => AddingOk'
  BY <1>a, <1>b DEF AddingOk
<1>d. UNCHANGED query => QueryOk'
  BY <1>a, <1>b DEF QueryOk
<1>e. UNCHANGED <<collect, current>> => CollectOk'
  BY <1>b DEF CollectOk
<1>1. ASSUME NEW t \in Tuples, NEW p \in BOOLEAN, Z!AddSignal(t, p) PROVE OwnerInv'
  <2>1. /\ adding' = [pc |-> "total", tuple |-> t, metric |-> current'[t], success |-> p]
        /\ uncounted' = [uncounted EXCEPT ![t] = @ + 1] /\ UNCHANGED <<query, collect>>
    BY <1>1 DEF Z!AddSignal
  <2>2. current'[t] # 0 /\ \A u \in Tuples : current[u] # 0 => current'[u] # 0
    BY <1>1, <1>b, Z!NewMetric \in Metric DEF Z!AddSignal, MetricsOk, Metric, Z!NewMetric
  <2>3. current'[t] \in Nat /\ OfTuple(current[t], t)'
    BY <1>a, <2>2 DEF MetricsOk
  <2>4. AddingOk'
    BY <2>1, <2>3 DEF AddingOk, OfTuple
  <2>5. CollectOk'
    BY <1>b, <2>1, <2>2 DEF CollectOk
  <2> QED
    BY <1>a, <1>b, <1>d, <2>1, <2>4, <2>5 DEF OwnerInv
<1>2. CASE Z!AddTotal
  <2>1. AddingOk'
    <3>1. adding.pc = "total" /\ adding' = [adding EXCEPT !.pc = IF adding.success THEN "success" ELSE "idle"]
      BY <1>2 DEF Z!AddTotal
    <3>2. /\ adding \in [pc : {"total", "success"}, tuple : Tuples, metric : Nat, success : BOOLEAN]
          /\ OfTuple(adding.metric, adding.tuple)'
      BY <1>a, <1>b, <3>1 DEF AddingOk
    <3> QED
      BY <3>1, <3>2 DEF AddingOk, OfTuple
  <2>2. uncounted' \in [Tuples -> Int] /\ UNCHANGED <<query, collect, current>>
    BY <1>2, <1>b DEF Z!AddTotal, AddingOk
  <2> QED
    BY <1>a, <1>d, <1>e, <2>1, <2>2 DEF OwnerInv
<1>3. CASE Z!AddSuccess
  <2>1. AddingOk' /\ UNCHANGED <<query, collect, current, uncounted>>
    BY <1>3 DEF Z!AddSuccess, AddingOk, Z!Idle
  <2> QED
    BY <1>a, <1>b, <1>d, <1>e, <2>1 DEF OwnerInv
<1>4. CASE Z!QuerySilentSwitches
  <2>1. QueryOk' /\ UNCHANGED <<adding, collect, current, uncounted>>
    BY <1>4 DEF Z!QuerySilentSwitches, QueryOk, Query
  <2> QED
    BY <1>a, <1>b, <1>c, <1>e, <2>1 DEF OwnerInv
<1>5. ASSUME NEW t \in Tuples, Z!Visit(t) PROVE OwnerInv'
  <2>1. UNCHANGED <<metrics, current, adding, collect, uncounted>>
    BY <1>5 DEF Z!Visit
  <2>2. query \in Query /\ t \in query.todo /\ current[t] \in Nat
    BY <1>5, <1>b DEF Z!Visit, QueryOk, MetricsOk
  <2>3. query' = [query EXCEPT !.todo = @ \ {t}, !.pc = IF current[t] = 0 THEN "range" ELSE "check",
                               !.tuple = t, !.metric = current[t]]
    BY <1>5 DEF Z!Visit
  <2>4. /\ query' \in Query /\ query'.tuple = t /\ query'.metric = current[t]
        /\ query'.todo = query.todo \ {t}
        /\ query'.pc = IF current[t] = 0 THEN "range" ELSE "check"
    BY <2>2, <2>3 DEF Query
  <2>5. current[t] # 0 => OfTuple(current[t], t)
    BY <1>b DEF MetricsOk
  <2>6. QueryOk'
    BY <2>1, <2>4, <2>5 DEF QueryOk, OfTuple
  <2> QED
    BY <1>a, <1>b, <1>c, <1>e, <2>1, <2>6 DEF OwnerInv
<1>6. CASE Z!CheckStatus
  <2>1. UNCHANGED <<current, adding, collect, uncounted>>
    BY <1>6 DEF Z!CheckStatus
  <2>2. query \in Query /\ query.tuple \in Tuples
    BY <1>6, <1>b DEF Z!CheckStatus, QueryOk
  <2>3. \A c : Z!If(c, PidUrl[query.tuple]) \subseteq Urls
    BY <2>2 DEF Z!If, Urls
  <2>4. PICK c \in SUBSET Urls, r \in SUBSET Urls, s \in SUBSET Urls :
           query' = [query EXCEPT !.pc = "range", !.close = @ \cup c, !.recover = @ \cup r,
                                  !.silent = @ \cup s]
    BY <1>6, <2>3 DEF Z!CheckStatus
  <2>5. query' \in Query /\ query'.pc = "range"
    <3>1. /\ query.close \cup c \in SUBSET Urls /\ query.recover \cup r \in SUBSET Urls
          /\ query.silent \cup s \in SUBSET Urls
      BY <2>2 DEF Query
    <3> QED
      BY <2>2, <2>4, <3>1 DEF Query
  <2> QED
    BY <1>a, <1>b, <1>c, <1>e, <2>1, <2>5 DEF OwnerInv, QueryOk
<1>7. CASE Z!AnswerSwitches
  <2>1. QueryOk' /\ UNCHANGED <<adding, collect, current, uncounted>>
    BY <1>7 DEF Z!AnswerSwitches, QueryOk, Z!Idle
  <2> QED
    BY <1>a, <1>b, <1>c, <1>e, <2>1 DEF OwnerInv
<1>8. CASE Z!CollectMetrics
  <2>1. CollectOk' /\ UNCHANGED <<adding, query, uncounted>>
    BY <1>8 DEF Z!CollectMetrics, CollectOk
  <2> QED
    BY <1>a, <1>b, <1>c, <1>d, <2>1 DEF OwnerInv
<1>9. ASSUME NEW t \in Tuples, Z!ReadCounts(t) PROVE OwnerInv'
  <2>1. CollectOk' /\ UNCHANGED <<adding, query>>
    BY <1>9, <1>b DEF Z!ReadCounts, CollectOk
  <2>2. uncounted' \in [Tuples -> Int]
    <3>1. current[t] # 0
      BY <1>9, <1>b DEF Z!ReadCounts, CollectOk
    <3>2. metrics[current[t]] \in Metric
      BY <1>b, <3>1 DEF MetricsOk, OfTuple
    <3>3. metrics[current[t]].total \in Nat
      BY <3>2 DEF Metric
    <3> QED
      BY <1>9, <1>b, <3>3 DEF Z!ReadCounts
  <2> QED
    BY <1>a, <1>b, <1>c, <1>d, <2>1, <2>2 DEF OwnerInv
<1>10. CASE Z!DeleteMetric
  <2>1. CollectOk' /\ UNCHANGED <<adding, query, uncounted>>
    BY <1>10, <1>b DEF Z!DeleteMetric, Z!Deleted, CollectOk, MetricsOk
  <2> QED
    BY <1>a, <1>b, <1>c, <1>d, <2>1 DEF OwnerInv
<1>11. CASE Z!EndCollection
  <2>1. CollectOk' /\ UNCHANGED <<adding, query, uncounted>>
    BY <1>11 DEF Z!EndCollection, CollectOk, Z!Idle
  <2> QED
    BY <1>a, <1>b, <1>c, <1>d, <2>1 DEF OwnerInv
<1> QED
  BY <1>1, <1>2, <1>3, <1>4, <1>5, <1>6, <1>7, <1>8, <1>9, <1>10, <1>11 DEF Z!Next

-----------------------------------------------------------------------------
LEMMA CountStep == OwnerInv /\ Z!CountsReported /\ Z!Next => Z!CountsReported'
<1> SUFFICES ASSUME OwnerInv, Z!CountsReported, Z!Next, NEW u \in Tuples
             PROVE  uncounted'[u] = Z!Live(u)' + Z!Pending(u)'
  BY DEF Z!CountsReported
<1>a. MetricsOk /\ AddingOk /\ QueryOk /\ CollectOk /\ uncounted \in [Tuples -> Int]
  BY DEF OwnerInv
<1>b. uncounted[u] = Z!Live(u) + Z!Pending(u)
  BY DEF Z!CountsReported
<1>c. ASSUME NEW m \in 1 .. Len(metrics) PROVE metrics[m] \in Metric /\ metrics[m].total \in Nat
  <2>1. metrics[m] \in Metric
    BY <1>a DEF MetricsOk
  <2> QED
    BY <2>1 DEF Metric
<1>d. Z!Live(u) \in Nat /\ Z!Pending(u) \in Nat
  <2>1. current[u] # 0 => current[u] \in 1 .. Len(metrics)
    BY <1>a DEF MetricsOk, OfTuple
  <2> QED
    BY <1>c, <2>1 DEF Z!Live, Z!Pending
<1>e. UNCHANGED <<uncounted, metrics, current, collect, adding>> =>
        uncounted'[u] = Z!Live(u)' + Z!Pending(u)'
  BY <1>b DEF Z!Live, Z!Pending
<1>1. ASSUME NEW t \in Tuples, NEW p \in BOOLEAN, Z!AddSignal(t, p)
      PROVE  uncounted'[u] = Z!Live(u)' + Z!Pending(u)'
  <2>1. /\ adding.pc = "idle"
        /\ adding' = [pc |-> "total", tuple |-> t, metric |-> current'[t], success |-> p]
        /\ uncounted' = [uncounted EXCEPT ![t] = @ + 1] /\ UNCHANGED collect
    BY <1>1 DEF Z!AddSignal
  <2>2. Z!Pending(u) = 0 /\ Z!Pending(u)' = IF u = t THEN 1 ELSE 0
    BY <2>1 DEF Z!Pending
  <2>3. Z!Live(u)' = Z!Live(u)
    <3>1. CASE UNCHANGED <<metrics, current>>
      BY <2>1, <3>1 DEF Z!Live
    <3>2. CASE current[t] = 0
      <4>1. /\ metrics' = Append(metrics, Z!NewMetric)
            /\ current' = [current EXCEPT ![t] = Len(metrics')]
        BY <1>1, <3>2 DEF Z!AddSignal
      <4>2. Z!NewMetric \in Metric /\ Z!NewMetric.total = 0
        BY DEF Z!NewMetric, Metric
      <4>3. /\ Len(metrics') = Len(metrics) + 1 /\ metrics'[Len(metrics) + 1] = Z!NewMetric
            /\ \A m \in 1 .. Len(metrics) : metrics'[m] = metrics[m]
        BY <1>a, <4>1, <4>2 DEF MetricsOk
      <4>4. CASE u = t
        BY <1>a, <2>1, <3>2, <4>1, <4>2, <4>3, <4>4 DEF Z!Live, MetricsOk
      <4>5. CASE u # t
        <5>1. current'[u] = current[u]
          BY <1>a, <4>1, <4>5 DEF MetricsOk
        <5>2. current[u] # 0 => metrics'[current[u]] = metrics[current[u]]
          BY <1>a, <4>3 DEF MetricsOk, OfTuple
        <5> QED
          BY <2>1, <5>1, <5>2 DEF Z!Live
      <4> QED
        BY <4>4, <4>5
    <3> QED
      BY <1>1, <3>1, <3>2 DEF Z!AddSignal
  <2>4. uncounted'[u] = uncounted[u] + Z!Pending(u)'
    BY <1>a, <2>1, <2>2
  <2> QED
    BY <1>b, <1>d, <2>2, <2>3, <2>4
<1>2. CASE Z!AddTotal
  <2> DEFINE m == adding.metric
             t == adding.tuple
  <2>1. /\ adding.pc = "total" /\ t \in Tuples /\ m \in 1 .. Len(metrics)
        /\ \A v \in Tuples \ {t} : current[v] # m
    BY <1>2, <1>a DEF Z!AddTotal, AddingOk, OfTuple
  <2> DEFINE x == [metrics[m] EXCEPT !.total = @ + 1]
  <2>0. x \in Metric /\ x.total = metrics[m].total + 1
    BY <1>c, <2>1 DEF Metric
  <2>2. /\ metrics' = [metrics EXCEPT ![m] = x]
        /\ uncounted' = IF Z!InVain THEN [uncounted EXCEPT ![t] = @ - 1] ELSE uncounted
        /\ adding'.pc # "total" /\ UNCHANGED <<current, collect>>
    <3>1. adding.pc = "total" /\ adding' = [adding EXCEPT !.pc = IF adding.success THEN "success" ELSE "idle"]
      BY <1>2 DEF Z!AddTotal
    <3>2. adding'.pc = IF adding.success THEN "success" ELSE "idle"
      BY <1>a, <3>1 DEF AddingOk
    <3> QED
      BY <1>2, <3>2 DEF Z!AddTotal
  <2>3. Z!Pending(u) = (IF u = t THEN 1 ELSE 0) /\ Z!Pending(u)' = 0
    BY <2>1, <2>2 DEF Z!Pending
  <2>4. \A k \in 1 .. Len(metrics) : k # m => metrics'[k] = metrics[k]
    BY <1>a, <2>2 DEF MetricsOk
  <2>5. metrics'[m].total = metrics[m].total + 1
    <3> HIDE DEF x
    <3> QED
      BY <1>a, <2>0, <2>1, <2>2 DEF MetricsOk
  <2>6. current[u] # 0 => current[u] \in 1 .. Len(metrics)
    BY <1>a DEF MetricsOk, OfTuple
  <2>7. CASE u # t
    <3>1. Z!Live(u)' = Z!Live(u) /\ uncounted'[u] = uncounted[u]
      BY <1>a, <2>1, <2>2, <2>4, <2>6, <2>7 DEF Z!Live
    <3> QED
      BY <1>b, <1>d, <2>3, <2>7, <3>1
  <2>8. CASE u = t /\ Z!InVain
    <3>1. Z!Live(u)' = Z!Live(u)
      BY <2>2, <2>4, <2>6, <2>8 DEF Z!Live, Z!InVain
    <3>2. uncounted'[u] = uncounted[u] - 1
      BY <1>a, <2>2, <2>8
    <3> QED
      BY <1>b, <1>d, <2>3, <2>8, <3>1, <3>2
  <2>9. CASE u = t /\ ~Z!InVain
    <3>1. Z!Live(u)' = Z!Live(u) + 1
      <4>1. current[u] = m /\ current[u] # 0 /\ ~(collect.pc = "delete" /\ collect.tuple = u)
        BY <2>1, <2>9 DEF Z!InVain
      <4> QED
        BY <2>2, <2>5, <4>1 DEF Z!Live
    <3> QED
      BY <1>b, <1>d, <2>2, <2>3, <2>9, <3>1
  <2> QED
    BY <2>7, <2>8, <2>9
<1>f. ASSUME NEW m \in 1 .. Len(metrics), NEW x \in Metric, x.total = metrics[m].total,
             metrics' = [metrics EXCEPT ![m] = x], UNCHANGED <<uncounted, current, collect>>,
             Z!Pending(u)' = Z!Pending(u)
      PROVE  uncounted'[u] = Z!Live(u)' + Z!Pending(u)'
  <2>1. current[u] # 0 => current[u] \in 1 .. Len(metrics)
    BY <1>a DEF MetricsOk, OfTuple
  <2>2. \A k \in 1 .. Len(metrics) : metrics'[k].total = metrics[k].total
    BY <1>a, <1>f DEF MetricsOk
  <2>3. Z!Live(u)' = Z!Live(u)
    BY <1>f, <2>1, <2>2 DEF Z!Live
  <2> QED
    BY <1>b, <1>f, <2>3
<1>3. CASE Z!AddSuccess
  <2> DEFINE m == adding.metric
             x == [metrics[m] EXCEPT !.success = @ + 1]
  <2>1. m \in 1 .. Len(metrics) /\ metrics' = [metrics EXCEPT ![m] = x]
    BY <1>3, <1>a DEF Z!AddSuccess, AddingOk, OfTuple
  <2>2. x \in Metric /\ x.total = metrics[m].total
    BY <1>c, <2>1 DEF Metric
  <2>3. Z!Pending(u)' = Z!Pending(u) /\ UNCHANGED <<uncounted, current, collect>>
    BY <1>3 DEF Z!AddSuccess, Z!Pending, Z!Idle
  <2> HIDE DEF m, x
  <2> QED
    BY <1>f, <2>1, <2>2, <2>3
<1>4. CASE Z!CheckStatus
  <2> DEFINE m == query.metric
             x == [metrics[m] EXCEPT !.status = Z!Status(metrics[m])]
  <2>1. m \in 1 .. Len(metrics) /\ metrics' = [metrics EXCEPT ![m] = x]
    BY <1>4, <1>a DEF Z!CheckStatus, QueryOk, OfTuple
  <2>2. x \in Metric /\ x.total = metrics[m].total
    BY <1>c, <2>1 DEF Metric, Z!Status
  <2>3. Z!Pending(u)' = Z!Pending(u) /\ UNCHANGED <<uncounted, current, collect>>
    BY <1>4 DEF Z!CheckStatus, Z!Pending
  <2> HIDE DEF m, x
  <2> QED
    BY <1>f, <2>1, <2>2, <2>3
<1>5. ASSUME NEW t \in Tuples, Z!ReadCounts(t)
      PROVE  uncounted'[u] = Z!Live(u)' + Z!Pending(u)'
  <2>1. /\ collect.pc = "range" /\ collect'.pc = "delete" /\ collect'.tuple = t /\ current[t] # 0
        /\ uncounted' = [uncounted EXCEPT ![t] = @ - metrics[current[t]].total]
        /\ UNCHANGED <<metrics, current, adding>>
    BY <1>5, <1>a DEF Z!ReadCounts, CollectOk
  <2>2. Z!Pending(u)' = Z!Pending(u)
    BY <2>1 DEF Z!Pending
  <2>3. Z!Live(u)' = IF u = t THEN 0 ELSE Z!Live(u)
    BY <2>1 DEF Z!Live
  <2>4. Z!Live(t) = metrics[current[t]].total
    BY <2>1 DEF Z!Live
  <2> QED
    BY <1>a, <1>b, <1>d, <2>1, <2>2, <2>3, <2>4
<1>6. CASE Z!DeleteMetric
  <2>1. /\ collect.pc = "delete" /\ collect'.pc = "range" /\ UNCHANGED <<metrics, adding, uncounted>>
        /\ current' = [current EXCEPT ![collect.tuple] = 0]
    BY <1>6 DEF Z!DeleteMetric, Z!Deleted
  <2>2. Z!Live(u)' = Z!Live(u) /\ Z!Pending(u)' = Z!Pending(u)
    BY <1>a, <2>1 DEF Z!Live, Z!Pending, MetricsOk
  <2> QED
    BY <1>b, <2>1, <2>2
<1>7. CASE Z!CollectMetrics \/ Z!EndCollection
  <2>1. collect.pc # "delete" /\ collect'.pc # "delete" /\ UNCHANGED <<uncounted, metrics, current, adding>>
    BY <1>7 DEF Z!CollectMetrics, Z!EndCollection, Z!Idle
  <2> QED
    BY <1>b, <2>1 DEF Z!Live, Z!Pending
<1>8. ASSUME NEW t \in Tuples, Z!Visit(t)
      PROVE  uncounted'[u] = Z!Live(u)' + Z!Pending(u)'
  BY <1>8, <1>e DEF Z!Visit
<1>9. CASE Z!QuerySilentSwitches \/ Z!AnswerSwitches
  BY <1>9, <1>e DEF Z!QuerySilentSwitches, Z!AnswerSwitches
<1> QED
  BY <1>1, <1>2, <1>3, <1>4, <1>5, <1>6, <1>7, <1>8, <1>9 DEF Z!Next

\* However the workers' additions, the node's reports and the minute's collections
\* interleave, no slow trace is lost but those added while its tuple is collected.
THEOREM CountsReportedTheorem == Spec => []CountsReported
<1> DEFINE Inv == OwnerInv /\ Z!CountsReported
<1>1. Init => Inv
  <2>1. Z!Init => Z!CountsReported
    BY DEF Z!Init, Z!CountsReported, Z!Live, Z!Pending, Z!Idle
  <2> QED
    BY <2>1, OwnerInit DEF Init
<1>2. Inv /\ [Next]_vars => Inv'
  <2>1. UNCHANGED zVars => (Inv => Inv')
    BY DEF zVars, OwnerInv, MetricsOk, AddingOk, QueryOk, CollectOk, OfTuple, Z!CountsReported,
       Z!Live, Z!Pending
  <2> QED
    BY <2>1, OwnerStep, CountStep, StepOfEach
<1>3. Inv => CountsReported
  BY DEF CountsReported
<1> HIDE DEF Inv
<1> QED
  BY <1>1, <1>2, <1>3, PTL DEF Spec

-----------------------------------------------------------------------------
\* Tuple t has a metric whose url the agent is to keep silent.
ClosingNow(t) == current[t] # 0 /\ metrics[current[t]].status = "Closing"

\* The query under way has checked the metric of t, or will not any more.
Seen(t) == /\ query.pc # "idle" /\ t \notin query.todo
           /\ ~(query.pc = "check" /\ query.tuple = t /\ query.metric = current[t])

\* A tuple that is silent was announced: to the agent, or in the answer that is made,
\* which then says so of its url.
Announced == \A t \in Tuples : ClosingNow(t) =>
               IF Seen(t) THEN PidUrl[t] \in query.silent /\ PidUrl[t] \in closed \cup query.close
               ELSE PidUrl[t] \in closed
CheckedAnnounced == query.pc = "check" /\ metrics[query.metric].status = "Closing" =>
                      PidUrl[query.tuple] \in closed
AnswerOk == query.pc # "idle" =>
              /\ query.close \subseteq query.silent /\ query.recover \subseteq closed
              /\ \A url \in query.silent :
                   url \in forgotten \/ \E t \in Tuples : PidUrl[t] = url /\ ClosingNow(t) /\ Seen(t)
ClosedOk == \A url \in closed : \/ url \in forgotten \/ Z!Closing(url)
                                \/ query.pc # "idle" /\ url \in query.recover
SwitchInv == Announced /\ CheckedAnnounced /\ AnswerOk /\ ClosedOk /\ ~wrong

\* Steps that do not change what is silent, nor what was said.
Quiet == /\ UNCHANGED <<query, closed, forgotten, wrong>>
         /\ \A t \in Tuples : /\ (ClosingNow(t)' <=> ClosingNow(t))
                              /\ ClosingNow(t) => current'[t] = current[t]
         /\ \A m \in 1 .. Len(metrics) : metrics'[m].status = metrics[m].status

LEMMA QuietStep ==
    ASSUME OwnerInv, SwitchInv, Quiet
    PROVE  SwitchInv'
<1>1. \A t \in Tuples : ClosingNow(t) => (Seen(t)' <=> Seen(t))
  BY DEF Quiet, Seen
<1>2. UNCHANGED <<query, closed, forgotten, wrong>> /\ \A t \in Tuples : (ClosingNow(t)' <=> ClosingNow(t))
  BY DEF Quiet
<1>3. Announced'
  BY <1>1, <1>2 DEF SwitchInv, Announced
<1>4. CheckedAnnounced'
  <2>1. query.pc = "check" => query.metric \in 1 .. Len(metrics)
    BY DEF OwnerInv, QueryOk, OfTuple
  <2> QED
    BY <1>2, <2>1 DEF SwitchInv, CheckedAnnounced, Quiet
<1>5. AnswerOk'
  BY <1>1, <1>2 DEF SwitchInv, AnswerOk
<1>6. ClosedOk'
  <2>1. \A url : Z!Closing(url)' = Z!Closing(url)
    BY <1>2 DEF Z!Closing, ClosingNow
  <2> QED
    BY <1>2, <2>1 DEF SwitchInv, ClosedOk
<1> QED
  BY <1>2, <1>3, <1>4, <1>5, <1>6 DEF SwitchInv

LEMMA QuietSteps ==
    ASSUME OwnerInv,
           \/ \E t \in Tuples, p \in BOOLEAN : Z!AddSignal(t, p)
           \/ Z!AddTotal \/ Z!AddSuccess \/ Z!CollectMetrics \/ Z!EndCollection
           \/ \E t \in Tuples : Z!ReadCounts(t)
           \/ UNCHANGED zVars
    PROVE  Quiet
<1>a. MetricsOk /\ AddingOk
  BY DEF OwnerInv
<1>b. \A t \in Tuples : current[t] # 0 => current[t] \in 1 .. Len(metrics)
  BY <1>a DEF MetricsOk, OfTuple
<1>1. ASSUME UNCHANGED <<query, closed, forgotten, wrong, current>>,
             \A m \in 1 .. Len(metrics) : metrics'[m].status = metrics[m].status
      PROVE  Quiet
  BY <1>1, <1>b DEF Quiet, ClosingNow
<1>2. CASE Z!CollectMetrics \/ Z!EndCollection \/ (\E t \in Tuples : Z!ReadCounts(t)) \/ UNCHANGED zVars
  BY <1>1, <1>2 DEF Z!CollectMetrics, Z!EndCollection, Z!ReadCounts, zVars
<1>c. adding.pc # "idle" => /\ adding.metric \in 1 .. Len(metrics)
                            /\ metrics[adding.metric] \in Metric
  BY <1>a DEF AddingOk, OfTuple, MetricsOk
<1>d. \A m \in 1 .. Len(metrics) : metrics[m] \in Metric
  BY <1>a DEF MetricsOk
<1>3. CASE Z!AddTotal
  <2> DEFINE m == adding.metric
             x == [metrics[m] EXCEPT !.total = @ + 1]
  <2>1. m \in 1 .. Len(metrics) /\ x.status = metrics[m].status /\ x \in Metric
    BY <1>3, <1>c DEF Z!AddTotal, Metric
  <2>2. metrics' = [metrics EXCEPT ![m] = x] /\ UNCHANGED <<query, closed, forgotten, wrong, current>>
    BY <1>3 DEF Z!AddTotal
  <2> HIDE DEF m, x
  <2>3. \A k \in 1 .. Len(metrics) : metrics'[k].status = metrics[k].status
    BY <1>a, <2>1, <2>2 DEF MetricsOk
  <2> QED
    BY <1>1, <2>2, <2>3
<1>4. CASE Z!AddSuccess
  <2> DEFINE m == adding.metric
             x == [metrics[m] EXCEPT !.success = @ + 1]
  <2>1. m \in 1 .. Len(metrics) /\ x.status = metrics[m].status /\ x \in Metric
    BY <1>4, <1>c DEF Z!AddSuccess, Metric
  <2>2. metrics' = [metrics EXCEPT ![m] = x] /\ UNCHANGED <<query, closed, forgotten, wrong, current>>
    BY <1>4 DEF Z!AddSuccess
  <2> HIDE DEF m, x
  <2>3. \A k \in 1 .. Len(metrics) : metrics'[k].status = metrics[k].status
    BY <1>a, <2>1, <2>2 DEF MetricsOk
  <2> QED
    BY <1>1, <2>2, <2>3
<1>5. ASSUME NEW t \in Tuples, NEW p \in BOOLEAN, Z!AddSignal(t, p) PROVE Quiet
  <2>1. UNCHANGED <<query, closed, forgotten, wrong>>
    BY <1>5 DEF Z!AddSignal
  <2>2. CASE UNCHANGED <<metrics, current>>
    BY <1>1, <2>1, <2>2
  <2>3. CASE current[t] = 0
    <3>1. metrics' = Append(metrics, Z!NewMetric) /\ current' = [current EXCEPT ![t] = Len(metrics')]
      BY <1>5, <2>3 DEF Z!AddSignal
    <3>2. Z!NewMetric \in Metric /\ Z!NewMetric.status = "Init"
      BY DEF Z!NewMetric, Metric
    <3>3. /\ Len(metrics') = Len(metrics) + 1 /\ metrics'[Len(metrics) + 1] = Z!NewMetric
          /\ \A m \in 1 .. Len(metrics) : metrics'[m] = metrics[m]
      BY <1>a, <3>1, <3>2 DEF MetricsOk
    <3>4. current'[t] = Len(metrics) + 1 /\ \A u \in Tuples \ {t} : current'[u] = current[u]
      BY <1>a, <3>1, <3>3 DEF MetricsOk
    <3>5. ~ClosingNow(t) /\ ~ClosingNow(t)'
      BY <2>3, <3>2, <3>3, <3>4 DEF ClosingNow
    <3>6. \A u \in Tuples \ {t} : (ClosingNow(u)' <=> ClosingNow(u))
      BY <1>b, <3>3, <3>4 DEF ClosingNow
    <3>7. \A u \in Tuples : (ClosingNow(u)' <=> ClosingNow(u))
      BY <3>5, <3>6
    <3>8. \A u \in Tuples : ClosingNow(u) => current'[u] = current[u]
      BY <3>4, <3>5
    <3>9. \A m \in 1 .. Len(metrics) : metrics'[m].status = metrics[m].status
      BY <3>3
    <3> QED
      BY <2>1, <3>7, <3>8, <3>9 DEF Quiet
  <2> QED
    BY <1>5, <2>2, <2>3 DEF Z!AddSignal
<1> QED
  BY <1>2, <1>3, <1>4, <1>5

LEMMA SwitchStep == OwnerInv /\ SwitchInv /\ Z!Next => SwitchInv'
<1> SUFFICES ASSUME OwnerInv, SwitchInv, Z!Next PROVE SwitchInv'
  OBVIOUS
<1>a. MetricsOk /\ QueryOk
  BY DEF OwnerInv
<1>b. Announced /\ CheckedAnnounced /\ AnswerOk /\ ClosedOk /\ ~wrong
  BY DEF SwitchInv
<1>c. \A url : Z!Closing(url) <=> \E t \in Tuples : PidUrl[t] = url /\ ClosingNow(t)
  BY DEF Z!Closing, ClosingNow
<1>d. \A url : Z!Closing(url)' <=> \E t \in Tuples : PidUrl[t] = url /\ ClosingNow(t)'
  BY DEF Z!Closing, ClosingNow
<1>1. CASE \/ \E t \in Tuples, p \in BOOLEAN : Z!AddSignal(t, p)
           \/ Z!AddTotal \/ Z!AddSuccess \/ Z!CollectMetrics \/ Z!EndCollection
           \/ \E t \in Tuples : Z!ReadCounts(t)
  BY <1>1, QuietSteps, QuietStep
<1>2. CASE Z!QuerySilentSwitches
  <2>1. /\ query.pc = "idle" /\ query'.pc = "range" /\ query'.todo = {t \in Tuples : current[t] # 0}
        /\ query'.close = {} /\ query'.recover = {} /\ query'.silent = {}
        /\ UNCHANGED <<metrics, current, closed, forgotten, wrong>>
    BY <1>2 DEF Z!QuerySilentSwitches
  <2>2. \A t \in Tuples : (ClosingNow(t)' <=> ClosingNow(t)) /\ (ClosingNow(t) => ~Seen(t) /\ ~Seen(t)')
    BY <2>1 DEF ClosingNow, Seen
  <2>3. Announced' /\ CheckedAnnounced' /\ AnswerOk'
    BY <1>b, <2>1, <2>2 DEF Announced, CheckedAnnounced, AnswerOk
  <2>4. ClosedOk'
    BY <1>b, <1>c, <1>d, <2>1, <2>2 DEF ClosedOk
  <2> QED
    BY <1>b, <2>1, <2>3, <2>4 DEF SwitchInv
<1>3. ASSUME NEW t \in Tuples, Z!Visit(t) PROVE SwitchInv'
  <2>1. /\ query.pc = "range" /\ t \in query.todo /\ UNCHANGED <<metrics, current, closed, forgotten, wrong>>
        /\ query' = [query EXCEPT !.todo = @ \ {t}, !.pc = IF current[t] = 0 THEN "range" ELSE "check",
                                  !.tuple = t, !.metric = current[t]]
    BY <1>3 DEF Z!Visit
  <2>2. query \in Query
    BY <1>a, <2>1 DEF QueryOk
  <2>3. /\ query'.pc = (IF current[t] = 0 THEN "range" ELSE "check") /\ query'.todo = query.todo \ {t}
        /\ query'.tuple = t /\ query'.metric = current[t] /\ query'.close = query.close
        /\ query'.recover = query.recover /\ query'.silent = query.silent
    BY <2>1, <2>2 DEF Query
  <2>4. \A u \in Tuples : (ClosingNow(u)' <=> ClosingNow(u)) /\ (ClosingNow(u) => (Seen(u)' <=> Seen(u)))
    BY <2>1, <2>3 DEF ClosingNow, Seen
  <2>5. Announced'
    BY <1>b, <2>1, <2>3, <2>4 DEF Announced
  <2>6. CheckedAnnounced'
    <3>1. current[t] # 0 /\ metrics[current[t]].status = "Closing" => PidUrl[t] \in closed
      BY <1>b, <2>1 DEF Announced, ClosingNow, Seen
    <3> QED
      BY <2>1, <2>3, <3>1 DEF CheckedAnnounced
  <2>7. AnswerOk'
    BY <1>b, <2>1, <2>3, <2>4 DEF AnswerOk
  <2>8. ClosedOk'
    BY <1>b, <1>c, <1>d, <2>1, <2>3, <2>4 DEF ClosedOk
  <2> QED
    BY <1>b, <2>1, <2>5, <2>6, <2>7, <2>8 DEF SwitchInv
<1>4. CASE Z!CheckStatus
  <2>0. query.pc = "check" /\ query \in Query /\ query.tuple \in Tuples \ query.todo
        /\ query.metric \in 1 .. Len(metrics) /\ \A u \in Tuples \ {query.tuple} : current[u] # query.metric
    BY <1>4, <1>a DEF Z!CheckStatus, QueryOk, OfTuple
  <2>t. PICK t \in Tuples, m \in Nat : t = query.tuple /\ m = query.metric
    BY <2>0
  <2> DEFINE url == PidUrl[t]
             old == metrics[m].status
             next == Z!Status(metrics[m])
             x == [metrics[m] EXCEPT !.status = next]
  <2>1. /\ query.pc = "check" /\ query \in Query /\ t \in Tuples \ query.todo
        /\ m \in 1 .. Len(metrics) /\ \A u \in Tuples \ {t} : current[u] # m
    BY <2>0, <2>t
  <2>2. /\ metrics' = [metrics EXCEPT ![m] = x] /\ UNCHANGED <<current, closed, wrong>>
        /\ forgotten' = forgotten \cup Z!If(next = "Closing" /\ current[t] # m, url)
        /\ query' = [query EXCEPT !.pc = "range",
                       !.close = @ \cup Z!If(old = "Init" /\ next = "Closing", url),
                       !.recover = @ \cup Z!If(old = "Closing" /\ next = "Finished", url),
                       !.silent = @ \cup Z!If(next = "Closing", url)]
    BY <1>4, <2>t DEF Z!CheckStatus
  <2>3. metrics[m] \in Metric
    BY <1>a, <2>1 DEF MetricsOk
  <2>4. /\ x \in Metric /\ x.status = next
        /\ old = "Closing" => next \in {"Closing", "Finished"}
        /\ next = "Closing" => old \in {"Init", "Closing"}
    BY <2>3 DEF Metric, Z!Status
  <2>5. /\ query'.pc = "range" /\ query'.todo = query.todo /\ query'.tuple = t /\ query'.metric = m
        /\ query'.close = query.close \cup Z!If(old = "Init" /\ next = "Closing", url)
        /\ query'.recover = query.recover \cup Z!If(old = "Closing" /\ next = "Finished", url)
        /\ query'.silent = query.silent \cup Z!If(next = "Closing", url)
    <3> HIDE DEF next, old
    <3> QED
      BY <2>t, <2>1, <2>2 DEF Query
  <2> HIDE DEF x, next
  <2>6. /\ metrics'[m].status = next
        /\ \A k \in 1 .. Len(metrics) : k # m => metrics'[k] = metrics[k]
    BY <1>a, <2>1, <2>2, <2>4 DEF MetricsOk
  <2>7. \A u \in Tuples : current[u] # m =>
          (ClosingNow(u)' <=> ClosingNow(u)) /\ (ClosingNow(u) => (Seen(u)' <=> Seen(u)))
    <3>1. \A u \in Tuples : current[u] # 0 => current[u] \in 1 .. Len(metrics)
      BY <1>a DEF MetricsOk, OfTuple
    <3> QED
      BY <2>t, <2>1, <2>2, <2>5, <2>6, <3>1 DEF ClosingNow, Seen
  <2>8. current[t] = m => /\ Seen(t)' /\ ~Seen(t) /\ (ClosingNow(t)' <=> next = "Closing")
                          /\ (ClosingNow(t) <=> old = "Closing")
    BY <2>t, <2>1, <2>2, <2>5, <2>6 DEF Seen, ClosingNow
  <2>9. \A u \in Tuples : current[u] = m => u = t
    BY <2>1
  <2>10. old = "Closing" => url \in closed
    BY <1>b, <2>t, <2>1 DEF CheckedAnnounced
  <2> HIDE DEF old
  <2>11. Announced'
    <3> SUFFICES ASSUME NEW u \in Tuples, ClosingNow(u)'
                 PROVE  /\ Seen(u)' => PidUrl[u] \in query'.silent /\ PidUrl[u] \in closed \cup query'.close
                        /\ ~Seen(u)' => PidUrl[u] \in closed
      BY <2>2 DEF Announced
    <3>1. CASE current[u] # m
      BY <1>b, <2>5, <2>7, <3>1 DEF Announced
    <3>2. CASE current[u] = m
      <4>1. u = t /\ next = "Closing" /\ Seen(t)'
        BY <2>8, <2>9, <3>2
      <4>2. url \in query'.silent
        BY <2>5, <4>1 DEF Z!If
      <4>3. url \in closed \cup query'.close
        BY <2>4, <2>5, <2>10, <4>1 DEF Z!If, old
      <4> QED
        BY <4>1, <4>2, <4>3
    <3> QED
      BY <3>1, <3>2
  <2>12. CheckedAnnounced'
    BY <2>5 DEF CheckedAnnounced
  <2>13. AnswerOk'
    <3>1. query'.close \subseteq query'.silent
      BY <1>b, <2>1, <2>5 DEF AnswerOk, Z!If
    <3>2. query'.recover \subseteq closed
      BY <1>b, <2>1, <2>5, <2>10 DEF AnswerOk, Z!If
    <3>3. ASSUME NEW w \in query'.silent, w \notin forgotten'
          PROVE  \E u \in Tuples : PidUrl[u] = w /\ ClosingNow(u)' /\ Seen(u)'
      <4>1. CASE w \in query.silent
        <5>1. PICK u \in Tuples : PidUrl[u] = w /\ ClosingNow(u) /\ Seen(u)
          BY <1>b, <2>1, <2>2, <3>3, <4>1 DEF AnswerOk
        <5>2. current[u] # m
          BY <2>8, <2>9, <5>1
        <5> QED
          BY <2>7, <5>1, <5>2
      <4>2. CASE w = url /\ next = "Closing"
        <5>1. current[t] = m
          <6>1. current[t] # m => url \in forgotten'
            BY <2>2, <4>2 DEF Z!If
          <6> QED
            BY <3>3, <4>2, <6>1
        <5>2. ClosingNow(t)' /\ Seen(t)'
          BY <2>8, <4>2, <5>1
        <5> QED
          BY <2>1, <4>2, <5>2
      <4> QED
        BY <2>5, <3>3, <4>1, <4>2 DEF Z!If
    <3> QED
      BY <2>2, <3>1, <3>2, <3>3 DEF AnswerOk
  <2>14. ClosedOk'
    <3> SUFFICES ASSUME NEW w \in closed, w \notin forgotten', w \notin query'.recover
                 PROVE  \E u \in Tuples : PidUrl[u] = w /\ ClosingNow(u)'
      BY <1>d, <2>2, <2>5 DEF ClosedOk
    <3>1. w \notin forgotten /\ w \notin query.recover
      BY <2>2, <2>5
    <3>2. PICK u \in Tuples : PidUrl[u] = w /\ ClosingNow(u)
      BY <1>b, <1>c, <3>1 DEF ClosedOk
    <3>3. CASE current[u] # m
      BY <2>7, <3>2, <3>3
    <3>4. CASE current[u] = m
      <4>1. u = t /\ old = "Closing"
        BY <2>8, <2>9, <3>2, <3>4
      <4>2. next # "Finished"
        BY <2>5, <3>2, <4>1 DEF Z!If
      <4> QED
        BY <2>4, <2>8, <3>2, <3>4, <4>1, <4>2 DEF old
    <3> QED
      BY <3>3, <3>4
  <2> QED
    BY <1>b, <2>2, <2>11, <2>12, <2>13, <2>14 DEF SwitchInv
<1>5. CASE Z!AnswerSwitches
  <2>1. /\ query.pc = "range" /\ query.todo = {} /\ query'.pc = "idle"
        /\ closed' = (closed \cup query.close) \ (query.recover \ query.silent)
        /\ wrong' = (wrong \/ (query.recover \ query.silent) \cap query.silent # {}
                           \/ ~(query.recover \ query.silent \subseteq closed))
        /\ UNCHANGED <<metrics, current, forgotten>>
    BY <1>5 DEF Z!AnswerSwitches, Z!Recover, Z!Idle
  <2>2. \A t \in Tuples : (ClosingNow(t)' <=> ClosingNow(t)) /\ Seen(t) /\ ~Seen(t)'
    BY <2>1 DEF ClosingNow, Seen
  <2>3. /\ query.close \subseteq query.silent /\ query.recover \subseteq closed
        /\ \A url \in query.silent :
             url \in forgotten \/ \E t \in Tuples : PidUrl[t] = url /\ ClosingNow(t)
    BY <1>b, <2>1 DEF AnswerOk
  <2>4. Announced'
    BY <1>b, <2>1, <2>2 DEF Announced
  <2>5. CheckedAnnounced' /\ AnswerOk'
    BY <2>1 DEF CheckedAnnounced, AnswerOk
  <2>6. ~wrong'
    BY <1>b, <2>1, <2>3
  <2>7. ClosedOk'
    <3> SUFFICES ASSUME NEW w \in closed', w \notin forgotten
                 PROVE  \E u \in Tuples : PidUrl[u] = w /\ ClosingNow(u)
      BY <1>d, <2>1, <2>2 DEF ClosedOk
    <3>1. CASE w \in query.silent
      BY <2>3, <3>1
    <3>2. CASE w \notin query.silent
      <4>1. w \in closed /\ w \notin query.recover
        BY <2>1, <2>3, <3>2
      <4> QED
        BY <1>b, <1>c, <4>1 DEF ClosedOk
    <3> QED
      BY <3>1, <3>2
  <2> QED
    BY <2>4, <2>5, <2>6, <2>7 DEF SwitchInv
<1>6. CASE Z!DeleteMetric
  <2>0. collect.tuple \in Tuples /\ current[collect.tuple] # 0
    BY <1>6 DEF OwnerInv, CollectOk, Z!DeleteMetric
  <2>t. PICK t \in Tuples : t = collect.tuple
    BY <2>0
  <2>1. /\ t \in Tuples /\ current[t] # 0 /\ current' = [current EXCEPT ![t] = 0]
        /\ forgotten' = forgotten \cup Z!If(metrics[current[t]].status = "Closing", PidUrl[t])
        /\ UNCHANGED <<metrics, query, closed, wrong>>
    BY <1>6, <2>0, <2>t DEF Z!DeleteMetric, Z!Deleted
  <2>2. current'[t] = 0 /\ \A u \in Tuples \ {t} : current'[u] = current[u]
    BY <1>a, <2>1 DEF MetricsOk
  <2>3a. (current[t] # 0)' = FALSE
    BY <2>2
  <2>3b. ~ClosingNow(t)'
    BY <2>3a DEF ClosingNow
  <2>3c. ClosingNow(t) => PidUrl[t] \in forgotten'
    BY <2>1 DEF ClosingNow, Z!If
  <2>3d. \A u \in Tuples \ {t} : (ClosingNow(u)' <=> ClosingNow(u)) /\ (Seen(u)' <=> Seen(u))
    BY <2>1, <2>2 DEF ClosingNow, Seen
  <2>3. /\ (ClosingNow(t) => PidUrl[t] \in forgotten')
        /\ \A u \in Tuples : ClosingNow(u)' => ClosingNow(u) /\ (Seen(u)' <=> Seen(u))
        /\ \A u \in Tuples : ClosingNow(u) => u = t \/ (ClosingNow(u)' /\ (Seen(u)' <=> Seen(u)))
    BY <2>3b, <2>3c, <2>3d
  <2>4a. Announced'
    BY <1>b, <2>1, <2>3 DEF Announced
  <2>4b. CheckedAnnounced'
    BY <1>b, <2>1 DEF CheckedAnnounced
  <2>4. Announced' /\ CheckedAnnounced'
    BY <2>4a, <2>4b
  <2>5. AnswerOk'
    <3>1. forgotten \subseteq forgotten'
      BY <2>1
    <3>2. ASSUME query.pc # "idle", NEW w \in query.silent, w \notin forgotten'
          PROVE  \E u \in Tuples : PidUrl[u] = w /\ ClosingNow(u)' /\ Seen(u)'
      BY <1>b, <2>3, <3>1, <3>2 DEF AnswerOk
    <3> QED
      BY <1>b, <2>1, <3>2 DEF AnswerOk
  <2>6. ClosedOk'
    <3> SUFFICES ASSUME NEW w \in closed, w \notin forgotten', ~(query.pc # "idle" /\ w \in query.recover)
                 PROVE  \E u \in Tuples : PidUrl[u] = w /\ ClosingNow(u)'
      BY <1>d, <2>1 DEF ClosedOk
    <3>1. PICK u \in Tuples : PidUrl[u] = w /\ ClosingNow(u)
      BY <1>b, <1>c, <2>1 DEF ClosedOk
    <3> QED
      BY <2>3, <3>1
  <2> QED
    BY <1>b, <2>1, <2>4, <2>5, <2>6 DEF SwitchInv
<1> QED
  BY <1>1, <1>2, <1>3, <1>4, <1>5, <1>6 DEF Z!Next

\* However the workers' additions, the node's reports and the minute's collections
\* interleave, an agent is never told to resume an url it was not told to stop, or
\* one that is silent, and a stopped url has a tuple that will tell when to resume.
THEOREM SwitchesPairedTheorem == Spec => []SwitchesPaired
<1> DEFINE Inv == OwnerInv /\ SwitchInv
<1>1. Init => Inv
  <2>1. Z!Init => SwitchInv
    BY DEF Z!Init, Z!Idle, SwitchInv, Announced, CheckedAnnounced, AnswerOk, ClosedOk, ClosingNow
  <2> QED
    BY <2>1, OwnerInit DEF Init
<1>2. Inv /\ [Next]_vars => Inv'
  <2>1. UNCHANGED zVars => (OwnerInv => OwnerInv')
    BY DEF zVars, OwnerInv, MetricsOk, AddingOk, QueryOk, CollectOk, OfTuple
  <2> QED
    BY <2>1, OwnerStep, SwitchStep, QuietSteps, QuietStep, StepOfEach
<1>3. Inv => SwitchesPaired
  BY DEF SwitchInv, ClosedOk, SwitchesPaired, Z!SwitchesPaired
<1> HIDE DEF Inv
<1> QED
  BY <1>1, <1>2, <1>3, PTL DEF Spec

-----------------------------------------------------------------------------
(* Signals                                                                 *)

Kept(n) == \E i \in 1 .. Len(signals) : signals[i] = n
Read(n) == \E i \in 1 .. Len(taking.result) : taking.result[i] = n

CountsOk == /\ arrived \in Nat /\ arrived <= MaxSignals /\ given \in [1 .. MaxSignals -> Nat]
            /\ \A n \in 1 .. MaxSignals : n > arrived => given[n] = 0
ListOk == /\ signals \in Seq(Nat) /\ \A i \in 1 .. Len(signals) : signals[i] \in 1 .. arrived
          /\ \A i, j \in 1 .. Len(signals) : signals[i] = signals[j] => i = j
TakingOk ==
  /\ taking \in [pc : {"idle", "range", "trim"}, size : Nat, result : Seq(Nat), intact : BOOLEAN]
  /\ \A i \in 1 .. Len(taking.result) : taking.result[i] \in 1 .. arrived
  /\ taking.pc # "trim" => taking.result = <<>>
  /\ local => taking.pc = "idle"
SignalsType == CountsOk /\ ListOk /\ TakingOk

\* No signal is lost, or given again, whether it is kept or has been read.
SignalsAccounted ==
  \A n \in 1 .. arrived : /\ Kept(n) \/ Read(n) \/ n \in dropped \/ given[n] > 0
                          /\ given[n] > 1 => n \in again
                          /\ (Kept(n) \/ Read(n)) /\ given[n] > 0 => n \in again

\* What will be trimmed was read; what was read will be trimmed.
Trimmable ==
  /\ taking.pc = "range" /\ taking.intact => taking.size <= Len(signals)
  /\ taking.pc = "trim" /\ taking.intact =>
       /\ taking.size <= Len(signals)
       /\ \A n \in Nat : (\E i \in 1 .. taking.size : signals[i] = n) => Read(n) \/ n \in dropped
  /\ taking.pc = "trim" =>
       \A i \in 1 .. Len(taking.result), n \in Nat : taking.result[i] = n =>
         IF i > taking.size THEN n \in again
         ELSE (i <= Len(signals) /\ signals[i] = n) \/ ~Kept(n)

SignalsInv == SignalsType /\ SignalsAccounted /\ Trimmable

\* Every worker under way will add a signal, in memory.
WorkersOk ==
  /\ workers \in [listed : BOOLEAN, none : Nat, current : Nat, replaced : Nat]
  /\ arrived + workers.none + workers.current + workers.replaced <= MaxSignals
  /\ ~local => workers.none = 0 /\ workers.current = 0 /\ workers.replaced = 0

LEMMA SignalsRange ==
    ASSUME NEW s \in Seq(Nat), NEW n
    PROVE  n \in G!Range(s) <=> \E i \in 1 .. Len(s) : s[i] = n
<1>1. DOMAIN s = 1 .. Len(s)
  OBVIOUS
<1> QED
  BY <1>1 DEF G!Range

\* UpTo(s, k): LRANGE; SubSeq(s, k + 1, Len(s)): LTRIM.
LEMMA FrontAndRest ==
    ASSUME NEW s \in Seq(Nat), NEW k \in Nat
    PROVE  /\ G!UpTo(s, k) \in Seq(Nat)
           /\ Len(G!UpTo(s, k)) = IF k < Len(s) THEN k ELSE Len(s)
           /\ \A i \in 1 .. Len(G!UpTo(s, k)) : G!UpTo(s, k)[i] = s[i]
           /\ G!Trimmed(s, k) \in Seq(Nat)
           /\ Len(G!Trimmed(s, k)) = IF k < Len(s) THEN Len(s) - k ELSE 0
           /\ \A i \in 1 .. Len(G!Trimmed(s, k)) : G!Trimmed(s, k)[i] = s[i + k]
<1> DEFINE m == IF k < Len(s) THEN k ELSE Len(s)
<1>1. m \in Nat /\ m <= Len(s) /\ Len(s) \in Nat
  OBVIOUS
<1>2. \A i \in 1 .. m : s[i] \in Nat
  BY <1>1
<1>3. G!UpTo(s, k) = SubSeq(s, 1, m)
  BY DEF G!UpTo
<1>4. /\ SubSeq(s, 1, m) \in Seq(Nat) /\ Len(SubSeq(s, 1, m)) = m
      /\ \A i \in 1 .. m : SubSeq(s, 1, m)[i] = s[i]
  <2> HIDE DEF m
  <2>1. /\ SubSeq(s, 1, m) \in Seq(Nat)
        /\ Len(SubSeq(s, 1, m)) = IF 1 <= m THEN m - 1 + 1 ELSE 0
        /\ \A i \in 1 .. m - 1 + 1 : SubSeq(s, 1, m)[i] = s[1 + i - 1]
    BY <1>1, SubSeqProperties
  <2> QED
    BY <1>1, <2>1
<1>5. /\ G!Trimmed(s, k) \in Seq(Nat)
      /\ Len(G!Trimmed(s, k)) = IF k + 1 <= Len(s) THEN Len(s) - (k + 1) + 1 ELSE 0
      /\ \A i \in 1 .. Len(s) - (k + 1) + 1 : G!Trimmed(s, k)[i] = s[k + 1 + i - 1]
  BY <1>1, SubSeqProperties DEF G!Trimmed
<1> QED
  BY <1>1, <1>3, <1>4, <1>5

\* What was given is counted, up to two.
LEMMA CountedFacts ==
    ASSUME NEW s \in Seq(Nat), CountsOk, given' = G!Counted(s)
    PROVE  /\ given' \in [1 .. MaxSignals -> Nat]
           /\ \A n \in 1 .. MaxSignals :
                IF \E i \in 1 .. Len(s) : s[i] = n
                THEN given'[n] > 0 /\ (given'[n] > 1 => given[n] > 0)
                ELSE given'[n] = given[n]
<1>1. \A n : n \in G!Range(s) <=> \E i \in 1 .. Len(s) : s[i] = n
  BY SignalsRange
<1>2. \A n \in 1 .. MaxSignals : given[n] \in Nat
  BY DEF CountsOk
<1>3. given' = [n \in 1 .. MaxSignals |->
                  IF n \in G!Range(s) /\ given[n] < 2 THEN given[n] + 1 ELSE given[n]]
  BY DEF G!Counted
<1>4. ASSUME NEW n \in 1 .. MaxSignals
      PROVE  /\ given'[n] \in Nat
             /\ n \in G!Range(s) => given'[n] > 0 /\ (given'[n] > 1 => given[n] > 0)
             /\ n \notin G!Range(s) => given'[n] = given[n]
  <2>1. given'[n] = IF n \in G!Range(s) /\ given[n] < 2 THEN given[n] + 1 ELSE given[n]
    BY <1>3
  <2> QED
    BY <1>2, <2>1
<1>5. given' \in [1 .. MaxSignals -> Nat]
  BY <1>3, <1>4
<1> QED
  BY <1>1, <1>4, <1>5

LEMMA SignalsStart ==
    ASSUME MaxSignals \in Nat, G!Init PROVE SignalsInv /\ WorkersOk
<1>1. /\ signals = <<>> /\ taking = G!Idle /\ arrived = 0 /\ again = {}
      /\ given = [n \in 1 .. MaxSignals |-> 0]
  BY DEF G!Init
<1>2. taking.result = <<>> /\ taking.pc = "idle"
  BY <1>1 DEF G!Idle
<1>3. SignalsType
  BY <1>1, <1>2 DEF SignalsType, CountsOk, ListOk, TakingOk, G!Idle
<1>4. WorkersOk
  <2>1. workers = [listed |-> FALSE, none |-> 0, current |-> 0, replaced |-> 0]
    BY DEF G!Init
  <2> QED
    BY <1>1, <2>1 DEF WorkersOk
<1> QED
  BY <1>1, <1>2, <1>3, <1>4 DEF SignalsInv, SignalsAccounted, Trimmable

LEMMA WorkersStep ==
    ASSUME MaxSignals \in Nat, arrived \in Nat, WorkersOk, G!Next PROVE WorkersOk'
<1>a. /\ workers \in [listed : BOOLEAN, none : Nat, current : Nat, replaced : Nat]
      /\ arrived + workers.none + workers.current + workers.replaced <= MaxSignals
      /\ ~local => workers.none = 0 /\ workers.current = 0 /\ workers.replaced = 0
  BY DEF WorkersOk
<1>1. ASSUME G!StoreSignal PROVE WorkersOk'
  <2>1. ~local /\ arrived < MaxSignals /\ arrived' = arrived + 1 /\ UNCHANGED <<local, workers>>
    BY <1>1 DEF G!StoreSignal
  <2> QED
    BY <1>a, <2>1 DEF WorkersOk
<1>2. ASSUME G!Load PROVE WorkersOk'
  <2>1. /\ local /\ arrived + workers.none + workers.current + workers.replaced < MaxSignals
        /\ UNCHANGED <<local, arrived>>
        /\ workers' = IF workers.listed THEN [workers EXCEPT !.current = @ + 1]
                      ELSE [workers EXCEPT !.none = @ + 1]
    BY <1>2 DEF G!Load
  <2>2. /\ workers' \in [listed : BOOLEAN, none : Nat, current : Nat, replaced : Nat]
        /\ \/ workers'.current = workers.current + 1 /\ workers'.none = workers.none
           \/ workers'.current = workers.current /\ workers'.none = workers.none + 1
        /\ workers'.replaced = workers.replaced
    BY <1>a, <2>1
  <2> QED
    BY <1>a, <2>1, <2>2 DEF WorkersOk
<1>3. ASSUME G!StoreList PROVE WorkersOk'
  <2>1. /\ workers.none > 0 /\ UNCHANGED <<local, arrived>>
        /\ workers' = [listed |-> TRUE, none |-> workers.none - 1, current |-> 1,
                       replaced |-> workers.replaced + workers.current]
    BY <1>3 DEF G!StoreList
  <2>2. /\ workers' \in [listed : BOOLEAN, none : Nat, current : Nat, replaced : Nat]
        /\ workers'.none = workers.none - 1 /\ workers'.current = 1
        /\ workers'.replaced = workers.replaced + workers.current
    BY <1>a, <2>1
  <2> QED
    BY <1>a, <2>1, <2>2 DEF WorkersOk
<1>4. ASSUME G!AddSignal PROVE WorkersOk'
  <2>1. /\ arrived' = arrived + 1 /\ local' = local
        /\ \/ workers.current > 0 /\ workers' = [workers EXCEPT !.current = @ - 1]
           \/ workers.replaced > 0 /\ workers' = [workers EXCEPT !.replaced = @ - 1]
    BY <1>4 DEF G!AddSignal
  <2>2. /\ workers' \in [listed : BOOLEAN, none : Nat, current : Nat, replaced : Nat]
        /\ workers'.none = workers.none
        /\ \/ workers'.current = workers.current - 1 /\ workers'.replaced = workers.replaced
           \/ workers'.current = workers.current /\ workers'.replaced = workers.replaced - 1
    BY <1>a, <2>1
  <2>3. local
    BY <1>a, <2>1
  <2> QED
    BY <1>a, <2>1, <2>2, <2>3 DEF WorkersOk
<1>5. ASSUME G!KeyExpires \/ G!TakeLocked \/ G!GetListSize \/ G!GetList \/ G!LTrim PROVE WorkersOk'
  <2>1. UNCHANGED <<local, workers, arrived>>
    BY <1>5 DEF G!KeyExpires, G!TakeLocked, G!GetListSize, G!GetList, G!LTrim
  <2> QED
    BY <2>1 DEF WorkersOk
<1> QED
  BY <1>1, <1>2, <1>3, <1>4, <1>5 DEF G!Next

LEMMA SignalsStep ==
    ASSUME MaxSignals \in Nat, SignalsInv, WorkersOk, G!Next PROVE SignalsInv'
<1>a. SignalsAccounted /\ Trimmable /\ CountsOk /\ ListOk /\ TakingOk
  BY DEF SignalsInv, SignalsType
<1>b. /\ signals \in Seq(Nat) /\ Len(signals) \in Nat /\ taking.result \in Seq(Nat)
      /\ Len(taking.result) \in Nat /\ taking.size \in Nat
      /\ taking.pc \in {"idle", "range", "trim"} /\ taking.intact \in BOOLEAN
  BY <1>a DEF ListOk, TakingOk
<1>c. arrived \in Nat /\ arrived <= MaxSignals
  BY <1>a DEF CountsOk
<1>d. \A i \in 1 .. Len(signals) : signals[i] \in 1 .. arrived
  BY <1>a DEF ListOk
<1>e. \A i, j \in 1 .. Len(signals) : signals[i] = signals[j] => i = j
  BY <1>a DEF ListOk
<1>f. \A i \in 1 .. Len(taking.result) : taking.result[i] \in 1 .. arrived
  BY <1>a DEF TakingOk
<1>g. taking.pc # "trim" => taking.result = <<>>
  BY <1>a DEF TakingOk
<1>h. local => taking.pc = "idle"
  BY <1>a DEF TakingOk
<1>i. taking = [pc |-> taking.pc, size |-> taking.size, result |-> taking.result, intact |-> taking.intact]
  BY <1>a DEF TakingOk
<1>1. ASSUME G!StoreSignal \/ G!AddSignal PROVE SignalsInv'
  <2>1. /\ arrived < MaxSignals /\ arrived' = arrived + 1 /\ UNCHANGED <<local, taking, again, given>>
        /\ \/ signals' = Append(signals, arrived') /\ UNCHANGED dropped
           \/ dropped' = dropped \cup {arrived'} /\ UNCHANGED signals
    <3>1. CASE G!StoreSignal
      BY <3>1 DEF G!StoreSignal
    <3>2. CASE G!AddSignal
      <4>1. workers.current > 0 \/ workers.replaced > 0
        BY <3>2 DEF G!AddSignal
      <4>2. arrived < MaxSignals
        BY <1>c, <4>1 DEF WorkersOk
      <4> QED
        BY <3>2, <4>2 DEF G!AddSignal
    <3> QED
      BY <1>1, <3>1, <3>2
  <2>2. /\ arrived' \in Nat /\ ~Kept(arrived') /\ ~Read(arrived')
        /\ \A n \in 1 .. arrived' : n \in 1 .. arrived \/ n = arrived'
    BY <1>c, <1>d, <1>f, <2>1 DEF Kept, Read
  <2>3. given[arrived'] = 0
    BY <1>a, <1>c, <2>1 DEF CountsOk
  <2>c. CountsOk' /\ TakingOk'
    <3>1. CountsOk'
      BY <1>a, <1>c, <2>1 DEF CountsOk
    <3>2. \A n \in 1 .. arrived : n \in 1 .. arrived'
      BY <1>c, <2>1
    <3>3. TakingOk'
      BY <1>a, <2>1, <3>2 DEF TakingOk
    <3> QED
      BY <3>1, <3>3
  <2>4. \A n : Read(n)' <=> Read(n)
    BY <2>1 DEF Read
  <2>5. CASE dropped' = dropped \cup {arrived'} /\ UNCHANGED signals
    <3>0. \A i \in 1 .. Len(signals) : signals[i] \in 1 .. arrived'
      BY <1>c, <1>d, <2>1
    <3>1. SignalsType'
      BY <1>a, <2>c, <2>5, <3>0 DEF ListOk, SignalsType
    <3>2. \A n : Kept(n)' <=> Kept(n)
      BY <2>5 DEF Kept
    <3>3. ASSUME NEW n \in 1 .. arrived'
          PROVE  /\ Kept(n) \/ Read(n) \/ n \in dropped' \/ given[n] > 0
                 /\ given[n] > 1 => n \in again
                 /\ (Kept(n) \/ Read(n)) /\ given[n] > 0 => n \in again
      <4>1. CASE n \in 1 .. arrived
        BY <1>a, <2>5, <4>1 DEF SignalsAccounted
      <4>2. CASE n = arrived'
        BY <2>2, <2>3, <2>5, <4>2
      <4> QED
        BY <2>2, <4>1, <4>2
    <3>4. SignalsAccounted'
      BY <2>1, <2>4, <3>2, <3>3 DEF SignalsAccounted
    <3>5. Trimmable'
      BY <1>a, <2>1, <2>4, <2>5, <3>2 DEF Trimmable
    <3> QED
      BY <3>1, <3>4, <3>5 DEF SignalsInv
  <2>6. CASE signals' = Append(signals, arrived') /\ UNCHANGED dropped
    <3>1. /\ signals' \in Seq(Nat) /\ Len(signals') = Len(signals) + 1
          /\ signals'[Len(signals) + 1] = arrived'
          /\ \A i \in 1 .. Len(signals) : signals'[i] = signals[i]
      BY <1>b, <2>2, <2>6
    <3>3. /\ \A i \in 1 .. Len(signals') : i \in 1 .. Len(signals) \/ i = Len(signals) + 1
          /\ \A i \in 1 .. Len(signals) : i \in 1 .. Len(signals')
          /\ Len(signals) + 1 \in 1 .. Len(signals')
      BY <1>b, <3>1
    <3>2. \A n : Kept(n)' <=> Kept(n) \/ n = arrived'
      <4>1. ASSUME NEW n, Kept(n)' PROVE Kept(n) \/ n = arrived'
        BY <3>1, <3>3, <4>1 DEF Kept
      <4>2. ASSUME NEW n, Kept(n) PROVE Kept(n)'
        BY <3>1, <3>3, <4>2 DEF Kept
      <4>4. PICK a : a = arrived'
        OBVIOUS
      <4>5. Kept(a)'
        BY <3>1, <3>3, <4>4 DEF Kept
      <4> QED
        BY <4>1, <4>2, <4>4, <4>5
    <3>4. SignalsType'
      <4>1. \A i \in 1 .. Len(signals') : signals'[i] \in 1 .. arrived'
        <5>1. \A i \in 1 .. Len(signals) : signals[i] \in 1 .. arrived'
          BY <1>c, <1>d, <2>1
        <5>2. arrived' \in 1 .. arrived'
          BY <1>c, <2>1
        <5> QED
          BY <3>1, <3>3, <5>1, <5>2
      <4>2. \A i \in 1 .. Len(signals) : signals[i] # arrived'
        BY <2>2 DEF Kept
      <4>3. \A i, j \in 1 .. Len(signals') : signals'[i] = signals'[j] => i = j
        BY <1>e, <3>1, <3>3, <4>2
      <4>4. ListOk'
        BY <3>1, <4>1, <4>3 DEF ListOk
      <4> QED
        BY <2>c, <4>4 DEF SignalsType
    <3>5. ASSUME NEW n \in 1 .. arrived'
          PROVE  /\ Kept(n)' \/ Read(n) \/ n \in dropped \/ given[n] > 0
                 /\ given[n] > 1 => n \in again
                 /\ (Kept(n)' \/ Read(n)) /\ given[n] > 0 => n \in again
      <4>1. CASE n \in 1 .. arrived /\ n # arrived'
        BY <1>a, <3>2, <4>1 DEF SignalsAccounted
      <4>2. CASE n = arrived'
        BY <2>2, <2>3, <3>2, <4>2
      <4> QED
        BY <2>2, <4>1, <4>2
    <3>6. SignalsAccounted'
      BY <2>1, <2>4, <2>6, <3>5 DEF SignalsAccounted
    <3>7. Trimmable'
      <4>1. taking.pc = "range" /\ taking.intact => taking.size <= Len(signals')
        BY <1>a, <1>b, <3>1 DEF Trimmable
      <4>2. ASSUME taking.pc = "trim", taking.intact
            PROVE  /\ taking.size <= Len(signals')
                   /\ \A n \in Nat : (\E i \in 1 .. taking.size : signals'[i] = n) => Read(n) \/ n \in dropped
        <5>1. /\ taking.size <= Len(signals)
              /\ \A n \in Nat : (\E i \in 1 .. taking.size : signals[i] = n) => Read(n) \/ n \in dropped
          BY <1>a, <4>2 DEF Trimmable
        <5>2. \A i \in 1 .. taking.size : signals'[i] = signals[i]
          BY <1>b, <3>1, <5>1
        <5>3. ASSUME NEW n \in Nat, NEW i \in 1 .. taking.size, signals'[i] = n
              PROVE  Read(n) \/ n \in dropped
          BY <5>1, <5>2, <5>3
        <5>4. taking.size <= Len(signals')
          BY <1>b, <3>1, <5>1
        <5> QED
          BY <5>3, <5>4
      <4>3. ASSUME taking.pc = "trim", NEW i \in 1 .. Len(taking.result), NEW n \in Nat, taking.result[i] = n
            PROVE  IF i > taking.size THEN n \in again
                   ELSE (i <= Len(signals') /\ signals'[i] = n) \/ ~Kept(n)'
        <5>1. n # arrived'
          BY <2>2, <4>3 DEF Read
        <5>2. IF i > taking.size THEN n \in again
              ELSE (i <= Len(signals) /\ signals[i] = n) \/ ~Kept(n)
          BY <1>a, <4>3 DEF Trimmable
        <5> QED
          BY <1>b, <3>1, <3>2, <5>1, <5>2
      <4> QED
        BY <2>1, <2>4, <2>6, <4>1, <4>2, <4>3 DEF Trimmable
    <3> QED
      BY <3>4, <3>6, <3>7 DEF SignalsInv
  <2> QED
    BY <2>1, <2>5, <2>6
<1>2. ASSUME G!StoreList PROVE SignalsInv'
  <2>1. /\ dropped' = dropped \cup G!Range(signals) /\ signals' = <<>>
        /\ UNCHANGED <<local, taking, arrived, again, given>>
    BY <1>2 DEF G!StoreList
  <2>2. taking.pc = "idle" /\ taking.result = <<>>
    <3>1. local
      BY <1>2 DEF G!StoreList, WorkersOk
    <3> QED
      BY <1>g, <1>h, <3>1
  <2>3. \A n : ~Kept(n)' /\ (Read(n)' <=> Read(n))
    BY <2>1 DEF Kept, Read
  <2>4. \A n : Kept(n) => n \in dropped'
    BY <1>b, <2>1, SignalsRange DEF Kept
  <2>5. SignalsType'
    BY <1>a, <2>1 DEF SignalsType, CountsOk, ListOk, TakingOk
  <2>6. SignalsAccounted'
    BY <1>a, <2>1, <2>3, <2>4 DEF SignalsAccounted
  <2>7. Trimmable'
    BY <2>1, <2>2 DEF Trimmable
  <2> QED
    BY <2>5, <2>6, <2>7 DEF SignalsInv
<1>8. ASSUME G!Load PROVE SignalsInv'
  <2>1. UNCHANGED <<local, signals, taking, arrived, dropped, again, given>>
    BY <1>8 DEF G!Load
  <2>2. \A n : (Kept(n)' <=> Kept(n)) /\ (Read(n)' <=> Read(n))
    BY <2>1 DEF Kept, Read
  <2>3. SignalsType'
    BY <1>a, <2>1 DEF SignalsType, CountsOk, ListOk, TakingOk
  <2>4. SignalsAccounted'
    BY <1>a, <2>1, <2>2 DEF SignalsAccounted
  <2>5. Trimmable'
    BY <1>a, <2>1, <2>2 DEF Trimmable
  <2> QED
    BY <2>3, <2>4, <2>5 DEF SignalsInv
<1>3. ASSUME G!KeyExpires PROVE SignalsInv'
  <2>1. /\ ~local /\ dropped' = dropped \cup G!Range(signals) /\ signals' = <<>>
        /\ taking' = [taking EXCEPT !.intact = FALSE] /\ UNCHANGED <<local, arrived, again, given>>
    BY <1>3 DEF G!KeyExpires
  <2>2. /\ taking'.pc = taking.pc /\ taking'.size = taking.size /\ taking'.result = taking.result
        /\ taking'.intact = FALSE
    BY <1>i, <2>1
  <2>3. \A n : ~Kept(n)' /\ (Read(n)' <=> Read(n))
    BY <2>1, <2>2 DEF Kept, Read
  <2>4. \A n : Kept(n) => n \in dropped'
    BY <1>b, <2>1, SignalsRange DEF Kept
  <2>5. SignalsType'
    <3>1. taking' \in [pc : {"idle", "range", "trim"}, size : Nat, result : Seq(Nat), intact : BOOLEAN]
      BY <1>a, <2>1 DEF TakingOk
    <3>2. TakingOk'
      BY <1>a, <2>1, <2>2, <3>1 DEF TakingOk
    <3>3. CountsOk' /\ ListOk'
      BY <1>a, <2>1 DEF CountsOk, ListOk
    <3> QED
      BY <3>2, <3>3 DEF SignalsType
  <2>6. SignalsAccounted'
    BY <1>a, <2>1, <2>3, <2>4 DEF SignalsAccounted
  <2>7. Trimmable'
    BY <1>a, <2>1, <2>2, <2>3 DEF Trimmable
  <2> QED
    BY <2>5, <2>6, <2>7 DEF SignalsInv
<1>4. ASSUME G!TakeLocked PROVE SignalsInv'
  <2>1. /\ local /\ given' = G!Counted(signals) /\ signals' = <<>>
        /\ UNCHANGED <<local, taking, arrived, dropped, again>>
    BY <1>4 DEF G!TakeLocked
  <2>2. taking.pc = "idle" /\ taking.result = <<>>
    BY <1>g, <1>h, <2>1
  <2>3. /\ given' \in [1 .. MaxSignals -> Nat]
        /\ \A n \in 1 .. MaxSignals : IF Kept(n) THEN given'[n] > 0 /\ (given'[n] > 1 => given[n] > 0)
                                      ELSE given'[n] = given[n]
    BY <1>a, <1>b, <2>1, CountedFacts DEF Kept
  <2>4. \A n : ~Kept(n)' /\ ~Read(n)' /\ ~Read(n)
    BY <2>1, <2>2 DEF Kept, Read
  <2>5. SignalsType'
    <3>1. \A n \in 1 .. MaxSignals : n > arrived => given'[n] = 0
      <4>1. \A n \in 1 .. MaxSignals : n > arrived => ~Kept(n) /\ given[n] = 0
        BY <1>a, <1>c, <1>d DEF CountsOk, Kept
      <4> QED
        BY <2>3, <4>1
    <3>2. CountsOk'
      BY <1>c, <2>1, <2>3, <3>1 DEF CountsOk
    <3>3. TakingOk' /\ ListOk'
      BY <1>a, <2>1 DEF TakingOk, ListOk
    <3> QED
      BY <3>2, <3>3 DEF SignalsType
  <2>6. SignalsAccounted'
    <3> SUFFICES ASSUME NEW n \in 1 .. arrived
                 PROVE  (n \in dropped \/ given'[n] > 0) /\ (given'[n] > 1 => n \in again)
      BY <2>1, <2>4 DEF SignalsAccounted
    <3>1. n \in 1 .. MaxSignals
      BY <1>c
    <3> QED
      BY <1>a, <2>3, <2>4, <3>1 DEF SignalsAccounted
  <2>7. Trimmable'
    BY <2>1, <2>2 DEF Trimmable
  <2> QED
    BY <2>5, <2>6, <2>7 DEF SignalsInv
<1>5. ASSUME G!GetListSize PROVE SignalsInv'
  <2>1. /\ ~local /\ taking' = [G!Idle EXCEPT !.pc = "range", !.size = Len(signals)]
        /\ taking.pc = "idle" /\ UNCHANGED <<local, signals, arrived, dropped, again, given>>
    BY <1>5 DEF G!GetListSize
  <2>2. /\ taking'.pc = "range" /\ taking'.size = Len(signals) /\ taking'.result = <<>>
        /\ taking.result = <<>> /\ taking' = [pc |-> "range", size |-> Len(signals), result |-> <<>>, intact |-> TRUE]
    BY <1>g, <2>1 DEF G!Idle
  <2>3. \A n : (Kept(n)' <=> Kept(n)) /\ (Read(n)' <=> Read(n))
    BY <2>1, <2>2 DEF Kept, Read
  <2>4. SignalsType'
    <3>0. ~local'
      BY <2>1
    <3>1. TakingOk'
      <4>1. taking' \in [pc : {"idle", "range", "trim"}, size : Nat, result : Seq(Nat), intact : BOOLEAN]
        BY <1>b, <2>2
      <4>2. Len(taking'.result) = 0
        BY <2>2
      <4> QED
        BY <2>2, <3>0, <4>1, <4>2 DEF TakingOk
    <3>2. CountsOk' /\ ListOk'
      BY <1>a, <2>1 DEF CountsOk, ListOk
    <3> QED
      BY <3>1, <3>2 DEF SignalsType
  <2>5. SignalsAccounted'
    BY <1>a, <2>1, <2>3 DEF SignalsAccounted
  <2>6. Trimmable'
    BY <1>b, <2>1, <2>2 DEF Trimmable
  <2> QED
    BY <2>4, <2>5, <2>6 DEF SignalsInv
<1>6. ASSUME G!GetList PROVE SignalsInv'
  <2> DEFINE front == G!UpTo(signals, taking.size + 1)
             lost == G!UpTo(signals, taking.size)
  <2>1. PICK result \in {front, <<>>} :
          /\ taking' = [taking EXCEPT !.pc = "trim", !.result = result]
          /\ dropped' = IF result = <<>> THEN dropped \cup G!Range(lost) ELSE dropped
          /\ again' = again \cup {result[i] : i \in DOMAIN result \ 1 .. taking.size}
    BY <1>6 DEF G!GetList
  <2>2. taking.pc = "range" /\ ~local /\ UNCHANGED <<local, signals, arrived, given>>
    BY <1>6, <1>h DEF G!GetList
  <2>3. /\ front \in Seq(Nat) /\ Len(front) = (IF taking.size + 1 < Len(signals) THEN taking.size + 1 ELSE Len(signals))
        /\ \A i \in 1 .. Len(front) : front[i] = signals[i]
    <3> DEFINE k == taking.size + 1
    <3>1. k \in Nat
      BY <1>b
    <3> HIDE DEF k
    <3>2. /\ G!UpTo(signals, k) \in Seq(Nat)
          /\ Len(G!UpTo(signals, k)) = (IF k < Len(signals) THEN k ELSE Len(signals))
          /\ \A i \in 1 .. Len(G!UpTo(signals, k)) : G!UpTo(signals, k)[i] = signals[i]
      BY <1>b, <3>1, FrontAndRest
    <3> QED
      BY <3>2 DEF k
  <2>4. /\ lost \in Seq(Nat) /\ Len(lost) = (IF taking.size < Len(signals) THEN taking.size ELSE Len(signals))
        /\ \A i \in 1 .. Len(lost) : lost[i] = signals[i]
    BY <1>b, FrontAndRest
  <2> HIDE DEF front, lost
  <2>5. /\ result \in Seq(Nat) /\ Len(result) <= Len(signals) /\ Len(result) \in Nat
        /\ DOMAIN result = 1 .. Len(result) /\ \A i \in 1 .. Len(result) : result[i] = signals[i]
    <3>1. CASE result = <<>>
      BY <1>b, <3>1
    <3>2. CASE result = front
      BY <1>b, <2>3, <3>2
    <3> QED
      BY <2>1, <3>1, <3>2
  <2>6. /\ taking'.pc = "trim" /\ taking'.size = taking.size /\ taking'.result = result
        /\ taking'.intact = taking.intact
    BY <1>i, <2>1
  <2>7. taking.result = <<>>
    BY <1>g, <2>2
  <2>8. \A n : (Kept(n)' <=> Kept(n)) /\ ~Read(n) /\ (Read(n)' => Kept(n))
    <3>1. \A n : (Kept(n)' <=> Kept(n)) /\ ~Read(n)
      BY <2>2, <2>7 DEF Kept, Read
    <3>2. \A i \in 1 .. Len(result) : i \in 1 .. Len(signals)
      BY <1>b, <2>5
    <3>3. \A n : Read(n)' => Kept(n)
      BY <2>5, <2>6, <3>2 DEF Kept, Read
    <3> QED
      BY <3>1, <3>3
  <2>9. again \subseteq again' /\ dropped \subseteq dropped'
    BY <2>1
  <2>10. SignalsType'
    <3>1. taking' \in [pc : {"idle", "range", "trim"}, size : Nat, result : Seq(Nat), intact : BOOLEAN]
      BY <1>a, <2>1, <2>5 DEF TakingOk
    <3>2. \A i \in 1 .. Len(result) : result[i] \in 1 .. arrived
      <4>1. \A i \in 1 .. Len(result) : i \in 1 .. Len(signals)
        BY <1>b, <2>5
      <4> QED
        BY <1>d, <2>5, <4>1
    <3>3. TakingOk'
      BY <2>2, <2>6, <3>1, <3>2 DEF TakingOk
    <3>4. CountsOk' /\ ListOk'
      BY <1>a, <2>2 DEF CountsOk, ListOk
    <3> QED
      BY <3>3, <3>4 DEF SignalsType
  <2>11. SignalsAccounted'
    BY <1>a, <2>2, <2>8, <2>9 DEF SignalsAccounted
  <2>12. Trimmable'
    <3>1. ASSUME taking.intact
          PROVE  /\ taking.size <= Len(signals)
                 /\ \A n \in Nat : (\E i \in 1 .. taking.size : signals[i] = n) => Read(n)' \/ n \in dropped'
      <4>1. taking.size <= Len(signals)
        BY <1>a, <2>2, <3>1 DEF Trimmable
      <4>2. ASSUME NEW i \in 1 .. taking.size
            PROVE  Read(signals[i])' \/ signals[i] \in dropped'
        <5>1. CASE result = <<>>
          <6>1. i \in 1 .. Len(lost) /\ lost[i] = signals[i]
            BY <1>b, <2>4, <4>1
          <6>2. signals[i] \in G!Range(lost)
            BY <2>4, <6>1, SignalsRange
          <6> QED
            BY <2>1, <5>1, <6>2
        <5>2. CASE result # <<>>
          <6>1. i \in 1 .. Len(result) /\ result[i] = signals[i]
            <7>1. result = front
              BY <2>1, <5>2
            <7>2. i <= Len(signals) /\ i <= taking.size /\ 1 <= i /\ i \in Int
              BY <1>b, <4>1
            <7>3. i <= Len(front) /\ Len(front) \in Int
              BY <1>b, <2>3, <7>2
            <7>4. i \in 1 .. Len(front)
              BY <7>2, <7>3
            <7> QED
              BY <2>3, <7>1, <7>4
          <6> QED
            BY <2>2, <2>6, <6>1 DEF Read
        <5> QED
          BY <5>1, <5>2
      <4> QED
        BY <2>2, <4>1, <4>2
    <3>2. ASSUME NEW i \in 1 .. Len(result), NEW n \in Nat, result[i] = n
          PROVE  IF i > taking.size THEN n \in again' ELSE i <= Len(signals) /\ signals[i] = n
      BY <1>b, <2>1, <2>5, <3>2
    <3> QED
      BY <2>2, <2>6, <3>1, <3>2 DEF Trimmable
  <2> QED
    BY <2>10, <2>11, <2>12 DEF SignalsInv
<1>7. ASSUME G!LTrim PROVE SignalsInv'
  <2>1. /\ taking.pc = "trim" /\ given' = G!Counted(taking.result) /\ taking' = G!Idle
        /\ UNCHANGED <<local, arrived>>
        /\ \/ /\ signals' = G!Trimmed(signals, taking.size)
              /\ dropped' = IF taking.intact THEN dropped ELSE dropped \cup G!Range(G!UpTo(signals, taking.size))
              /\ UNCHANGED again
           \/ again' = again \cup G!Range(taking.result) /\ UNCHANGED <<signals, dropped>>
    BY <1>7 DEF G!LTrim
  <2>2. /\ given' \in [1 .. MaxSignals -> Nat]
        /\ \A n \in 1 .. MaxSignals : IF Read(n) THEN given'[n] > 0 /\ (given'[n] > 1 => given[n] > 0)
                                      ELSE given'[n] = given[n]
    BY <1>a, <1>b, <2>1, CountedFacts DEF Read
  <2>3. taking'.result = <<>> /\ taking'.pc = "idle"
    BY <2>1 DEF G!Idle
  <2>4. \A n : ~Read(n)'
    BY <2>3 DEF Read
  <2>5. /\ taking' \in [pc : {"idle", "range", "trim"}, size : Nat, result : Seq(Nat), intact : BOOLEAN]
        /\ \A n \in 1 .. MaxSignals : n > arrived => given'[n] = 0
    <3>1. taking' \in [pc : {"idle", "range", "trim"}, size : Nat, result : Seq(Nat), intact : BOOLEAN]
      BY <2>1 DEF G!Idle
    <3>2. \A n \in 1 .. MaxSignals : n > arrived => ~Read(n) /\ given[n] = 0
      BY <1>a, <1>c, <1>f DEF CountsOk, Read
    <3> QED
      BY <2>2, <3>1, <3>2
  <2>c. CountsOk' /\ TakingOk'
    <3>1. CountsOk'
      BY <1>c, <2>1, <2>2, <2>5 DEF CountsOk
    <3>2. TakingOk'
      BY <2>3, <2>5 DEF TakingOk
    <3> QED
      BY <3>1, <3>2
  <2>6. Trimmable'
    BY <2>3 DEF Trimmable
  <2>7. \A n \in 1 .. arrived : n \in 1 .. MaxSignals
    BY <1>c
  <2>8. CASE again' = again \cup G!Range(taking.result) /\ UNCHANGED <<signals, dropped>>
    <3>1. SignalsType'
      BY <1>a, <2>1, <2>c, <2>8 DEF SignalsType, ListOk
    <3>2. \A n : (Kept(n)' <=> Kept(n)) /\ (Read(n) => n \in again')
      BY <1>b, <2>8, SignalsRange DEF Kept, Read
    <3>3. SignalsAccounted'
      BY <1>a, <2>1, <2>2, <2>4, <2>7, <2>8, <3>2 DEF SignalsAccounted
    <3> QED
      BY <2>6, <3>1, <3>3 DEF SignalsInv
  <2>9. CASE /\ signals' = G!Trimmed(signals, taking.size)
             /\ dropped' = IF taking.intact THEN dropped ELSE dropped \cup G!Range(G!UpTo(signals, taking.size))
             /\ UNCHANGED again
    <3> DEFINE k == taking.size
    <3>1. /\ signals' \in Seq(Nat) /\ Len(signals') = (IF k < Len(signals) THEN Len(signals) - k ELSE 0)
          /\ \A i \in 1 .. Len(signals') : signals'[i] = signals[i + k]
      BY <1>b, <2>9, FrontAndRest
    <3>2. k \in Nat /\ \A i \in 1 .. Len(signals') : i + k \in 1 .. Len(signals)
      BY <1>b, <3>1
    <3> HIDE DEF k
    <3>3. SignalsType'
      <4>1. \A i, j \in 1 .. Len(signals') : signals'[i] = signals'[j] => i = j
        <5> SUFFICES ASSUME NEW i \in 1 .. Len(signals'), NEW j \in 1 .. Len(signals'), signals'[i] = signals'[j]
                     PROVE  i = j
          OBVIOUS
        <5>1. i + k = j + k
          BY <1>e, <3>1, <3>2
        <5> QED
          BY <3>2, <5>1
      <4>2. \A i \in 1 .. Len(signals') : signals'[i] \in 1 .. arrived
        BY <1>d, <3>1, <3>2
      <4>3. ListOk'
        BY <2>1, <3>1, <4>1, <4>2 DEF ListOk
      <4> QED
        BY <2>c, <4>3 DEF SignalsType
    <3>4. \A n : Kept(n)' => Kept(n)
      BY <3>1, <3>2 DEF Kept
    <3>5. ASSUME NEW n \in Nat, Kept(n) PROVE Kept(n)' \/ Read(n) \/ n \in dropped'
      <4>1. PICK i \in 1 .. Len(signals) : signals[i] = n
        BY <3>5 DEF Kept
      <4>2. CASE i > k
        <5>1. i - k \in 1 .. Len(signals') /\ (i - k) + k = i
          BY <1>b, <3>1, <3>2, <4>2
        <5> QED
          BY <3>1, <4>1, <5>1 DEF Kept
      <4>3. CASE i <= k /\ taking.intact
        BY <1>a, <2>1, <2>9, <3>2, <4>1, <4>3 DEF Trimmable, k
      <4>4. CASE i <= k /\ ~taking.intact
        <5> DEFINE front == G!UpTo(signals, k)
        <5>1. /\ front \in Seq(Nat) /\ Len(front) = (IF k < Len(signals) THEN k ELSE Len(signals))
              /\ \A j \in 1 .. Len(front) : front[j] = signals[j]
          BY <1>b, <3>2, FrontAndRest
        <5>2. dropped' = dropped \cup G!Range(front)
          BY <2>9, <4>4 DEF k
        <5> HIDE DEF front
        <5>3. i \in 1 .. Len(front) /\ front[i] = n
          BY <1>b, <3>2, <4>1, <4>4, <5>1
        <5> QED
          BY <5>1, <5>2, <5>3, SignalsRange
      <4> QED
        BY <3>2, <4>2, <4>3, <4>4
    <3>6. ASSUME NEW n \in Nat, Kept(n)', Read(n) PROVE n \in again
      <4>1. PICK i \in 1 .. Len(taking.result) : taking.result[i] = n
        BY <3>6 DEF Read
      <4>2. PICK j \in 1 .. Len(signals') : signals[j + k] = n
        BY <3>1, <3>6 DEF Kept
      <4>3. CASE i > k
        BY <1>a, <2>1, <4>1, <4>3 DEF Trimmable, k
      <4>4. CASE i <= k
        <5>1. i <= Len(signals) /\ signals[i] = n
          <6>1. IF i > k THEN n \in again ELSE (i <= Len(signals) /\ signals[i] = n) \/ ~Kept(n)
            BY <1>a, <2>1, <4>1 DEF Trimmable, k
          <6>2. Kept(n)
            BY <3>4, <3>6
          <6> QED
            BY <1>b, <3>2, <4>4, <6>1, <6>2
        <5>2. i = j + k
          <6>1. i \in 1 .. Len(signals) /\ j + k \in 1 .. Len(signals)
            BY <1>b, <3>2, <5>1
          <6> QED
            BY <1>e, <4>2, <5>1, <6>1
        <5> QED
          BY <1>b, <3>1, <3>2, <4>4, <5>2
      <4> QED
        BY <1>b, <3>2, <4>3, <4>4
    <3>7. dropped \subseteq dropped' /\ again' = again
      BY <2>9
    <3>8. SignalsAccounted'
      <4> SUFFICES ASSUME NEW n \in 1 .. arrived
                   PROVE  /\ Kept(n)' \/ n \in dropped' \/ given'[n] > 0
                          /\ given'[n] > 1 => n \in again
                          /\ Kept(n)' /\ given'[n] > 0 => n \in again
        BY <2>1, <2>4, <3>7 DEF SignalsAccounted
      <4>1. n \in Nat /\ n \in 1 .. MaxSignals
        BY <2>7
      <4> QED
        BY <1>a, <2>2, <3>4, <3>5, <3>6, <3>7, <4>1 DEF SignalsAccounted
    <3> QED
      BY <2>6, <3>3, <3>8 DEF SignalsInv
  <2> QED
    BY <2>1, <2>8, <2>9
<1> QED
  BY <1>1, <1>2, <1>3, <1>4, <1>5, <1>6, <1>7, <1>8 DEF G!Next

\* Whatever is stored, by any receiver, while an agent's report is answered: each
\* signal is kept until it is given to the agent, and given once, with the exceptions
\* its module names.
THEOREM SignalsGivenTheorem == Spec => []SignalsGiven
<1> DEFINE Inv == SignalsInv /\ WorkersOk
<1>0. MaxSignals \in Nat
  BY SizesAssumption
<1>1. Init => Inv
  BY <1>0, SignalsStart DEF Init
<1>2. Inv /\ [Next]_vars => Inv'
  <2>1. ASSUME UNCHANGED gVars, local' = local, SignalsInv PROVE SignalsInv'
    <3>1. /\ signals' = signals /\ taking' = taking /\ arrived' = arrived
          /\ dropped' = dropped /\ again' = again /\ given' = given
      BY <2>1 DEF gVars
    <3>2. SignalsType'
      BY <2>1, <3>1 DEF SignalsInv, SignalsType, CountsOk, ListOk, TakingOk
    <3>3. \A n : Kept(n)' = Kept(n) /\ Read(n)' = Read(n)
      BY <3>1 DEF Kept, Read
    <3>4. SignalsAccounted'
      BY <2>1, <3>1, <3>3 DEF SignalsInv, SignalsAccounted
    <3>5. Trimmable'
      BY <2>1, <3>1, <3>3 DEF SignalsInv, Trimmable
    <3> QED
      BY <3>2, <3>4, <3>5 DEF SignalsInv
  <2>2. UNCHANGED gVars /\ local' = local => (WorkersOk => WorkersOk')
    BY DEF gVars, WorkersOk
  <2>3. SignalsInv => arrived \in Nat
    BY DEF SignalsInv, SignalsType, CountsOk
  <2> QED
    BY <1>0, <2>1, <2>2, <2>3, SignalsStep, WorkersStep, StepOfEach
<1>3. Inv => SignalsGiven
  <2> SUFFICES ASSUME SignalsInv, NEW n \in 1 .. arrived
               PROVE  /\ n \in G!Range(signals) \cup G!Range(taking.result) \cup dropped \/ given[n] > 0
                      /\ given[n] > 1 => n \in again
                      /\ n \in G!Range(signals) /\ given[n] > 0 => n \in again
    BY DEF SignalsGiven, G!SignalsGiven
  <2>1. signals \in Seq(Nat) /\ taking.result \in Seq(Nat)
    BY DEF SignalsInv, SignalsType, ListOk, TakingOk
  <2>2. (n \in G!Range(signals) <=> Kept(n)) /\ (n \in G!Range(taking.result) <=> Read(n))
    BY <2>1, SignalsRange DEF Kept, Read
  <2> QED
    BY <2>2 DEF SignalsInv, SignalsAccounted
<1> HIDE DEF Inv
<1> QED
  BY <1>1, <1>2, <1>3, PTL DEF Spec

-----------------------------------------------------------------------------
(* ClickHouseInit                                                          *)

\* What the statements of the scripts are, and those that are still to run.
InitSet(c) == {I!Create(t, IF t \in WithoutTTL THEN I!NoTTL ELSE I!TTLFor(c, t)) : t \in I!Tables}
              \cup {I!Distribute(t, I!HashFor(c, t)) : t \in I!Tables}
MigrateSet(c) == {I!MigrateStatements(c)[i] : i \in DOMAIN I!MigrateStatements(c)}
ToRun(s, op, t) == \E j \in 1 .. Len(s) : s[j].op = op /\ s[j].table = t

\* The migrations up to the n-th were applied, those after it were not.
MigratedTo(c, m, n) ==
  \A i \in DOMAIN I!MigrateStatements(c) :
    (i > n => I!MigrateStatements(c)[i] \notin m) /\
    (i <= n => I!MigrateStatements(c)[i] \in m \/ I!MigrateStatements(c)[i].lenient)

\* The statements that are distinct, and make no table, in each rendering of the script.
Renderings ==
  \A c \in Configs : \E X :
    /\ I!MigrateStatements(c) \in Seq(X)
    /\ \A s \in X : s.op # "create"
    /\ \A i, j \in 1 .. Len(I!MigrateStatements(c)) :
         I!MigrateStatements(c)[i] = I!MigrateStatements(c)[j] => i = j

(* A receiver with configuration c that is at p, with the statements s to run and the  *)
(* migrations m applied, when there are the tables T, and the distributed tables D     *)
(* are there or broken.                                                                *)
TodoOk(c, p, s) ==
  /\ s \in Seq(InitSet(c) \cup MigrateSet(c))
  /\ p = "init" => \A j \in 1 .. Len(s) : s[j] \in InitSet(c)
InitScript(c, p, s, m, T, D) == p = "init" =>
  /\ \A t \in I!Tables : t \in T \/ ToRun(s, "create", t)
  /\ c.cluster => \A t \in I!Tables : t \in D \/ ToRun(s, "distribute", t)
  /\ m = {}
AfterInit(c, p, T, D) == p \in {"migrate", "started"} =>
  I!Tables \subseteq T /\ (c.cluster => I!Tables \subseteq D)
MigrateScript(c, p, s, m) == p = "migrate" =>
  \E k \in 0 .. Len(I!MigrateStatements(c)) :
    /\ MigratedTo(c, m, k)
    /\ s # <<>> => /\ Len(s) = Len(I!MigrateStatements(c)) - k
                   /\ \A j \in 1 .. Len(s) : s[j] = I!MigrateStatements(c)[k + j]
MigrateEnded(c, p, m) == p = "started" =>
  \E k \in 0 .. Len(I!MigrateStatements(c)) : MigratedTo(c, m, k)
StartOk(c, p, s, m, T, D) ==
  /\ p \in {"stopped", "database", "init", "migrate", "started"}
  /\ p = "database" => m = {}
  /\ p \notin {"init", "migrate"} => s = <<>>
  /\ TodoOk(c, p, s) /\ InitScript(c, p, s, m, T, D) /\ AfterInit(c, p, T, D)
  /\ MigrateScript(c, p, s, m) /\ MigrateEnded(c, p, m)

There == DOMAIN tables
Known == DOMAIN distributed \cup broken
TablesOk == /\ DOMAIN tables \subseteq I!Tables
            /\ \A t \in DOMAIN tables \ WithoutTTL : tables[t].ttl = I!TTLFor(tables[t].config, t)
StartsType == /\ config \in [Receivers -> Configs] /\ pc = [r \in Receivers |-> pc[r]]
              /\ todo = [r \in Receivers |-> todo[r]] /\ migrated = [r \in Receivers |-> migrated[r]]
TablesInv ==
  /\ StartsType /\ TablesOk
  /\ \A r \in Receivers : StartOk(config[r], pc[r], todo[r], migrated[r], There, Known)

LEMMA TablesRange == ASSUME NEW X, NEW s \in Seq(X) PROVE I!Range(s) = {s[i] : i \in 1 .. Len(s)}
BY DEF I!Range

LEMMA PairFacts ==
    ASSUME NEW X, NEW a \in X, NEW b \in X
    PROVE  <<a>> \o <<b>> \in Seq(X) /\ a \in Range(<<a>> \o <<b>>) /\ b \in Range(<<a>> \o <<b>>)
<1> DEFINE p == <<a>>
           q == <<b>>
<1>1. p \in Seq(X) /\ q \in Seq(X)
  OBVIOUS
<1>2. a \in Range(p) /\ b \in Range(q)
  BY DEF Range
<1> HIDE DEF p, q
<1>3. p \o q \in Seq(X) /\ a \in Range(p \o q) /\ b \in Range(p \o q)
  BY <1>1, <1>2, ConcatFacts
<1> QED
  BY ONLY <1>3, Zenon DEF p, q

\* The script of the tables creates each, and a distributed one over it in a cluster.
LEMMA InitStatementsFacts ==
    ASSUME NEW X, Files \in Seq(X), NEW c
    PROVE  /\ I!InitStatements(c) \in Seq(InitSet(c))
           /\ \A t \in I!Tables : ToRun(I!InitStatements(c), "create", t)
           /\ c.cluster => \A t \in I!Tables : ToRun(I!InitStatements(c), "distribute", t)
<1> DEFINE creates(t) == I!Create(t, IF t \in WithoutTTL THEN I!NoTTL ELSE I!TTLFor(c, t))
           distributes(t) == I!Distribute(t, I!HashFor(c, t))
           seqs == [i \in DOMAIN Files |-> I!Statements(c, Files[i])]
<1>1. DOMAIN Files = 1 .. Len(Files) /\ Len(Files) \in Nat
  OBVIOUS
<1>2. I!Tables = {Files[i] : i \in 1 .. Len(Files)}
  BY TablesRange DEF I!Tables
<1>3. ASSUME NEW t \in I!Tables
      PROVE  /\ I!Statements(c, t) \in Seq(InitSet(c)) /\ creates(t) \in Range(I!Statements(c, t))
             /\ c.cluster => distributes(t) \in Range(I!Statements(c, t))
  <2>1. creates(t) \in InitSet(c) /\ distributes(t) \in InitSet(c)
    BY DEF InitSet
  <2>2. I!Statements(c, t) = <<creates(t)>> \o (IF c.cluster THEN <<distributes(t)>> ELSE <<>>)
    BY DEF I!Statements
  <2> HIDE DEF creates, distributes
  <2>3. CASE c.cluster
    <3>3. I!Statements(c, t) = <<creates(t)>> \o <<distributes(t)>>
      BY <2>2, <2>3
    <3> QED
      BY <2>1, <3>3, PairFacts
  <2>4. CASE ~c.cluster
    <3>1. I!Statements(c, t) = <<creates(t)>>
      BY <2>1, <2>2, <2>4
    <3> QED
      BY <2>1, <2>4, <3>1 DEF Range
  <2> QED
    BY <2>3, <2>4
<1>4. /\ seqs \in Seq(Seq(InitSet(c))) /\ Len(seqs) = Len(Files)
      /\ \A i \in 1 .. Len(Files) : seqs[i] = I!Statements(c, Files[i])
  <2>1. seqs \in [1 .. Len(Files) -> Seq(InitSet(c))]
    BY <1>1, <1>2, <1>3
  <2> QED
    BY <1>1, <2>1
<1>5. I!InitStatements(c) = FlattenSeq(seqs)
  BY DEF I!InitStatements, I!FlattenSeq, FlattenSeq
<1> HIDE DEF seqs
<1>6. I!InitStatements(c) \in Seq(InitSet(c))
  BY <1>4, <1>5, FlattenType
<1>7. ASSUME NEW t \in I!Tables, NEW x, x \in Range(I!Statements(c, t))
      PROVE  \E j \in 1 .. Len(I!InitStatements(c)) : I!InitStatements(c)[j] = x
  <2>1. PICK i \in 1 .. Len(seqs) : seqs[i] = I!Statements(c, t)
    BY <1>2, <1>4
  <2>2. x \in Range(FlattenSeq(seqs))
    BY <1>4, <1>7, <2>1, FlattenRange
  <2>3. DOMAIN I!InitStatements(c) = 1 .. Len(I!InitStatements(c))
    BY <1>6
  <2> QED
    BY <1>5, <2>2, <2>3 DEF Range
<1>8. \A t \in I!Tables : /\ creates(t).op = "create" /\ creates(t).table = t
                          /\ distributes(t).op = "distribute" /\ distributes(t).table = t
  BY DEF I!Create, I!Distribute
<1> HIDE DEF creates, distributes
<1> QED
  BY <1>3, <1>6, <1>7, <1>8 DEF ToRun

\* What a statement does to the tables: none goes, and a distributed one that goes is broken.
LEMMA ExecuteFacts ==
    ASSUME NEW r, NEW s, I!Execute(r, s)
    PROVE  /\ DOMAIN tables' = DOMAIN tables \cup (IF s.op = "create" THEN {s.table} ELSE {})
           /\ \A t \in DOMAIN tables : tables'[t] = tables[t]
           /\ s.op = "create" /\ s.table \notin DOMAIN tables =>
                tables'[s.table] = [ttl |-> s.ttl, config |-> config[r]]
           /\ Known \subseteq Known'
           /\ s.op = "distribute" => s.table \in Known'
<1>1. /\ DOMAIN tables' = DOMAIN tables \cup (IF s.op = "create" THEN {s.table} ELSE {})
      /\ \A t \in DOMAIN tables : tables'[t] = tables[t]
      /\ s.op = "create" /\ s.table \notin DOMAIN tables =>
           tables'[s.table] = [ttl |-> s.ttl, config |-> config[r]]
  <2>1. CASE s.op = "create" /\ s.table \notin DOMAIN tables
    <3>1. tables' = [x \in DOMAIN tables \cup {s.table} |->
                      IF x = s.table THEN [ttl |-> s.ttl, config |-> config[r]] ELSE tables[x]]
      BY <2>1 DEF I!Execute, I!Put
    <3> QED
      BY <2>1, <3>1
  <2>2. CASE ~(s.op = "create" /\ s.table \notin DOMAIN tables)
    <3>1. tables' = tables
      BY <2>2 DEF I!Execute
    <3> QED
      BY <2>2, <3>1
  <2> QED
    BY <2>1, <2>2
<1>2. CASE s.op = "distribute"
  <2>1. broken' = broken \ {s.table}
    BY <1>2 DEF I!Execute
  <2>2. DOMAIN distributed' = DOMAIN distributed \cup {s.table}
    <3>2. CASE s.table \notin DOMAIN distributed
      <4>1. distributed' = [x \in DOMAIN distributed \cup {s.table} |->
                             IF x = s.table THEN s.hash ELSE distributed[x]]
        BY <1>2, <3>2 DEF I!Execute, I!Put
      <4> QED
        BY <4>1
    <3>3. CASE s.table \in DOMAIN distributed
      <4>1. distributed' = distributed
        BY <1>2, <3>3 DEF I!Execute
      <4> QED
        BY <3>3, <4>1
    <3> QED
      BY <3>2, <3>3
  <2> QED
    BY <1>1, <2>1, <2>2 DEF Known
<1>3. CASE s.op = "drop"
  <2>1. distributed' = [t \in DOMAIN distributed \ {s.table} |-> distributed[t]] /\ broken' = broken \cup {s.table}
    BY <1>3 DEF I!Execute
  <2> QED
    BY <1>1, <1>3, <2>1 DEF Known
<1>4. CASE s.op \notin {"distribute", "drop"}
  <2>1. distributed' = distributed /\ broken' = broken
    BY <1>4 DEF I!Execute
  <2> QED
    BY <1>1, <1>4, <2>1 DEF Known
<1> QED
  BY <1>2, <1>3, <1>4

LEMMA Cut ==
    ASSUME NEW X, NEW s \in Seq(X), s # <<>>
    PROVE  /\ Tail(s) \in Seq(X) /\ Head(s) = s[1] /\ Head(s) \in X /\ Len(s) \in Nat \ {0}
           /\ Len(Tail(s)) = Len(s) - 1 /\ \A j \in 1 .. Len(s) - 1 : Tail(s)[j] = s[j + 1]
           /\ \A j \in 1 .. Len(s) : j = 1 \/ (j - 1 \in 1 .. Len(Tail(s)) /\ Tail(s)[j - 1] = s[j])
OBVIOUS

\* What other receivers do to the tables does not disturb a receiver.
LEMMA OthersTables ==
    ASSUME NEW c, NEW p, NEW s, NEW m, NEW T, NEW D, NEW T2, NEW D2,
           StartOk(c, p, s, m, T, D), T \subseteq T2, D \subseteq D2
    PROVE  StartOk(c, p, s, m, T2, D2)
BY DEF StartOk, InitScript, AfterInit

\* What the statements that are still to run are.
LEMMA StatementFacts ==
    ASSUME Renderings, NEW c \in Configs, NEW u \in InitSet(c) \cup MigrateSet(c)
    PROVE  /\ u.op = "create" => u \in InitSet(c)
           /\ u \in InitSet(c) => /\ u.table \in I!Tables /\ u.op \in {"create", "distribute"}
                                  /\ u.op = "create" /\ u.table \notin WithoutTTL => u.ttl = I!TTLFor(c, u.table)
<1>1. PICK X : I!MigrateStatements(c) \in Seq(X) /\ \A s \in X : s.op # "create"
  BY DEF Renderings
<1>2. \A i \in DOMAIN I!MigrateStatements(c) : I!MigrateStatements(c)[i].op # "create"
  BY <1>1
<1>3. u.op = "create" => u \in InitSet(c)
  BY <1>2 DEF MigrateSet
<1> QED
  BY <1>3 DEF InitSet, I!Create, I!Distribute

\* Running a statement.
LEMMA RunOne ==
    ASSUME Renderings, NEW c \in Configs, NEW p \in {"init", "migrate"}, NEW s, NEW m, NEW T, NEW D,
           StartOk(c, p, s, m, T, D), s # <<>>,
           NEW T2, NEW D2, T \subseteq T2, D \subseteq D2,
           Head(s).op = "create" => Head(s).table \in T2,
           Head(s).op = "distribute" => Head(s).table \in D2
    PROVE  StartOk(c, p, Tail(s), IF p = "migrate" THEN m \cup {Head(s)} ELSE m, T2, D2)
<1> DEFINE u == Head(s)
           MS == I!MigrateStatements(c)
           m2 == IF p = "migrate" THEN m \cup {u} ELSE m
           s2 == Tail(s)
<1>a. TodoOk(c, p, s) /\ InitScript(c, p, s, m, T, D) /\ AfterInit(c, p, T, D) /\ MigrateScript(c, p, s, m)
  BY DEF StartOk
<1>2. /\ s2 \in Seq(InitSet(c) \cup MigrateSet(c)) /\ u = s[1] /\ u \in InitSet(c) \cup MigrateSet(c)
      /\ Len(s) \in Nat \ {0}
      /\ Len(s2) = Len(s) - 1 /\ \A j \in 1 .. Len(s) - 1 : s2[j] = s[j + 1]
      /\ \A j \in 1 .. Len(s) : j = 1 \/ (j - 1 \in 1 .. Len(s2) /\ s2[j - 1] = s[j])
  BY <1>a, Cut DEF TodoOk
<1>u. /\ u.op = "create" => u.table \in T2
      /\ u.op = "distribute" => u.table \in D2
  OBVIOUS
<1> HIDE DEF u, s2
<1>3. TodoOk(c, p, s2)
  <2>1. p = "init" => \A j \in 1 .. Len(s2) : s2[j] \in InitSet(c)
    BY <1>a, <1>2 DEF TodoOk
  <2> QED
    BY <1>2, <2>1 DEF TodoOk
<1>r. \A op, t : ToRun(s, op, t) => ToRun(s2, op, t) \/ (u.op = op /\ u.table = t)
  BY <1>2 DEF ToRun
<1>4. InitScript(c, p, s2, m2, T2, D2)
  BY <1>a, <1>r, <1>u DEF InitScript
<1>5. AfterInit(c, p, T2, D2)
  BY <1>a DEF AfterInit
<1>6. MigrateScript(c, p, s2, m2)
  <2> SUFFICES ASSUME p = "migrate" PROVE MigrateScript(c, p, s2, m2)
    BY DEF MigrateScript
  <2>1. PICK k \in 0 .. Len(MS) : /\ MigratedTo(c, m, k) /\ Len(s) = Len(MS) - k
                                  /\ \A j \in 1 .. Len(s) : s[j] = MS[k + j]
    BY <1>a DEF MigrateScript
  <2>2. PICK X : MS \in Seq(X) /\ \A i, j \in 1 .. Len(MS) : MS[i] = MS[j] => i = j
    BY DEF Renderings
  <2>d. DOMAIN MS = 1 .. Len(MS) /\ Len(MS) \in Nat
    BY <2>2
  <2>3. u = MS[k + 1] /\ k + 1 \in 0 .. Len(MS) /\ k + 1 \in 1 .. Len(MS) /\ k \in Nat
    BY <1>2, <2>1, <2>d
  <2>4. ASSUME NEW i \in DOMAIN MS
        PROVE  /\ i > k + 1 => MS[i] \notin m2
               /\ i <= k + 1 => MS[i] \in m2 \/ MS[i].lenient
    <3>1. /\ i > k => MS[i] \notin m
          /\ i <= k => MS[i] \in m \/ MS[i].lenient
      BY <2>1 DEF MigratedTo
    <3>2. i > k + 1 => MS[i] # u
      BY <2>2, <2>3, <2>d
    <3> QED
      BY <2>3, <2>d, <3>1, <3>2
  <2>5. MigratedTo(c, m2, k + 1)
    BY <2>4 DEF MigratedTo
  <2>6. Len(s2) = Len(MS) - (k + 1) /\ \A j \in 1 .. Len(s2) : s2[j] = MS[k + 1 + j]
    <3>1. Len(s2) = Len(MS) - (k + 1)
      BY <1>2, <2>1, <2>3, <2>d
    <3>2. ASSUME NEW j \in 1 .. Len(s2) PROVE s2[j] = MS[k + 1 + j]
      <4>1. j \in 1 .. Len(s) - 1 /\ j + 1 \in 1 .. Len(s) /\ k + (j + 1) = k + 1 + j
        BY <1>2, <2>3
      <4> QED
        BY <1>2, <2>1, <4>1
    <3> QED
      BY <3>1, <3>2
  <2> HIDE DEF m2
  <2> QED
    BY <2>3, <2>5, <2>6 DEF MigrateScript
<1>7. MigrateEnded(c, p, m2)
  BY DEF MigrateEnded
<1> QED
  BY <1>3, <1>4, <1>5, <1>6, <1>7 DEF StartOk, u, s2

\* The end of a script.
LEMMA EndOne ==
    ASSUME Renderings, NEW c \in Configs, NEW p, NEW m, NEW T, NEW D, StartOk(c, p, <<>>, m, T, D)
    PROVE  /\ p = "init" => StartOk(c, "migrate", I!MigrateStatements(c), m, T, D)
           /\ p = "migrate" => StartOk(c, "started", <<>>, m, T, D)
<1> DEFINE MS == I!MigrateStatements(c)
           none == <<>>
<1>a. TodoOk(c, p, none) /\ InitScript(c, p, none, m, T, D) /\ AfterInit(c, p, T, D) /\ MigrateScript(c, p, none, m)
  BY DEF StartOk
<1>b. PICK X : MS \in Seq(X) /\ DOMAIN MS = 1 .. Len(MS) /\ Len(MS) \in Nat
  BY DEF Renderings
<1>1. ASSUME p = "init" PROVE StartOk(c, "migrate", MS, m, T, D)
  <2>1. MS \in Seq(InitSet(c) \cup MigrateSet(c))
    BY <1>b DEF MigrateSet
  <2>2. \A op, t : ~ToRun(none, op, t)
    BY DEF ToRun
  <2>3. AfterInit(c, "migrate", T, D) /\ m = {}
    BY <1>1, <1>a, <2>2 DEF InitScript, AfterInit
  <2>4. MigratedTo(c, m, 0)
    BY <1>b, <2>3 DEF MigratedTo
  <2>5. 0 \in 0 .. Len(MS) /\ Len(MS) = Len(MS) - 0 /\ \A j \in 1 .. Len(MS) : MS[j] = MS[0 + j]
    BY <1>b
  <2> HIDE DEF MS
  <2>6. MigrateScript(c, "migrate", MS, m)
    BY <2>4, <2>5 DEF MigrateScript, MS
  <2> QED
    BY <2>1, <2>3, <2>6 DEF StartOk, TodoOk, InitScript, MigrateEnded, MS
<1>2. ASSUME p = "migrate" PROVE StartOk(c, "started", none, m, T, D)
  <2>1. AfterInit(c, "started", T, D) /\ MigrateEnded(c, "started", m)
    BY <1>2, <1>a DEF AfterInit, MigrateScript, MigrateEnded
  <2> QED
    BY <1>a, <2>1 DEF StartOk, TodoOk, InitScript, MigrateScript
<1> QED
  BY <1>1, <1>2

\* A migration that fails.
LEMMA FailOne ==
    ASSUME Renderings, NEW c \in Configs, NEW s, NEW m, NEW T, NEW D,
           StartOk(c, "migrate", s, m, T, D), s # <<>>
    PROVE  StartOk(c, "migrate", I!AfterFailure(s), m, T, D)
<1> DEFINE MS == I!MigrateStatements(c)
           p == "migrate"
           s2 == I!AfterFailure(s)
<1>a. TodoOk(c, p, s) /\ AfterInit(c, p, T, D) /\ MigrateScript(c, p, s, m)
  BY DEF StartOk
<1>b. PICK X : MS \in Seq(X) /\ DOMAIN MS = 1 .. Len(MS) /\ Len(MS) \in Nat
  BY DEF Renderings
<1>1. /\ Tail(s) \in Seq(InitSet(c) \cup MigrateSet(c)) /\ Head(s) = s[1] /\ Len(s) \in Nat \ {0}
      /\ Len(Tail(s)) = Len(s) - 1 /\ \A j \in 1 .. Len(s) - 1 : Tail(s)[j] = s[j + 1]
  BY <1>a, Cut DEF TodoOk
<1>2. s2 = <<>> \/ (s2 = Tail(s) /\ s[1].lenient)
  BY <1>1 DEF I!AfterFailure
<1>3. <<>> \in Seq(InitSet(c) \cup MigrateSet(c))
  OBVIOUS
<1> HIDE DEF s2
<1>4. TodoOk(c, p, s2)
  BY <1>1, <1>2, <1>3 DEF TodoOk
<1>5. PICK k \in 0 .. Len(MS) : /\ MigratedTo(c, m, k) /\ Len(s) = Len(MS) - k
                                /\ \A j \in 1 .. Len(s) : s[j] = MS[k + j]
  BY <1>a DEF MigrateScript
<1>6. MigrateScript(c, p, s2, m)
  <2>1. CASE s2 = <<>>
    BY <1>5, <2>1 DEF MigrateScript
  <2>2. CASE s2 = Tail(s) /\ s[1].lenient
    <3> HIDE DEF MS
    <3>1. 1 \in 1 .. Len(s) /\ s[1] = MS[k + 1]
      BY <1>1, <1>5
    <3>2. Len(MS) \in Nat /\ k \in 0 .. Len(MS) /\ Len(s) = Len(MS) - k /\ Len(s) \in Nat \ {0}
      BY <1>1, <1>5, <1>b
    <3>3. k \in Nat /\ k + 1 \in 0 .. Len(MS)
      BY ONLY <3>2
    <3>4. Len(s2) = Len(s) - 1
      BY <1>1, <2>2
    <3>5. Len(s2) = Len(MS) - (k + 1)
      BY ONLY <3>2, <3>4
    <3>6. ASSUME NEW j \in 1 .. Len(s2) PROVE s2[j] = MS[k + 1 + j]
      <4>1. j \in 1 .. Len(s) - 1 /\ j + 1 \in 1 .. Len(s) /\ k + (j + 1) = k + 1 + j
        BY <3>2, <3>3, <3>4
      <4>2. s2[j] = s[j + 1] /\ s[j + 1] = MS[k + (j + 1)]
        BY <1>1, <1>5, <2>2, <4>1
      <4> QED
        BY <4>1, <4>2
    <3>7. MigratedTo(c, m, k + 1)
      <4> SUFFICES ASSUME NEW i \in DOMAIN MS
                   PROVE  /\ i > k + 1 => MS[i] \notin m
                          /\ i <= k + 1 => MS[i] \in m \/ MS[i].lenient
        BY DEF MigratedTo, MS
      <4>1. /\ i > k => MS[i] \notin m
            /\ i <= k => MS[i] \in m \/ MS[i].lenient
        BY <1>5 DEF MigratedTo, MS
      <4>2. MS[k + 1].lenient /\ i \in Nat
        BY <1>b, <2>2, <3>1
      <4> QED
        BY <3>3, <4>1, <4>2
    <3> QED
      BY <3>3, <3>5, <3>6, <3>7 DEF MigrateScript, MS
  <2> QED
    BY <1>2, <2>1, <2>2
<1> QED
  BY <1>4, <1>6, <1>a DEF StartOk, InitScript, MigrateEnded, s2

\* A step of one receiver, which leaves the others where they are.
LEMMA OneReceiverStep ==
    ASSUME TablesInv, NEW r \in Receivers, NEW c \in Configs, NEW p, NEW s, NEW m,
           config' = [config EXCEPT ![r] = c], pc' = [pc EXCEPT ![r] = p],
           todo' = [todo EXCEPT ![r] = s], migrated' = [migrated EXCEPT ![r] = m],
           There \subseteq There', Known \subseteq Known', TablesOk',
           StartOk(c, p, s, m, There', Known')
    PROVE  TablesInv'
<1>a. StartsType /\ \A o \in Receivers : StartOk(config[o], pc[o], todo[o], migrated[o], There, Known)
  BY DEF TablesInv
<1>1. StartsType'
  BY <1>a DEF StartsType
<1>2. /\ config'[r] = c /\ pc'[r] = p /\ todo'[r] = s /\ migrated'[r] = m
      /\ \A o \in Receivers \ {r} : /\ config'[o] = config[o] /\ pc'[o] = pc[o]
                                    /\ todo'[o] = todo[o] /\ migrated'[o] = migrated[o]
  BY <1>a DEF StartsType
<1>3. ASSUME NEW o \in Receivers
      PROVE  StartOk(config'[o], pc'[o], todo'[o], migrated'[o], There', Known')
  <2>1. CASE o = r
    BY <1>2, <2>1
  <2>2. CASE o # r
    <3>1. StartOk(config[o], pc[o], todo[o], migrated[o], There', Known')
      BY <1>a, OthersTables
    <3> QED
      BY <1>2, <2>2, <3>1
  <2> QED
    BY <2>1, <2>2
<1> QED
  BY <1>1, <1>3 DEF TablesInv

LEMMA TablesStep ==
    ASSUME NEW X, Files \in Seq(X), Renderings, TablesInv, I!Next PROVE TablesInv'
<1>a. StartsType /\ TablesOk /\ \A o \in Receivers : StartOk(config[o], pc[o], todo[o], migrated[o], There, Known)
  BY DEF TablesInv
<1>k. UNCHANGED <<tables, distributed, broken>> => TablesOk' /\ There' = There /\ Known' = Known
  BY <1>a DEF TablesOk, There, Known, I!Tables
<1>s. \A o \in Receivers : /\ config[o] \in Configs /\ config = [config EXCEPT ![o] = config[o]]
                           /\ pc = [pc EXCEPT ![o] = pc[o]] /\ todo = [todo EXCEPT ![o] = todo[o]]
                           /\ migrated = [migrated EXCEPT ![o] = migrated[o]]
  BY <1>a DEF StartsType
<1>1. ASSUME NEW r \in Receivers, NEW c \in Configs, I!Start(r, c) PROVE TablesInv'
  <2>1. /\ pc' = [pc EXCEPT ![r] = "database"] /\ config' = [config EXCEPT ![r] = c]
        /\ migrated' = [migrated EXCEPT ![r] = {}] /\ pc[r] = "stopped"
        /\ UNCHANGED <<todo, tables, distributed, broken>>
    BY <1>1 DEF I!Start
  <2>2. todo[r] = <<>>
    BY <1>a, <2>1 DEF StartOk
  <2>3. StartOk(c, "database", todo[r], {}, There', Known')
    BY <2>2 DEF StartOk, TodoOk, InitScript, AfterInit, MigrateScript, MigrateEnded
  <2> QED
    BY <1>k, <1>s, <2>1, <2>3, OneReceiverStep
<1>2. ASSUME NEW r \in Receivers, I!CreateDatabase(r) PROVE TablesInv'
  <2> DEFINE c == config[r]
             s == I!InitStatements(c)
  <2>1. /\ pc[r] = "database" /\ pc' = [pc EXCEPT ![r] = "init"] /\ todo' = [todo EXCEPT ![r] = s]
        /\ UNCHANGED <<config, tables, distributed, migrated, broken>>
    BY <1>2 DEF I!CreateDatabase
  <2>2. migrated[r] = {}
    BY <1>a, <2>1 DEF StartOk
  <2>3. s \in Seq(InitSet(c)) /\ (\A t \in I!Tables : ToRun(s, "create", t))
        /\ (c.cluster => \A t \in I!Tables : ToRun(s, "distribute", t))
    BY InitStatementsFacts
  <2> HIDE DEF s
  <2>4. TodoOk(c, "init", s)
    BY <2>3 DEF TodoOk
  <2>5. StartOk(c, "init", s, migrated[r], There', Known')
    BY <2>2, <2>3, <2>4 DEF StartOk, InitScript, AfterInit, MigrateScript, MigrateEnded
  <2>p. PICK c0, s0, m0 : c0 = c /\ s0 = s /\ m0 = migrated[r]
    OBVIOUS
  <2>q. /\ c0 \in Configs /\ config' = [config EXCEPT ![r] = c0] /\ pc' = [pc EXCEPT ![r] = "init"]
        /\ todo' = [todo EXCEPT ![r] = s0] /\ migrated' = [migrated EXCEPT ![r] = m0]
        /\ StartOk(c0, "init", s0, m0, There', Known')
    BY <1>s, <2>1, <2>5, <2>p
  <2>t. TablesOk' /\ There \subseteq There' /\ Known \subseteq Known'
    BY <1>k, <2>1
  <2> QED
    BY <2>q, <2>t, OneReceiverStep
<1>3. ASSUME NEW r \in Receivers, I!RunStatement(r) PROVE TablesInv'
  <2> DEFINE c == config[r]
             u == Head(todo[r])
             m2 == IF pc[r] = "migrate" THEN migrated[r] \cup {u} ELSE migrated[r]
  <2>1. /\ pc[r] \in {"init", "migrate"} /\ todo[r] # <<>> /\ I!Execute(r, u)
        /\ todo' = [todo EXCEPT ![r] = Tail(todo[r])]
        /\ migrated' = (IF pc[r] = "migrate" THEN [migrated EXCEPT ![r] = migrated[r] \cup {u}] ELSE migrated)
        /\ UNCHANGED <<config, pc>>
    BY <1>3 DEF I!RunStatement
  <2>2. migrated' = [migrated EXCEPT ![r] = m2]
    BY <1>s, <2>1
  <2>3. /\ DOMAIN tables' = DOMAIN tables \cup (IF u.op = "create" THEN {u.table} ELSE {})
        /\ \A t \in DOMAIN tables : tables'[t] = tables[t]
        /\ u.op = "create" /\ u.table \notin DOMAIN tables =>
             tables'[u.table] = [ttl |-> u.ttl, config |-> c]
        /\ Known \subseteq Known'
        /\ u.op = "distribute" => u.table \in Known'
    BY <2>1, ExecuteFacts
  <2>4. StartOk(c, pc[r], todo[r], migrated[r], There, Known) /\ c \in Configs
    BY <1>a, <1>s
  <2>5. u \in InitSet(c) \cup MigrateSet(c)
    <3>1. todo[r] \in Seq(InitSet(c) \cup MigrateSet(c))
      BY <2>4 DEF StartOk, TodoOk
    <3> QED
      BY <2>1, <3>1, Cut
  <2>6. /\ u.op = "create" => u \in InitSet(c)
        /\ u \in InitSet(c) => /\ u.table \in I!Tables
                               /\ u.op = "create" /\ u.table \notin WithoutTTL => u.ttl = I!TTLFor(c, u.table)
    BY <2>4, <2>5, StatementFacts
  <2>7. There \subseteq There' /\ (u.op = "create" => u.table \in There')
    BY <2>3 DEF There
  <2>8. StartOk(c, pc[r], Tail(todo[r]), m2, There', Known')
    BY <2>1, <2>3, <2>4, <2>7, RunOne
  <2> HIDE DEF u
  <2>9. TablesOk'
    <3>1. \A t \in DOMAIN tables' : t \in DOMAIN tables \/ (u.op = "create" /\ t = u.table)
      BY <2>3
    <3>2. ASSUME NEW t \in DOMAIN tables' \ WithoutTTL
          PROVE  tables'[t].ttl = I!TTLFor(tables'[t].config, t)
      <4>1. CASE t \in DOMAIN tables
        <5>1. tables'[t] = tables[t] /\ tables[t].ttl = I!TTLFor(tables[t].config, t)
          BY <1>a, <2>3, <4>1 DEF TablesOk
        <5> QED
          BY <5>1
      <4>2. CASE t \notin DOMAIN tables
        <5>1. u.op = "create" /\ t = u.table
          BY <3>1, <4>2
        <5>2. tables'[t] = [ttl |-> u.ttl, config |-> c] /\ u.ttl = I!TTLFor(c, t)
          BY <2>3, <2>6, <4>2, <5>1
        <5> HIDE DEF c
        <5> QED
          BY <5>2
      <4> QED
        BY <4>1, <4>2
    <3>3. DOMAIN tables' \subseteq I!Tables
      BY <1>a, <2>6, <3>1 DEF TablesOk
    <3> QED
      BY <3>2, <3>3 DEF TablesOk, I!Tables, I!TTLFor
  <2> HIDE DEF m2
  <2>10. config' = [config EXCEPT ![r] = c] /\ pc' = [pc EXCEPT ![r] = pc[r]]
    BY <1>s, <2>1
  <2>p. PICK c0, p0, s0, n0 : c0 = c /\ p0 = pc[r] /\ s0 = Tail(todo[r]) /\ n0 = m2
    OBVIOUS
  <2>q. /\ c0 \in Configs /\ config' = [config EXCEPT ![r] = c0] /\ pc' = [pc EXCEPT ![r] = p0]
        /\ todo' = [todo EXCEPT ![r] = s0] /\ migrated' = [migrated EXCEPT ![r] = n0]
        /\ StartOk(c0, p0, s0, n0, There', Known')
    BY <2>1, <2>2, <2>4, <2>8, <2>10, <2>p
  <2> QED
    BY <2>3, <2>7, <2>9, <2>q, OneReceiverStep
<1>4. ASSUME NEW r \in Receivers, I!EndScript(r) PROVE TablesInv'
  <2> DEFINE c == config[r]
             MS == I!MigrateStatements(c)
  <2>1. /\ todo[r] = <<>> /\ UNCHANGED <<config, tables, distributed, migrated, broken>>
        /\ \/ /\ pc[r] = "init" /\ pc' = [pc EXCEPT ![r] = "migrate"] /\ todo' = [todo EXCEPT ![r] = MS]
           \/ pc[r] = "migrate" /\ pc' = [pc EXCEPT ![r] = "started"] /\ UNCHANGED todo
    BY <1>4 DEF I!EndScript
  <2>2. c \in Configs /\ StartOk(c, pc[r], <<>>, migrated[r], There, Known)
    BY <1>a, <1>s, <2>1
  <2>3. /\ pc[r] = "init" => StartOk(c, "migrate", MS, migrated[r], There, Known)
        /\ pc[r] = "migrate" => StartOk(c, "started", <<>>, migrated[r], There, Known)
    BY <2>2, EndOne
  <2>4. TablesOk' /\ There' = There /\ Known' = Known
    BY <1>k, <2>1
  <2> HIDE DEF MS
  <2>5. config' = [config EXCEPT ![r] = c] /\ migrated' = [migrated EXCEPT ![r] = migrated[r]]
    BY <1>s, <2>1
  <2>6. CASE pc[r] = "init"
    <3>1. /\ pc' = [pc EXCEPT ![r] = "migrate"] /\ todo' = [todo EXCEPT ![r] = MS]
          /\ StartOk(c, "migrate", MS, migrated[r], There', Known')
      BY <2>1, <2>3, <2>4, <2>6
    <3> QED
      BY <2>2, <2>4, <2>5, <3>1, OneReceiverStep
  <2>7. CASE pc[r] = "migrate"
    <3>1. /\ pc' = [pc EXCEPT ![r] = "started"] /\ todo' = [todo EXCEPT ![r] = todo[r]]
          /\ StartOk(c, "started", todo[r], migrated[r], There', Known')
      BY <1>s, <2>1, <2>3, <2>4, <2>7
    <3> QED
      BY <2>2, <2>4, <2>5, <3>1, OneReceiverStep
  <2> QED
    BY <2>1, <2>6, <2>7
<1>5. ASSUME NEW r \in Receivers, I!MigrationFails(r) PROVE TablesInv'
  <2> DEFINE c == config[r]
             s2 == I!AfterFailure(todo[r])
  <2>1. /\ pc[r] = "migrate" /\ todo[r] # <<>> /\ todo' = [todo EXCEPT ![r] = s2]
        /\ UNCHANGED <<config, pc, tables, distributed, migrated, broken>>
    BY <1>5 DEF I!MigrationFails
  <2>2. c \in Configs /\ StartOk(c, "migrate", todo[r], migrated[r], There, Known)
    BY <1>a, <1>s, <2>1
  <2>3. StartOk(c, "migrate", s2, migrated[r], There, Known)
    BY <2>1, <2>2, FailOne
  <2> HIDE DEF s2
  <2>4. TablesOk' /\ There' = There /\ Known' = Known
    BY <1>k, <2>1
  <2>5. /\ config' = [config EXCEPT ![r] = c] /\ migrated' = [migrated EXCEPT ![r] = migrated[r]]
        /\ pc' = [pc EXCEPT ![r] = "migrate"]
    BY <1>s, <2>1
  <2>6. StartOk(c, "migrate", s2, migrated[r], There', Known')
    BY <2>3, <2>4
  <2>p. PICK c0, s0, m0 : c0 = c /\ s0 = s2 /\ m0 = migrated[r]
    OBVIOUS
  <2>q. /\ c0 \in Configs /\ config' = [config EXCEPT ![r] = c0] /\ pc' = [pc EXCEPT ![r] = "migrate"]
        /\ todo' = [todo EXCEPT ![r] = s0] /\ migrated' = [migrated EXCEPT ![r] = m0]
        /\ StartOk(c0, "migrate", s0, m0, There', Known')
    BY <2>1, <2>2, <2>5, <2>6, <2>p
  <2> QED
    BY <2>4, <2>q, OneReceiverStep
<1>6. ASSUME NEW r \in Receivers, I!Stop(r) PROVE TablesInv'
  <2>1. /\ pc' = [pc EXCEPT ![r] = "stopped"] /\ todo' = [todo EXCEPT ![r] = <<>>]
        /\ UNCHANGED <<config, tables, distributed, migrated, broken>>
    BY <1>6 DEF I!Stop
  <2>2. StartOk(config[r], "stopped", <<>>, migrated[r], There', Known')
    BY DEF StartOk, TodoOk, InitScript, AfterInit, MigrateScript, MigrateEnded
  <2>3. config' = [config EXCEPT ![r] = config[r]] /\ migrated' = [migrated EXCEPT ![r] = migrated[r]]
    BY <1>s, <2>1
  <2>p. PICK c0, m0 : c0 = config[r] /\ m0 = migrated[r]
    OBVIOUS
  <2>q. /\ c0 \in Configs /\ config' = [config EXCEPT ![r] = c0] /\ pc' = [pc EXCEPT ![r] = "stopped"]
        /\ todo' = [todo EXCEPT ![r] = <<>>] /\ migrated' = [migrated EXCEPT ![r] = m0]
        /\ StartOk(c0, "stopped", <<>>, m0, There', Known')
    BY <1>s, <2>1, <2>2, <2>3, <2>p
  <2>t. TablesOk' /\ There \subseteq There' /\ Known \subseteq Known'
    BY <1>k, <2>1
  <2> QED
    BY <2>q, <2>t, OneReceiverStep
<1> QED
  BY <1>1, <1>2, <1>3, <1>4, <1>5, <1>6 DEF I!Next

\* However often starting was cut short, and whatever other receivers run meanwhile: a
\* receiver that runs finds all its tables, their TTL that of the configuration that
\* created them if not 0, and the migrations before the first that failed were applied.
THEOREM TablesReadyTheorem == Spec => []TablesReady
<1> DEFINE X == {Files[i] : i \in DOMAIN Files}
<1>0. Files \in Seq(X) /\ Renderings
  <2>1. Files \in Seq(X)
    BY ScriptsAssumption
  <2>2. ASSUME NEW c \in Configs
        PROVE  \E Y : /\ I!MigrateStatements(c) \in Seq(Y)
                      /\ \A s \in Y : s.op # "create"
                      /\ \A i, j \in 1 .. Len(I!MigrateStatements(c)) :
                           I!MigrateStatements(c)[i] = I!MigrateStatements(c)[j] => i = j
    <3> DEFINE script == I!MigrateStatements(c)
              Y == {script[i] : i \in DOMAIN script}
    <3>1. /\ script \in Seq(Y)
          /\ \A i \in DOMAIN script : script[i].op # "create"
          /\ \A i, j \in DOMAIN script : script[i] = script[j] => i = j
      BY ScriptsAssumption DEF I!MigrateStatements
    <3>2. \A s \in Y : s.op # "create"
      BY <3>1
    <3> HIDE DEF script, Y
    <3>3. DOMAIN script = 1 .. Len(script)
      BY <3>1
    <3> QED
      BY <3>1, <3>2, <3>3 DEF script
  <2> QED
    BY <2>1, <2>2 DEF Renderings
<1> HIDE DEF X
<1>1. Init => TablesInv
  <2> SUFFICES ASSUME I!Init PROVE TablesInv
    BY DEF Init
  <2>1. /\ config \in [Receivers -> Configs] /\ pc = [r \in Receivers |-> "stopped"]
        /\ todo = [r \in Receivers |-> <<>>] /\ migrated = [r \in Receivers |-> {}] /\ tables = <<>>
    BY DEF I!Init
  <2>2. DOMAIN (<<>>) = {}
    OBVIOUS
  <2>3. StartsType /\ TablesOk
    BY <2>1, <2>2 DEF StartsType, TablesOk
  <2>4. \A r \in Receivers : StartOk(config[r], "stopped", <<>>, {}, There, Known)
    BY DEF StartOk, TodoOk, InitScript, AfterInit, MigrateScript, MigrateEnded
  <2> QED
    BY <2>1, <2>3, <2>4 DEF TablesInv
<1>2. TablesInv /\ [Next]_vars => TablesInv'
  <2>1. UNCHANGED iVars => (TablesInv => TablesInv')
    BY DEF iVars, TablesInv, StartsType, TablesOk, There, Known, I!Tables, I!TTLFor
  <2> QED
    BY <1>0, <2>1, TablesStep, StepOfEach
<1>3. TablesInv => TablesReady
  <2> SUFFICES ASSUME TablesInv, NEW r \in Receivers, pc[r] = "started"
               PROVE  LET script == I!MigrateStatements(config[r])
                      IN  /\ DOMAIN tables = I!Tables
                          /\ config[r].cluster => I!Tables \ DOMAIN distributed \subseteq broken
                          /\ \A t \in I!Tables \ WithoutTTL :
                               LET days == I!TTLFor(tables[t].config, t)
                               IN  days > 0 => tables[t].ttl = days
                          /\ \E n \in 0 .. Len(script) :
                               \A i \in DOMAIN script :
                                  (i > n => script[i] \notin migrated[r]) /\
                                  (i <= n => script[i] \in migrated[r] \/ script[i].lenient)
    BY DEF TablesReady, I!TablesReady
  <2>1. TablesOk /\ AfterInit(config[r], "started", There, Known) /\ MigrateEnded(config[r], "started", migrated[r])
    BY DEF TablesInv, StartOk
  <2>2. \E n \in 0 .. Len(I!MigrateStatements(config[r])) : MigratedTo(config[r], migrated[r], n)
    BY <2>1 DEF MigrateEnded
  <2>3. /\ DOMAIN tables = I!Tables
        /\ config[r].cluster => I!Tables \ DOMAIN distributed \subseteq broken
    BY <2>1 DEF AfterInit, TablesOk, There, Known
  <2> QED
    BY <2>1, <2>2, <2>3 DEF TablesOk, MigratedTo
<1> QED
  BY <1>1, <1>2, <1>3, PTL DEF Spec

-----------------------------------------------------------------------------
(* SampledIds                                                              *)

Knows(a, id) == id \in DOMAIN traceIds[S!HomeOf(a)]
Passed(a, id) == Knows(a, id) /\ traceIds[S!HomeOf(a)][id] <= since[a]

IdsType == /\ Home \in [Agents -> Receivers]
           /\ index \in Nat
           /\ consumer = [r \in Receivers |-> consumer[r]]
           /\ traceIds = [r \in Receivers |-> traceIds[r]]
           /\ \A r \in Receivers : \A id \in DOMAIN traceIds[r] : traceIds[r][id] \in Nat \ {0}
           /\ report = [a \in Agents |-> report[a]]
           /\ \A a \in Agents : report[a].pc = "answer" => report[a].end \in Int
           /\ since \in [Agents -> Int]
           /\ offered \in [Agents -> [Ids -> Nat]]
\* What is about to be stored is not known, for only its consumer stores.
ConsumerOk == \A r \in Receivers : consumer[r].pc = "store" =>
                consumer[r].id \notin DOMAIN traceIds[r] /\ consumer[r].index \in Nat \ {0}
\* An id that was offered is behind the agent's window.
OfferedPassed == \A a \in Agents, id \in Ids :
                   offered[a][id] > 0 /\ <<a, id>> \notin mayRepeat => Passed(a, id)
IdsInv == IdsType /\ ConsumerOk /\ OfferedPassed /\ S!IdsOffered

LEMMA HomeRuns ==
    ASSUME IdsType, NEW a \in Agents PROVE S!HomeOf(a) \in Receivers
<1>1. (CHOOSE b \in Agents : TRUE) \in Agents
  OBVIOUS
<1> QED
  BY <1>1 DEF IdsType, S!HomeOf

\* Steps that leave what is known, and how far the agents are.
LEMMA IdsUntouched ==
    ASSUME IdsInv, IdsType', ConsumerOk',
           UNCHANGED <<local, traceIds, since, offered, late, mayRepeat>>
    PROVE  IdsInv'
<1>1. \A a : S!HomeOf(a)' = S!HomeOf(a)
  BY DEF S!HomeOf
<1>2. \A a, id : Passed(a, id)' <=> Passed(a, id)
  BY <1>1 DEF Passed, Knows
<1>3. OfferedPassed'
  BY <1>2 DEF IdsInv, OfferedPassed
<1>4. S!IdsOffered'
  BY <1>1 DEF IdsInv, S!IdsOffered
<1> QED
  BY <1>3, <1>4 DEF IdsInv

LEMMA AnswerStep ==
    ASSUME IdsInv, NEW a \in Agents, S!Answer(a) PROVE IdsInv'
<1>a. IdsType /\ ConsumerOk /\ OfferedPassed /\ S!IdsOffered
  BY DEF IdsInv
<1>1. /\ report[a].pc = "answer" /\ since' = [since EXCEPT ![a] = report[a].end]
      /\ report' = [report EXCEPT ![a] = S!Idle]
      /\ late' = late \cup ({a} \X (S!InWindow(a) \cap report[a].ignored))
      /\ mayRepeat' = IF report[a].end < since[a] THEN mayRepeat \cup ({a} \X Ids) ELSE mayRepeat
      /\ offered' = [offered EXCEPT ![a] =
           [id \in Ids |-> IF id \in S!TraceIdsFor(a) /\ @[id] < 2 THEN @[id] + 1 ELSE @[id]]]
      /\ UNCHANGED <<local, index, channel, consumer, traceIds, reports>>
  BY DEF S!Answer
<1>2. PICK end \in Int : end = report[a].end
  BY <1>a, <1>1 DEF IdsType
<1>3. PICK known : known = traceIds[S!HomeOf(a)]
  OBVIOUS
<1>4. \A id \in DOMAIN known : known[id] \in Nat \ {0}
  BY <1>a, <1>3, HomeRuns DEF IdsType
<1>5. since[a] \in Int /\ offered[a] \in [Ids -> Nat]
  BY <1>a DEF IdsType
<1>6. /\ since' \in [Agents -> Int] /\ since'[a] = end
      /\ \A b \in Agents \ {a} : since'[b] = since[b]
  BY <1>a, <1>1, <1>2 DEF IdsType
<1>7. \A id \in Ids : id \in S!InWindow(a) <=> id \in DOMAIN known /\ since[a] < known[id] /\ known[id] <= end
  <2>1. \A id \in DOMAIN known : known[id] \in S!Window(since[a], end) <=> since[a] < known[id] /\ known[id] <= end
    BY <1>4, <1>5 DEF S!Window
  <2>2. end = -1 => \A id \in DOMAIN known : ~(known[id] <= end)
    BY <1>4
  <2> QED
    BY <1>2, <1>3, <2>1, <2>2 DEF S!InWindow
<1>8. \A id : id \in S!TraceIdsFor(a) <=> id \in S!InWindow(a) /\ id \notin report[a].ignored
  BY DEF S!TraceIdsFor
<1>9. /\ offered' \in [Agents -> [Ids -> Nat]]
      /\ \A b \in Agents \ {a} : offered'[b] = offered[b]
      /\ \A id \in Ids : IF id \in S!TraceIdsFor(a)
                         THEN offered'[a][id] > 0 /\ (offered'[a][id] > 1 => offered[a][id] > 0)
                         ELSE offered'[a][id] = offered[a][id]
  <2> DEFINE new == [id \in Ids |-> IF id \in S!TraceIdsFor(a) /\ offered[a][id] < 2
                                    THEN offered[a][id] + 1 ELSE offered[a][id]]
  <2>1. \A id \in Ids : offered[a][id] \in Nat
    BY <1>5
  <2>2. ASSUME NEW id \in Ids
        PROVE  /\ new[id] \in Nat
               /\ id \in S!TraceIdsFor(a) => new[id] > 0 /\ (new[id] > 1 => offered[a][id] > 0)
               /\ id \notin S!TraceIdsFor(a) => new[id] = offered[a][id]
    <3>1. new[id] = IF id \in S!TraceIdsFor(a) /\ offered[a][id] < 2
                    THEN offered[a][id] + 1 ELSE offered[a][id]
      OBVIOUS
    <3> HIDE DEF new
    <3> QED
      BY <2>1, <3>1
  <2>3. new \in [Ids -> Nat]
    BY <2>2
  <2>4. offered' = [offered EXCEPT ![a] = new]
    BY <1>1
  <2> HIDE DEF new
  <2>5. offered'[a] = new /\ offered' \in [Agents -> [Ids -> Nat]] /\ \A b \in Agents \ {a} : offered'[b] = offered[b]
    BY <1>a, <2>3, <2>4 DEF IdsType
  <2> QED
    BY <2>2, <2>5
<1>10. \A b : S!HomeOf(b)' = S!HomeOf(b)
  BY <1>1 DEF S!HomeOf
<1>11. IdsType'
  <2>1. report' = [b \in Agents |-> report'[b]] /\ \A b \in Agents : report'[b].pc = "answer" => report'[b].end \in Int
    BY <1>a, <1>1 DEF IdsType, S!Idle
  <2> QED
    BY <1>a, <1>1, <1>6, <1>9, <2>1 DEF IdsType
<1>12. ConsumerOk'
  BY <1>a, <1>1 DEF ConsumerOk
<1>13. ASSUME NEW b \in Agents, NEW id \in Ids, offered'[b][id] > 0, <<b, id>> \notin mayRepeat'
       PROVE  Passed(b, id)'
  <2>1. <<b, id>> \notin mayRepeat
    BY <1>1, <1>13
  <2>2. CASE b # a
    <3>1. Passed(b, id)
      BY <1>a, <1>9, <1>13, <2>1, <2>2 DEF OfferedPassed
    <3> QED
      BY <1>1, <1>6, <1>10, <2>2, <3>1 DEF Passed, Knows
  <2>3. CASE b = a
    <3>1. ~(end < since[a])
      BY <1>1, <1>2, <1>13, <2>3
    <3>2. id \in DOMAIN known /\ known[id] <= end
      <4>1. CASE id \in S!TraceIdsFor(a)
        BY <1>7, <1>8, <4>1
      <4>2. CASE id \notin S!TraceIdsFor(a)
        <5>1. Passed(a, id)
          BY <1>a, <1>9, <1>13, <2>1, <2>3, <4>2 DEF OfferedPassed
        <5>2. id \in DOMAIN known /\ known[id] <= since[a]
          BY <1>3, <5>1 DEF Passed, Knows
        <5> QED
          BY <1>4, <1>5, <3>1, <5>2
      <4> QED
        BY <4>1, <4>2
    <3> QED
      BY <1>1, <1>3, <1>6, <1>10, <2>3, <3>2 DEF Passed, Knows
  <2> QED
    BY <2>2, <2>3
<1>14. OfferedPassed'
  BY <1>13 DEF OfferedPassed
<1>15. ASSUME NEW b \in Agents, NEW id \in Ids
       PROVE  /\ Passed(b, id)' => offered'[b][id] > 0 \/ <<b, id>> \in late'
              /\ offered'[b][id] > 1 => <<b, id>> \in mayRepeat'
  <2>1. late \subseteq late' /\ mayRepeat \subseteq mayRepeat'
    BY <1>1
  <2>2. /\ Passed(b, id) => offered[b][id] > 0 \/ <<b, id>> \in late
        /\ offered[b][id] > 1 => <<b, id>> \in mayRepeat
    BY <1>a DEF S!IdsOffered, Passed, Knows
  <2>3. CASE b # a
    <3>1. Passed(b, id)' <=> Passed(b, id)
      BY <1>1, <1>6, <1>10, <2>3 DEF Passed, Knows
    <3> QED
      BY <1>9, <2>1, <2>2, <2>3, <3>1
  <2>4. CASE b = a
    <3>1. Passed(a, id)' <=> id \in DOMAIN known /\ known[id] <= end
      BY <1>1, <1>3, <1>6, <1>10 DEF Passed, Knows
    <3>2. ASSUME Passed(a, id)' PROVE offered'[a][id] > 0 \/ <<a, id>> \in late'
      <4>1. CASE id \in S!InWindow(a)
        BY <1>1, <1>8, <1>9, <4>1
      <4>2. CASE id \notin S!InWindow(a)
        <5>1. known[id] <= since[a]
          BY <1>4, <1>5, <1>7, <3>1, <3>2, <4>2
        <5>2. Passed(a, id)
          BY <1>3, <3>1, <3>2, <5>1 DEF Passed, Knows
        <5>3. id \notin S!TraceIdsFor(a)
          BY <1>8, <4>2
        <5> QED
          BY <1>9, <2>1, <2>2, <2>4, <5>2, <5>3
      <4> QED
        BY <4>1, <4>2
    <3>3. ASSUME offered'[a][id] > 1 PROVE <<a, id>> \in mayRepeat'
      <4>1. CASE id \in S!TraceIdsFor(a)
        <5>1. offered[a][id] > 0
          BY <1>9, <3>3, <4>1
        <5>2. ~Passed(a, id)
          BY <1>3, <1>4, <1>5, <1>7, <1>8, <4>1 DEF Passed, Knows
        <5> QED
          BY <1>a, <2>1, <5>1, <5>2 DEF OfferedPassed
      <4>2. CASE id \notin S!TraceIdsFor(a)
        BY <1>9, <2>1, <2>2, <2>4, <3>3, <4>2
      <4> QED
        BY <4>1, <4>2
    <3> QED
      BY <2>4, <3>2, <3>3
  <2> QED
    BY <2>3, <2>4
<1>16. S!IdsOffered'
  BY <1>15 DEF S!IdsOffered, Passed, Knows
<1> QED
  BY <1>11, <1>12, <1>14, <1>16 DEF IdsInv

LEMMA StoreStep ==
    ASSUME IdsInv, NEW r \in Receivers, S!Store(r) PROVE IdsInv'
<1>a. IdsType /\ ConsumerOk /\ OfferedPassed /\ S!IdsOffered
  BY DEF IdsInv
<1>0. consumer[r].pc = "store" /\ UNCHANGED <<local, index, channel, report, since, offered, mayRepeat, reports>>
  BY DEF S!Store
<1>x. PICK x : x = consumer[r].id
  OBVIOUS
<1>1. PICK i \in Nat \ {0} : /\ x = consumer[r].id /\ i = consumer[r].index
                             /\ x \notin DOMAIN traceIds[r]
  <2>1. consumer[r].id \notin DOMAIN traceIds[r] /\ consumer[r].index \in Nat \ {0}
    BY <1>a, <1>0 DEF ConsumerOk
  <2> QED
    BY <1>x, <2>1
<1>2. /\ traceIds' = [traceIds EXCEPT ![r] = [k \in DOMAIN traceIds[r] \cup {x} |-> IF k = x THEN i ELSE traceIds[r][k]]]
      /\ late' = late \cup ({a \in Agents : S!HomeOf(a) = r /\ since[a] >= i} \X {x})
      /\ consumer' = [consumer EXCEPT ![r] = S!Idle]
  BY <1>1 DEF S!Store
<1>3. /\ traceIds' = [q \in Receivers |-> traceIds'[q]]
      /\ DOMAIN traceIds'[r] = DOMAIN traceIds[r] \cup {x}
      /\ \A k \in DOMAIN traceIds[r] : traceIds'[r][k] = traceIds[r][k]
      /\ traceIds'[r][x] = i
      /\ \A q \in Receivers \ {r} : traceIds'[q] = traceIds[q]
  BY <1>a, <1>1, <1>2 DEF IdsType
<1>4. /\ consumer' = [q \in Receivers |-> consumer'[q]]
      /\ consumer'[r] = S!Idle /\ \A q \in Receivers \ {r} : consumer'[q] = consumer[q]
  BY <1>a, <1>2 DEF IdsType
<1>5. \A b : S!HomeOf(b)' = S!HomeOf(b)
  BY <1>0 DEF S!HomeOf
<1>6. IdsType'
  BY <1>a, <1>0, <1>1, <1>3, <1>4 DEF IdsType
<1>7. ConsumerOk'
  BY <1>a, <1>3, <1>4 DEF ConsumerOk, S!Idle
<1>8. ASSUME NEW a \in Agents, NEW id \in Ids
      PROVE  /\ Passed(a, id) => Passed(a, id)'
             /\ Passed(a, id)' => Passed(a, id) \/ <<a, id>> \in late'
  <2>1. PICK h \in Receivers : h = S!HomeOf(a)
    BY <1>a, HomeRuns
  <2>2. Passed(a, id) <=> id \in DOMAIN traceIds[h] /\ traceIds[h][id] <= since[a]
    BY <2>1 DEF Passed, Knows
  <2>3. Passed(a, id)' <=> id \in DOMAIN traceIds'[h] /\ traceIds'[h][id] <= since[a]
    BY <1>0, <1>5, <2>1 DEF Passed, Knows
  <2>4. CASE h # r
    BY <1>3, <2>2, <2>3, <2>4
  <2>5. CASE h = r /\ id # x
    BY <1>3, <2>2, <2>3, <2>5
  <2>6. CASE h = r /\ id = x
    <3>1. ~Passed(a, id)
      BY <1>1, <2>2, <2>6
    <3>2. Passed(a, id)' => since[a] >= i
      <4>1. since[a] \in Int
        BY <1>a DEF IdsType
      <4> QED
        BY <1>1, <1>3, <2>3, <2>6, <4>1
    <3> QED
      BY <1>2, <2>1, <2>6, <3>1, <3>2
  <2> QED
    BY <2>4, <2>5, <2>6
<1>9. OfferedPassed'
  BY <1>a, <1>0, <1>8 DEF OfferedPassed
<1>10. S!IdsOffered'
  <2> SUFFICES ASSUME NEW a \in Agents, NEW id \in Ids
               PROVE  /\ Passed(a, id)' => offered'[a][id] > 0 \/ <<a, id>> \in late'
                      /\ offered'[a][id] > 1 => <<a, id>> \in mayRepeat'
    BY DEF S!IdsOffered, Passed, Knows
  <2>1. /\ Passed(a, id) => offered[a][id] > 0 \/ <<a, id>> \in late
        /\ offered[a][id] > 1 => <<a, id>> \in mayRepeat
    BY <1>a DEF S!IdsOffered, Passed, Knows
  <2> QED
    BY <1>0, <1>2, <1>8, <2>1
<1> QED
  BY <1>6, <1>7, <1>9, <1>10 DEF IdsInv

LEMMA CleanStep ==
    ASSUME IdsInv, NEW r \in Receivers, NEW x \in Ids, S!CleanExpireTraceId(r, x) PROVE IdsInv'
<1>a. IdsType /\ ConsumerOk /\ OfferedPassed /\ S!IdsOffered
  BY DEF IdsInv
<1>1. /\ traceIds' = [traceIds EXCEPT ![r] = [k \in DOMAIN @ \ {x} |-> @[k]]]
      /\ mayRepeat' = mayRepeat \cup (Agents \X {x})
      /\ UNCHANGED <<local, index, channel, consumer, report, since, offered, late, reports>>
  BY DEF S!CleanExpireTraceId
<1>2. /\ traceIds' = [q \in Receivers |-> traceIds'[q]]
      /\ DOMAIN traceIds'[r] = DOMAIN traceIds[r] \ {x}
      /\ \A k \in DOMAIN traceIds[r] \ {x} : traceIds'[r][k] = traceIds[r][k]
      /\ \A q \in Receivers \ {r} : traceIds'[q] = traceIds[q]
  BY <1>a, <1>1 DEF IdsType
<1>3. \A b : S!HomeOf(b)' = S!HomeOf(b)
  BY <1>1 DEF S!HomeOf
<1>4. IdsType'
  BY <1>a, <1>1, <1>2 DEF IdsType
<1>5. ConsumerOk'
  BY <1>a, <1>1, <1>2 DEF ConsumerOk
<1>6. ASSUME NEW a \in Agents, NEW id \in Ids
      PROVE  (Passed(a, id)' => Passed(a, id)) /\ (id # x => (Passed(a, id) => Passed(a, id)'))
  <2>1. PICK h \in Receivers : h = S!HomeOf(a)
    BY <1>a, HomeRuns
  <2>2. Passed(a, id) <=> id \in DOMAIN traceIds[h] /\ traceIds[h][id] <= since[a]
    BY <2>1 DEF Passed, Knows
  <2>3. Passed(a, id)' <=> id \in DOMAIN traceIds'[h] /\ traceIds'[h][id] <= since[a]
    BY <1>1, <1>3, <2>1 DEF Passed, Knows
  <2> QED
    BY <1>2, <2>2, <2>3
<1>7. OfferedPassed'
  BY <1>a, <1>1, <1>6 DEF OfferedPassed
<1>8. S!IdsOffered'
  <2> SUFFICES ASSUME NEW a \in Agents, NEW id \in Ids
               PROVE  /\ Passed(a, id)' => offered'[a][id] > 0 \/ <<a, id>> \in late'
                      /\ offered'[a][id] > 1 => <<a, id>> \in mayRepeat'
    BY DEF S!IdsOffered, Passed, Knows
  <2>1. /\ Passed(a, id) => offered[a][id] > 0 \/ <<a, id>> \in late
        /\ offered[a][id] > 1 => <<a, id>> \in mayRepeat
    BY <1>a DEF S!IdsOffered, Passed, Knows
  <2> QED
    BY <1>1, <1>6, <2>1
<1> QED
  BY <1>4, <1>5, <1>7, <1>8 DEF IdsInv

LEMMA IdsStep == ASSUME IdsInv, S!Next PROVE IdsInv'
<1>a. IdsType /\ ConsumerOk
  BY DEF IdsInv
<1>1. ASSUME NEW a \in Agents, NEW ids, S!QueryProfiles(a, ids) PROVE IdsInv'
  <2>1. /\ report' = [report EXCEPT ![a] = [pc |-> "index", ignored |-> S!Range(ids)]]
        /\ UNCHANGED <<local, index, consumer, traceIds, since, offered, late, mayRepeat>>
    BY <1>1 DEF S!QueryProfiles
  <2>2. report' = [b \in Agents |-> report'[b]] /\ \A b \in Agents : report'[b].pc = "answer" => report'[b].end \in Int
    BY <1>a, <2>1 DEF IdsType
  <2>3. IdsType' /\ ConsumerOk'
    BY <1>a, <2>1, <2>2 DEF IdsType, ConsumerOk
  <2> QED
    BY <2>1, <2>3, IdsUntouched
<1>2. ASSUME NEW a \in Agents, S!GetTraceIndex(a) PROVE IdsInv'
  <2>1. PICK end \in IF local THEN {index} ELSE {IF index = 0 THEN -1 ELSE index, -1} :
          report' = [report EXCEPT ![a] = [pc |-> "answer", ignored |-> @.ignored, end |-> end]]
    BY <1>2 DEF S!GetTraceIndex
  <2>2. UNCHANGED <<local, index, channel, consumer, traceIds, since, offered, late, mayRepeat, reports>>
    BY <1>2 DEF S!GetTraceIndex
  <2>3. end \in Int
    BY <1>a DEF IdsType
  <2>4. report' = [b \in Agents |-> report'[b]] /\ \A b \in Agents : report'[b].pc = "answer" => report'[b].end \in Int
    BY <1>a, <2>1, <2>3 DEF IdsType
  <2>5. IdsType' /\ ConsumerOk'
    BY <1>a, <2>2, <2>4 DEF IdsType, ConsumerOk
  <2> QED
    BY <2>2, <2>5, IdsUntouched
<1>3. ASSUME NEW r \in Receivers, S!IncrTraceIndex(r) PROVE IdsInv'
  <2>1. /\ UNCHANGED <<local, traceIds, report, since, offered, late, mayRepeat, reports>>
        /\ \/ UNCHANGED <<index, consumer>>
           \/ /\ S!IsNew(r, Head(channel[r])) /\ index' = index + 1
              /\ consumer' = [consumer EXCEPT ![r] = [pc |-> "store", id |-> Head(channel[r]), index |-> index']]
    BY <1>3 DEF S!IncrTraceIndex
  <2>2. CASE UNCHANGED <<index, consumer>>
    BY <1>a, <2>1, <2>2, IdsUntouched DEF IdsType, ConsumerOk
  <2>3. CASE /\ S!IsNew(r, Head(channel[r])) /\ index' = index + 1
             /\ consumer' = [consumer EXCEPT ![r] = [pc |-> "store", id |-> Head(channel[r]), index |-> index']]
    <3>1. /\ consumer' = [q \in Receivers |-> consumer'[q]]
          /\ consumer'[r] = [pc |-> "store", id |-> Head(channel[r]), index |-> index']
          /\ \A q \in Receivers \ {r} : consumer'[q] = consumer[q]
      BY <1>a, <2>3 DEF IdsType
    <3>2. index' \in Nat \ {0}
      BY <1>a, <2>3 DEF IdsType
    <3>3. IdsType'
      BY <1>a, <2>1, <3>1, <3>2 DEF IdsType
    <3>4. ConsumerOk'
      BY <1>a, <2>1, <2>3, <3>1, <3>2 DEF ConsumerOk, S!IsNew
    <3> QED
      BY <2>1, <3>3, <3>4, IdsUntouched
  <2> QED
    BY <2>1, <2>2, <2>3
<1> QED
  BY <1>1, <1>2, <1>3, AnswerStep, StoreStep, CleanStep DEF S!Next

\* Whatever the order in which ids are published, counted, stored and asked for: an
\* agent is offered every id its receiver knows once its window is past it, and once.
THEOREM IdsOfferedTheorem == Spec => []IdsOffered
<1>1. Init => IdsInv
  <2> SUFFICES ASSUME S!Init PROVE IdsInv
    BY DEF Init
  <2>1. /\ index = 0 /\ consumer = [r \in Receivers |-> S!Idle] /\ traceIds = [r \in Receivers |-> <<>>]
        /\ report = [a \in Agents |-> S!Idle] /\ since = [a \in Agents |-> 0]
        /\ offered = [a \in Agents |-> [id \in Ids |-> 0]]
    BY DEF S!Init
  <2>2. \A r \in Receivers : DOMAIN traceIds[r] = {}
    <3>1. DOMAIN (<<>>) = {}
      OBVIOUS
    <3>2. \A r \in Receivers : traceIds[r] = <<>>
      BY <2>1
    <3> QED
      BY <3>1, <3>2
  <2>3. IdsType /\ ConsumerOk
    BY <2>1, <2>2, HomeAssumption DEF IdsType, ConsumerOk, S!Idle
  <2>4. \A a \in Agents : S!HomeOf(a) \in Receivers
    BY <2>3, HomeRuns
  <2> QED
    BY <2>1, <2>2, <2>3, <2>4 DEF IdsInv, OfferedPassed, S!IdsOffered
<1>2. IdsInv /\ [Next]_vars => IdsInv'
  <2>1. ASSUME IdsInv, UNCHANGED sVars, local' = local PROVE IdsInv'
    <3>1. IdsType' /\ ConsumerOk' /\ UNCHANGED <<local, traceIds, since, offered, late, mayRepeat>>
      BY <2>1 DEF sVars, IdsInv, IdsType, ConsumerOk
    <3> QED
      BY <2>1, <3>1, IdsUntouched
  <2> QED
    BY <2>1, IdsStep, StepOfEach
<1>3. IdsInv => IdsOffered
  BY DEF IdsOffered, IdsInv
<1> QED
  BY <1>1, <1>2, <1>3, PTL DEF Spec

-----------------------------------------------------------------------------
(* ActiveApps                                                              *)

Flags == {0, 2}
MutationsSent == [app : Apps, flag : Flags, upTo : Nat]
WriterStates == [pc : {"idle"}] \cup [pc : {"insert"}, todo : Seq(Apps), tx : [Apps -> Nat]]
RequestStates ==
  [pc : {"idle"}]
  \cup [pc : {"hearts", "deads", "query"}, active : SUBSET Apps, dead : SUBSET Apps, todo : SUBSET Apps]
  \cup [pc : {"answered"}, dead : SUBSET Apps, answer : SUBSET Apps]

RowsType == rows \in [Apps -> Seq(Flags)]
WritersType == writer \in [Receivers -> WriterStates]
RequestsType == request \in [Requests -> RequestStates]
MutationsType == mutations \in Seq(MutationsSent)

Pending(w, a) == writer[w].pc = "insert" /\ writer[w].tx[a] > 0

\* An update reaches only rows that are there.
UpdatesFit == \A i \in 1 .. Len(mutations) : mutations[i].upTo <= Len(rows[mutations[i].app])
\* But for a race, an application is inserted once, and by one receiver.
OneRow == \A a \in Apps : a \notin twice =>
            /\ Len(rows[a]) <= 1
            /\ \A w \in Receivers : Pending(w, a) => Len(rows[a]) = 0 /\ writer[w].tx[a] = 1
            /\ \A w \in Receivers : \A v \in Receivers : Pending(w, a) /\ Pending(v, a) => v = w
GoneDead == \A a \in gone : a \in Apps /\ \A i \in 1 .. Len(rows[a]) : rows[a][i] = 2
AnswersOk == \A r \in Requests : request[r].pc = "answered" => request[r].answer \cap request[r].dead = {}

AppsInv == /\ RowsType /\ WritersType /\ RequestsType /\ MutationsType
           /\ UpdatesFit /\ OneRow /\ GoneDead /\ AnswersOk

LEMMA AppsRows ==
    ASSUME AppsInv, NEW a \in Apps
    PROVE  /\ rows[a] \in Seq(Flags) /\ Len(rows[a]) \in Nat
           /\ \A i \in 1 .. Len(rows[a]) : rows[a][i] \in Flags
<1>1. rows[a] \in Seq(Flags)
  BY DEF AppsInv, RowsType
<1> QED
  BY <1>1

LEMMA WriterOf ==
    ASSUME AppsInv, NEW w \in Receivers, writer[w].pc = "insert"
    PROVE  /\ writer[w] \in [pc : {"insert"}, todo : Seq(Apps), tx : [Apps -> Nat]]
           /\ writer[w].todo \in Seq(Apps) /\ writer[w].tx \in [Apps -> Nat]
           /\ writer[w] = [pc |-> "insert", todo |-> writer[w].todo, tx |-> writer[w].tx]
<1>1. writer[w] \in WriterStates
  BY DEF AppsInv, WritersType
<1>2. writer[w] \in [pc : {"insert"}, todo : Seq(Apps), tx : [Apps -> Nat]]
  BY <1>1 DEF WriterStates
<1> QED
  BY <1>2

\* Steps of a request: they send at most an update of the rows that are there.
LEMMA RequestKeeps ==
    ASSUME AppsInv, UNCHANGED <<rows, writer, twice, gone>>,
           RequestsType', AnswersOk', MutationsType', UpdatesFit'
    PROVE  AppsInv'
<1>1. \A w, a : Pending(w, a)' <=> Pending(w, a)
  BY DEF Pending
<1>2. OneRow'
  BY <1>1 DEF AppsInv, OneRow
<1> QED
  BY <1>2 DEF AppsInv, RowsType, WritersType, GoneDead

LEMMA UpdateSent ==
    ASSUME AppsInv, NEW a \in Apps, NEW flag \in Flags, P!Update(a, flag), rows' = rows
    PROVE  MutationsType' /\ UpdatesFit'
<1> DEFINE m == [app |-> a, flag |-> flag, upTo |-> Len(rows[a])]
<1>1. m \in MutationsSent
  BY AppsRows DEF MutationsSent
<1>2. m.app = a /\ m.upTo = Len(rows[a])
  OBVIOUS
<1>3. mutations' = Append(mutations, m)
  BY DEF P!Update
<1> HIDE DEF m
<1>4. mutations \in Seq(MutationsSent)
  BY DEF AppsInv, MutationsType
<1>5. /\ mutations' \in Seq(MutationsSent) /\ Len(mutations') = Len(mutations) + 1
      /\ \A i \in 1 .. Len(mutations) : mutations'[i] = mutations[i]
      /\ mutations'[Len(mutations) + 1] = m
  BY <1>1, <1>3, <1>4
<1>6. ASSUME NEW i \in 1 .. Len(mutations') PROVE mutations'[i].upTo <= Len(rows[mutations'[i].app])
  <2>1. CASE i \in 1 .. Len(mutations)
    BY <2>1, <1>5 DEF AppsInv, UpdatesFit
  <2>2. CASE i \notin 1 .. Len(mutations)
    <3>1. i = Len(mutations) + 1
      BY <1>4, <1>5, <2>2
    <3>2. Len(rows[a]) <= Len(rows[a])
      BY AppsRows
    <3> QED
      BY <1>2, <1>5, <3>1, <3>2
  <2> QED
    BY <2>1, <2>2
<1> QED
  BY <1>5, <1>6 DEF MutationsType, UpdatesFit

\* A request takes another state.
LEMMA RequestMoves ==
    ASSUME AppsInv, NEW r \in Requests, NEW q \in RequestStates,
           q.pc = "answered" => q.answer \cap q.dead = {},
           request' = [request EXCEPT ![r] = q]
    PROVE  RequestsType' /\ AnswersOk'
<1>1. request \in [Requests -> RequestStates] /\ AnswersOk
  BY DEF AppsInv, RequestsType
<1>2. request'[r] = q /\ \A p \in Requests \ {r} : request'[p] = request[p]
  BY <1>1
<1>3. RequestsType'
  BY <1>1 DEF RequestsType
<1> QED
  BY <1>1, <1>2, <1>3 DEF AnswersOk

LEMMA RequestOf ==
    ASSUME AppsInv, NEW r \in Requests, request[r].pc \in {"hearts", "deads", "query"}
    PROVE  /\ request[r] \in [pc : {"hearts", "deads", "query"}, active : SUBSET Apps,
                              dead : SUBSET Apps, todo : SUBSET Apps]
           /\ request[r].dead \subseteq Apps
           /\ \A pc2 \in {"hearts", "deads", "query"}, todo2 \in SUBSET Apps :
                LET q == [request[r] EXCEPT !.pc = pc2, !.todo = todo2]
                IN  q \in RequestStates /\ q.pc = pc2
           /\ \A todo2 \in SUBSET Apps :
                LET q == [request[r] EXCEPT !.todo = todo2]
                IN  q \in RequestStates /\ q.pc = request[r].pc
<1>1. request[r] \in RequestStates
  BY DEF AppsInv, RequestsType
<1>2. request[r] \in [pc : {"hearts", "deads", "query"}, active : SUBSET Apps,
                      dead : SUBSET Apps, todo : SUBSET Apps]
  BY <1>1 DEF RequestStates
<1> QED
  BY <1>2 DEF RequestStates

LEMMA RequestStep ==
    ASSUME AppsInv, NEW r \in Requests,
           \/ \E active, dead \in SUBSET Apps : active \cap dead = {} /\ P!QueryActiveApps(r, active, dead)
           \/ \E a \in Apps : P!UpdateAppHeartTimes(r, a) \/ P!UpdateAppDeadFlags(r, a)
           \/ P!EndList(r) \/ P!Answer(r) \/ P!Answered(r)
    PROVE  AppsInv'
<1>a. request \in [Requests -> RequestStates] /\ MutationsType /\ UpdatesFit
  BY DEF AppsInv, RequestsType
<1>b. mutations' = mutations /\ rows' = rows => MutationsType' /\ UpdatesFit'
  BY <1>a DEF MutationsType, UpdatesFit
<1>1. ASSUME NEW active \in SUBSET Apps, NEW dead \in SUBSET Apps, P!QueryActiveApps(r, active, dead)
      PROVE  AppsInv'
  <2> DEFINE q == [pc |-> "hearts", active |-> active, dead |-> dead, todo |-> active]
  <2>1. q \in RequestStates /\ q.pc # "answered"
    BY DEF RequestStates
  <2>2. request' = [request EXCEPT ![r] = q] /\ UNCHANGED <<rows, mutations, writer, twice, gone>>
    BY <1>1 DEF P!QueryActiveApps
  <2> HIDE DEF q
  <2> QED
    BY <1>b, <2>1, <2>2, RequestMoves, RequestKeeps
<1>2. ASSUME NEW a \in Apps, P!UpdateAppHeartTimes(r, a) \/ P!UpdateAppDeadFlags(r, a)
      PROVE  AppsInv'
  <2> DEFINE q == [request[r] EXCEPT !.todo = @ \ {a}]
  <2>1. request[r].pc \in {"hearts", "deads"}
    BY <1>2 DEF P!UpdateAppHeartTimes, P!UpdateAppDeadFlags
  <2>2. request[r].todo \ {a} \in SUBSET Apps
    BY <2>1, RequestOf
  <2>3. q \in RequestStates /\ q.pc # "answered"
    BY <2>1, <2>2, RequestOf
  <2>4. request' = [request EXCEPT ![r] = q] /\ UNCHANGED <<rows, writer, twice, gone>>
    BY <1>a, <1>2 DEF P!UpdateAppHeartTimes, P!UpdateAppDeadFlags
  <2>5. P!Update(a, 0) \/ P!Update(a, 2)
    BY <1>2 DEF P!UpdateAppHeartTimes, P!UpdateAppDeadFlags, P!Alive, P!Dead
  <2>6. MutationsType' /\ UpdatesFit'
    BY <2>4, <2>5, UpdateSent DEF Flags
  <2> HIDE DEF q
  <2> QED
    BY <2>3, <2>4, <2>6, RequestMoves, RequestKeeps
<1>3. ASSUME P!EndList(r) PROVE AppsInv'
  <2>1. request[r].pc \in {"hearts", "deads"} /\ UNCHANGED <<rows, mutations, writer, twice, gone>>
    BY <1>3 DEF P!EndList
  <2>2. \E pc2 \in {"deads", "query"}, todo2 \in SUBSET Apps :
           request' = [request EXCEPT ![r] = [request[r] EXCEPT !.pc = pc2, !.todo = todo2]]
    <3>1. request[r].dead \in SUBSET Apps /\ {} \in SUBSET Apps
      BY <2>1, RequestOf
    <3>2. \/ request' = [request EXCEPT ![r] = [request[r] EXCEPT !.pc = "deads", !.todo = request[r].dead]]
          \/ request' = [request EXCEPT ![r] = [request[r] EXCEPT !.pc = "query", !.todo = {}]]
      BY <1>a, <1>3 DEF P!EndList
    <3> QED
      BY <3>1, <3>2
  <2>3. PICK pc2 \in {"deads", "query"}, todo2 \in SUBSET Apps :
           request' = [request EXCEPT ![r] = [request[r] EXCEPT !.pc = pc2, !.todo = todo2]]
    BY <2>2
  <2> DEFINE q == [request[r] EXCEPT !.pc = pc2, !.todo = todo2]
  <2>4. q \in RequestStates /\ q.pc # "answered"
    <3>1. pc2 \in {"hearts", "deads", "query"} /\ todo2 \in SUBSET Apps /\ pc2 # "answered"
      BY <2>3
    <3>2. request[r].pc \in {"hearts", "deads", "query"}
      BY <2>1
    <3> QED
      BY <3>1, <3>2, RequestOf
  <2>5. request' = [request EXCEPT ![r] = q]
    BY <2>3
  <2> HIDE DEF q
  <2> QED
    BY <1>b, <2>1, <2>4, <2>5, RequestMoves, RequestKeeps
<1>4. ASSUME P!Answer(r) PROVE AppsInv'
  <2>1. request[r].pc = "query" /\ UNCHANGED <<rows, mutations, writer, twice, gone>>
    BY <1>4 DEF P!Answer
  <2>2. PICK answer \in {{}, P!ActiveRows \ request[r].dead} :
           request' = [request EXCEPT ![r] = [pc |-> "answered", dead |-> request[r].dead, answer |-> answer]]
    BY <1>4 DEF P!Answer
  <2> DEFINE q == [pc |-> "answered", dead |-> request[r].dead, answer |-> answer]
  <2>3. answer \subseteq Apps /\ answer \cap request[r].dead = {}
    BY <2>2 DEF P!ActiveRows
  <2>4. request[r].dead \in SUBSET Apps
    BY <2>1, RequestOf
  <2>5. q \in RequestStates /\ (q.pc = "answered" => q.answer \cap q.dead = {})
    BY <2>3, <2>4 DEF RequestStates
  <2>6. request' = [request EXCEPT ![r] = q]
    BY <2>2
  <2> HIDE DEF q
  <2> QED
    BY <1>b, <2>1, <2>5, <2>6, RequestMoves, RequestKeeps
<1>5. ASSUME P!Answered(r) PROVE AppsInv'
  <2> DEFINE q == [pc |-> "idle"]
  <2>1. q \in RequestStates /\ q.pc # "answered"
    BY DEF RequestStates
  <2>2. request' = [request EXCEPT ![r] = q] /\ UNCHANGED <<rows, mutations, writer, twice, gone>>
    BY <1>5 DEF P!Answered, P!Idle
  <2> HIDE DEF q
  <2> QED
    BY <1>b, <2>1, <2>2, RequestMoves, RequestKeeps
<1> QED
  BY <1>1, <1>2, <1>3, <1>4, <1>5

\* A writer takes another state.
LEMMA WriterMoves ==
    ASSUME AppsInv, NEW w \in Receivers, NEW q \in WriterStates, writer' = [writer EXCEPT ![w] = q]
    PROVE  /\ WritersType' /\ writer'[w] = q
           /\ \A v \in Receivers \ {w} : writer'[v] = writer[v]
<1>1. writer \in [Receivers -> WriterStates]
  BY DEF AppsInv, WritersType
<1> QED
  BY <1>1 DEF WritersType

\* The writer starts a batch, or gives it up: nothing of it is pending.
LEMMA WriterEmpty ==
    ASSUME AppsInv, NEW w \in Receivers, NEW q \in WriterStates, writer' = [writer EXCEPT ![w] = q],
           q.pc = "insert" => \A a \in Apps : q.tx[a] = 0,
           UNCHANGED <<rows, mutations, request, twice, gone>>
    PROVE  AppsInv'
<1>1. /\ WritersType' /\ writer'[w] = q
      /\ \A v \in Receivers \ {w} : writer'[v] = writer[v]
  BY WriterMoves
<1>2. \A a \in Apps, v \in Receivers : Pending(v, a)' => v # w /\ Pending(v, a) /\ writer'[v] = writer[v]
  BY <1>1 DEF Pending
<1>3. OneRow'
  BY <1>2 DEF AppsInv, OneRow
<1> QED
  BY <1>1, <1>3 DEF AppsInv, RowsType, RequestsType, MutationsType, UpdatesFit, GoneDead, AnswersOk

LEMMA InsertStep ==
    ASSUME AppsInv, NEW w \in Receivers, P!InsertNew(w) PROVE AppsInv'
<1>1. writer[w].pc = "insert" /\ writer[w].todo # <<>> /\ UNCHANGED <<rows, mutations, request, gone>>
  BY DEF P!InsertNew
<1>2. PICK todo2, tx2, a : todo2 = writer[w].todo /\ tx2 = writer[w].tx /\ a = Head(todo2)
  OBVIOUS
<1>3. todo2 \in Seq(Apps) /\ tx2 \in [Apps -> Nat] /\ writer[w] = [pc |-> "insert", todo |-> todo2, tx |-> tx2]
  BY <1>1, <1>2, WriterOf
<1>4. a \in Apps /\ Tail(todo2) \in Seq(Apps)
  BY <1>1, <1>2, <1>3
<1>5. PICK tx3 : tx3 = [tx2 EXCEPT ![a] = IF Len(rows[a]) = 0 THEN @ + 1 ELSE @]
  OBVIOUS
<1>6. /\ tx3 \in [Apps -> Nat] /\ tx3[a] = IF Len(rows[a]) = 0 THEN tx2[a] + 1 ELSE tx2[a]
      /\ \A b \in Apps \ {a} : tx3[b] = tx2[b]
  BY <1>3, <1>4, <1>5
<1> DEFINE q == [pc |-> "insert", todo |-> Tail(todo2), tx |-> tx3]
<1>7. writer' = [writer EXCEPT ![w] = q]
  <2>1. writer' = [writer EXCEPT ![w].todo = Tail(@),
                                 ![w].tx[a] = IF Len(rows[a]) = 0 THEN @ + 1 ELSE @]
    BY <1>2 DEF P!InsertNew, P!Count
  <2>2. writer = [v \in Receivers |-> writer[v]]
    BY DEF AppsInv, WritersType
  <2>3. /\ writer' = [v \in Receivers |-> writer'[v]]
        /\ \A v \in Receivers \ {w} : writer'[v] = writer[v]
    BY <2>1, <2>2
  <2> DEFINE w1 == [writer EXCEPT ![w].todo = Tail(@)]
  <2>4. writer' = [w1 EXCEPT ![w].tx[a] = IF Len(rows[a]) = 0 THEN @ + 1 ELSE @]
    BY <2>1
  <2>5. w1[w] = [pc |-> "insert", todo |-> Tail(todo2), tx |-> tx2] /\ w1 = [v \in Receivers |-> w1[v]]
    <3>1. w1[w] = [writer[w] EXCEPT !.todo = Tail(@)] /\ w1 = [v \in Receivers |-> w1[v]]
      BY <2>2
    <3>2. writer[w] \in [pc : {"insert"}, todo : {todo2}, tx : {tx2}]
      BY <1>3
    <3> HIDE DEF w1
    <3>3. w1[w] \in [pc : {"insert"}, todo : {Tail(todo2)}, tx : {tx2}]
      BY <1>2, <3>1, <3>2
    <3> QED
      BY <3>1, <3>3
  <2> HIDE DEF w1
  <2>6. writer'[w] = [w1[w] EXCEPT !.tx[a] = IF Len(rows[a]) = 0 THEN @ + 1 ELSE @]
    BY <2>4, <2>5
  <2>7. writer'[w] = q
    <3>1. w1[w] \in [pc : {"insert"}, todo : {Tail(todo2)}, tx : {tx2}]
      BY <2>5
    <3>2. writer'[w] = [w1[w] EXCEPT !.tx = tx3]
      BY <1>5, <2>6, <3>1
    <3>3. writer'[w] \in [pc : {"insert"}, todo : {Tail(todo2)}, tx : {tx3}]
      BY <3>1, <3>2
    <3> QED
      BY <3>3
  <2> HIDE DEF q
  <2> QED
    BY <2>2, <2>3, <2>7
<1>8. q \in WriterStates /\ q.pc = "insert" /\ q.tx = tx3
  BY <1>4, <1>6 DEF WriterStates
<1> HIDE DEF q
<1>9. /\ WritersType' /\ writer'[w] = q
      /\ \A v \in Receivers \ {w} : writer'[v] = writer[v]
  BY <1>7, <1>8, WriterMoves
<1>10. P!Uncommitted(a) <=> \E v \in Receivers : Pending(v, a)
  BY DEF P!Uncommitted, Pending
<1>11. twice' = IF Len(rows[a]) = 0 /\ P!Uncommitted(a) THEN twice \cup {a} ELSE twice
  BY <1>2 DEF P!InsertNew, P!Count
<1>12. ASSUME NEW b \in Apps, NEW v \in Receivers, Pending(v, b)', b # a \/ Len(rows[a]) # 0 \/ v # w
       PROVE  Pending(v, b) /\ writer'[v].tx[b] = writer[v].tx[b]
  <2>1. CASE v # w
    BY <1>9, <1>12, <2>1 DEF Pending
  <2>2. CASE v = w
    <3>1. tx3[b] = tx2[b]
      BY <1>4, <1>6, <1>12, <2>2
    <3>2. writer'[w].tx[b] = tx3[b] /\ writer[w].tx[b] = tx2[b]
      BY <1>2, <1>8, <1>9
    <3> QED
      BY <1>1, <1>12, <2>2, <3>1, <3>2 DEF Pending
  <2> QED
    BY <2>1, <2>2
<1>13. ASSUME NEW b \in Apps, b \notin twice'
       PROVE  /\ Len(rows'[b]) <= 1
              /\ \A v \in Receivers : Pending(v, b)' => Len(rows'[b]) = 0 /\ writer'[v].tx[b] = 1
              /\ \A v \in Receivers : \A u \in Receivers : Pending(v, b)' /\ Pending(u, b)' => u = v
  <2>1. b \notin twice /\ rows' = rows
    BY <1>1, <1>11, <1>13
  <2>2. /\ Len(rows[b]) <= 1
        /\ \A v \in Receivers : Pending(v, b) => Len(rows[b]) = 0 /\ writer[v].tx[b] = 1
        /\ \A v \in Receivers : \A u \in Receivers : Pending(v, b) /\ Pending(u, b) => u = v
    BY <2>1 DEF AppsInv, OneRow
  <2>3. CASE b # a \/ Len(rows[a]) # 0
    BY <1>12, <2>1, <2>2, <2>3
  <2>4. CASE b = a /\ Len(rows[a]) = 0
    <3>1. \A v \in Receivers : ~Pending(v, a)
      BY <1>10, <1>11, <1>13, <2>4
    <3>2. \A v \in Receivers : Pending(v, a)' => v = w
      BY <1>4, <1>12, <3>1
    <3>3. tx2[a] = 0
      <4>1. tx2[a] \in Nat
        BY <1>3, <1>4
      <4>2. ~(tx2[a] > 0)
        BY <1>1, <1>2, <3>1 DEF Pending
      <4> QED
        BY <4>1, <4>2
    <3>4. writer'[w].tx[a] = 1
      BY <1>6, <1>8, <1>9, <2>4, <3>3
    <3> QED
      BY <2>1, <2>2, <2>4, <3>2, <3>4
  <2> QED
    BY <2>3, <2>4
<1>14. OneRow'
  BY <1>13 DEF OneRow
<1> QED
  BY <1>1, <1>9, <1>14 DEF AppsInv, RowsType, RequestsType, MutationsType, UpdatesFit, GoneDead, AnswersOk

LEMMA CommitStep ==
    ASSUME AppsInv, NEW w \in Receivers, P!CommitApps(w) PROVE AppsInv'
<1>1. /\ writer[w].pc = "insert" /\ writer' = [writer EXCEPT ![w] = [pc |-> "idle"]]
      /\ UNCHANGED <<mutations, request, twice>>
  BY DEF P!CommitApps, P!Idle
<1>2. PICK tx : tx = writer[w].tx
  OBVIOUS
<1>3. tx \in [Apps -> Nat]
  BY <1>1, <1>2, WriterOf
<1>4. /\ rows' = [a \in Apps |-> rows[a] \o [i \in 1 .. tx[a] |-> 0]]
      /\ gone' = {a \in gone : tx[a] = 0}
  BY <1>2 DEF P!CommitApps, P!Alive
<1>5. [pc |-> "idle"] \in WriterStates /\ [pc |-> "idle"].pc = "idle"
  BY DEF WriterStates
<1>6. /\ WritersType' /\ writer'[w].pc = "idle"
      /\ \A v \in Receivers \ {w} : writer'[v] = writer[v]
  BY <1>1, <1>5, WriterMoves
<1>7. ASSUME NEW a \in Apps
      PROVE  /\ rows'[a] \in Seq(Flags) /\ Len(rows'[a]) = Len(rows[a]) + tx[a]
             /\ \A i \in 1 .. Len(rows[a]) : rows'[a][i] = rows[a][i]
  <2> DEFINE new == [i \in 1 .. tx[a] |-> 0]
  <2>1. tx[a] \in Nat
    BY <1>3
  <2>2. new \in Seq(Flags) /\ Len(new) = tx[a]
    BY <2>1 DEF Flags
  <2>3. rows'[a] = rows[a] \o new
    BY <1>4
  <2> HIDE DEF new
  <2>4. rows[a] \in Seq(Flags)
    BY AppsRows
  <2>5. rows[a] \o new \in Seq(Flags)
    BY <2>2, <2>4
  <2>6. Len(rows[a] \o new) = Len(rows[a]) + Len(new)
    BY <2>2, <2>4
  <2>7. \A i \in 1 .. Len(rows[a]) : (rows[a] \o new)[i] = rows[a][i]
    BY <2>2, <2>4
  <2> QED
    BY <2>2, <2>3, <2>5, <2>6, <2>7
<1>8. RowsType'
  BY <1>4, <1>7 DEF RowsType
<1>9. \A a \in Apps : Len(rows[a]) <= Len(rows'[a]) /\ Len(rows[a]) \in Nat /\ tx[a] \in Nat
  BY <1>3, <1>7, AppsRows
<1>10. UpdatesFit'
  <2> SUFFICES ASSUME NEW i \in 1 .. Len(mutations) PROVE mutations[i].upTo <= Len(rows'[mutations[i].app])
    BY <1>1 DEF UpdatesFit
  <2>1. mutations \in Seq(MutationsSent)
    BY DEF AppsInv, MutationsType
  <2>2. mutations[i] \in MutationsSent
    BY <2>1
  <2>3. mutations[i].app \in Apps /\ mutations[i].upTo \in Nat
    BY <2>2 DEF MutationsSent
  <2>4. mutations[i].upTo <= Len(rows[mutations[i].app])
    BY DEF AppsInv, UpdatesFit
  <2>5. Len(rows'[mutations[i].app]) \in Nat
    BY <1>7, <1>9, <2>3
  <2> QED
    BY <1>9, <2>3, <2>4, <2>5
<1>11. GoneDead'
  <2> SUFFICES ASSUME NEW a \in gone' PROVE a \in Apps /\ \A i \in 1 .. Len(rows'[a]) : rows'[a][i] = 2
    BY DEF GoneDead
  <2>1. a \in gone /\ tx[a] = 0
    BY <1>4
  <2>2. a \in Apps /\ \A i \in 1 .. Len(rows[a]) : rows[a][i] = 2
    BY <2>1 DEF AppsInv, GoneDead
  <2>3. Len(rows'[a]) = Len(rows[a])
    BY <1>7, <1>9, <2>1, <2>2
  <2> QED
    BY <1>7, <2>2, <2>3
<1>12. ASSUME NEW a \in Apps, a \notin twice
       PROVE  /\ Len(rows'[a]) <= 1
              /\ \A v \in Receivers : Pending(v, a)' => Len(rows'[a]) = 0 /\ writer'[v].tx[a] = 1
              /\ \A v \in Receivers : \A u \in Receivers : Pending(v, a)' /\ Pending(u, a)' => u = v
  <2>1. /\ Len(rows[a]) <= 1
        /\ \A v \in Receivers : Pending(v, a) => Len(rows[a]) = 0 /\ writer[v].tx[a] = 1
        /\ \A v \in Receivers : \A u \in Receivers : Pending(v, a) /\ Pending(u, a) => u = v
    BY <1>12 DEF AppsInv, OneRow
  <2>2. \A v \in Receivers : Pending(v, a)' => v # w /\ Pending(v, a) /\ writer'[v] = writer[v]
    BY <1>6 DEF Pending
  <2>3. CASE tx[a] = 0
    <3>1. Len(rows'[a]) = Len(rows[a])
      BY <1>7, <1>9, <2>3
    <3> QED
      BY <2>1, <2>2, <3>1
  <2>4. CASE tx[a] # 0
    <3>1. Pending(w, a)
      BY <1>1, <1>2, <1>9, <2>4 DEF Pending
    <3>2. Len(rows[a]) = 0 /\ tx[a] = 1
      BY <1>2, <2>1, <3>1
    <3>3. Len(rows'[a]) = 1
      <4>1. Len(rows'[a]) = Len(rows[a]) + tx[a]
        BY <1>7
      <4> QED
        BY <3>2, <4>1
    <3>4. \A v \in Receivers : ~Pending(v, a)'
      BY <2>1, <2>2, <3>1
    <3> QED
      BY <3>3, <3>4
  <2> QED
    BY <2>3, <2>4
<1>13. OneRow'
  BY <1>1, <1>12 DEF OneRow
<1> QED
  BY <1>1, <1>6, <1>8, <1>10, <1>11, <1>13 DEF AppsInv, RequestsType, MutationsType, AnswersOk

LEMMA ApplyStep ==
    ASSUME AppsInv, P!ApplyMutation PROVE AppsInv'
<1>a. mutations \in Seq(MutationsSent) /\ RowsType
  BY DEF AppsInv, MutationsType
<1>1. mutations # <<>> /\ mutations' = Tail(mutations) /\ UNCHANGED <<writer, request, twice>>
  BY DEF P!ApplyMutation
<1>2. PICK m : m = Head(mutations)
  OBVIOUS
<1>3. m \in MutationsSent /\ m = mutations[1] /\ 1 \in 1 .. Len(mutations)
  BY <1>a, <1>1, <1>2
<1>4. PICK a \in Apps, flag \in Flags, n \in Nat : a = m.app /\ flag = m.flag /\ n = m.upTo
  BY <1>3 DEF MutationsSent
<1>5. n \in 0 .. Len(rows[a])
  <2>1. n <= Len(rows[a])
    BY <1>3, <1>4 DEF AppsInv, UpdatesFit
  <2> QED
    BY <1>4, <2>1, AppsRows
<1> DEFINE set == [i \in 1 .. n |-> flag]
           left == SubSeq(rows[a], n + 1, Len(rows[a]))
<1>6. /\ rows' = [rows EXCEPT ![a] = set \o left]
      /\ gone' = IF flag # 0 /\ left = <<>> THEN gone \cup {a} ELSE gone \ {a}
  BY <1>2, <1>4 DEF P!ApplyMutation, P!Alive
<1>7. set \in Seq(Flags) /\ Len(set) = n /\ \A i \in 1 .. n : set[i] = flag
  BY <1>4
<1>8. left \in Seq(Flags) /\ Len(left) = Len(rows[a]) - n
  BY <1>5, AppsRows, SplitFacts
<1> HIDE DEF set, left
<1>9. /\ rows'[a] = set \o left /\ \A b \in Apps \ {a} : rows'[b] = rows[b]
      /\ rows' = [b \in Apps |-> rows'[b]]
  BY <1>a, <1>4, <1>6 DEF RowsType
<1>10. /\ rows'[a] \in Seq(Flags) /\ Len(rows'[a]) = Len(rows[a])
       /\ \A i \in 1 .. n : rows'[a][i] = flag
  <2>1. set \o left \in Seq(Flags) /\ Len(set \o left) = n + (Len(rows[a]) - n)
    BY <1>7, <1>8, ConcatIndex, ConcatFacts
  <2>2. \A i \in 1 .. n : (set \o left)[i] = flag
    BY <1>7, <1>8, ConcatIndex
  <2>3. n + (Len(rows[a]) - n) = Len(rows[a])
    BY <1>5, AppsRows
  <2> QED
    BY <1>9, <2>1, <2>2, <2>3
<1>11. \A b \in Apps : rows'[b] \in Seq(Flags) /\ Len(rows'[b]) = Len(rows[b])
  BY <1>9, <1>10, AppsRows
<1>12. RowsType'
  BY <1>9, <1>11 DEF RowsType
<1>13. MutationsType' /\ UpdatesFit'
  <2>1. Tail(mutations) \in Seq(MutationsSent) /\ Len(Tail(mutations)) = Len(mutations) - 1
    BY <1>a, <1>1
  <2>2. \A i \in 1 .. Len(mutations) - 1 : Tail(mutations)[i] = mutations[i + 1]
    BY <1>a, <1>1
  <2>3. ASSUME NEW i \in 1 .. Len(mutations) - 1
        PROVE  mutations[i + 1].upTo <= Len(rows'[mutations[i + 1].app])
    <3>1. i + 1 \in 1 .. Len(mutations)
      BY <1>a
    <3>2. mutations[i + 1].app \in Apps
      <4>1. mutations[i + 1] \in MutationsSent
        BY <1>a, <3>1
      <4> QED
        BY <4>1 DEF MutationsSent
    <3>3. mutations[i + 1].upTo <= Len(rows[mutations[i + 1].app])
      BY <3>1 DEF AppsInv, UpdatesFit
    <3> QED
      BY <1>11, <3>2, <3>3
  <2> QED
    BY <1>1, <2>1, <2>2, <2>3 DEF MutationsType, UpdatesFit
<1>14. OneRow'
  <2>1. \A v, b : Pending(v, b)' <=> Pending(v, b)
    BY <1>1 DEF Pending
  <2> QED
    BY <1>1, <1>11, <2>1 DEF AppsInv, OneRow
<1>15. GoneDead'
  <2> SUFFICES ASSUME NEW b \in gone' PROVE b \in Apps /\ \A i \in 1 .. Len(rows'[b]) : rows'[b][i] = 2
    BY DEF GoneDead
  <2>1. CASE b = a
    <3>1. flag # 0 /\ left = <<>>
      BY <1>6, <2>1
    <3>2. Len(left) = 0
      BY <3>1
    <3>3. n = Len(rows[a])
      BY <1>5, <1>8, <3>2, AppsRows
    <3> QED
      BY <1>4, <1>10, <2>1, <3>1, <3>3 DEF Flags
  <2>2. CASE b # a
    <3>1. b \in gone
      BY <1>6, <2>2
    <3> QED
      BY <1>9, <2>2, <3>1 DEF AppsInv, GoneDead
  <2> QED
    BY <2>1, <2>2
<1> QED
  BY <1>1, <1>12, <1>13, <1>14, <1>15 DEF AppsInv, WritersType, RequestsType, AnswersOk

\* However often an application is sent, dies and comes back, and whichever receivers
\* and requests meet: it has one row but for a race, and is not answered as active
\* while it is dead.
THEOREM AppsTrackedTheorem == Spec => []AppsTracked
<1>1. Init => AppsInv
  <2> SUFFICES ASSUME P!Init PROVE AppsInv
    BY DEF Init
  <2>1. /\ rows = [a \in Apps |-> <<>>] /\ mutations = <<>> /\ gone = {}
        /\ writer = [w \in Receivers |-> [pc |-> "idle"]]
        /\ request = [r \in Requests |-> [pc |-> "idle"]]
    BY DEF P!Init, P!Idle
  <2>2. <<>> \in Seq(Flags) /\ Len(<<>>) = 0
    OBVIOUS
  <2>3. RowsType /\ MutationsType /\ UpdatesFit /\ GoneDead
    BY <2>1, <2>2 DEF RowsType, MutationsType, UpdatesFit, GoneDead
  <2>4. WritersType /\ RequestsType /\ AnswersOk
    BY <2>1 DEF WritersType, RequestsType, AnswersOk, WriterStates, RequestStates
  <2>5. OneRow
    BY <2>1, <2>2 DEF OneRow, Pending
  <2> QED
    BY <2>3, <2>4, <2>5 DEF AppsInv
<1>2. AppsInv /\ [Next]_vars => AppsInv'
  <2> SUFFICES ASSUME AppsInv, [Next]_vars PROVE AppsInv'
    OBVIOUS
  <2>1. ASSUME UNCHANGED pVars PROVE AppsInv'
    <3>1. \A v, b : Pending(v, b)' <=> Pending(v, b)
      BY <2>1 DEF pVars, Pending
    <3>2. OneRow'
      BY <2>1, <3>1 DEF pVars, AppsInv, OneRow
    <3> QED
      BY <2>1, <3>2 DEF pVars, AppsInv, RowsType, WritersType, RequestsType, MutationsType,
         UpdatesFit, GoneDead, AnswersOk
  <2>2. ASSUME NEW w \in Receivers, NEW n \in 1 .. 2, NEW apps \in [1 .. n -> Apps], P!WriteAppInfos(w, apps)
        PROVE  AppsInv'
    <3> DEFINE q == [pc |-> "insert", todo |-> apps, tx |-> [a \in Apps |-> 0]]
    <3>1. apps \in Seq(Apps)
      OBVIOUS
    <3>2. q \in WriterStates /\ \A a \in Apps : q.tx[a] = 0
      BY <3>1 DEF WriterStates
    <3>3. writer' = [writer EXCEPT ![w] = q] /\ UNCHANGED <<rows, mutations, request, twice, gone>>
      BY <2>2 DEF P!WriteAppInfos
    <3> HIDE DEF q
    <3> QED
      BY <3>2, <3>3, WriterEmpty
  <2>3. ASSUME NEW w \in Receivers, P!Rollback(w) PROVE AppsInv'
    <3> DEFINE q == [pc |-> "idle"]
    <3>1. q \in WriterStates /\ q.pc # "insert"
      BY DEF WriterStates
    <3>2. writer' = [writer EXCEPT ![w] = q] /\ UNCHANGED <<rows, mutations, request, twice, gone>>
      BY <2>3 DEF P!Rollback, P!Idle
    <3> HIDE DEF q
    <3> QED
      BY <3>1, <3>2, WriterEmpty
  <2>4. P!Next => AppsInv'
    BY <2>2, <2>3, InsertStep, CommitStep, RequestStep, ApplyStep DEF P!Next
  <2> QED
    BY <2>1, <2>4, StepOfEach
<1>3. AppsInv => AppsTracked
  <2> SUFFICES ASSUME AppsInv PROVE P!AppsTracked
    BY DEF AppsTracked
  <2>1. \A a \in Apps : Len(rows[a]) > 1 => a \in twice
    BY AppsRows DEF AppsInv, OneRow
  <2>2. gone \cap P!ActiveRows = {}
    <3> SUFFICES ASSUME NEW a \in gone, NEW i \in DOMAIN rows[a], rows[a][i] < 2, a \in Apps PROVE FALSE
      BY DEF P!ActiveRows
    <3>1. i \in 1 .. Len(rows[a])
      BY AppsRows
    <3> QED
      BY <3>1 DEF AppsInv, GoneDead
  <2> QED
    BY <2>1, <2>2 DEF P!AppsTracked, AppsInv, AnswersOk
<1> QED
  BY <1>1, <1>2, <1>3, PTL DEF Spec
-----------------------------------------------------------------------------
(* MetricCache                                                             *)

\* Using a label puts it at the end and leaves the others in their order.
Uses(u, s, x) ==
  /\ x \notin Range(s) => /\ Len(u) = Len(s) + 1 /\ u[Len(s) + 1] = x
                          /\ \A i \in 1 .. Len(s) : u[i] = s[i]
  /\ \A k \in 1 .. Len(s) : s[k] = x => /\ Len(u) = Len(s) /\ u[Len(s)] = x
                                        /\ \A i \in 1 .. k - 1 : u[i] = s[i]
                                        /\ \A i \in k .. Len(s) - 1 : u[i] = s[i + 1]

LEMMA UseFacts ==
    ASSUME NEW X, NEW s \in Seq(X), IsInjective(s), NEW x \in X
    PROVE  /\ M!Use(s, x) \in Seq(X) /\ IsInjective(M!Use(s, x))
           /\ Range(M!Use(s, x)) = Range(s) \cup {x}
           /\ Uses(M!Use(s, x), s, x)
<1>1. Len(s) \in Nat /\ DOMAIN s = 1 .. Len(s)
  OBVIOUS
<1>2. M!Range(s) = Range(s)
  BY DEF M!Range, Range
<1>3. CASE x \notin Range(s)
  <2>1. M!Use(s, x) = Append(s, x)
    BY <1>2, <1>3 DEF M!Use
  <2>2. ~\E k \in 1 .. Len(s) : s[k] = x
    BY <1>1, <1>3 DEF Range
  <2>3. /\ Len(Append(s, x)) = Len(s) + 1 /\ \A i \in 1 .. Len(s) : Append(s, x)[i] = s[i]
        /\ Append(s, x)[Len(s) + 1] = x
    OBVIOUS
  <2>4. /\ Append(s, x) \in Seq(X) /\ IsInjective(Append(s, x))
        /\ Range(Append(s, x)) = Range(s) \cup {x}
    BY <1>3, AppendFacts
  <2> QED
    BY <1>3, <2>1, <2>2, <2>3, <2>4 DEF Uses
<1>4. CASE x \in Range(s)
  <2>1. PICK p \in 1 .. Len(s) : s[p] = x
    BY <1>1, <1>4 DEF Range
  <2>2. \A i \in 1 .. Len(s) : s[i] = x => i = p
    BY <1>1, <2>1 DEF IsInjective
  <2>3. M!Place(s, x) = p
    BY <1>1, <2>1, <2>2 DEF M!Place
  <2> DEFINE front == SubSeq(s, 1, p - 1)
            back == SubSeq(s, p + 1, Len(s))
            r == front \o back
  <2>4. M!Without(s, p) = r
    BY DEF M!Without
  <2>5. M!Use(s, x) = Append(r, x)
    BY <1>2, <1>4, <2>3, <2>4 DEF M!Use
  <2>6. /\ front \in Seq(X) /\ Len(front) = p - 1 /\ \A i \in 1 .. p - 1 : front[i] = s[i]
    <3>1. p - 1 \in 0 .. Len(s)
      BY <1>1
    <3> QED
      BY <3>1, SplitFacts
  <2>7. /\ back \in Seq(X) /\ Len(back) = Len(s) - p /\ \A i \in 1 .. Len(s) - p : back[i] = s[i + p]
    BY SplitFacts
  <2> HIDE DEF front, back
  <2>8. /\ r \in Seq(X) /\ Len(r) = Len(s) - 1
        /\ \A i \in 1 .. p - 1 : r[i] = s[i]
        /\ \A i \in p .. Len(s) - 1 : r[i] = s[i + 1]
    <3>1. r \in Seq(X)
      BY <2>6, <2>7, ConcatFacts
    <3>2. /\ Len(r) = Len(front) + Len(back)
          /\ \A i \in 1 .. Len(front) : r[i] = front[i]
      <4>1. front \in Seq(X) /\ back \in Seq(X)
        BY <2>6, <2>7
      <4> QED
        BY ONLY <4>1, ConcatIndex
    <3>3. Len(r) = (p - 1) + (Len(s) - p) /\ \A i \in 1 .. p - 1 : r[i] = front[i]
      <4> HIDE DEF r
      <4> QED
        BY <2>6, <2>7, <3>2
    <3>4. \A i \in p .. Len(s) - 1 : r[i] = back[i - (p - 1)]
      <4>0. front \in Seq(X) /\ back \in Seq(X)
        BY <2>6, <2>7
      <4>1. \A i \in Len(front) + 1 .. Len(front) + Len(back) : r[i] = back[i - Len(front)]
        BY ONLY <4>0, ConcatIndex
      <4>2. (p - 1) + 1 = p /\ (p - 1) + (Len(s) - p) = Len(s) - 1
        BY <1>1
      <4> HIDE DEF r
      <4> QED
        BY <2>6, <2>7, <4>1, <4>2
    <3>5. \A i \in p .. Len(s) - 1 : i - (p - 1) \in 1 .. Len(s) - p /\ (i - (p - 1)) + p = i + 1
      BY <1>1
    <3> HIDE DEF r
    <3> QED
      BY <1>1, <2>6, <2>7, <3>1, <3>2, <3>3, <3>4, <3>5
  <2> HIDE DEF r
  <2>9. /\ Append(r, x) \in Seq(X) /\ Len(Append(r, x)) = Len(s)
        /\ \A i \in 1 .. Len(s) - 1 : Append(r, x)[i] = r[i]
        /\ Append(r, x)[Len(s)] = x
    <3>1. /\ Append(r, x) \in Seq(X) /\ Len(Append(r, x)) = Len(r) + 1
          /\ \A i \in 1 .. Len(r) : Append(r, x)[i] = r[i]
          /\ Append(r, x)[Len(r) + 1] = x
      BY <2>8
    <3>2. (Len(s) - 1) + 1 = Len(s)
      BY <1>1
    <3> QED
      BY <2>8, <3>1, <3>2
  <2> DEFINE u == Append(r, x)
  <2> HIDE DEF u
  <2>10. /\ u \in Seq(X) /\ Len(u) = Len(s) /\ u[Len(s)] = x
         /\ \A i \in 1 .. p - 1 : u[i] = s[i]
         /\ \A i \in p .. Len(s) - 1 : u[i] = s[i + 1]
    BY <1>1, <2>8, <2>9 DEF u
  <2>11. DOMAIN u = 1 .. Len(s)
    BY <2>10
  <2>12. IsInjective(r) /\ x \notin Range(r)
    <3>1. DOMAIN r = 1 .. Len(s) - 1
      BY <2>8
    <3>2. \A i, j \in 1 .. Len(s) : s[i] = s[j] => i = j
      BY <1>1 DEF IsInjective
    <3>3. IsInjective(r)
      BY <1>1, <2>8, <3>1, <3>2 DEF IsInjective
    <3>4. x \notin Range(r)
      BY <1>1, <2>2, <2>8, <3>1 DEF Range
    <3> QED
      BY <3>3, <3>4
  <2>13. IsInjective(u) /\ Range(u) = Range(r) \cup {x}
    BY <2>8, <2>12, AppendFacts DEF u
  <2>14. Range(s) = Range(r) \cup {x}
    <3>1. DOMAIN r = 1 .. Len(s) - 1
      BY <2>8
    <3>2. ASSUME NEW i \in 1 .. Len(s) PROVE s[i] \in Range(r) \cup {x}
      <4>1. CASE i < p
        BY <1>1, <2>8, <3>1, <4>1 DEF Range
      <4>2. CASE i > p
        <5>1. i - 1 \in p .. Len(s) - 1 /\ i - 1 \in 1 .. Len(s) - 1 /\ r[i - 1] = s[i]
          BY <1>1, <2>8, <4>2
        <5> QED
          BY <3>1, <5>1 DEF Range
      <4>3. CASE i = p
        BY <2>1, <4>3
      <4> QED
        BY <1>1, <4>1, <4>2, <4>3
    <3>3. ASSUME NEW i \in 1 .. Len(s) - 1 PROVE r[i] \in Range(s)
      <4>1. i \in 1 .. p - 1 \/ i \in p .. Len(s) - 1
        BY <1>1
      <4>2. i \in 1 .. Len(s) /\ i + 1 \in 1 .. Len(s)
        BY <1>1
      <4> QED
        BY <1>1, <2>8, <4>1, <4>2 DEF Range
    <3>4. Range(s) = {s[i] : i \in 1 .. Len(s)} /\ Range(r) = {r[i] : i \in 1 .. Len(s) - 1}
      BY <1>1, <3>1 DEF Range
    <3> QED
      BY <1>4, <3>2, <3>3, <3>4
  <2>15. M!Use(s, x) = u
    BY <2>5 DEF u
  <2> QED
    <3>1. Uses(u, s, x)
      BY <1>4, <2>2, <2>10 DEF Uses
    <3> QED
      BY <2>10, <2>13, <2>14, <2>15, <3>1
<1> QED
  BY <1>3, <1>4

\* The labels the cache holds are those used last, as many as fit.
Suffix(l, o) == /\ Len(l) <= Len(o)
                /\ \A i \in 1 .. Len(l) : l[i] = o[Len(o) - Len(l) + i]
Holds(l, o) == Suffix(l, o) /\ Len(l) <= CacheSize /\ (Len(l) = CacheSize \/ Len(l) = Len(o))

LEMMA HoldsUsed ==
    ASSUME NEW X, NEW l \in Seq(X), NEW o \in Seq(X), IsInjective(l), IsInjective(o), NEW x \in X,
           Holds(l, o)
    PROVE  LET used == M!Use(l, x)
           IN  Holds(IF Len(used) > CacheSize THEN Tail(used) ELSE used, M!Use(o, x))
<1> DEFINE used == M!Use(l, x)
          o2 == M!Use(o, x)
          l2 == IF Len(used) > CacheSize THEN Tail(used) ELSE used
          n == Len(l)
          m == Len(o)
<1>a. CacheSize \in Nat
  BY SizesAssumption
<1>b. n \in Nat /\ m \in Nat /\ DOMAIN l = 1 .. n /\ DOMAIN o = 1 .. m
  OBVIOUS
<1>c. /\ n <= m /\ n <= CacheSize /\ (n = CacheSize \/ n = m)
      /\ \A i \in 1 .. n : l[i] = o[m - n + i]
  BY DEF Holds, Suffix
<1>d. used \in Seq(X) /\ Uses(used, l, x)
  BY UseFacts
<1>e. o2 \in Seq(X) /\ Uses(o2, o, x)
  BY UseFacts
<1>f. used # <<>> => /\ Len(Tail(used)) = Len(used) - 1
                     /\ \A i \in 1 .. Len(used) - 1 : Tail(used)[i] = used[i + 1]
  BY <1>d
<1>g. \A s \in Seq(X) : Len(s) # 0 => s # <<>>
  OBVIOUS
<1> HIDE DEF used, o2, n, m
<1>h. /\ x \notin Range(l) => /\ Len(used) = n + 1 /\ used[n + 1] = x
                              /\ \A i \in 1 .. n : used[i] = l[i]
      /\ \A k \in 1 .. n : l[k] = x => /\ Len(used) = n /\ used[n] = x
                                       /\ \A i \in 1 .. k - 1 : used[i] = l[i]
                                       /\ \A i \in k .. n - 1 : used[i] = l[i + 1]
  BY <1>d DEF Uses, n
<1>i. /\ x \notin Range(o) => /\ Len(o2) = m + 1 /\ o2[m + 1] = x
                              /\ \A i \in 1 .. m : o2[i] = o[i]
      /\ \A k \in 1 .. m : o[k] = x => /\ Len(o2) = m /\ o2[m] = x
                                       /\ \A i \in 1 .. k - 1 : o2[i] = o[i]
                                       /\ \A i \in k .. m - 1 : o2[i] = o[i + 1]
  BY <1>e DEF Uses, m
<1>1. CASE x \in Range(l)
  <2>1. PICK k \in 1 .. n : l[k] = x
    BY <1>b, <1>1 DEF Range
  <2>2. m - n + k \in 1 .. m /\ o[m - n + k] = x
    BY <1>b, <1>c, <2>1
  <2>3. /\ Len(used) = n /\ used[n] = x
        /\ \A i \in 1 .. k - 1 : used[i] = l[i]
        /\ \A i \in k .. n - 1 : used[i] = l[i + 1]
    BY <1>h, <2>1
  <2>4. /\ Len(o2) = m /\ o2[m] = x
        /\ \A i \in 1 .. (m - n + k) - 1 : o2[i] = o[i]
        /\ \A i \in m - n + k .. m - 1 : o2[i] = o[i + 1]
    BY <1>i, <2>2
  <2>5. l2 = used
    BY <1>a, <1>b, <1>c, <2>3
  <2>6. ASSUME NEW i \in 1 .. n PROVE used[i] = o2[m - n + i]
    <3>1. CASE i < k
      <4>1. i \in 1 .. k - 1 /\ m - n + i \in 1 .. (m - n + k) - 1
        BY <1>b, <1>c, <3>1
      <4> QED
        BY <1>c, <2>3, <2>4, <4>1
    <3>2. CASE i >= k /\ i # n
      <4>1. /\ i \in k .. n - 1 /\ m - n + i \in m - n + k .. m - 1 /\ i + 1 \in 1 .. n
            /\ (m - n + i) + 1 = m - n + (i + 1)
        BY <1>b, <1>c, <3>2
      <4>2. used[i] = l[i + 1] /\ l[i + 1] = o[m - n + (i + 1)]
        BY <1>c, <2>3, <4>1
      <4>3. o2[m - n + i] = o[(m - n + i) + 1]
        BY <2>4, <4>1
      <4> QED
        BY <4>1, <4>2, <4>3
    <3>3. CASE i = n
      <4>1. m - n + i = m
        BY <1>b, <3>3
      <4> QED
        BY <2>3, <2>4, <3>3, <4>1
    <3> QED
      BY <1>b, <3>1, <3>2, <3>3
  <2> QED
    BY <1>c, <2>3, <2>4, <2>5, <2>6 DEF Holds, Suffix, used, o2
<1>2. CASE x \notin Range(l)
  <2>1. Len(used) = n + 1 /\ used[n + 1] = x /\ \A i \in 1 .. n : used[i] = l[i]
    BY <1>h, <1>2
  <2>2. /\ Len(Tail(used)) = n /\ \A i \in 1 .. n : Tail(used)[i] = used[i + 1]
    <3>1. used # <<>>
      BY <1>b, <1>d, <1>g, <2>1
    <3>2. (n + 1) - 1 = n
      BY <1>b
    <3> QED
      BY <1>f, <2>1, <3>1, <3>2
  <2>3. CASE x \notin Range(o)
    <3>1. Len(o2) = m + 1 /\ o2[m + 1] = x /\ \A i \in 1 .. m : o2[i] = o[i]
      BY <1>i, <2>3
    <3>2. ASSUME NEW i \in 1 .. n + 1 PROVE used[i] = o2[m - n + i]
      <4>1. CASE i = n + 1
        <5>1. m - n + i = m + 1
          BY <1>b, <4>1
        <5> QED
          BY <2>1, <3>1, <4>1, <5>1
      <4>2. CASE i # n + 1
        <5>1. i \in 1 .. n /\ m - n + i \in 1 .. m
          BY <1>b, <1>c, <4>2
        <5> QED
          BY <1>c, <2>1, <3>1, <5>1
      <4> QED
        BY <4>1, <4>2
    <3>3. CASE n + 1 > CacheSize
      <4>1. n = CacheSize /\ l2 = Tail(used)
        BY <1>a, <1>b, <1>c, <2>1, <3>3
      <4>2. ASSUME NEW i \in 1 .. n PROVE Tail(used)[i] = o2[(m + 1) - n + i]
        <5>1. i + 1 \in 1 .. n + 1 /\ m - n + (i + 1) = (m + 1) - n + i
          BY <1>b
        <5> QED
          BY <2>2, <3>2, <5>1
      <4>3. n <= m + 1 /\ n <= CacheSize
        BY <1>b, <1>c
      <4> QED
        BY <2>2, <3>1, <4>1, <4>2, <4>3 DEF Holds, Suffix, used, o2
    <3>4. CASE ~(n + 1 > CacheSize)
      <4>1. l2 = used /\ n = m /\ n + 1 <= CacheSize
        BY <1>a, <1>b, <1>c, <2>1, <3>4
      <4>2. n + 1 <= m + 1 /\ \A i \in 1 .. n + 1 : m - n + i = (m + 1) - (n + 1) + i
        BY <1>b, <4>1
      <4> QED
        BY <2>1, <3>1, <3>2, <4>1, <4>2 DEF Holds, Suffix, used, o2
    <3> QED
      BY <3>3, <3>4
  <2>4. CASE x \in Range(o)
    <3>1. PICK k \in 1 .. m : o[k] = x
      BY <1>b, <2>4 DEF Range
    <3>2. k <= m - n
      <4>1. SUFFICES ASSUME k > m - n PROVE FALSE
        BY <1>b
      <4>2. k - (m - n) \in 1 .. n /\ (m - n) + (k - (m - n)) = k
        BY <1>b, <1>c, <4>1
      <4>3. l[k - (m - n)] = x
        BY <1>c, <3>1, <4>2
      <4> QED
        BY <1>2, <1>b, <4>2, <4>3 DEF Range
    <3>3. n = CacheSize /\ n < m
      BY <1>a, <1>b, <1>c, <3>2
    <3>4. l2 = Tail(used)
      BY <1>a, <1>b, <2>1, <3>3
    <3>5. Len(o2) = m /\ o2[m] = x /\ \A i \in k .. m - 1 : o2[i] = o[i + 1]
      BY <1>i, <3>1
    <3>6. ASSUME NEW i \in 1 .. n PROVE Tail(used)[i] = o2[m - n + i]
      <4>1. CASE i = n
        <5>1. m - n + i = m
          BY <1>b, <4>1
        <5> QED
          BY <2>1, <2>2, <3>5, <4>1, <5>1
      <4>2. CASE i # n
        <5>1. /\ i + 1 \in 1 .. n /\ m - n + i \in k .. m - 1
              /\ (m - n + i) + 1 = m - n + (i + 1)
          BY <1>b, <1>c, <3>2, <4>2
        <5>2. Tail(used)[i] = used[i + 1] /\ used[i + 1] = l[i + 1] /\ l[i + 1] = o[m - n + (i + 1)]
          BY <1>c, <2>1, <2>2, <5>1
        <5>3. o2[m - n + i] = o[(m - n + i) + 1]
          BY <3>5, <5>1
        <5> QED
          BY <5>1, <5>2, <5>3
      <4> QED
        BY <4>1, <4>2
    <3> QED
      BY <1>b, <1>c, <2>2, <3>3, <3>4, <3>5, <3>6 DEF Holds, Suffix, used, o2
  <2> QED
    BY <2>3, <2>4
<1> QED
  BY <1>1, <1>2

CallStates == [pc : {"idle"}] \cup [pc : {"register", "update"}, label : Labels, metrics : Nat]
CallsType == call \in [Callers -> CallStates] /\ created \in Nat /\ registered \in Nat
SeriesType == /\ lru = [m \in M!Instances |-> lru[m]] /\ evicted = [m \in M!Instances |-> evicted[m]]
              /\ datas = [m \in M!Instances |-> datas[m]] /\ order = [m \in M!Instances |-> order[m]]
ListsOk == \A m \in M!Instances :
             /\ lru[m] \in Seq(Labels) /\ IsInjective(lru[m])
             /\ order[m] \in Seq(Labels) /\ IsInjective(order[m])
             /\ Holds(lru[m], order[m])
SeriesOk == \A m \in M!Instances : /\ DOMAIN datas[m] = Range(lru[m]) \cup evicted[m]
                                   /\ Range(lru[m]) \cap evicted[m] = {}
SeriesInv == CallsType /\ SeriesType /\ ListsOk /\ SeriesOk

\* Steps of a call that leave the series.
LEMMA CallMoves ==
    ASSUME SeriesInv, CallsType', UNCHANGED <<lru, evicted, datas, order>>
    PROVE  SeriesInv'
<1>1. SeriesType'
  BY DEF SeriesInv, SeriesType
<1>2. ListsOk' /\ SeriesOk'
  BY DEF SeriesInv, ListsOk, SeriesOk
<1> QED
  BY <1>1, <1>2 DEF SeriesInv

LEMMA CallSteps ==
    ASSUME SeriesInv, NEW c \in Callers,
           \/ \E l \in Labels : M!LookUp(c, l)
           \/ M!Register(c) \/ M!Reject(c)
    PROVE  SeriesInv'
<1>a. call \in [Callers -> CallStates] /\ created \in Nat /\ registered \in Nat
  BY DEF SeriesInv, CallsType
<1>1. ASSUME NEW q \in CallStates, call' = [call EXCEPT ![c] = q], created' \in Nat, registered' \in Nat
      PROVE  CallsType'
  BY <1>a, <1>1 DEF CallsType
<1>2. ASSUME NEW l \in Labels, M!LookUp(c, l) PROVE SeriesInv'
  <2>1. UNCHANGED <<registered, lru, evicted, datas, order>>
    BY <1>2 DEF M!LookUp
  <2>2. CASE registered = 0
    <3> DEFINE q == [pc |-> "register", label |-> l, metrics |-> created + 1]
    <3>1. q \in CallStates
      BY <1>a DEF CallStates
    <3>2. call' = [call EXCEPT ![c] = q] /\ created' = created + 1
      BY <1>2, <2>2 DEF M!LookUp
    <3>3. created' \in Nat /\ registered' \in Nat
      BY <1>a, <2>1, <3>2
    <3> HIDE DEF q
    <3>4. CallsType'
      BY <1>1, <3>1, <3>2, <3>3
    <3> QED
      BY <2>1, <3>4, CallMoves
  <2>3. CASE registered # 0
    <3> DEFINE q == [pc |-> "update", label |-> l, metrics |-> registered]
    <3>1. q \in CallStates
      BY <1>a DEF CallStates
    <3>2. call' = [call EXCEPT ![c] = q] /\ created' = created
      BY <1>2, <2>3 DEF M!LookUp
    <3>3. created' \in Nat /\ registered' \in Nat
      BY <1>a, <2>1, <3>2
    <3> HIDE DEF q
    <3>4. CallsType'
      BY <1>1, <3>1, <3>2, <3>3
    <3> QED
      BY <2>1, <3>4, CallMoves
  <2> QED
    BY <2>2, <2>3
<1>3. ASSUME M!Register(c) PROVE SeriesInv'
  <2>1. /\ call[c].pc = "register" /\ registered' = call[c].metrics
        /\ UNCHANGED <<created, lru, evicted, datas, order>>
    BY <1>3 DEF M!Register
  <2>2. call[c] \in [pc : {"register", "update"}, label : Labels, metrics : Nat]
    <3>1. call[c] \in CallStates
      BY <1>a
    <3> QED
      BY <2>1, <3>1 DEF CallStates
  <2>3. [call[c] EXCEPT !.pc = "update"] \in CallStates /\ call[c].metrics \in Nat
    BY <2>2 DEF CallStates
  <2>4. call' = [call EXCEPT ![c] = [call[c] EXCEPT !.pc = "update"]]
    BY <1>3, <1>a DEF M!Register
  <2> QED
    BY <1>1, <1>a, <2>1, <2>3, <2>4, CallMoves
<1>4. ASSUME M!Reject(c) PROVE SeriesInv'
  <2>1. /\ call' = [call EXCEPT ![c] = [pc |-> "idle"]]
        /\ UNCHANGED <<registered, created, lru, evicted, datas, order>>
    BY <1>4 DEF M!Reject, M!Idle
  <2>2. [pc |-> "idle"] \in CallStates
    BY DEF CallStates
  <2> QED
    BY <1>1, <1>a, <2>1, <2>2, CallMoves
<1> QED
  BY <1>2, <1>3, <1>4

LEMMA UpdateStep ==
    ASSUME SeriesInv, NEW c \in Callers, M!Update(c) PROVE SeriesInv'
<1>a. CallsType /\ SeriesType /\ ListsOk /\ SeriesOk
  BY DEF SeriesInv
<1>b. call[c].pc = "update" /\ UNCHANGED <<registered, created>>
  BY DEF M!Update
<1>c. PICK m, x : m = call[c].metrics /\ x = call[c].label
  OBVIOUS
<1>d. x \in Labels
  <2>1. call[c] \in CallStates
    BY <1>a DEF CallsType
  <2>2. call[c] \in [pc : {"register", "update"}, label : Labels, metrics : Nat]
    BY <1>b, <2>1 DEF CallStates
  <2> QED
    BY <1>c, <2>2
<1>1. CallsType'
  <2>1. call' = [call EXCEPT ![c] = [pc |-> "idle"]]
    BY DEF M!Update, M!Idle
  <2>2. [pc |-> "idle"] \in CallStates
    BY DEF CallStates
  <2> QED
    BY <1>a, <1>b, <2>1, <2>2 DEF CallsType
<1> DEFINE used == M!Use(lru[m], x)
          full == Len(used) > CacheSize
<1>2. /\ lru' = [lru EXCEPT ![m] = IF full THEN Tail(used) ELSE used]
      /\ evicted' = [evicted EXCEPT ![m] = (@ \ M!Range(used)) \cup (IF full THEN {Head(used)} ELSE {})]
      /\ order' = [order EXCEPT ![m] = M!Use(@, x)]
      /\ \E d : datas' = [datas EXCEPT ![m] = [l \in DOMAIN datas[m] \cup {x} |-> d[l]]]
  <2> DEFINE d == [l \in DOMAIN datas[m] \cup {x} |->
                     (IF l \in DOMAIN datas[m] THEN datas[m][l] ELSE 0) + (IF l = x THEN 1 ELSE 0)]
  <2>1. datas' = [datas EXCEPT ![m] = d]
    BY <1>c DEF M!Update
  <2>2. d = [l \in DOMAIN datas[m] \cup {x} |-> d[l]]
    OBVIOUS
  <2> HIDE DEF d
  <2>3. \E e : datas' = [datas EXCEPT ![m] = [l \in DOMAIN datas[m] \cup {x} |-> e[l]]]
    BY <2>1, <2>2
  <2> QED
    BY <1>c, <2>3 DEF M!Update, M!Touched
<1>3. PICK d : datas' = [datas EXCEPT ![m] = [l \in DOMAIN datas[m] \cup {x} |-> d[l]]]
  BY <1>2
<1>4. SeriesType'
  BY <1>a, <1>2, <1>3 DEF SeriesType, M!Instances
<1>5. \A i \in M!Instances \ {m} : /\ lru'[i] = lru[i] /\ evicted'[i] = evicted[i]
                                   /\ datas'[i] = datas[i] /\ order'[i] = order[i]
  BY <1>a, <1>2, <1>3 DEF SeriesType
<1>6. ASSUME m \in M!Instances
      PROVE  /\ lru'[m] \in Seq(Labels) /\ IsInjective(lru'[m])
             /\ order'[m] \in Seq(Labels) /\ IsInjective(order'[m])
             /\ Holds(lru'[m], order'[m])
             /\ DOMAIN datas'[m] = Range(lru'[m]) \cup evicted'[m]
             /\ Range(lru'[m]) \cap evicted'[m] = {}
  <2>1. /\ lru'[m] = IF full THEN Tail(used) ELSE used
        /\ order'[m] = M!Use(order[m], x)
        /\ evicted'[m] = (evicted[m] \ M!Range(used)) \cup (IF full THEN {Head(used)} ELSE {})
        /\ datas'[m] = [l \in DOMAIN datas[m] \cup {x} |-> d[l]]
    BY <1>a, <1>2, <1>3, <1>6 DEF SeriesType
  <2>2. /\ lru[m] \in Seq(Labels) /\ IsInjective(lru[m])
        /\ order[m] \in Seq(Labels) /\ IsInjective(order[m])
        /\ Holds(lru[m], order[m])
        /\ DOMAIN datas[m] = Range(lru[m]) \cup evicted[m]
        /\ Range(lru[m]) \cap evicted[m] = {}
    BY <1>a, <1>6 DEF ListsOk, SeriesOk
  <2>3. /\ used \in Seq(Labels) /\ IsInjective(used) /\ Range(used) = Range(lru[m]) \cup {x}
        /\ order'[m] \in Seq(Labels) /\ IsInjective(order'[m])
    <3>1. used \in Seq(Labels) /\ IsInjective(used) /\ Range(used) = Range(lru[m]) \cup {x}
      BY <1>d, <2>2, UseFacts
    <3>2. M!Use(order[m], x) \in Seq(Labels) /\ IsInjective(M!Use(order[m], x))
      BY <1>d, <2>2, UseFacts
    <3> HIDE DEF used
    <3> QED
      BY <2>1, <3>1, <3>2
  <2>4. Holds(lru'[m], order'[m])
    BY <1>d, <2>1, <2>2, HoldsUsed
  <2>5. M!Range(used) = Range(used)
    BY DEF M!Range, Range
  <2>6. DOMAIN datas'[m] = DOMAIN datas[m] \cup {x}
    BY <2>1
  <2>7. full => used # <<>>
    <3>1. Len(<<>>) = 0 /\ CacheSize \in Nat
      BY SizesAssumption
    <3>2. used = <<>> => Len(used) = 0
      BY <3>1
    <3> HIDE DEF used
    <3> QED
      BY <3>1, <3>2
  <2> HIDE DEF used, full
  <2>8. CASE full
    <3>1. /\ Tail(used) \in Seq(Labels) /\ IsInjective(Tail(used))
          /\ Range(used) = {Head(used)} \cup Range(Tail(used)) /\ Head(used) \notin Range(Tail(used))
      BY <2>3, <2>7, <2>8, TailFacts
    <3> QED
      BY <2>1, <2>2, <2>3, <2>4, <2>5, <2>6, <2>8, <3>1
  <2>9. CASE ~full
    BY <2>1, <2>2, <2>3, <2>4, <2>5, <2>6, <2>9
  <2> QED
    BY <2>8, <2>9
<1>7. ListsOk' /\ SeriesOk'
  <2>1. M!Instances' = M!Instances
    BY DEF M!Instances
  <2> QED
    BY <1>a, <1>5, <1>6, <2>1 DEF ListsOk, SeriesOk
<1> QED
  BY <1>1, <1>4, <1>7 DEF SeriesInv

LEMMA CollectStep ==
    ASSUME SeriesInv, M!Collect PROVE SeriesInv'
<1>a. CallsType /\ SeriesType /\ ListsOk /\ SeriesOk
  BY DEF SeriesInv
<1>1. /\ evicted' = [evicted EXCEPT ![registered] = {}]
      /\ datas' = [datas EXCEPT ![registered] =
           [l \in DOMAIN @ \cap M!Range(lru[registered]) |-> datas[registered][l]]]
      /\ UNCHANGED <<registered, created, lru, call, order>>
  BY DEF M!Collect
<1>2. SeriesType'
  BY <1>a, <1>1 DEF SeriesType, M!Instances
<1>3. \A i \in M!Instances \ {registered} : evicted'[i] = evicted[i] /\ datas'[i] = datas[i]
  BY <1>a, <1>1 DEF SeriesType
<1>4. ASSUME registered \in M!Instances
      PROVE  evicted'[registered] = {} /\ DOMAIN datas'[registered] = Range(lru[registered])
  <2>1. /\ evicted'[registered] = {}
        /\ datas'[registered] = [l \in DOMAIN datas[registered] \cap M!Range(lru[registered]) |-> datas[registered][l]]
    BY <1>a, <1>1, <1>4 DEF SeriesType
  <2>2. DOMAIN datas'[registered] = DOMAIN datas[registered] \cap M!Range(lru[registered])
    BY <2>1
  <2>3. M!Range(lru[registered]) = Range(lru[registered])
    BY DEF M!Range, Range
  <2> QED
    BY <1>a, <1>4, <2>1, <2>2, <2>3 DEF SeriesOk
<1>5. SeriesOk'
  <2>1. \A m \in M!Instances : /\ DOMAIN datas'[m] = Range(lru[m]) \cup evicted'[m]
                               /\ Range(lru[m]) \cap evicted'[m] = {}
    BY <1>a, <1>3, <1>4 DEF SeriesOk
  <2> QED
    BY <1>1, <2>1 DEF SeriesOk, M!Instances
<1>6. ListsOk' /\ CallsType'
  BY <1>a, <1>1 DEF ListsOk, CallsType, M!Instances
<1> QED
  BY <1>2, <1>5, <1>6 DEF SeriesInv

\* Whatever is evicted, revived, updated and collected in between, by whichever calls:
\* every series is in the cache or on its way out, and those updated last stay.
THEOREM RecentKeptTheorem == Spec => []RecentKept
<1>1. Init => SeriesInv
  <2> SUFFICES ASSUME M!Init PROVE SeriesInv
    BY DEF Init
  <2>1. /\ registered = 0 /\ created = 0
        /\ lru = [m \in M!Instances |-> <<>>] /\ evicted = [m \in M!Instances |-> {}]
        /\ datas = [m \in M!Instances |-> <<>>] /\ order = [m \in M!Instances |-> <<>>]
        /\ call = [c \in Callers |-> [pc |-> "idle"]]
    BY DEF M!Init, M!Idle
  <2>2. CallsType
    BY <2>1 DEF CallsType, CallStates
  <2>3. SeriesType
    BY <2>1 DEF SeriesType
  <2>4. <<>> \in Seq(Labels) /\ Len(<<>>) = 0 /\ DOMAIN <<>> = {}
    OBVIOUS
  <2>5. Range(<<>>) = {} /\ IsInjective(<<>>)
    BY <2>4 DEF Range, IsInjective
  <2>6. Holds(<<>>, <<>>)
    BY <2>4, SizesAssumption DEF Holds, Suffix
  <2>7. ListsOk
    BY <2>1, <2>4, <2>5, <2>6 DEF ListsOk
  <2>8. SeriesOk
    BY <2>1, <2>4, <2>5 DEF SeriesOk
  <2> QED
    BY <2>2, <2>3, <2>7, <2>8 DEF SeriesInv
<1>2. SeriesInv /\ [Next]_vars => SeriesInv'
  <2> SUFFICES ASSUME SeriesInv, [Next]_vars PROVE SeriesInv'
    OBVIOUS
  <2>1. ASSUME UNCHANGED mVars PROVE SeriesInv'
    BY <2>1, CallMoves DEF mVars, SeriesInv, CallsType
  <2>2. M!Next => SeriesInv'
    BY CallSteps, UpdateStep, CollectStep DEF M!Next
  <2> QED
    BY <2>1, <2>2, StepOfEach
<1>3. SeriesInv => RecentKept
  <2> SUFFICES ASSUME SeriesInv, NEW m \in M!Instances
               PROVE  /\ DOMAIN datas[m] = M!Range(lru[m]) \cup evicted[m]
                      /\ M!Range(lru[m]) \cap evicted[m] = {}
                      /\ M!Newest(m) \subseteq DOMAIN datas[m]
    BY DEF RecentKept, M!RecentKept
  <2>1. M!Range(lru[m]) = Range(lru[m])
    BY DEF M!Range, Range
  <2>2. /\ DOMAIN datas[m] = Range(lru[m]) \cup evicted[m]
        /\ Range(lru[m]) \cap evicted[m] = {}
        /\ lru[m] \in Seq(Labels) /\ order[m] \in Seq(Labels) /\ Holds(lru[m], order[m])
    BY DEF SeriesInv, ListsOk, SeriesOk
  <2>3. ASSUME NEW j \in DOMAIN order[m], j > Len(order[m]) - CacheSize
        PROVE  order[m][j] \in Range(lru[m])
    <3> DEFINE n == Len(lru[m])
              k == Len(order[m])
    <3>1. /\ n \in Nat /\ k \in Nat /\ DOMAIN lru[m] = 1 .. n /\ DOMAIN order[m] = 1 .. k
          /\ CacheSize \in Nat
      BY <2>2, SizesAssumption
    <3>2. n <= k /\ (n = CacheSize \/ n = k) /\ \A i \in 1 .. n : lru[m][i] = order[m][k - n + i]
      BY <2>2 DEF Holds, Suffix
    <3>3. j \in 1 .. k /\ j > k - CacheSize
      BY <2>3, <3>1
    <3> HIDE DEF n, k
    <3>4. j - (k - n) \in 1 .. n /\ k - n + (j - (k - n)) = j
      BY <3>1, <3>2, <3>3
    <3>5. lru[m][j - (k - n)] = order[m][j]
      BY <3>2, <3>4
    <3> QED
      BY <3>1, <3>4, <3>5 DEF Range
  <2>4. M!Newest(m) \subseteq Range(lru[m])
    BY <2>3 DEF M!Newest
  <2> QED
    BY <2>1, <2>2, <2>4
<1> QED
  BY <1>1, <1>2, <1>3, PTL DEF Spec
-----------------------------------------------------------------------------
(* TraceLists                                                              *)

ItemsStored == [kind : L!Kinds, place : Nat \cup L!Kinds, at : Nat]
ListsMade == [expire : Nat, items : [L!Kinds -> Seq(Nat)]]
RedisKeys == [items : Seq(Nat), expire : Nat]
StoringStates == [pc : {"idle"}] \cup [pc : {"put", "add"}, item : Nat, place : Nat, since : Nat]
                 \cup [pc : {"expire"}, item : Nat, place : L!Kinds, since : Nat]

ClockType == /\ local \in BOOLEAN /\ now \in Nat \ {0} /\ calls \in Nat
             /\ sweep \in [pc : {"idle"}] \cup [pc : {"delete"}, time : Nat]
             /\ (sweep.pc = "delete" => sweep.time <= now)
StoredType == stored \in Seq(ItemsStored) /\ Len(stored) = calls
StoringType == storing \in [Callers -> StoringStates]
ListsType == lists \in Seq(ListsMade) /\ traceMap \in 0 .. Len(lists)
KeysType == keys \in [L!Kinds -> RedisKeys]

\* What is about to be stored is not yet, and the list or key found for it is still
\* the trace's, or lost a race.
CallOk(c) ==
  storing[c].pc # "idle" =>
    LET n == storing[c].item
        p == storing[c].place
    IN  /\ n \in 1 .. calls /\ stored[n].at = 0
        /\ (storing[c].pc \in {"put", "add"} => local /\ p \in 1 .. Len(lists))
        /\ (storing[c].pc = "add" => p = traceMap \/ p \in raced)
        /\ (storing[c].pc = "expire" => /\ ~local /\ p = stored[n].kind
                                        /\ n \in Range(keys[p].items) \/ p \in raced)
Apart == \A c \in Callers : \A d \in Callers :
           storing[c].pc # "idle" /\ storing[d].pc # "idle" /\ storing[c].item = storing[d].item => c = d
\* A list holds what was stored, a key what was pushed, once.
ListHolds(l, k) == /\ IsInjective(lists[l].items[k])
                /\ \A n \in Range(lists[l].items[k]) : n \in 1 .. calls /\ stored[n].at > 0
KeyOk(k) == IsInjective(keys[k].items) /\ \A n \in Range(keys[k].items) : n \in 1 .. calls
\* What was stored is in its list or key, which lives long enough.
InList(n, p) == /\ p \in 1 .. Len(lists) /\ n \in Range(lists[p].items[stored[n].kind])
                /\ stored[n].at + ExpireTime <= lists[p].expire
                /\ p \in raced \/ traceMap = p \/ stored[n].at + ExpireTime < now
InKey(n, p) == /\ p = stored[n].kind
               /\ \/ p \in raced \/ stored[n].at + ExpireTime <= now
                  \/ n \in Range(keys[p].items) /\ stored[n].at + ExpireTime <= keys[p].expire
ItemOk(n) == stored[n].at > 0 => /\ stored[n].at <= now
                                 /\ (local => InList(n, stored[n].place))
                                 /\ (~local => InKey(n, stored[n].place))

SpansType == ClockType /\ StoredType /\ StoringType /\ ListsType /\ KeysType
SpansInv == /\ SpansType /\ Apart
            /\ \A c \in Callers : CallOk(c)
            /\ \A l \in 1 .. Len(lists), k \in L!Kinds : ListHolds(l, k)
            /\ \A k \in L!Kinds : KeyOk(k)
            /\ \A n \in 1 .. calls : ItemOk(n)

LEMMA TypeOfCall ==
    ASSUME StoringType, NEW c \in Callers
    PROVE  /\ storing[c] \in StoringStates
           /\ storing[c].pc \in {"idle", "put", "add", "expire"}
           /\ storing[c].pc # "idle" => storing[c].item \in Nat
           /\ storing[c].pc \in {"put", "add"} =>
                storing[c] \in [pc : {"put", "add"}, item : Nat, place : Nat, since : Nat]
           /\ storing[c].pc = "expire" =>
                storing[c] \in [pc : {"expire"}, item : Nat, place : L!Kinds, since : Nat]
<1>1. storing[c] \in StoringStates
  BY DEF StoringType
<1> QED
  BY <1>1 DEF StoringStates

LEMMA TypeOfItem ==
    ASSUME StoredType, NEW n \in 1 .. calls
    PROVE  stored[n] \in ItemsStored /\ stored[n].kind \in L!Kinds /\ stored[n].at \in Nat
<1>1. stored[n] \in ItemsStored
  BY DEF StoredType
<1> QED
  BY <1>1 DEF ItemsStored

LEMMA TypeOfList ==
    ASSUME ListsType, NEW l \in 1 .. Len(lists), NEW k \in L!Kinds
    PROVE  /\ lists[l] \in ListsMade /\ lists[l].expire \in Nat /\ lists[l].items \in [L!Kinds -> Seq(Nat)]
           /\ lists[l].items[k] \in Seq(Nat)
<1>1. lists[l] \in ListsMade
  BY DEF ListsType
<1> QED
  BY <1>1 DEF ListsMade

LEMMA TypeOfKey ==
    ASSUME KeysType, NEW k \in L!Kinds
    PROVE  keys[k] \in RedisKeys /\ keys[k].items \in Seq(Nat) /\ keys[k].expire \in Nat
<1>1. keys[k] \in RedisKeys
  BY DEF KeysType
<1> QED
  BY <1>1 DEF RedisKeys

\* A call takes another state.
LEMMA CallTakes ==
    ASSUME StoringType, NEW c \in Callers, NEW q \in StoringStates, storing' = [storing EXCEPT ![c] = q]
    PROVE  StoringType' /\ storing'[c] = q /\ \A d \in Callers \ {c} : storing'[d] = storing[d]
<1>1. storing \in [Callers -> StoringStates]
  BY DEF StoringType
<1> QED
  BY <1>1 DEF StoringType

\* A step that changes nothing of the trace but the sweep.
LEMMA SweepMoves ==
    ASSUME SpansInv, ClockType',
           UNCHANGED <<local, now, lists, traceMap, keys, storing, stored, raced, calls>>
    PROVE  SpansInv'
<1>1. SpansType' /\ Apart'
  BY DEF SpansInv, SpansType, StoredType, StoringType, ListsType, KeysType, Apart
<1>2. \A c \in Callers : CallOk(c)'
  BY DEF SpansInv, CallOk
<1>3. (\A l \in 1 .. Len(lists), k \in L!Kinds : ListHolds(l, k)') /\ (\A k \in L!Kinds : KeyOk(k)')
  BY DEF SpansInv, ListHolds, KeyOk
<1>4. \A n \in 1 .. calls : ItemOk(n)'
  BY DEF SpansInv, ItemOk, InList, InKey
<1> QED
  BY <1>1, <1>2, <1>3, <1>4 DEF SpansInv

LEMMA CheckDeleteStep ==
    ASSUME SpansInv, L!Check \/ L!Delete PROVE SpansInv'
<1>a. SpansType
  BY DEF SpansInv
<1>1. CASE L!Check
  <2>1. /\ sweep' = [pc |-> "delete", time |-> now]
        /\ UNCHANGED <<local, now, lists, traceMap, keys, storing, stored, raced, calls>>
    BY <1>1 DEF L!Check
  <2>2. now \in Nat /\ now <= now
    BY <1>a DEF SpansType, ClockType
  <2>3. ClockType'
    BY <1>a, <2>1, <2>2 DEF SpansType, ClockType
  <2> QED
    BY <2>1, <2>3, SweepMoves
<1>2. CASE L!Delete
  <2>1. /\ sweep.pc = "delete" /\ traceMap' = 0 /\ sweep' = [pc |-> "idle"]
        /\ raced' = IF traceMap # 0 /\ (lists[traceMap].expire >= sweep.time \/ L!Busy(traceMap))
                    THEN raced \cup {traceMap} ELSE raced
        /\ UNCHANGED <<local, now, lists, keys, storing, stored, calls>>
    BY <1>2 DEF L!Delete, L!Idle
  <2>2. ClockType'
    BY <1>a, <2>1 DEF SpansType, ClockType
  <2>3. SpansType'
    <3>1. 0 \in 0 .. Len(lists)
      BY <1>a DEF SpansType, ListsType
    <3> QED
      BY <1>a, <2>1, <2>2, <3>1 DEF SpansType, StoredType, StoringType, ListsType, KeysType
  <2>4. ASSUME NEW c \in Callers PROVE CallOk(c)'
    <3>1. CallOk(c)
      BY DEF SpansInv
    <3>2. storing[c].pc = "add" /\ storing[c].place = traceMap /\ storing[c].place \in 1 .. Len(lists)
            => traceMap \in raced'
      <4> SUFFICES ASSUME storing[c].pc = "add", storing[c].place = traceMap,
                          storing[c].place \in 1 .. Len(lists)
                   PROVE  traceMap \in raced'
        OBVIOUS
      <4>1. L!Busy(traceMap) /\ traceMap # 0
        BY DEF L!Busy
      <4> QED
        BY <2>1, <4>1
    <3>3. raced \subseteq raced'
      BY <2>1
    <3> QED
      BY <2>1, <3>1, <3>2, <3>3 DEF CallOk
  <2>5. ASSUME NEW n \in 1 .. calls PROVE ItemOk(n)'
    <3>1. ItemOk(n)
      BY DEF SpansInv
    <3>2. raced \subseteq raced'
      BY <2>1
    <3>3. ASSUME NEW p, local, InList(n, p) PROVE InList(n, p)'
      <4>1. CASE traceMap = p /\ p \notin raced'
        <5>1. p \in 1 .. Len(lists) /\ stored[n].at + ExpireTime <= lists[p].expire
          BY <3>3 DEF InList
        <5>2. ~(lists[p].expire >= sweep.time) /\ sweep.time <= now /\ sweep.time \in Nat /\ now \in Nat
          <6>1. sweep \in [pc : {"delete"}, time : Nat]
            BY <1>a, <2>1 DEF SpansType, ClockType
          <6> QED
            BY <1>a, <2>1, <4>1, <5>1, <6>1 DEF SpansType, ClockType
        <5>3. lists[p].expire \in Nat /\ stored[n].at \in Nat /\ ExpireTime \in Nat
          BY <1>a, <5>1, TypeOfList, TypeOfItem, SizesAssumption DEF SpansType, L!Kinds
        <5>4. stored[n].at + ExpireTime < now
          BY <5>1, <5>2, <5>3
        <5> QED
          BY <2>1, <3>3, <5>4 DEF InList
      <4>2. CASE traceMap # p \/ p \in raced'
        BY <2>1, <3>2, <3>3, <4>2 DEF InList
      <4> QED
        BY <4>1, <4>2
    <3>4. ASSUME NEW p, InKey(n, p) PROVE InKey(n, p)'
      BY <2>1, <3>2, <3>4 DEF InKey
    <3> QED
      BY <2>1, <3>1, <3>3, <3>4 DEF ItemOk
  <2>6. Apart' /\ (\A l \in 1 .. Len(lists), k \in L!Kinds : ListHolds(l, k)') /\ (\A k \in L!Kinds : KeyOk(k)')
    BY <2>1 DEF SpansInv, Apart, ListHolds, KeyOk
  <2> QED
    BY <2>1, <2>3, <2>4, <2>5, <2>6 DEF SpansInv
<1> QED
  BY <1>1, <1>2

LEMMA ClockStep ==
    ASSUME SpansInv, L!Clock PROVE SpansInv'
<1>a. SpansType
  BY DEF SpansInv
<1>1. /\ now < MaxTime /\ now' = now + 1
      /\ keys' = [k \in L!Kinds |-> IF keys[k].expire <= now' THEN L!NoKey ELSE keys[k]]
      /\ raced' = raced \cup {k \in L!Kinds : keys[k].expire <= now' /\ L!Busy(k)}
      /\ UNCHANGED <<local, lists, traceMap, storing, sweep, stored, calls>>
  BY DEF L!Clock
<1>2. now \in Nat \ {0} /\ now' \in Nat \ {0} /\ now <= now' /\ now < now'
  BY <1>a, <1>1 DEF SpansType, ClockType
<1>3. \A t \in Nat : t <= now => t <= now'
  BY <1>2
<1>4. ClockType'
  <2>1. sweep.pc = "delete" => sweep.time \in Nat
    BY <1>a DEF SpansType, ClockType
  <2> QED
    BY <1>a, <1>1, <1>2, <1>3, <2>1 DEF SpansType, ClockType
<1>5. L!NoKey \in RedisKeys /\ L!NoKey.items = <<>>
  <2>1. L!Never \in Nat
    BY SizesAssumption DEF L!Never
  <2> QED
    BY <2>1 DEF L!NoKey, RedisKeys
<1>6. ASSUME NEW k \in L!Kinds PROVE keys'[k] = IF keys[k].expire <= now' THEN L!NoKey ELSE keys[k]
  BY <1>1
<1>7. KeysType'
  BY <1>a, <1>1, <1>5 DEF SpansType, KeysType
<1>8. SpansType' /\ Apart'
  BY <1>a, <1>1, <1>4, <1>7 DEF SpansType, StoredType, StoringType, ListsType, SpansInv, Apart
<1>9. raced \subseteq raced' /\ \A k \in L!Kinds : keys[k].expire <= now' /\ L!Busy(k) => k \in raced'
  BY <1>1
<1>10. ASSUME NEW c \in Callers PROVE CallOk(c)'
  <2>1. CallOk(c)
    BY DEF SpansInv
  <2>2. storing[c].pc = "expire" =>
          LET p == storing[c].place IN p \in L!Kinds /\ (keys'[p] = keys[p] \/ p \in raced')
    <3> SUFFICES ASSUME storing[c].pc = "expire"
                 PROVE  LET p == storing[c].place IN p \in L!Kinds /\ (keys'[p] = keys[p] \/ p \in raced')
      OBVIOUS
    <3>1. storing[c].place \in L!Kinds
      BY <1>a, TypeOfCall DEF SpansType
    <3>2. L!Busy(storing[c].place)
      BY DEF L!Busy
    <3> QED
      BY <1>6, <1>9, <3>1, <3>2
  <2> QED
    BY <1>1, <1>9, <2>1, <2>2 DEF CallOk
<1>11. ASSUME NEW k \in L!Kinds PROVE KeyOk(k)'
  <2>1. KeyOk(k)
    BY DEF SpansInv
  <2>2. CASE keys'[k] = keys[k]
    BY <1>1, <2>1, <2>2 DEF KeyOk
  <2>3. CASE keys'[k] = L!NoKey
    <3>1. keys'[k].items = <<>> /\ DOMAIN <<>> = {}
      BY <1>5, <2>3
    <3> QED
      BY <3>1 DEF KeyOk, IsInjective, Range
  <2> QED
    BY <1>6, <2>2, <2>3
<1>12. ASSUME NEW n \in 1 .. calls PROVE ItemOk(n)'
  <2>1. ItemOk(n) /\ stored[n].at \in Nat /\ stored[n].at + ExpireTime \in Nat /\ stored[n].kind \in L!Kinds
    BY <1>a, TypeOfItem, SizesAssumption DEF SpansInv, SpansType
  <2>2. ASSUME NEW p, InList(n, p) PROVE InList(n, p)'
    <3>1. stored[n].at + ExpireTime < now => stored[n].at + ExpireTime < now'
      BY <1>2, <2>1
    <3> QED
      BY <1>1, <1>9, <2>2, <3>1 DEF InList
  <2>3. ASSUME NEW p, InKey(n, p) PROVE InKey(n, p)'
    <3>1. p \in L!Kinds /\ p = stored[n].kind
      BY <2>1, <2>3 DEF InKey
    <3>2. CASE p \in raced
      BY <1>1, <1>9, <3>1, <3>2 DEF InKey
    <3>3. CASE stored[n].at + ExpireTime <= now
      <4>1. stored[n].at + ExpireTime <= now'
        BY <1>2, <2>1, <3>3
      <4> QED
        BY <1>1, <3>1, <4>1 DEF InKey
    <3>4. CASE n \in Range(keys[p].items) /\ stored[n].at + ExpireTime <= keys[p].expire
      <4>1. CASE keys[p].expire <= now'
        <5>1. keys[p].expire \in Nat
          BY <1>a, <3>1, TypeOfKey DEF SpansType
        <5>2. stored[n].at + ExpireTime <= now'
          BY <1>2, <2>1, <3>4, <4>1, <5>1
        <5> QED
          BY <1>1, <3>1, <5>2 DEF InKey
      <4>2. CASE ~(keys[p].expire <= now')
        <5>1. keys'[p] = keys[p]
          BY <1>6, <3>1, <4>2
        <5> QED
          BY <1>1, <3>1, <3>4, <5>1 DEF InKey
      <4> QED
        BY <4>1, <4>2
    <3> QED
      BY <2>3, <3>2, <3>3, <3>4 DEF InKey
  <2>4. stored[n].at > 0 => stored[n].at <= now'
    BY <1>3, <2>1 DEF ItemOk
  <2> QED
    BY <1>1, <2>1, <2>2, <2>3, <2>4 DEF ItemOk
<1>13. \A l \in 1 .. Len(lists), k \in L!Kinds : ListHolds(l, k)'
  BY <1>1 DEF SpansInv, ListHolds
<1> QED
  BY <1>1, <1>8, <1>10, <1>11, <1>12, <1>13 DEF SpansInv

\* Another item, not stored yet.
LEMMA ItemComes ==
    ASSUME StoredType, calls \in Nat, NEW k \in L!Kinds, NEW p \in Nat \cup L!Kinds,
           calls' = calls + 1, stored' = Append(stored, [kind |-> k, place |-> p, at |-> 0])
    PROVE  /\ StoredType' /\ calls' \in 1 .. calls' /\ \A n \in 1 .. calls' : n \in 1 .. calls \/ n = calls'
           /\ \A n \in 1 .. calls : n \in 1 .. calls' /\ n # calls' /\ stored'[n] = stored[n]
           /\ stored'[calls'].kind = k /\ stored'[calls'].at = 0
<1> DEFINE r == [kind |-> k, place |-> p, at |-> 0]
<1>1. r \in ItemsStored /\ r.kind = k /\ r.at = 0
  BY DEF ItemsStored
<1> HIDE DEF r
<1>2. stored \in Seq(ItemsStored) /\ Len(stored) = calls /\ stored' = Append(stored, r)
  BY DEF StoredType, r
<1>3. /\ stored' \in Seq(ItemsStored) /\ Len(stored') = calls + 1 /\ stored'[calls + 1] = r
      /\ \A n \in 1 .. calls : stored'[n] = stored[n]
  BY <1>1, <1>2
<1> QED
  BY <1>1, <1>3 DEF StoredType

LEMMA LoadStep ==
    ASSUME SpansInv, NEW c \in Callers, NEW k \in L!Kinds, L!Load(c, k) PROVE SpansInv'
<1>a. SpansType /\ calls \in Nat /\ now \in Nat
  BY DEF SpansInv, SpansType, ClockType
<1>1. /\ local /\ storing[c].pc = "idle" /\ calls' = calls + 1
      /\ stored' = Append(stored, [kind |-> k, place |-> 0, at |-> 0])
      /\ UNCHANGED <<local, now, traceMap, keys, sweep, raced>>
  BY DEF L!Load
<1>2. /\ StoredType' /\ calls' \in 1 .. calls' /\ \A n \in 1 .. calls' : n \in 1 .. calls \/ n = calls'
      /\ \A n \in 1 .. calls : n \in 1 .. calls' /\ n # calls' /\ stored'[n] = stored[n]
      /\ stored'[calls'].kind = k /\ stored'[calls'].at = 0
  BY <1>a, <1>1, ItemComes DEF SpansType
<1>3. \E q \in StoringStates :
        /\ storing' = [storing EXCEPT ![c] = q] /\ q.pc \in {"put", "add"} /\ q.item = calls'
        /\ q.place \in 1 .. Len(lists') /\ (q.pc = "add" => q.place = traceMap)
        /\ ListsType' /\ Len(lists) <= Len(lists')
        /\ \A l \in 1 .. Len(lists') : \/ l \in 1 .. Len(lists) /\ lists'[l] = lists[l]
                                       \/ \A kind \in L!Kinds : lists'[l].items[kind] = <<>>
        /\ \A l \in 1 .. Len(lists) : lists'[l] = lists[l]
  <2>1. lists \in Seq(ListsMade) /\ traceMap \in 0 .. Len(lists) /\ Len(lists) \in Nat
    BY <1>a DEF SpansType, ListsType
  <2>2. CASE traceMap = 0
    <3> DEFINE new == [expire |-> 0, items |-> [kind \in L!Kinds |-> <<>>]]
              q == [pc |-> "put", item |-> calls', place |-> Len(lists'), since |-> now]
    <3>1. new \in ListsMade /\ \A kind \in L!Kinds : new.items[kind] = <<>>
      BY DEF ListsMade
    <3>2. lists' = Append(lists, new) /\ storing' = [storing EXCEPT ![c] = q]
      BY <2>2 DEF L!Load
    <3> HIDE DEF new
    <3>3. /\ lists' \in Seq(ListsMade) /\ Len(lists') = Len(lists) + 1 /\ lists'[Len(lists) + 1] = new
          /\ \A l \in 1 .. Len(lists) : lists'[l] = lists[l]
      BY <2>1, <3>1, <3>2
    <3>4. /\ q \in StoringStates /\ q.pc = "put" /\ q.item = calls' /\ q.place = Len(lists')
      BY <1>a, <1>1, <2>1, <3>3 DEF StoringStates
    <3> HIDE DEF q
    <3>5. \A l \in 1 .. Len(lists') : l \in 1 .. Len(lists) \/ l = Len(lists) + 1
      BY <2>1, <3>3
    <3>6. Len(lists') \in 1 .. Len(lists') /\ traceMap \in 0 .. Len(lists') /\ Len(lists) <= Len(lists')
      BY <2>1, <3>3
    <3> QED
      BY <1>1, <3>1, <3>2, <3>3, <3>4, <3>5, <3>6 DEF ListsType
  <2>3. CASE traceMap # 0
    <3> DEFINE q == [pc |-> "add", item |-> calls', place |-> traceMap, since |-> now]
    <3>1. lists' = lists /\ storing' = [storing EXCEPT ![c] = q]
      BY <2>3 DEF L!Load
    <3>2. q \in StoringStates /\ q.pc = "add" /\ q.item = calls' /\ q.place = traceMap
      BY <1>a, <1>1, <2>1 DEF StoringStates
    <3> HIDE DEF q
    <3>3. traceMap \in 1 .. Len(lists)
      BY <2>1, <2>3
    <3>4. ListsType' /\ Len(lists) <= Len(lists') /\ q.place \in 1 .. Len(lists')
      BY <1>1, <2>1, <3>1, <3>2, <3>3 DEF ListsType
    <3>5. /\ \A l \in 1 .. Len(lists') : l \in 1 .. Len(lists) /\ lists'[l] = lists[l]
          /\ \A l \in 1 .. Len(lists) : lists'[l] = lists[l]
      BY <3>1
    <3>6. q.pc \in {"put", "add"} /\ (q.pc = "add" => q.place = traceMap)
      BY <3>2
    <3> QED
      BY <3>1, <3>2, <3>4, <3>5, <3>6
  <2> QED
    BY <2>2, <2>3
<1>4. PICK q \in StoringStates :
        /\ storing' = [storing EXCEPT ![c] = q] /\ q.pc \in {"put", "add"} /\ q.item = calls'
        /\ q.place \in 1 .. Len(lists') /\ (q.pc = "add" => q.place = traceMap)
        /\ ListsType' /\ Len(lists) <= Len(lists')
        /\ \A l \in 1 .. Len(lists') : \/ l \in 1 .. Len(lists) /\ lists'[l] = lists[l]
                                       \/ \A kind \in L!Kinds : lists'[l].items[kind] = <<>>
        /\ \A l \in 1 .. Len(lists) : lists'[l] = lists[l]
  BY <1>3
<1>5. StoringType' /\ storing'[c] = q /\ \A d \in Callers \ {c} : storing'[d] = storing[d]
  BY <1>a, <1>4, CallTakes DEF SpansType
<1>6. SpansType'
  <2>1. ClockType'
    BY <1>a, <1>1 DEF SpansType, ClockType
  <2> QED
    BY <1>a, <1>1, <1>2, <1>4, <1>5, <2>1 DEF SpansType, KeysType
<1>7. \A l \in 1 .. Len(lists) : l \in 1 .. Len(lists')
  <2>1. Len(lists) \in Nat /\ Len(lists') \in Nat
    BY <1>a, <1>4 DEF SpansType, ListsType
  <2> QED
    BY <1>4, <2>1
<1>8. ASSUME NEW d \in Callers PROVE CallOk(d)' /\ (d # c /\ storing[d].pc # "idle" => storing[d].item # calls')
  <2>1. CallOk(d)
    BY DEF SpansInv
  <2>2. CASE d = c
    BY <1>1, <1>2, <1>4, <1>5, <2>2 DEF CallOk
  <2>3. CASE d # c
    BY <1>1, <1>2, <1>5, <1>7, <2>1, <2>3 DEF CallOk
  <2> QED
    BY <2>2, <2>3
<1>9. Apart'
  <2> SUFFICES ASSUME NEW d \in Callers, NEW e \in Callers, storing'[d].pc # "idle", storing'[e].pc # "idle",
                      storing'[d].item = storing'[e].item
               PROVE  d = e
    BY DEF Apart
  <2>1. CASE d # c /\ e # c
    BY <1>5, <2>1 DEF SpansInv, Apart
  <2>2. CASE d = c \/ e = c
    BY <1>4, <1>5, <1>8, <2>2
  <2> QED
    BY <2>1, <2>2
<1>10. ASSUME NEW l \in 1 .. Len(lists'), NEW kind \in L!Kinds PROVE ListHolds(l, kind)'
  <2>1. CASE l \in 1 .. Len(lists) /\ lists'[l] = lists[l]
    <3>1. ListHolds(l, kind)
      BY <2>1 DEF SpansInv
    <3> QED
      BY <1>2, <2>1, <3>1 DEF ListHolds
  <2>2. CASE lists'[l].items[kind] = <<>>
    <3>1. DOMAIN <<>> = {}
      OBVIOUS
    <3> QED
      BY <2>2, <3>1 DEF ListHolds, IsInjective, Range
  <2> QED
    BY <1>4, <2>1, <2>2
<1>11. \A kind \in L!Kinds : KeyOk(kind)'
  BY <1>1, <1>2 DEF SpansInv, KeyOk
<1>12. ASSUME NEW n \in 1 .. calls' PROVE ItemOk(n)'
  <2>1. CASE n = calls'
    BY <1>2, <2>1 DEF ItemOk
  <2>2. CASE n \in 1 .. calls
    <3>1. ItemOk(n) /\ stored'[n] = stored[n]
      BY <1>2, <2>2 DEF SpansInv
    <3>2. ASSUME NEW p, InList(n, p) PROVE InList(n, p)'
      BY <1>1, <1>4, <1>7, <3>1, <3>2 DEF InList
    <3> QED
      BY <1>1, <3>1, <3>2 DEF ItemOk
  <2> QED
    BY <1>2, <2>1, <2>2
<1> QED
  BY <1>6, <1>8, <1>9, <1>10, <1>11, <1>12 DEF SpansInv

LEMMA PutStep ==
    ASSUME SpansInv, NEW c \in Callers, L!Put(c) PROVE SpansInv'
<1>a. SpansType
  BY DEF SpansInv
<1>1. /\ storing[c].pc = "put" /\ traceMap' = storing[c].place
      /\ raced' = raced \cup ({traceMap} \ {0})
      /\ UNCHANGED <<local, now, lists, keys, sweep, stored, calls>>
  BY DEF L!Put
<1>2. PICK q : q = [storing[c] EXCEPT !.pc = "add"]
  OBVIOUS
<1>3. q \in StoringStates /\ q.pc = "add" /\ q.item = storing[c].item /\ q.place = storing[c].place
  <2>1. storing[c] \in [pc : {"put", "add"}, item : Nat, place : Nat, since : Nat]
    BY <1>a, <1>1, TypeOfCall DEF SpansType
  <2> QED
    BY <1>2, <2>1 DEF StoringStates
<1>4. storing' = [storing EXCEPT ![c] = q]
  BY <1>a, <1>2 DEF L!Put, SpansType, StoringType
<1>5. StoringType' /\ storing'[c] = q /\ \A d \in Callers \ {c} : storing'[d] = storing[d]
  BY <1>a, <1>3, <1>4, CallTakes DEF SpansType
<1>6. CallOk(c) /\ storing[c].place \in 1 .. Len(lists)
  BY <1>1 DEF SpansInv, CallOk
<1>7. SpansType'
  <2>1. ClockType' /\ ListsType'
    BY <1>a, <1>1, <1>6 DEF SpansType, ClockType, ListsType
  <2> QED
    BY <1>a, <1>1, <1>5, <2>1 DEF SpansType, StoredType, KeysType
<1>8. raced \subseteq raced' /\ \A l \in 1 .. Len(lists) : l = traceMap => l \in raced'
  BY <1>1
<1>9. ASSUME NEW d \in Callers PROVE CallOk(d)'
  <2>1. CallOk(d)
    BY DEF SpansInv
  <2>2. CASE d = c
    BY <1>1, <1>3, <1>5, <1>6, <2>2 DEF CallOk
  <2>3. CASE d # c
    BY <1>1, <1>5, <1>8, <2>1, <2>3 DEF CallOk
  <2> QED
    BY <2>2, <2>3
<1>10. Apart'
  <2>1. \A d \in Callers : /\ storing'[d].item = storing[d].item
                           /\ storing'[d].pc # "idle" => storing[d].pc # "idle"
    BY <1>1, <1>3, <1>5
  <2> QED
    BY <2>1 DEF SpansInv, Apart
<1>11. ASSUME NEW n \in 1 .. calls PROVE ItemOk(n)'
  <2>1. ItemOk(n)
    BY DEF SpansInv
  <2>2. ASSUME NEW p, InList(n, p) PROVE InList(n, p)'
    BY <1>1, <1>8, <2>2 DEF InList
  <2>3. ASSUME NEW p, InKey(n, p) PROVE InKey(n, p)'
    BY <1>1, <1>8, <2>3 DEF InKey
  <2> QED
    BY <1>1, <2>1, <2>2, <2>3 DEF ItemOk
<1>12. (\A l \in 1 .. Len(lists), k \in L!Kinds : ListHolds(l, k)') /\ (\A k \in L!Kinds : KeyOk(k)')
  BY <1>1 DEF SpansInv, ListHolds, KeyOk
<1> QED
  BY <1>1, <1>7, <1>9, <1>10, <1>11, <1>12 DEF SpansInv

\* What Add and Expire do to the item and the call.
LEMMA StoredFacts ==
    ASSUME SpansInv, NEW c \in Callers, storing[c].pc # "idle", L!StoredNow(c),
           storing' = [storing EXCEPT ![c] = L!Idle], UNCHANGED <<now, calls>>
    PROVE  LET i == storing[c].item
           IN  /\ i \in 1 .. calls /\ StoredType' /\ StoringType'
               /\ stored'[i].kind = stored[i].kind /\ stored'[i].place = storing[c].place
               /\ stored'[i].at = now /\ stored[i].at = 0 /\ now > 0
               /\ \A n \in 1 .. calls : n # i => stored'[n] = stored[n]
               /\ storing'[c].pc = "idle" /\ \A d \in Callers \ {c} : storing'[d] = storing[d]
               /\ \A d \in Callers \ {c} : storing[d].pc # "idle" => storing[d].item # i
               /\ Apart'
<1>a. SpansType /\ CallOk(c) /\ Apart
  BY DEF SpansInv
<1>1. PICK i, p : i = storing[c].item /\ p = storing[c].place
  OBVIOUS
<1>2. i \in 1 .. calls /\ stored[i].at = 0
  BY <1>a, <1>1 DEF CallOk
<1>3. p \in Nat \cup L!Kinds
  <2>1. storing[c].pc \in {"put", "add", "expire"}
    BY <1>a, TypeOfCall DEF SpansType
  <2>2. CASE storing[c].pc \in {"put", "add"}
    BY <1>a, <1>1, <2>2, TypeOfCall DEF SpansType
  <2>3. CASE storing[c].pc = "expire"
    BY <1>a, <1>1, <2>3, TypeOfCall DEF SpansType
  <2> QED
    BY <2>1, <2>2, <2>3
<1> DEFINE r == [kind |-> stored[i].kind, place |-> p, at |-> now]
<1>4. now \in Nat /\ now > 0
  BY <1>a DEF SpansType, ClockType
<1>5. r \in ItemsStored /\ r.kind = stored[i].kind /\ r.place = p /\ r.at = now
  BY <1>a, <1>2, <1>3, <1>4, TypeOfItem DEF SpansType, ItemsStored
<1>6. stored \in Seq(ItemsStored) /\ Len(stored) = calls
  BY <1>a DEF SpansType, StoredType
<1>7. stored' = [stored EXCEPT ![i] = r]
  BY <1>1 DEF L!StoredNow
<1> HIDE DEF r
<1>8. /\ stored' \in Seq(ItemsStored) /\ Len(stored') = calls
      /\ stored'[i] = r /\ \A n \in 1 .. calls : n # i => stored'[n] = stored[n]
  BY <1>2, <1>5, <1>6, <1>7, ReplaceFacts
<1>9. L!Idle \in StoringStates /\ L!Idle.pc = "idle"
  BY DEF L!Idle, StoringStates
<1>10. StoringType' /\ storing'[c] = L!Idle /\ \A d \in Callers \ {c} : storing'[d] = storing[d]
  BY <1>a, <1>9, CallTakes DEF SpansType
<1>11. \A d \in Callers \ {c} : storing[d].pc # "idle" => storing[d].item # i
  BY <1>a, <1>1 DEF Apart
<1>12. Apart'
  BY <1>a, <1>9, <1>10 DEF Apart
<1> QED
  BY <1>1, <1>2, <1>4, <1>5, <1>8, <1>9, <1>10, <1>11, <1>12 DEF StoredType

LEMMA AddStep ==
    ASSUME SpansInv, NEW c \in Callers, L!Add(c) PROVE SpansInv'
<1>a. SpansType /\ CallOk(c)
  BY DEF SpansInv
<1>1. /\ storing[c].pc = "add" /\ L!StoredNow(c) /\ storing' = [storing EXCEPT ![c] = L!Idle]
      /\ UNCHANGED <<local, now, traceMap, keys, sweep, raced, calls>>
  BY DEF L!Add
<1>2. PICK i, p : i = storing[c].item /\ p = storing[c].place
  OBVIOUS
<1>3. /\ i \in 1 .. calls /\ StoredType' /\ StoringType'
      /\ stored'[i].kind = stored[i].kind /\ stored'[i].place = p
      /\ stored'[i].at = now /\ stored[i].at = 0 /\ now > 0
      /\ \A n \in 1 .. calls : n # i => stored'[n] = stored[n]
      /\ storing'[c].pc = "idle" /\ \A d \in Callers \ {c} : storing'[d] = storing[d]
      /\ \A d \in Callers \ {c} : storing[d].pc # "idle" => storing[d].item # i
      /\ Apart'
  BY <1>1, <1>2, StoredFacts
<1>4. local /\ p \in 1 .. Len(lists) /\ (p = traceMap \/ p \in raced)
  BY <1>a, <1>1, <1>2 DEF CallOk
<1>5. PICK k \in L!Kinds : k = stored[i].kind
  BY <1>a, <1>3, TypeOfItem DEF SpansType
<1> DEFINE items == [lists[p].items EXCEPT ![k] = Append(@, i)]
          new == [expire |-> now + ExpireTime, items |-> items]
<1>6. now \in Nat /\ ExpireTime \in Nat
  BY <1>a, SizesAssumption DEF SpansType, ClockType
<1>7. /\ lists[p].items \in [L!Kinds -> Seq(Nat)] /\ lists[p].items[k] \in Seq(Nat)
      /\ Append(lists[p].items[k], i) \in Seq(Nat)
  <2>1. lists[p].items \in [L!Kinds -> Seq(Nat)] /\ lists[p].items[k] \in Seq(Nat)
    BY <1>a, <1>4, TypeOfList DEF SpansType
  <2> QED
    BY <1>3, <2>1
<1>8. /\ items \in [L!Kinds -> Seq(Nat)] /\ items[k] = Append(lists[p].items[k], i)
      /\ \A kind \in L!Kinds : kind # k => items[kind] = lists[p].items[kind]
  BY <1>7
<1>9. lists' = [lists EXCEPT ![p] = new]
  <2>1. lists' = [lists EXCEPT ![p] = [expire |-> now + ExpireTime,
                                       items |-> [lists[p].items EXCEPT ![stored[i].kind] = Append(@, i)]]]
    BY <1>2 DEF L!Add, L!Refreshed
  <2> QED
    BY <1>5, <2>1
<1> HIDE DEF items
<1>10. new \in ListsMade /\ new.expire = now + ExpireTime /\ new.items = items
  BY <1>6, <1>8 DEF ListsMade
<1> HIDE DEF new
<1>11. /\ lists' \in Seq(ListsMade) /\ Len(lists') = Len(lists) /\ lists'[p] = new
       /\ \A l \in 1 .. Len(lists) : l # p => lists'[l] = lists[l]
  BY <1>a, <1>4, <1>9, <1>10, ReplaceFacts DEF SpansType, ListsType
<1>12. SpansType'
  <2>1. ClockType' /\ ListsType'
    BY <1>a, <1>1, <1>11 DEF SpansType, ClockType, ListsType
  <2> QED
    BY <1>a, <1>1, <1>3, <2>1 DEF SpansType, KeysType
<1>13. ASSUME NEW d \in Callers PROVE CallOk(d)'
  <2>1. CallOk(d)
    BY DEF SpansInv
  <2> QED
    BY <1>1, <1>3, <1>11, <2>1 DEF CallOk
<1>14. ListHolds(p, k)
  BY <1>4 DEF SpansInv
<1>15. /\ Range(items[k]) = Range(lists[p].items[k]) \cup {i} /\ IsInjective(items[k])
  <2>1. i \notin Range(lists[p].items[k])
    BY <1>3, <1>14 DEF ListHolds
  <2> QED
    BY <1>3, <1>7, <1>8, <1>14, <2>1, AppendFacts DEF ListHolds
<1>16. \A n \in 1 .. calls : stored[n].at > 0 => stored'[n].at > 0
  BY <1>3
<1>17. ASSUME NEW l \in 1 .. Len(lists), NEW kind \in L!Kinds PROVE ListHolds(l, kind)'
  <2>1. ListHolds(l, kind)
    BY DEF SpansInv
  <2>2. CASE l = p /\ kind = k
    <3>1. lists'[l].items[kind] = items[k]
      BY <1>10, <1>11, <2>2
    <3> QED
      BY <1>1, <1>3, <1>14, <1>15, <1>16, <3>1 DEF ListHolds
  <2>3. CASE ~(l = p /\ kind = k)
    <3>1. lists'[l].items[kind] = lists[l].items[kind]
      BY <1>8, <1>10, <1>11, <2>3
    <3> QED
      BY <1>1, <1>16, <2>1, <3>1 DEF ListHolds
  <2> QED
    BY <2>2, <2>3
<1>18. ASSUME NEW n \in 1 .. calls PROVE ItemOk(n)'
  <2>1. CASE n = i
    <3>1. Range(lists'[p].items[k]) = Range(lists[p].items[k]) \cup {i}
      BY <1>10, <1>11, <1>15
    <3>2. InList(n, p)'
      <4>1. stored'[n].kind = k /\ stored'[n].at = now /\ lists'[p].expire = now + ExpireTime
        BY <1>3, <1>5, <1>10, <1>11, <2>1
      <4>2. now + ExpireTime <= now + ExpireTime
        BY <1>6
      <4> QED
        BY <1>1, <1>4, <1>11, <2>1, <3>1, <4>1, <4>2 DEF InList
    <3>3. now <= now
      BY <1>6
    <3> QED
      BY <1>1, <1>3, <1>4, <2>1, <3>2, <3>3 DEF ItemOk
  <2>2. CASE n # i
    <3>1. ItemOk(n) /\ stored'[n] = stored[n] /\ stored[n].kind \in L!Kinds /\ stored[n].at \in Nat
      BY <1>a, <1>3, <2>2, TypeOfItem DEF SpansInv, SpansType
    <3>2. ASSUME NEW l, InList(n, l), stored[n].at <= now PROVE InList(n, l)'
      <4>1. CASE l = p
        <5>1. stored[n].at + ExpireTime <= now + ExpireTime
          BY <1>6, <3>1, <3>2
        <5>2. n \in Range(lists'[p].items[stored[n].kind])
          <6>1. n \in Range(lists[p].items[stored[n].kind])
            BY <3>2, <4>1 DEF InList
          <6>2. CASE stored[n].kind = k
            BY <1>10, <1>11, <1>15, <6>1, <6>2
          <6>3. CASE stored[n].kind # k
            BY <1>8, <1>10, <1>11, <3>1, <6>1, <6>3
          <6> QED
            BY <6>2, <6>3
        <5>3. lists'[p].expire = now + ExpireTime
          BY <1>10, <1>11
        <5> QED
          BY <1>1, <1>11, <3>1, <3>2, <4>1, <5>1, <5>2, <5>3 DEF InList
      <4>2. CASE l # p
        BY <1>1, <1>11, <3>1, <3>2, <4>2 DEF InList
      <4> QED
        BY <4>1, <4>2
    <3> QED
      BY <1>1, <1>4, <3>1, <3>2 DEF ItemOk
  <2> QED
    BY <2>1, <2>2
<1>19. \A kind \in L!Kinds : KeyOk(kind)'
  BY <1>1 DEF SpansInv, KeyOk
<1> QED
  BY <1>1, <1>3, <1>11, <1>12, <1>13, <1>17, <1>18, <1>19 DEF SpansInv

LEMMA RPushStep ==
    ASSUME SpansInv, NEW c \in Callers, NEW k \in L!Kinds, L!RPush(c, k) PROVE SpansInv'
<1>a. SpansType /\ calls \in Nat /\ now \in Nat
  BY DEF SpansInv, SpansType, ClockType
<1>1. /\ ~local /\ storing[c].pc = "idle" /\ calls' = calls + 1
      /\ stored' = Append(stored, [kind |-> k, place |-> k, at |-> 0])
      /\ UNCHANGED <<local, now, lists, traceMap, sweep, raced>>
  BY DEF L!RPush
<1>2. /\ StoredType' /\ calls' \in 1 .. calls' /\ \A n \in 1 .. calls' : n \in 1 .. calls \/ n = calls'
      /\ \A n \in 1 .. calls : n \in 1 .. calls' /\ n # calls' /\ stored'[n] = stored[n]
      /\ stored'[calls'].kind = k /\ stored'[calls'].at = 0
  BY <1>a, <1>1, ItemComes DEF SpansType
<1>3. ClockType' /\ ListsType'
  BY <1>a, <1>1 DEF SpansType, ClockType, ListsType
<1>4. \A l \in 1 .. Len(lists'), kind \in L!Kinds : ListHolds(l, kind)'
  BY <1>1, <1>2 DEF SpansInv, ListHolds
<1>5. ASSUME NEW d \in Callers, storing[d].pc # "idle" PROVE storing[d].item # calls'
  <2>1. storing[d].item \in 1 .. calls
    BY <1>5 DEF SpansInv, CallOk
  <2> QED
    BY <1>2, <2>1
<1>6. CASE UNCHANGED <<keys, storing>>
  <2>1. SpansType' /\ Apart'
    BY <1>a, <1>1, <1>2, <1>3, <1>6 DEF SpansType, SpansInv, KeysType, StoringType, Apart
  <2>2. ASSUME NEW d \in Callers PROVE CallOk(d)'
    BY <1>1, <1>2, <1>6 DEF SpansInv, CallOk
  <2>3. \A kind \in L!Kinds : KeyOk(kind)'
    BY <1>2, <1>6 DEF SpansInv, KeyOk
  <2>4. ASSUME NEW n \in 1 .. calls' PROVE ItemOk(n)'
    <3>1. CASE n = calls'
      BY <1>2, <3>1 DEF ItemOk
    <3>2. CASE n \in 1 .. calls
      <4>1. ItemOk(n) /\ stored'[n] = stored[n]
        BY <1>2, <3>2 DEF SpansInv
      <4> QED
        BY <1>1, <1>6, <4>1 DEF ItemOk, InKey
    <3> QED
      BY <1>2, <3>1, <3>2
  <2> QED
    BY <1>4, <2>1, <2>2, <2>3, <2>4 DEF SpansInv
<1>7. CASE /\ keys' = [keys EXCEPT ![k].items = Append(@, calls')]
           /\ storing' = [storing EXCEPT ![c] = [pc |-> "expire", item |-> calls', place |-> k, since |-> now]]
  <2> DEFINE q == [pc |-> "expire", item |-> calls', place |-> k, since |-> now]
  <2>1. q \in StoringStates /\ q.pc = "expire" /\ q.item = calls' /\ q.place = k
    BY <1>a, <1>1 DEF StoringStates
  <2>2. storing' = [storing EXCEPT ![c] = q]
    BY <1>7
  <2> HIDE DEF q
  <2>3. StoringType' /\ storing'[c] = q /\ \A d \in Callers \ {c} : storing'[d] = storing[d]
    BY <1>a, <2>1, <2>2, CallTakes DEF SpansType
  <2>4. keys[k].items \in Seq(Nat) /\ keys[k] \in RedisKeys /\ KeyOk(k)
    BY <1>a, TypeOfKey DEF SpansType, SpansInv
  <2>5. calls' \notin Range(keys[k].items)
    BY <1>2, <2>4 DEF KeyOk
  <2>6. /\ Append(keys[k].items, calls') \in Seq(Nat) /\ IsInjective(Append(keys[k].items, calls'))
        /\ Range(Append(keys[k].items, calls')) = Range(keys[k].items) \cup {calls'}
    <3>1. calls' \in Nat
      BY <1>2
    <3> QED
      BY <2>4, <2>5, <3>1, AppendFacts DEF KeyOk
  <2> DEFINE longer == Append(keys[k].items, calls')
  <2>7. keys' = [keys EXCEPT ![k] = [items |-> longer, expire |-> keys[k].expire]]
    <3>1. keys' = [keys EXCEPT ![k] = [keys[k] EXCEPT !.items = longer]]
      BY <1>7
    <3> HIDE DEF longer
    <3>2. [keys[k] EXCEPT !.items = longer] = [items |-> longer, expire |-> keys[k].expire]
      BY <2>4 DEF RedisKeys
    <3> QED
      BY <3>1, <3>2
  <2> HIDE DEF longer
  <2>8. KeysType' /\ keys'[k].items = longer /\ \A kind \in L!Kinds : /\ kind # k => keys'[kind] = keys[kind]
                                                                     /\ keys'[kind].expire = keys[kind].expire
    <3>1. longer \in Seq(Nat) /\ keys[k].expire \in Nat
      BY <2>4, <2>6 DEF longer, RedisKeys
    <3>2. [items |-> longer, expire |-> keys[k].expire] \in RedisKeys
      BY <3>1 DEF RedisKeys
    <3> QED
      BY <1>a, <2>7, <3>2 DEF SpansType, KeysType
  <2>9. /\ IsInjective(longer) /\ Range(longer) = Range(keys[k].items) \cup {calls'}
        /\ \A kind \in L!Kinds : Range(keys[kind].items) \subseteq Range(keys'[kind].items)
    BY <2>6, <2>8 DEF longer
  <2>10. SpansType'
    BY <1>2, <1>3, <2>3, <2>8 DEF SpansType
  <2>11. ASSUME NEW d \in Callers PROVE CallOk(d)'
    <3>1. CallOk(d)
      BY DEF SpansInv
    <3>2. CASE d = c
      <4>1. calls' \in Range(keys'[k].items)
        BY <2>8, <2>9
      <4> QED
        BY <1>1, <1>2, <2>1, <2>3, <3>2, <4>1 DEF CallOk
    <3>3. CASE d # c
      <4>1. storing[d].pc = "expire" => storing[d].place \in L!Kinds
        BY <1>a, TypeOfCall DEF SpansType
      <4> QED
        BY <1>1, <1>2, <2>3, <2>9, <3>1, <3>3, <4>1 DEF CallOk
    <3> QED
      BY <3>2, <3>3
  <2>12. Apart'
    <3> SUFFICES ASSUME NEW d \in Callers, NEW e \in Callers, storing'[d].pc # "idle", storing'[e].pc # "idle",
                        storing'[d].item = storing'[e].item
                 PROVE  d = e
      BY DEF Apart
    <3>1. CASE d # c /\ e # c
      BY <2>3, <3>1 DEF SpansInv, Apart
    <3>2. CASE d = c \/ e = c
      BY <1>5, <2>1, <2>3, <3>2
    <3> QED
      BY <3>1, <3>2
  <2>13. ASSUME NEW kind \in L!Kinds PROVE KeyOk(kind)'
    <3>1. CASE kind = k
      BY <1>2, <2>4, <2>8, <2>9, <3>1 DEF KeyOk
    <3>2. CASE kind # k
      BY <1>2, <2>8, <3>2 DEF SpansInv, KeyOk
    <3> QED
      BY <3>1, <3>2
  <2>14. ASSUME NEW n \in 1 .. calls' PROVE ItemOk(n)'
    <3>1. CASE n = calls'
      BY <1>2, <3>1 DEF ItemOk
    <3>2. CASE n \in 1 .. calls
      <4>1. ItemOk(n) /\ stored'[n] = stored[n] /\ stored[n].kind \in L!Kinds
        BY <1>a, <1>2, <3>2, TypeOfItem DEF SpansInv, SpansType
      <4>2. ASSUME NEW p, InKey(n, p) PROVE InKey(n, p)'
        <5>1. p \in L!Kinds
          BY <4>1, <4>2 DEF InKey
        <5> QED
          BY <1>1, <2>8, <2>9, <4>1, <4>2, <5>1 DEF InKey
      <4> QED
        BY <1>1, <4>1, <4>2 DEF ItemOk
    <3> QED
      BY <1>2, <3>1, <3>2
  <2> QED
    BY <1>4, <2>10, <2>11, <2>12, <2>13, <2>14 DEF SpansInv
<1> QED
  BY <1>6, <1>7 DEF L!RPush

LEMMA ExpireStep ==
    ASSUME SpansInv, NEW c \in Callers, L!Expire(c) PROVE SpansInv'
<1>a. SpansType /\ CallOk(c)
  BY DEF SpansInv
<1>1. /\ storing[c].pc = "expire" /\ L!StoredNow(c) /\ storing' = [storing EXCEPT ![c] = L!Idle]
      /\ UNCHANGED <<local, now, lists, traceMap, sweep, raced, calls>>
  BY DEF L!Expire
<1>2. PICK i, k : i = storing[c].item /\ k = storing[c].place
  OBVIOUS
<1>3. /\ i \in 1 .. calls /\ StoredType' /\ StoringType'
      /\ stored'[i].kind = stored[i].kind /\ stored'[i].place = k
      /\ stored'[i].at = now /\ stored[i].at = 0 /\ now > 0
      /\ \A n \in 1 .. calls : n # i => stored'[n] = stored[n]
      /\ storing'[c].pc = "idle" /\ \A d \in Callers \ {c} : storing'[d] = storing[d]
      /\ \A d \in Callers \ {c} : storing[d].pc # "idle" => storing[d].item # i
      /\ Apart'
  BY <1>1, <1>2, StoredFacts
<1>4. /\ ~local /\ k \in L!Kinds /\ k = stored[i].kind
      /\ i \in Range(keys[k].items) \/ k \in raced
  <2>1. k \in L!Kinds
    BY <1>a, <1>1, <1>2, TypeOfCall DEF SpansType
  <2> QED
    BY <1>a, <1>1, <1>2, <2>1 DEF CallOk
<1>5. now \in Nat /\ ExpireTime \in Nat /\ now + ExpireTime \in Nat
  BY <1>a, SizesAssumption DEF SpansType, ClockType
<1>6. keys[k] \in RedisKeys /\ keys[k].items \in Seq(Nat) /\ keys[k].expire \in Nat
  BY <1>a, <1>4, TypeOfKey DEF SpansType
<1> DEFINE t == IF keys[k].items = <<>> THEN keys[k].expire ELSE now + ExpireTime
<1>7. t \in Nat
  BY <1>5, <1>6
<1>8. keys' = [keys EXCEPT ![k] = [items |-> keys[k].items, expire |-> t]]
  <2>1. keys' = [keys EXCEPT ![k].expire = IF keys[k].items = <<>> THEN @ ELSE now + ExpireTime]
    BY <1>2 DEF L!Expire, L!Refreshed
  <2>2. keys' = [keys EXCEPT ![k] = [keys[k] EXCEPT !.expire = t]]
    BY <2>1
  <2>3. [keys[k] EXCEPT !.expire = t] = [items |-> keys[k].items, expire |-> t]
    BY <1>6 DEF RedisKeys
  <2> QED
    BY <2>2, <2>3
<1>9. keys[k].items # <<>> => t = now + ExpireTime
  OBVIOUS
<1> HIDE DEF t
<1>10. /\ KeysType' /\ keys'[k].expire = t
       /\ \A kind \in L!Kinds : keys'[kind].items = keys[kind].items /\ (kind # k => keys'[kind] = keys[kind])
  <2>1. [items |-> keys[k].items, expire |-> t] \in RedisKeys
    BY <1>6, <1>7 DEF RedisKeys
  <2> QED
    BY <1>a, <1>4, <1>8, <2>1 DEF SpansType, KeysType
<1>11. \A n : n \in Range(keys[k].items) => keys'[k].expire = now + ExpireTime
  <2>1. DOMAIN <<>> = {}
    OBVIOUS
  <2> QED
    BY <1>9, <1>10, <2>1 DEF Range
<1>12. SpansType'
  <2>1. ClockType' /\ ListsType'
    BY <1>a, <1>1 DEF SpansType, ClockType, ListsType
  <2> QED
    BY <1>3, <1>10, <2>1 DEF SpansType
<1>13. ASSUME NEW d \in Callers PROVE CallOk(d)'
  <2>1. CallOk(d)
    BY DEF SpansInv
  <2>2. storing[d].pc = "expire" => storing[d].place \in L!Kinds
    BY <1>a, TypeOfCall DEF SpansType
  <2> QED
    BY <1>1, <1>3, <1>10, <2>1, <2>2 DEF CallOk
<1>14. \A n \in 1 .. calls : stored[n].at > 0 => stored'[n].at > 0
  BY <1>3
<1>15. \A l \in 1 .. Len(lists), kind \in L!Kinds : ListHolds(l, kind)'
  BY <1>1, <1>14 DEF SpansInv, ListHolds
<1>16. \A kind \in L!Kinds : KeyOk(kind)'
  BY <1>1, <1>10 DEF SpansInv, KeyOk
<1>17. ASSUME NEW n \in 1 .. calls PROVE ItemOk(n)'
  <2>1. CASE n = i
    <3>1. now + ExpireTime <= now + ExpireTime /\ now <= now
      BY <1>5
    <3>2. InKey(n, k)'
      BY <1>1, <1>3, <1>4, <1>10, <1>11, <2>1, <3>1 DEF InKey
    <3> QED
      BY <1>1, <1>3, <1>4, <2>1, <3>1, <3>2 DEF ItemOk
  <2>2. CASE n # i
    <3>1. ItemOk(n) /\ stored'[n] = stored[n] /\ stored[n].kind \in L!Kinds /\ stored[n].at \in Nat
      BY <1>a, <1>3, <2>2, TypeOfItem DEF SpansInv, SpansType
    <3>2. ASSUME NEW p, InKey(n, p), stored[n].at <= now PROVE InKey(n, p)'
      <4>1. p \in L!Kinds /\ stored[n].at + ExpireTime <= now + ExpireTime
        BY <1>5, <3>1, <3>2 DEF InKey
      <4>2. CASE p = k
        BY <1>1, <1>10, <1>11, <3>1, <3>2, <4>1, <4>2 DEF InKey
      <4>3. CASE p # k
        BY <1>1, <1>10, <3>1, <3>2, <4>1, <4>3 DEF InKey
      <4> QED
        BY <4>2, <4>3
    <3> QED
      BY <1>1, <1>4, <3>1, <3>2 DEF ItemOk
  <2> QED
    BY <2>1, <2>2
<1> QED
  BY <1>1, <1>3, <1>12, <1>13, <1>15, <1>16, <1>17 DEF SpansInv

LEMMA ExpireFailsStep ==
    ASSUME SpansInv, NEW c \in Callers, L!ExpireFails(c) PROVE SpansInv'
<1>a. SpansType
  BY DEF SpansInv
<1>1. /\ storing' = [storing EXCEPT ![c] = L!Idle]
      /\ UNCHANGED <<local, now, lists, traceMap, keys, sweep, stored, raced, calls>>
  BY DEF L!ExpireFails
<1>2. L!Idle \in StoringStates /\ L!Idle.pc = "idle"
  BY DEF L!Idle, StoringStates
<1>3. StoringType' /\ storing'[c] = L!Idle /\ \A d \in Callers \ {c} : storing'[d] = storing[d]
  BY <1>a, <1>1, <1>2, CallTakes DEF SpansType
<1>4. SpansType'
  BY <1>a, <1>1, <1>3 DEF SpansType, ClockType, StoredType, ListsType, KeysType
<1>5. Apart'
  BY <1>2, <1>3 DEF SpansInv, Apart
<1>6. ASSUME NEW d \in Callers PROVE CallOk(d)'
  BY <1>1, <1>2, <1>3 DEF SpansInv, CallOk
<1>7. (\A l \in 1 .. Len(lists), k \in L!Kinds : ListHolds(l, k)') /\ (\A k \in L!Kinds : KeyOk(k)')
  BY <1>1 DEF SpansInv, ListHolds, KeyOk
<1>8. \A n \in 1 .. calls : ItemOk(n)'
  BY <1>1 DEF SpansInv, ItemOk, InList, InKey
<1> QED
  BY <1>1, <1>4, <1>5, <1>6, <1>7, <1>8 DEF SpansInv

LEMMA SpansStep ==
    ASSUME SpansInv, L!Next PROVE SpansInv'
<1>1. CASE L!Clock
  BY <1>1, ClockStep
<1>2. CASE L!Check \/ L!Delete
  BY <1>2, CheckDeleteStep
<1>3. ASSUME NEW c \in Callers, NEW k \in L!Kinds, L!Load(c, k) PROVE SpansInv'
  BY <1>3, LoadStep
<1>4. ASSUME NEW c \in Callers, NEW k \in L!Kinds, L!RPush(c, k) PROVE SpansInv'
  BY <1>4, RPushStep
<1>5. ASSUME NEW c \in Callers, L!Put(c) \/ L!Add(c) PROVE SpansInv'
  BY <1>5, PutStep, AddStep
<1>6. ASSUME NEW c \in Callers, L!Expire(c) \/ L!ExpireFails(c) PROVE SpansInv'
  BY <1>6, ExpireStep, ExpireFailsStep
<1> QED
  BY <1>1, <1>2, <1>3, <1>4, <1>5, <1>6 DEF L!Next

\* The items of a trace, in memory and in Redis, over every interleaving of the calls
\* with the sweep and with time: CacheTrace and its reader find what was stored
\* (LocalCache, RedisClient).
THEOREM SpansKeptTheorem == Spec => []SpansKept
<1>1. Init => SpansInv
  <2> SUFFICES ASSUME L!Init PROVE SpansInv
    BY DEF Init
  <2>1. /\ local \in BOOLEAN /\ now = 1 /\ lists = <<>> /\ traceMap = 0 /\ calls = 0
        /\ storing = [c \in Callers |-> [pc |-> "idle"]] /\ sweep = [pc |-> "idle"]
        /\ stored = <<>> /\ raced = {} /\ keys = [k \in L!Kinds |-> L!NoKey]
    BY DEF L!Init, L!Idle
  <2>2. <<>> \in Seq(ItemsStored) /\ <<>> \in Seq(ListsMade) /\ Len(<<>>) = 0 /\ DOMAIN <<>> = {}
    OBVIOUS
  <2>3. L!NoKey \in RedisKeys /\ L!NoKey.items = <<>>
    <3>1. L!Never \in Nat
      BY SizesAssumption DEF L!Never
    <3> QED
      BY <3>1 DEF L!NoKey, RedisKeys
  <2>4. ClockType /\ StoredType /\ ListsType
    BY <2>1, <2>2 DEF ClockType, StoredType, ListsType
  <2>5. StoringType /\ KeysType
    BY <2>1, <2>3 DEF StoringType, KeysType, StoringStates
  <2>6. Apart /\ \A c \in Callers : CallOk(c)
    BY <2>1 DEF Apart, CallOk
  <2>7. \A k \in L!Kinds : KeyOk(k)
    <3>1. \A k \in L!Kinds : keys[k].items = <<>>
      BY <2>1, <2>3
    <3> QED
      BY <2>2, <3>1 DEF KeyOk, IsInjective, Range
  <2>8. (\A l \in 1 .. Len(lists), k \in L!Kinds : ListHolds(l, k)) /\ \A n \in 1 .. calls : ItemOk(n)
    <3>1. 1 .. Len(lists) = {} /\ 1 .. calls = {}
      BY <2>1, <2>2
    <3> QED
      BY <3>1
  <2> QED
    BY <2>4, <2>5, <2>6, <2>7, <2>8 DEF SpansInv, SpansType
<1>2. SpansInv /\ [Next]_vars => SpansInv'
  <2> SUFFICES ASSUME SpansInv, [Next]_vars PROVE SpansInv'
    OBVIOUS
  <2>1. ASSUME UNCHANGED lVars, local' = local PROVE SpansInv'
    <3>1. ClockType'
      BY <2>1 DEF lVars, SpansInv, SpansType, ClockType
    <3> QED
      BY <2>1, <3>1, SweepMoves DEF lVars
  <2> QED
    BY <2>1, SpansStep, StepOfEach
<1>3. SpansInv => SpansKept
  <2> SUFFICES ASSUME SpansInv PROVE L!SpansKept
    BY DEF SpansKept
  <2> SUFFICES ASSUME NEW n \in DOMAIN stored, stored[n].at > 0, L!Within(n), stored[n].place \notin raced
               PROVE  L!Visible(n)
    BY DEF L!SpansKept
  <2>a. SpansType /\ now \in Nat /\ local \in BOOLEAN
    BY DEF SpansInv, SpansType, ClockType
  <2>1. n \in 1 .. calls
    BY <2>a DEF SpansType, StoredType
  <2>2. PICK k \in L!Kinds : k = stored[n].kind
    BY <2>a, <2>1, TypeOfItem DEF SpansType
  <2>3. ItemOk(n) /\ stored[n].at \in Nat /\ ExpireTime \in Nat
    BY <2>a, <2>1, TypeOfItem, SizesAssumption DEF SpansInv, SpansType
  <2>4. n \in Range(L!Items(k)) /\ IsInjective(L!Items(k))
    <3>1. CASE local
      <4>1. InList(n, stored[n].place)
        BY <2>3, <3>1 DEF ItemOk
      <4>2. stored[n].place = traceMap /\ traceMap \in 1 .. Len(lists)
        BY <2>3, <2>a, <3>1, <4>1 DEF InList, L!Within
      <4>3. L!Items(k) = lists[traceMap].items[k]
        BY <3>1, <4>2 DEF L!Items
      <4>4. ListHolds(traceMap, k)
        BY <4>2 DEF SpansInv
      <4> QED
        BY <2>2, <4>1, <4>2, <4>3, <4>4 DEF InList, ListHolds
    <3>2. CASE ~local
      <4>1. InKey(n, stored[n].place)
        BY <2>3, <3>2 DEF ItemOk
      <4>2. stored[n].place = k /\ n \in Range(keys[k].items)
        BY <2>2, <2>3, <2>a, <3>2, <4>1 DEF InKey, L!Within
      <4>3. L!Items(k) = keys[k].items
        BY <3>2 DEF L!Items
      <4>4. KeyOk(k)
        BY DEF SpansInv
      <4> QED
        BY <4>2, <4>3, <4>4 DEF KeyOk
    <3> QED
      BY <3>1, <3>2
  <2> DEFINE found == L!Items(k)
  <2>5. /\ n \in {found[i] : i \in DOMAIN found}
        /\ \A i, j \in DOMAIN found : found[i] = found[j] => i = j
    BY <2>4 DEF Range, IsInjective
  <2> HIDE DEF found
  <2>6. \E i \in DOMAIN found : found[i] = n /\ \A j \in DOMAIN found : found[j] = n => j = i
    BY <2>5
  <2> QED
    BY <2>2, <2>6 DEF found, L!Visible
<1> QED
  BY <1>1, <1>2, <1>3, PTL DEF Spec
-----------------------------------------------------------------------------
(* Histogram                                                               *)

\* Histogram counts with the Cardinality that the lemmas are about.
LEMMA SameCount == \A T : H!Cardinality(T) = Cardinality(T)
BY DEF H!Cardinality, Cardinality

Slots == 1 .. Buckets + 2
CounterSet == [lower : Nat, upper : Nat, buckets : [0 .. Buckets - 1 -> Nat]]

\* The counter a value goes to, in the order of a visit; 0 for none.
Slot(v) == IF v = H!Ignored THEN 0 ELSE IF v < 0 THEN 1
           ELSE IF v >= 2 * Buckets THEN Buckets + 2 ELSE H!Index(v) + 2
Counted(s, k) == {i \in DOMAIN s : Slot(s[i]) = k}

CountersType == counters \in [Histograms -> CounterSet]
SeenType == seen \in [Histograms -> Seq(H!Values)]
BoundsType == bounds \in Bounds
CountersCount == \A h \in Histograms : \A k \in Slots :
                   H!LineOf(counters[h], k).count = Cardinality(Counted(seen[h], k))
HistogramInv == CountersType /\ SeenType /\ BoundsType /\ CountersCount

LEMMA ValuesAre == H!Values \subseteq Int /\ H!Ignored = -9 /\ H!Ignored \in H!Values
BY BoundsAssumption DEF H!Values, H!Ignored

\* Every value that is recorded has a counter, whose range holds it.
LEMMA SlotFacts ==
  ASSUME NEW v \in H!Values
  PROVE  /\ Slot(v) \in 0 .. Buckets + 2
         /\ Slot(v) = 0 <=> v = H!Ignored
         /\ \A c : Slot(v) # 0 => H!InRange(v, H!LineOf(c, Slot(v)).range)
<1> USE BoundsAssumption
<1>t. v \in Int /\ (v = -9 \/ v = -1 \/ v \in 0 .. 2 * Buckets + 1)
  BY DEF H!Values, H!Ignored
<1>1. CASE v = H!Ignored
  BY <1>1, <1>t DEF Slot
<1>2. CASE v = -1
  <2>1. Slot(v) = 1 /\ v # H!Ignored
    BY <1>2 DEF Slot, H!Ignored
  <2>2. \A c : H!LineOf(c, 1).range = <<-9, 0>>
    BY DEF H!LineOf, H!Line
  <2>3. H!InRange(v, <<-9, 0>>)
    BY <1>2 DEF H!InRange
  <2> QED
    BY <2>1, <2>2, <2>3
<1>3. CASE v >= 2 * Buckets /\ v \in 0 .. 2 * Buckets + 1
  <2>1. Slot(v) = Buckets + 2 /\ v # H!Ignored
    BY <1>3 DEF Slot, H!Ignored
  <2>2. \A c : H!LineOf(c, Buckets + 2).range = <<2 * Buckets, H!Inf>>
    BY DEF H!LineOf, H!Line
  <2>3. H!InRange(v, <<2 * Buckets, H!Inf>>)
    BY <1>3 DEF H!InRange, H!Inf
  <2> QED
    BY <2>1, <2>2, <2>3
<1>4. CASE v \in 0 .. 2 * Buckets - 1
  <2>1. Slot(v) = H!Index(v) + 2 /\ v # H!Ignored
    BY <1>4 DEF Slot, H!Ignored
  <2>2. /\ H!Index(v) \in 0 .. Buckets - 1
        /\ 2 * H!Index(v) < v \/ (v = 0 /\ H!Index(v) = 0)
        /\ v <= 2 * (H!Index(v) + 1)
    BY <1>4 DEF H!Index
  <2> DEFINE i == H!Index(v)
  <2> HIDE DEF i
  <2>3. \A c : H!LineOf(c, i + 2).range = <<2 * i, 2 * (i + 1)>>
    <3> DEFINE k == i + 2
    <3>1. i \in 0 .. Buckets - 1
      BY <2>2 DEF i
    <3>2. k # 1 /\ k # Buckets + 2 /\ 2 * (k - 2) = 2 * i /\ 2 * (k - 1) = 2 * (i + 1)
      BY <3>1
    <3> HIDE DEF k
    <3>3. ASSUME NEW c PROVE H!LineOf(c, k).range = <<2 * i, 2 * (i + 1)>>
      <4>1. H!LineOf(c, k) = H!Line(<<2 * (k - 2), 2 * (k - 1)>>, c.buckets[k - 2])
        BY ONLY <3>2 DEF H!LineOf
      <4>2. H!LineOf(c, k) = H!Line(<<2 * i, 2 * (i + 1)>>, c.buckets[k - 2])
        BY ONLY <3>2, <4>1, Zenon
      <4> QED
        BY ONLY <4>2 DEF H!Line
    <3> QED
      BY <3>3 DEF k
  <2>4. H!InRange(v, <<2 * i, 2 * (i + 1)>>)
    <3>1. 2 * i < v \/ (v = 2 * i /\ v \in {0, 2 * Buckets})
      BY <2>2 DEF i
    <3>2. v <= 2 * (i + 1)
      BY <2>2 DEF i
    <3> QED
      BY <3>1, <3>2, <1>4 DEF H!InRange
  <2>5. i \in 0 .. Buckets - 1 /\ Slot(v) = i + 2
    BY <2>1, <2>2 DEF i
  <2> QED
    BY <2>1, <2>3, <2>4, <2>5
<1> QED
  BY <1>t, <1>1, <1>2, <1>3, <1>4 DEF H!Ignored

\* The values of a counter are finitely many.
LEMMA CountedFinite ==
  ASSUME NEW s \in Seq(H!Values), NEW T \in SUBSET DOMAIN s
  PROVE  IsFiniteSet(T) /\ Cardinality(T) \in Nat
<1>1. IsFiniteSet(1 .. Len(s)) /\ DOMAIN s = 1 .. Len(s)
  BY FS_Interval
<1> QED
  BY <1>1, FS_Subset, FS_CardinalityType

\* A new value is one more for its slot.
LEMMA CountedAppend ==
  ASSUME NEW s \in Seq(H!Values), NEW v \in H!Values, NEW k
  PROVE  Cardinality(Counted(Append(s, v), k)) = Cardinality(Counted(s, k)) + IF Slot(v) = k THEN 1 ELSE 0
<1> DEFINE n == Len(s)
          T == Counted(s, k)
<1>1. IsFiniteSet(T) /\ Cardinality(T) \in Nat
  BY CountedFinite DEF Counted
<1>2. /\ n \in Nat /\ DOMAIN s = 1 .. n /\ DOMAIN Append(s, v) = 1 .. n + 1
      /\ \A i \in 1 .. n : Append(s, v)[i] = s[i]
      /\ Append(s, v)[n + 1] = v
  OBVIOUS
<1>3. n + 1 \notin T
  BY <1>2 DEF Counted
<1>4. Counted(Append(s, v), k) = IF Slot(v) = k THEN T \cup {n + 1} ELSE T
  BY <1>2 DEF Counted
<1> HIDE DEF T, n
<1>5. Cardinality(T \cup {n + 1}) = Cardinality(T) + 1
  BY <1>1, <1>3, FS_AddElement
<1> QED
  BY <1>1, <1>4, <1>5 DEF T

\* Concatenation adds up what each part has.
LEMMA CountedConcat ==
  ASSUME NEW s \in Seq(H!Values), NEW t \in Seq(H!Values), NEW k
  PROVE  Cardinality(Counted(s \o t, k)) = Cardinality(Counted(s, k)) + Cardinality(Counted(t, k))
<1> DEFINE n == Len(s)
          S1 == Counted(s, k)
          T == Counted(t, k)
          Moved == {i \in DOMAIN (s \o t) : i > n /\ Slot((s \o t)[i]) = k}
          f == [i \in T |-> n + i]
<1>1. IsFiniteSet(S1) /\ Cardinality(S1) \in Nat /\ IsFiniteSet(T) /\ Cardinality(T) \in Nat
  BY CountedFinite DEF Counted
<1>2. /\ n \in Nat /\ Len(t) \in Nat /\ DOMAIN s = 1 .. n /\ DOMAIN t = 1 .. Len(t)
      /\ DOMAIN (s \o t) = 1 .. n + Len(t)
      /\ \A i \in 1 .. n : (s \o t)[i] = s[i]
      /\ \A i \in 1 .. Len(t) : (s \o t)[n + i] = t[i]
  OBVIOUS
<1>3. Counted(s \o t, k) = S1 \cup Moved /\ S1 \cap Moved = {}
  BY <1>2 DEF Counted
<1>4. f \in Bijection(T, Moved)
  <2>1. \A i \in T : f[i] \in Moved
    BY <1>2 DEF Counted
  <2>2. \A i, j \in T : f[i] = f[j] => i = j
    BY <1>2 DEF Counted
  <2>3. ASSUME NEW m \in Moved PROVE \E i \in T : f[i] = m
    <3>1. m - n \in 1 .. Len(t) /\ n + (m - n) = m
      BY <1>2
    <3>2. t[m - n] = (s \o t)[m]
      BY <1>2, <3>1
    <3>3. m - n \in T
      BY <1>2, <3>1, <3>2 DEF Counted
    <3> QED
      BY <3>1, <3>3
  <2>4. f \in [T -> Moved]
    BY <2>1
  <2> HIDE DEF f, T, Moved
  <2> QED
    BY <2>2, <2>3, <2>4 DEF Bijection, Injection, Surjection, IsInjective
<1>5. IsFiniteSet(Moved) /\ Cardinality(Moved) = Cardinality(T)
  <2> HIDE DEF f, T, Moved
  <2>1. ExistsBijection(T, Moved)
    BY <1>4 DEF ExistsBijection
  <2> QED
    BY <1>1, <2>1, FS_Bijection
<1> HIDE DEF S1, T, Moved
<1>6. Cardinality(S1 \cup Moved) = Cardinality(S1) + Cardinality(Moved) - Cardinality(S1 \cap Moved)
  BY <1>1, <1>5, FS_Union
<1>7. Cardinality(S1 \cap Moved) = 0
  BY <1>3, FS_EmptySet
<1>8. Cardinality(Counted(s \o t, k)) = Cardinality(S1) + Cardinality(T)
  BY <1>1, <1>3, <1>5, <1>6, <1>7
<1> QED
  BY <1>8 DEF S1, T

LEMMA CountedNone == \A k : Cardinality(Counted(<<>>, k)) = 0
<1>1. DOMAIN <<>> = {}
  OBVIOUS
<1> QED
  BY <1>1, FS_EmptySet DEF Counted

-----------------------------------------------------------------------------
\* The counters of a histogram in the order of a visit.
LEMMA LineCount ==
  ASSUME NEW c \in CounterSet, NEW k \in Slots
  PROVE  /\ H!LineOf(c, k).count \in Nat
         /\ H!LineOf(c, k).count = IF k = 1 THEN c.lower ELSE IF k = Buckets + 2 THEN c.upper
                                   ELSE c.buckets[k - 2]
         /\ k # 1 /\ k # Buckets + 2 => k - 2 \in 0 .. Buckets - 1
<1>1. k # 1 /\ k # Buckets + 2 => k - 2 \in 0 .. Buckets - 1
  BY BoundsAssumption DEF Slots
<1>2. c.lower \in Nat /\ c.upper \in Nat /\ c.buckets \in [0 .. Buckets - 1 -> Nat]
  BY DEF CounterSet
<1>3. k # 1 /\ k # Buckets + 2 => c.buckets[k - 2] \in Nat
  BY <1>1, <1>2
<1> QED
  BY <1>1, <1>2, <1>3 DEF H!LineOf, H!Line

\* A value raises the counter of its slot by one and no other.
LEMMA UpdateCounts ==
  ASSUME HistogramInv, NEW h \in Histograms, NEW v \in H!Values, H!Update(h, v)
  PROVE  HistogramInv'
<1> USE BoundsAssumption
<1> DEFINE c == counters[h]
          d == counters'[h]
<1>1. c \in CounterSet /\ seen[h] \in Seq(H!Values)
  BY DEF HistogramInv, CountersType, SeenType
<1>2. d = IF v = H!Ignored THEN c
          ELSE IF v < 0 THEN [c EXCEPT !.lower = c.lower + 1]
          ELSE IF v >= 2 * Buckets THEN [c EXCEPT !.upper = c.upper + 1]
          ELSE [c EXCEPT !.buckets = [c.buckets EXCEPT ![H!Index(v)] = c.buckets[H!Index(v)] + 1]]
  BY DEF H!Update, HistogramInv, CountersType
<1>3. /\ counters' = [counters EXCEPT ![h] = d]
      /\ seen' = [seen EXCEPT ![h] = Append(seen[h], v)]
      /\ bounds' = bounds
  BY DEF H!Update, HistogramInv, CountersType
<1>4. /\ d \in CounterSet
      /\ \A k \in Slots : H!LineOf(d, k).count = H!LineOf(c, k).count + IF Slot(v) = k THEN 1 ELSE 0
  <2> HIDE DEF c, d
  <2>t. /\ c.lower \in Nat /\ c.upper \in Nat /\ c.buckets \in [0 .. Buckets - 1 -> Nat]
        /\ c = [lower |-> c.lower, upper |-> c.upper, buckets |-> c.buckets]
    BY <1>1 DEF CounterSet
  <2>n. v \in Int /\ \A k \in Slots : k # 0
    BY ValuesAre DEF Slots
  <2>1. CASE v = H!Ignored
    <3>1. d = c /\ \A k \in Slots : Slot(v) # k
      BY <1>2, <2>1, <2>n DEF Slot
    <3>2. \A k \in Slots : H!LineOf(c, k).count \in Nat
      BY <1>1, LineCount
    <3> QED
      BY <1>1, <3>1, <3>2
  <2>2. CASE v # H!Ignored /\ v < 0
    <3>1. Slot(v) = 1
      BY <2>2 DEF Slot
    <3>2. d = [lower |-> c.lower + 1, upper |-> c.upper, buckets |-> c.buckets]
      BY <1>2, <2>2, <2>t
    <3>3. d \in CounterSet
      BY <2>t, <3>2 DEF CounterSet
    <3> QED
      BY <1>1, <2>t, <3>1, <3>2, <3>3, LineCount
  <2>3. CASE v # H!Ignored /\ ~(v < 0) /\ v >= 2 * Buckets
    <3>1. Slot(v) = Buckets + 2
      BY <2>3 DEF Slot
    <3>2. d = [lower |-> c.lower, upper |-> c.upper + 1, buckets |-> c.buckets]
      BY <1>2, <2>3, <2>t
    <3>3. d \in CounterSet
      BY <2>t, <3>2 DEF CounterSet
    <3>4. Buckets + 2 # 1
      OBVIOUS
    <3> QED
      BY <1>1, <2>t, <3>1, <3>2, <3>3, <3>4, LineCount
  <2>4. CASE v # H!Ignored /\ ~(v < 0) /\ ~(v >= 2 * Buckets)
    <3>1. Slot(v) = H!Index(v) + 2
      BY <2>4 DEF Slot
    <3>2. H!Index(v) \in 0 .. Buckets - 1
      BY <2>4, <2>n DEF H!Index
    <3> DEFINE i == H!Index(v)
              b == [c.buckets EXCEPT ![i] = c.buckets[i] + 1]
    <3>3. d = [lower |-> c.lower, upper |-> c.upper, buckets |-> b]
      BY <1>2, <2>4, <2>t
    <3> HIDE DEF i
    <3>4. /\ b \in [0 .. Buckets - 1 -> Nat]
          /\ \A j \in 0 .. Buckets - 1 : b[j] = c.buckets[j] + IF j = i THEN 1 ELSE 0
      BY <2>t, <3>2 DEF i
    <3> HIDE DEF b
    <3>5. d \in CounterSet /\ d.lower = c.lower /\ d.upper = c.upper /\ d.buckets = b
      BY <2>t, <3>3, <3>4 DEF CounterSet
    <3>6. ASSUME NEW k \in Slots
          PROVE  H!LineOf(d, k).count = H!LineOf(c, k).count + IF Slot(v) = k THEN 1 ELSE 0
      <4>0. i \in 0 .. Buckets - 1 /\ Slot(v) = i + 2
        BY <3>1, <3>2 DEF i
      <4>1. CASE k = 1 \/ k = Buckets + 2
        <5>1. Slot(v) # k
          BY <4>0, <4>1
        <5>2. H!LineOf(d, k).count = H!LineOf(c, k).count /\ H!LineOf(c, k).count \in Nat
          BY <1>1, <3>5, <4>1, LineCount
        <5> QED
          BY <5>1, <5>2
      <4>2. CASE k # 1 /\ k # Buckets + 2
        <5>1. k - 2 \in 0 .. Buckets - 1 /\ (k - 2 = i <=> Slot(v) = k)
          BY <4>0, <4>2 DEF Slots
        <5>2. H!LineOf(d, k).count = b[k - 2] /\ H!LineOf(c, k).count = c.buckets[k - 2]
          BY <1>1, <3>5, <4>2, LineCount
        <5> QED
          BY <3>4, <5>1, <5>2
      <4> QED
        BY <4>1, <4>2
    <3> QED
      BY <3>5, <3>6
  <2> QED
    BY <2>1, <2>2, <2>3, <2>4
<1> HIDE DEF c, d
<1>5. counters' \in [Histograms -> CounterSet]
  BY <1>3, <1>4 DEF HistogramInv, CountersType
<1>6. seen' \in [Histograms -> Seq(H!Values)]
  <2>1. Append(seen[h], v) \in Seq(H!Values)
    BY <1>1
  <2> QED
    BY <1>3, <2>1 DEF HistogramInv, SeenType
<1>7. ASSUME NEW g \in Histograms, NEW k \in Slots
      PROVE  H!LineOf(counters'[g], k).count = Cardinality(Counted(seen'[g], k))
  <2>1. H!LineOf(counters[g], k).count = Cardinality(Counted(seen[g], k))
    BY DEF HistogramInv, CountersCount
  <2>2. CASE g = h
    <3>1. counters'[g] = d /\ seen'[g] = Append(seen[h], v) /\ counters[g] = c
      BY <1>3, <2>2 DEF HistogramInv, CountersType, SeenType, c
    <3>2. Cardinality(Counted(seen'[g], k)) = Cardinality(Counted(seen[h], k)) + IF Slot(v) = k THEN 1 ELSE 0
      BY <1>1, <3>1, CountedAppend
    <3>3. H!LineOf(d, k).count = H!LineOf(c, k).count + IF Slot(v) = k THEN 1 ELSE 0
      BY <1>4
    <3> QED
      BY <2>1, <2>2, <3>1, <3>2, <3>3
  <2>3. CASE g # h
    <3>1. counters'[g] = counters[g] /\ seen'[g] = seen[g]
      BY <1>3, <2>3 DEF HistogramInv, CountersType, SeenType
    <3> QED
      BY <2>1, <3>1
  <2> QED
    BY <2>2, <2>3
<1> QED
  BY <1>3, <1>5, <1>6, <1>7 DEF HistogramInv, CountersType, SeenType, BoundsType, CountersCount

\* The counters of a histogram that takes over another add up.
LEMMA MergeCounts ==
  ASSUME HistogramInv, NEW h \in Histograms, NEW src \in Histograms, H!Merge(h, src)
  PROVE  HistogramInv'
<1> DEFINE c == counters[h]
          e == counters[src]
          d == counters'[h]
<1>1. /\ c \in CounterSet /\ e \in CounterSet
      /\ seen[h] \in Seq(H!Values) /\ seen[src] \in Seq(H!Values)
  BY DEF HistogramInv, CountersType, SeenType
<1>2. d = [lower |-> c.lower + e.lower, upper |-> c.upper + e.upper,
           buckets |-> [i \in 0 .. Buckets - 1 |-> c.buckets[i] + e.buckets[i]]]
  BY DEF H!Merge, HistogramInv, CountersType
<1>3. /\ counters' = [counters EXCEPT ![h] = d]
      /\ seen' = [seen EXCEPT ![h] = seen[h] \o seen[src]]
      /\ bounds' = bounds
  BY DEF H!Merge, HistogramInv, CountersType
<1>4. /\ d \in CounterSet
      /\ \A k \in Slots : H!LineOf(d, k).count = H!LineOf(c, k).count + H!LineOf(e, k).count
  <2> HIDE DEF c, d, e
  <2>t. /\ c.lower \in Nat /\ c.upper \in Nat /\ c.buckets \in [0 .. Buckets - 1 -> Nat]
        /\ e.lower \in Nat /\ e.upper \in Nat /\ e.buckets \in [0 .. Buckets - 1 -> Nat]
    BY <1>1 DEF CounterSet
  <2> DEFINE b == [i \in 0 .. Buckets - 1 |-> c.buckets[i] + e.buckets[i]]
  <2>1. b \in [0 .. Buckets - 1 -> Nat] /\ \A j \in 0 .. Buckets - 1 : b[j] = c.buckets[j] + e.buckets[j]
    <3>1. ASSUME NEW j \in 0 .. Buckets - 1 PROVE c.buckets[j] + e.buckets[j] \in Nat
      <4>1. c.buckets[j] \in Nat /\ e.buckets[j] \in Nat
        BY <2>t
      <4> QED
        BY <4>1
    <3> QED
      BY <3>1
  <2>2. d = [lower |-> c.lower + e.lower, upper |-> c.upper + e.upper, buckets |-> b]
    BY <1>2
  <2> HIDE DEF b
  <2>3. d \in CounterSet /\ d.lower = c.lower + e.lower /\ d.upper = c.upper + e.upper /\ d.buckets = b
    BY <2>t, <2>1, <2>2 DEF CounterSet
  <2>4. ASSUME NEW k \in Slots
        PROVE  H!LineOf(d, k).count = H!LineOf(c, k).count + H!LineOf(e, k).count
    <3>1. /\ H!LineOf(c, k).count = IF k = 1 THEN c.lower ELSE IF k = Buckets + 2 THEN c.upper ELSE c.buckets[k - 2]
          /\ H!LineOf(e, k).count = IF k = 1 THEN e.lower ELSE IF k = Buckets + 2 THEN e.upper ELSE e.buckets[k - 2]
          /\ k # 1 /\ k # Buckets + 2 => k - 2 \in 0 .. Buckets - 1
      BY <1>1, LineCount
    <3>2. H!LineOf(d, k).count = IF k = 1 THEN d.lower ELSE IF k = Buckets + 2 THEN d.upper ELSE d.buckets[k - 2]
      BY <2>3, LineCount
    <3>3. CASE k = 1
      BY <2>3, <3>1, <3>2, <3>3
    <3>4. CASE k # 1 /\ k = Buckets + 2
      BY <2>3, <3>1, <3>2, <3>4
    <3>5. CASE k # 1 /\ k # Buckets + 2
      <4>1. d.buckets[k - 2] = c.buckets[k - 2] + e.buckets[k - 2]
        BY <2>1, <2>3, <3>1, <3>5
      <4> QED
        BY <3>1, <3>2, <3>5, <4>1
    <3> QED
      BY <3>3, <3>4, <3>5
  <2> QED
    BY <2>3, <2>4
<1> HIDE DEF c, d, e
<1>5. counters' \in [Histograms -> CounterSet]
  BY <1>3, <1>4 DEF HistogramInv, CountersType
<1>6. seen' \in [Histograms -> Seq(H!Values)]
  <2>1. seen[h] \o seen[src] \in Seq(H!Values)
    BY <1>1
  <2> QED
    BY <1>3, <2>1 DEF HistogramInv, SeenType
<1>7. ASSUME NEW g \in Histograms, NEW k \in Slots
      PROVE  H!LineOf(counters'[g], k).count = Cardinality(Counted(seen'[g], k))
  <2>1. /\ H!LineOf(counters[g], k).count = Cardinality(Counted(seen[g], k))
        /\ H!LineOf(counters[src], k).count = Cardinality(Counted(seen[src], k))
    BY DEF HistogramInv, CountersCount
  <2>2. CASE g = h
    <3>1. counters'[g] = d /\ seen'[g] = seen[h] \o seen[src] /\ counters[g] = c /\ counters[src] = e
      BY <1>3, <2>2 DEF HistogramInv, CountersType, SeenType, c, e
    <3>2. Cardinality(Counted(seen'[g], k)) = Cardinality(Counted(seen[h], k)) + Cardinality(Counted(seen[src], k))
      BY <1>1, <3>1, CountedConcat
    <3>3. H!LineOf(d, k).count = H!LineOf(c, k).count + H!LineOf(e, k).count
      BY <1>4
    <3> QED
      BY <2>1, <2>2, <3>1, <3>2, <3>3
  <2>3. CASE g # h
    <3>1. counters'[g] = counters[g] /\ seen'[g] = seen[g]
      BY <1>3, <2>3 DEF HistogramInv, CountersType, SeenType
    <3> QED
      BY <2>1, <3>1
  <2> QED
    BY <2>2, <2>3
<1> QED
  BY <1>3, <1>5, <1>6, <1>7 DEF HistogramInv, CountersType, SeenType, BoundsType, CountersCount

LEMMA EmptyCounts ==
  /\ H!Empty \in CounterSet
  /\ \A k \in Slots : H!LineOf(H!Empty, k).count = 0
<1>1. H!Empty \in CounterSet
  BY DEF H!Empty, CounterSet
<1> QED
  BY <1>1, LineCount DEF H!Empty

LEMMA ResetCounts ==
  ASSUME HistogramInv, NEW h \in Histograms, H!Reset(h)
  PROVE  HistogramInv'
<1>1. /\ counters' = [counters EXCEPT ![h] = H!Empty]
      /\ seen' = [seen EXCEPT ![h] = <<>>]
      /\ bounds' = bounds
  BY DEF H!Reset
<1>2. counters' \in [Histograms -> CounterSet] /\ seen' \in [Histograms -> Seq(H!Values)]
  <2>1. <<>> \in Seq(H!Values)
    OBVIOUS
  <2> QED
    BY <1>1, <2>1, EmptyCounts DEF HistogramInv, CountersType, SeenType
<1>3. ASSUME NEW g \in Histograms, NEW k \in Slots
      PROVE  H!LineOf(counters'[g], k).count = Cardinality(Counted(seen'[g], k))
  <2>1. H!LineOf(counters[g], k).count = Cardinality(Counted(seen[g], k))
    BY DEF HistogramInv, CountersCount
  <2>2. CASE g = h
    <3>1. counters'[g] = H!Empty /\ seen'[g] = <<>>
      BY <1>1, <2>2 DEF HistogramInv, CountersType, SeenType
    <3> QED
      BY <3>1, EmptyCounts, CountedNone
  <2>3. CASE g # h
    <3>1. counters'[g] = counters[g] /\ seen'[g] = seen[g]
      BY <1>1, <2>3 DEF HistogramInv, CountersType, SeenType
    <3> QED
      BY <2>1, <3>1
  <2> QED
    BY <2>2, <2>3
<1> QED
  BY <1>1, <1>2, <1>3 DEF HistogramInv, CountersType, SeenType, BoundsType, CountersCount

-----------------------------------------------------------------------------
LineSet(c) == {H!LineOf(c, k) : k \in Slots}
Visits(c) == [lines : Seq(LineSet(c)), count : Nat]

\* The recursive function of a visit satisfies its equation.
LEMMA VisitEquation ==
  ASSUME NEW c \in CounterSet
  PROVE  /\ H!Visit(c)[0] = [lines |-> <<>>, count |-> 0]
         /\ \A k \in 0 .. Buckets + 2 : H!Visit(c)[k] \in Visits(c)
         /\ \A k \in Slots :
              LET line == H!LineOf(c, k)
                  before == H!Visit(c)[k - 1]
              IN  H!Visit(c)[k] = IF line.count = 0 THEN before
                                  ELSE [lines |-> Append(before.lines, line), count |-> before.count + line.count]
<1> DEFINE n == Buckets + 2
          Equation(f) ==
            f = [k \in 0 .. Buckets + 2 |->
                   IF k = 0 THEN [lines |-> <<>>, count |-> 0]
                   ELSE LET line == H!LineOf(c, k)
                        IN  IF line.count = 0 THEN f[k - 1]
                            ELSE [lines |-> Append(f[k - 1].lines, line), count |-> f[k - 1].count + line.count]]
          Next1(k, x) == IF H!LineOf(c, k).count = 0 THEN x
                         ELSE [lines |-> Append(x.lines, H!LineOf(c, k)), count |-> x.count + H!LineOf(c, k).count]
          step == [k \in 1 .. n |-> [x \in Visits(c) |-> Next1(k, x)]]
          b == [lines |-> <<>>, count |-> 0]
<1>1. n \in Nat /\ Slots = 1 .. n /\ 0 .. Buckets + 2 = 0 .. n
  BY BoundsAssumption DEF Slots
<1>2. b \in Visits(c)
  BY DEF Visits
<1>3. ASSUME NEW k \in 1 .. n, NEW x \in Visits(c) PROVE Next1(k, x) \in Visits(c)
  <2> DEFINE line == H!LineOf(c, k)
  <2>1. line \in LineSet(c) /\ line.count \in Nat
    BY <1>1, LineCount DEF LineSet
  <2>2. x.lines \in Seq(LineSet(c)) /\ x.count \in Nat
    BY DEF Visits
  <2> HIDE DEF line
  <2>3. Append(x.lines, line) \in Seq(LineSet(c)) /\ x.count + line.count \in Nat
    BY <2>1, <2>2
  <2>4. [lines |-> Append(x.lines, line), count |-> x.count + line.count] \in Visits(c)
    BY <2>3 DEF Visits
  <2> QED
    BY <2>4 DEF line
<1>4. \A k \in 1 .. n : \A x \in Visits(c) : step[k][x] = Next1(k, x)
  OBVIOUS
<1>5. PICK g \in [0 .. n -> Visits(c)] : Solves(g, step, n, b)
  <2>1. Closed(step, n, Visits(c))
    <3> HIDE DEF Next1, step
    <3> QED
      BY <1>3, <1>4 DEF Closed
  <2> HIDE DEF step, b, n
  <2> QED
    BY ONLY <1>1, <1>2, <2>1, RecursionExists
<1>6. g[0] = b /\ \A k \in 1 .. n : g[k] = Next1(k, g[k - 1])
  <2> HIDE DEF step, b, Next1
  <2>1. \A k \in 1 .. n : g[k - 1] \in Visits(c)
    BY <1>1
  <2> QED
    BY <1>1, <1>4, <1>5, <2>1 DEF Solves
<1>7. Equation(g)
  <2>1. \A k \in 0 .. Buckets + 2 : k = 0 \/ k \in 1 .. n
    BY <1>1
  <2>2. g = [k \in 0 .. Buckets + 2 |-> g[k]]
    BY <1>1
  <2> HIDE DEF n
  <2> QED
    BY <1>6, <2>1, <2>2
<1>8. Equation(H!Visit(c))
  BY <1>7 DEF H!Visit
<1>9. H!Visit(c)[0] = b /\ \A k \in 1 .. n : H!Visit(c)[k] = Next1(k, H!Visit(c)[k - 1])
  <2> DEFINE f == H!Visit(c)
  <2>1. Equation(f)
    BY <1>8
  <2> HIDE DEF f
  <2>2. \A k \in 1 .. n : k \in 0 .. Buckets + 2 /\ k # 0
    BY <1>1
  <2>3. 0 \in 0 .. Buckets + 2
    BY BoundsAssumption
  <2> HIDE DEF n
  <2>4. f[0] = b /\ \A k \in 1 .. n : f[k] = Next1(k, f[k - 1])
    BY <2>1, <2>2, <2>3
  <2> QED
    BY <2>4 DEF f
<1>10. \A k \in 0 .. n : H!Visit(c)[k] \in Visits(c)
  <2> DEFINE T == {k \in 0 .. n : H!Visit(c)[k] \in Visits(c)}
  <2>1. 0 \in T
    BY <1>1, <1>2, <1>9
  <2>2. ASSUME NEW k \in 1 .. n, k - 1 \in T PROVE k \in T
    <3> HIDE DEF Next1
    <3> QED
      BY <1>1, <1>3, <1>9, <2>2
  <2>3. \A k \in 0 .. n : k \in T
    <3> HIDE DEF T, n
    <3> QED
      BY ONLY <1>1, <2>1, <2>2, UpTo
  <2> QED
    BY <2>3
<1> QED
  BY <1>1, <1>9, <1>10

Within(s, k) == {i \in DOMAIN s : Slot(s[i]) \in 1 .. k}

\* A visit counts every recorded value once.
LEMMA VisitCounts ==
  ASSUME NEW c \in CounterSet, NEW s \in Seq(H!Values),
         \A k \in Slots : H!LineOf(c, k).count = Cardinality(Counted(s, k))
  PROVE  H!Visit(c)[Buckets + 2].count = Cardinality({i \in DOMAIN s : s[i] # H!Ignored})
<1> DEFINE n == Buckets + 2
          T == {k \in 0 .. n : H!Visit(c)[k].count = Cardinality(Within(s, k))}
<1>1. n \in Nat /\ Slots = 1 .. n /\ n \in 0 .. n
  BY BoundsAssumption DEF Slots
<1>2. 0 \in T
  <2>1. Within(s, 0) = {}
    BY DEF Within
  <2>2. H!Visit(c)[0].count = 0
    BY VisitEquation
  <2>3. H!Visit(c)[0].count = Cardinality(Within(s, 0))
    BY <2>1, <2>2, FS_EmptySet, Zenon
  <2>4. 0 \in 0 .. n
    BY <1>1
  <2> QED
    BY <2>3, <2>4
<1>3. ASSUME NEW k \in 1 .. n, k - 1 \in T PROVE k \in T
  <2> DEFINE W == Within(s, k - 1)
            C == Counted(s, k)
            line == H!LineOf(c, k)
            before == H!Visit(c)[k - 1]
  <2>1. IsFiniteSet(W) /\ Cardinality(W) \in Nat /\ IsFiniteSet(C) /\ Cardinality(C) \in Nat
    BY CountedFinite DEF Within, Counted
  <2>2. Within(s, k) = W \cup C /\ W \cap C = {}
    <3>1. \A m : m \in 1 .. k <=> m \in 1 .. k - 1 \/ m = k
      BY <1>1
    <3>2. k \notin 1 .. k - 1
      BY <1>1
    <3> QED
      BY <3>1, <3>2 DEF Within, Counted
  <2>3. Cardinality(Within(s, k)) = Cardinality(W) + Cardinality(C)
    <3> HIDE DEF W, C
    <3>1. Cardinality(W \cup C) = Cardinality(W) + Cardinality(C) - Cardinality(W \cap C)
      BY <2>1, FS_Union
    <3>2. Cardinality(W \cap C) = 0
      BY <2>2, FS_EmptySet
    <3> QED
      BY <2>1, <2>2, <3>1, <3>2
  <2>4. line.count = Cardinality(C)
    BY <1>1
  <2>5. before.count = Cardinality(W)
    BY <1>3
  <2>6. H!Visit(c)[k] = IF line.count = 0 THEN before
                        ELSE [lines |-> Append(before.lines, line), count |-> before.count + line.count]
    BY <1>1, VisitEquation
  <2> HIDE DEF line, before, W, C
  <2>7. H!Visit(c)[k].count = before.count + line.count
    BY <2>1, <2>4, <2>5, <2>6
  <2> QED
    BY <2>3, <2>4, <2>5, <2>7
<1>4. n \in T
  <2>1. \A k \in 0 .. n : k \in T
    <3> HIDE DEF T, n
    <3> QED
      BY ONLY <1>1, <1>2, <1>3, UpTo
  <2> QED
    BY <1>1, <2>1
<1>5. Within(s, n) = {i \in DOMAIN s : s[i] # H!Ignored}
  <2>1. ASSUME NEW i \in DOMAIN s PROVE Slot(s[i]) \in 1 .. n <=> s[i] # H!Ignored
    <3>1. s[i] \in H!Values
      OBVIOUS
    <3>2. Slot(s[i]) \in 0 .. Buckets + 2 /\ (Slot(s[i]) = 0 <=> s[i] = H!Ignored)
      BY <3>1, SlotFacts
    <3> QED
      BY <1>1, <3>2
  <2> QED
    BY <2>1 DEF Within
<1> QED
  BY <1>4, <1>5

\* An exported line is that of a counter, and the values it counts are in its range.
LEMMA VmExported ==
  ASSUME HistogramInv, NEW h \in Histograms, H!VmExport(h)
  PROVE  CountedInRange'
<1> DEFINE c == counters[h]
          s == seen[h]
          visited == H!Visit(c)[Buckets + 2]
          e == [lines |-> visited.lines, of |-> s, kind |-> "vm", count |-> visited.count]
          recorded == {i \in DOMAIN s : s[i] # H!Ignored}
<1>1. c \in CounterSet /\ s \in Seq(H!Values) /\ \A k \in Slots : H!LineOf(c, k).count = Cardinality(Counted(s, k))
  BY DEF HistogramInv, CountersType, SeenType, CountersCount
<1>2. exported' = e
  BY DEF H!VmExport
<1>3. visited.count = Cardinality(recorded)
  BY <1>1, VisitCounts
<1>4. visited.lines \in Seq(LineSet(c))
  <2>1. Buckets + 2 \in 0 .. Buckets + 2
    BY BoundsAssumption
  <2>2. visited \in Visits(c)
    BY <1>1, <2>1, VisitEquation
  <2> QED
    BY <2>2 DEF Visits
<1>5. ASSUME NEW i \in DOMAIN visited.lines
      PROVE  visited.lines[i].count <= Cardinality({j \in recorded : H!InRange(s[j], visited.lines[i].range)})
  <2>1. visited.lines[i] \in LineSet(c)
    BY <1>4
  <2>2. PICK k \in Slots : visited.lines[i] = H!LineOf(c, k)
    BY <2>1 DEF LineSet
  <2> DEFINE R == {j \in recorded : H!InRange(s[j], H!LineOf(c, k).range)}
  <2>3. ASSUME NEW j \in Counted(s, k) PROVE j \in R
    <3>1. j \in DOMAIN s /\ Slot(s[j]) = k /\ s[j] \in H!Values
      BY <1>1 DEF Counted
    <3>2. k # 0
      BY BoundsAssumption DEF Slots
    <3>3. s[j] # H!Ignored /\ H!InRange(s[j], H!LineOf(c, k).range)
      BY <3>1, <3>2, SlotFacts
    <3> QED
      BY <3>1, <3>3
  <2>4. IsFiniteSet(R) /\ Cardinality(R) \in Nat
    BY <1>1, CountedFinite
  <2>5. Cardinality(Counted(s, k)) <= Cardinality(R)
    <3> HIDE DEF R
    <3>1. Counted(s, k) \in SUBSET R
      BY <2>3
    <3> QED
      BY <2>4, <3>1, FS_Subset
  <2> HIDE DEF visited, c, s, recorded
  <2> QED
    BY <1>1, <2>2, <2>5
<1> HIDE DEF visited, s
<1>6. e # <<>> /\ e.lines = visited.lines /\ e.of = s /\ e.kind = "vm" /\ e.count = visited.count
  OBVIOUS
<1> HIDE DEF e
<1> QED
  BY <1>2, <1>3, <1>5, <1>6, SameCount DEF CountedInRange, H!CountedInRange

\* The bounds exported ascend up to +Inf, whether it was configured or not.
LEMMA EndsFacts ==
  ASSUME HistogramInv
  PROVE  /\ H!Ends \in Seq(H!Values \cup {H!Inf}) /\ Len(H!Ends) \in Nat \ {0}
         /\ \A i, j \in DOMAIN H!Ends : i < j => H!Ends[i] < H!Ends[j]
         /\ H!Ends[Len(H!Ends)] = H!Inf
<1> DEFINE V == H!Values \cup {H!Inf}
          n == Len(bounds)
<1>0. /\ bounds \in Seq(V) /\ n \in Nat /\ DOMAIN bounds = 1 .. n
      /\ \A i, j \in DOMAIN bounds : i < j => bounds[i] < bounds[j]
  BY BoundsAssumption DEF HistogramInv, BoundsType
<1>1. V \subseteq Int /\ H!Inf \in V /\ \A v \in V : v <= H!Inf
  BY BoundsAssumption DEF H!Values, H!Inf, H!Ignored
<1> HIDE DEF V, n
<1>2. CASE \E i \in DOMAIN bounds : bounds[i] = H!Inf
  <2>1. H!Ends = bounds
    BY <1>2 DEF H!Ends
  <2>2. PICK i \in 1 .. n : bounds[i] = H!Inf
    BY <1>0, <1>2
  <2>3. i = n
    <3>1. bounds[n] \in V
      BY <1>0
    <3>2. i < n => bounds[i] < bounds[n]
      BY <1>0
    <3>3. bounds[n] <= H!Inf /\ bounds[n] \in Int /\ H!Inf \in Int
      BY <1>1, <3>1
    <3>4. ~(i < n)
      BY <2>2, <3>2, <3>3
    <3> QED
      BY <1>0, <3>4
  <2> QED
    BY <1>0, <2>1, <2>2, <2>3 DEF n, V
<1>3. CASE ~\E i \in DOMAIN bounds : bounds[i] = H!Inf
  <2> DEFINE a == Append(bounds, H!Inf)
  <2>1. H!Ends = a
    BY <1>3 DEF H!Ends
  <2>2. /\ a \in Seq(V) /\ Len(a) = n + 1 /\ DOMAIN a = 1 .. n + 1 /\ a[n + 1] = H!Inf
        /\ \A i \in 1 .. n : a[i] = bounds[i]
    BY <1>0, <1>1 DEF n
  <2> HIDE DEF a
  <2>3. ASSUME NEW i \in DOMAIN a, NEW j \in DOMAIN a, i < j PROVE a[i] < a[j]
    <3>1. i \in 1 .. n /\ a[i] = bounds[i]
      BY <1>0, <2>2, <2>3
    <3>2. CASE j = n + 1
      <4>1. bounds[i] \in V /\ bounds[i] # H!Inf
        BY <1>0, <1>3, <3>1
      <4>2. bounds[i] < H!Inf
        BY <1>1, <4>1
      <4> QED
        BY <2>2, <3>1, <3>2, <4>2
    <3>3. CASE j \in 1 .. n
      BY <1>0, <2>2, <2>3, <3>1, <3>3
    <3> QED
      BY <1>0, <2>2, <3>2, <3>3
  <2> QED
    BY <1>0, <2>1, <2>2, <2>3 DEF V
<1> QED
  BY <1>2, <1>3

\* What is at most a bound is at most the next.
LEMMA PromExported ==
  ASSUME HistogramInv, NEW h \in Histograms, H!PromExport(h)
  PROVE  CountedInRange'
<1> DEFINE s == seen[h]
          ends == H!Ends
          n == Len(ends)
          Below(b) == {i \in DOMAIN s : b = H!Inf \/ s[i] <= b}
          lines == [i \in DOMAIN ends |-> H!Line(<<-9, ends[i]>>, Cardinality(Below(ends[i])))]
          e == [lines |-> lines, of |-> s, kind |-> "prom", count |-> Len(s)]
<1>1. s \in Seq(H!Values)
  BY DEF HistogramInv, SeenType
<1>2. exported' = e
  BY SameCount DEF H!PromExport, H!AtMost
<1>3. /\ ends \in Seq(H!Values \cup {H!Inf}) /\ n \in Nat \ {0} /\ DOMAIN ends = 1 .. n
      /\ \A i, j \in DOMAIN ends : i < j => ends[i] < ends[j]
      /\ ends[n] = H!Inf
  BY EndsFacts
<1>t. H!Values \cup {H!Inf} \subseteq Int
  BY BoundsAssumption DEF H!Values, H!Inf, H!Ignored
<1> HIDE DEF ends
<1>4. lines \in [1 .. n -> {H!Line(<<-9, ends[i]>>, Cardinality(Below(ends[i]))) : i \in 1 .. n}]
  BY <1>3
<1>5. Len(lines) = n /\ DOMAIN lines = 1 .. n
  BY <1>3, <1>4
<1>6. \A i \in 1 .. n : lines[i].count = Cardinality(Below(ends[i])) /\ lines[i].range[2] = ends[i]
  BY <1>3 DEF H!Line
<1>7. ASSUME NEW i \in 1 .. n - 1
      PROVE  lines[i].count <= lines[i + 1].count /\ lines[i].range[2] < lines[i + 1].range[2]
  <2>1. i \in 1 .. n /\ i + 1 \in 1 .. n /\ i < i + 1
    BY <1>3
  <2>2. ends[i] < ends[i + 1] /\ ends[i] \in Int /\ ends[i + 1] \in Int
    BY <1>3, <1>t, <2>1
  <2>3. ends[i] # H!Inf
    <3>1. CASE i + 1 = n
      BY <1>3, <2>2, <3>1
    <3>2. CASE i + 1 # n
      <4>1. i < n /\ n \in 1 .. n
        BY <1>3, <2>1
      <4>2. ends[i] < ends[n] /\ ends[n] \in Int
        BY <1>3, <1>t, <2>1, <4>1
      <4> QED
        BY <1>3, <2>2, <4>2
    <3> QED
      BY <3>1, <3>2
  <2>4. \A j \in DOMAIN s : s[j] \in Int
    <3>1. \A j \in DOMAIN s : s[j] \in H!Values
      BY <1>1
    <3> QED
      BY <3>1, ValuesAre
  <2>5. Below(ends[i]) \in SUBSET Below(ends[i + 1])
    BY <2>2, <2>3, <2>4
  <2>6. IsFiniteSet(Below(ends[i + 1])) /\ Below(ends[i + 1]) \in SUBSET DOMAIN s
    BY <1>1, CountedFinite
  <2> HIDE DEF Below, lines
  <2>7. Cardinality(Below(ends[i])) <= Cardinality(Below(ends[i + 1]))
    BY <2>5, <2>6, FS_Subset
  <2> QED
    BY <1>6, <2>1, <2>2, <2>7
<1>8. lines[n] = H!Line(<<-9, H!Inf>>, Len(s))
  <2>1. Below(H!Inf) = 1 .. Len(s) /\ Len(s) \in Nat
    BY <1>1
  <2>2. Cardinality(1 .. Len(s)) = Len(s)
    BY <2>1, FS_Interval
  <2>3. n \in DOMAIN ends
    BY <1>3
  <2>4. lines[n] = H!Line(<<-9, ends[n]>>, Cardinality(Below(ends[n])))
    BY <2>3
  <2> HIDE DEF Below, lines
  <2> QED
    BY <1>3, <2>1, <2>2, <2>4
<1> HIDE DEF lines, s
<1>9. e.kind # "vm" /\ e.lines = lines /\ e.count = Len(s)
  OBVIOUS
<1> HIDE DEF e
<1> QED
  BY <1>2, <1>5, <1>7, <1>8, <1>9 DEF CountedInRange, H!CountedInRange

\* Each recorded value is counted in one exported bucket, whose range holds it, and
\* the buckets of a Prometheus histogram grow up to +Inf, which counts them all:
\* every counter counts the values of its slot, whatever was merged or reset.
THEOREM CountedInRangeTheorem == Spec => []CountedInRange
<1> DEFINE I1 == HistogramInv /\ CountedInRange
<1>1. Init => I1
  <2> SUFFICES ASSUME H!Init PROVE I1
    BY DEF Init
  <2>1. counters = [h \in Histograms |-> H!Empty] /\ seen = [h \in Histograms |-> <<>>]
    BY DEF H!Init
  <2>2. CountersType /\ SeenType /\ BoundsType
    BY <2>1, EmptyCounts DEF H!Init, CountersType, SeenType, BoundsType
  <2>3. CountersCount
    BY <2>1, EmptyCounts, CountedNone DEF CountersCount
  <2>4. CountedInRange
    BY DEF H!Init, CountedInRange, H!CountedInRange
  <2> QED
    BY <2>2, <2>3, <2>4 DEF HistogramInv
<1>2. I1 /\ [Next]_vars => I1'
  <2> SUFFICES ASSUME I1, [Next]_vars PROVE I1'
    OBVIOUS
  <2>1. CASE UNCHANGED hVars
    BY <2>1 DEF hVars, HistogramInv, CountersType, SeenType, BoundsType, CountersCount,
       CountedInRange, H!CountedInRange
  <2>2. CASE H!Next
    <3>1. PICK h \in Histograms :
            \/ \E v \in H!Values : H!Update(h, v)
            \/ \E src \in Histograms : H!Merge(h, src)
            \/ H!Reset(h) \/ H!VmExport(h) \/ H!PromExport(h)
      BY <2>2 DEF H!Next
    <3>2. exported' = <<>> => CountedInRange'
      BY DEF CountedInRange, H!CountedInRange
    <3>3. ASSUME NEW v \in H!Values, H!Update(h, v) PROVE I1'
      BY <3>2, <3>3, UpdateCounts DEF H!Update
    <3>4. ASSUME NEW src \in Histograms, H!Merge(h, src) PROVE I1'
      BY <3>2, <3>4, MergeCounts DEF H!Merge
    <3>5. CASE H!Reset(h)
      BY <3>2, <3>5, ResetCounts DEF H!Reset
    <3>6. UNCHANGED <<counters, bounds, seen>> => HistogramInv'
      BY DEF HistogramInv, CountersType, SeenType, BoundsType, CountersCount
    <3>7. CASE H!VmExport(h)
      BY <3>6, <3>7, VmExported DEF H!VmExport
    <3>8. CASE H!PromExport(h)
      BY <3>6, <3>8, PromExported DEF H!PromExport
    <3> QED
      BY <3>1, <3>3, <3>4, <3>5, <3>7, <3>8
  <2> QED
    BY <2>1, <2>2, StepOfEach
<1> QED
  BY <1>1, <1>2, PTL DEF Spec
=============================================================================
