--------------------------- MODULE OnOffBaseline ----------------------------
(***************************************************************************)
(* The baselines a request's OnOff metrics are compared with               *)
(* (onoffmetric/metric_cache.go): latencies per CPU type of yesterday, and *)
(* of the calmest hour of today for keys that had none yesterday.  An      *)
(* hourly task replaces them at its first tick of a day; CalcMutatedType   *)
(* blames the CPU type that exceeds its baseline most.                     *)
(*                                                                         *)
(* Prometheus is external: a result has one vector per key with traffic;   *)
(* the component of a CPU type whose query failed or was empty is 0.       *)
(***************************************************************************)
EXTENDS Integers, Functions

CONSTANTS Contents, Services,   \* a key is a pair; "" is the unknown service
          LastType,             \* CPUTYPE_RUNQ, 7: types are 0 .. LastType
          MaxValue,             \* bound on latencies
          Results               \* what the eight queries may return

VARIABLES yesterday,   \* YesterdayMetricMap
          lastHour,    \* LastHourMetricMap
          task,        \* where Start or checkTask is
          midnight,    \* time.Now().Day() # currentDay
          behind,      \* history: a day began, and the maps were not both replaced since
          fresh,       \* history: yesterday's map is that of yesterday
          hours,       \* history: the vectors stored today for keys without a baseline of yesterday
          former       \* history: while behind, those that may still be kept

historyVars == <<behind, fresh, hours, former>>
vars == <<yesterday, lastHour, task, midnight, historyVars>>

Types == 0 .. LastType
Keys == Services \X Contents
Vectors == [Types -> 0 .. MaxValue]

\* The sums of the first components of a vector.
Sums(vector) ==
  LET upTo[t \in Types] == IF t = 0 THEN vector[0] ELSE upTo[t - 1] + vector[t]
  IN  upTo
Sum(vector) == Sums(vector)[LastType]

\* MetricDatas.Compare: the sign of the difference of the sums
\* (slip: the busier hour wins)
CompareSlip(metric, other) == Sum(other) - Sum(metric)
Compare(metric, other) == Sum(metric) - Sum(other)

NoHours == [k \in Keys |-> {}]

Init == /\ yesterday = <<>> /\ lastHour = <<>>
        /\ task = "start" /\ midnight = FALSE
        /\ behind = FALSE /\ fresh = TRUE /\ hours = NoHours /\ former = NoHours

\* The queries, from the midnight before their start, fill a map of their own,
\* installed under the lock.
StoreYesterdayMetrics ==
  /\ task \in {"start", "newDay"}
  /\ yesterday' \in Results
  /\ task' = IF task = "start" THEN "firstHour" ELSE "clean"
  /\ fresh' = ~midnight
  /\ UNCHANGED <<lastHour, midnight, behind, hours, former>>

CleanLastHourMetrics ==
  /\ task = "clean"
  /\ lastHour' = <<>>
  /\ task' = "hour"
  /\ behind' = midnight /\ former' = NoHours
  /\ UNCHANGED <<yesterday, midnight, fresh, hours>>

StoreLastHourMetrics(result) ==
  /\ task \in {"firstHour", "hour"}
  /\ LET new == DOMAIN result \ DOMAIN yesterday
         Kept(k) == k \in DOMAIN lastHour /\ (k \notin new \/ ~(Compare(lastHour[k], result[k]) > 0))
         With(seen) == [k \in Keys |-> IF k \in new THEN seen[k] \cup {result[k]} ELSE seen[k]]
     IN  /\ lastHour' = [k \in DOMAIN lastHour \cup new |-> IF Kept(k) THEN lastHour[k] ELSE result[k]]
         /\ IF behind THEN former' = With(former) /\ UNCHANGED hours
                      ELSE hours' = With(hours) /\ UNCHANGED former
  /\ task' = IF task = "firstHour" THEN "watch" ELSE "idle"
  /\ UNCHANGED <<yesterday, midnight, behind, fresh>>

\* checkTask, started last, remembers the day: one that began during Start goes
\* unnoticed.
Watch ==
  /\ task = "watch"
  /\ task' = "idle" /\ midnight' = FALSE
  /\ UNCHANGED <<yesterday, lastHour, historyVars>>

\* The ticker of checkTask, once an hour.
CheckTask ==
  /\ task = "idle"
  /\ task' = IF midnight THEN "newDay" ELSE "hour"
  /\ midnight' = FALSE
  /\ UNCHANGED <<yesterday, lastHour, historyVars>>

\* A day begins, wherever the task is.
Midnight ==
  /\ midnight' = TRUE /\ behind' = TRUE /\ fresh' = FALSE
  /\ hours' = NoHours /\ former' = IF behind THEN former ELSE hours
  /\ UNCHANGED <<yesterday, lastHour, task>>

Next == \/ StoreYesterdayMetrics \/ CleanLastHourMetrics
        \/ Watch \/ CheckTask \/ Midnight
        \/ \E result \in Results : StoreLastHourMetrics(result)
Spec == Init /\ [][Next]_vars

-----------------------------------------------------------------------------
NoBaseline == [metric |-> [t \in Types |-> 0], range |-> "unknown"]

Baseline(k) == IF k \in DOMAIN yesterday THEN [metric |-> yesterday[k], range |-> "24h"]
               ELSE IF k \in DOMAIN lastHour THEN [metric |-> lastHour[k], range |-> "1h"]
               ELSE NoBaseline

\* Without a baseline of its own a key takes that of its content without a service.
GetMetricValue(k) == IF Baseline(k) # NoBaseline THEN Baseline(k) ELSE Baseline(<<"", k[2]>>)

Better(best, excess) == excess > 0 /\ (best.excess = 0 \/ best.excess < excess)

\* One pass over the types in order, the run queue last; -1 is unknown.
Checked(best, t, values, base) ==
  IF values[t] > 0 /\ Better(best, values[t] - base[t])
  THEN [type |-> t, excess |-> values[t] - base[t]] ELSE best
Bests(values, base) ==
  LET best[t \in Types] ==
        Checked(IF t = 0 THEN [type |-> -1, excess |-> 0] ELSE best[t - 1], t, values, base)
  IN  best
CalcMutatedType(k, values) == Bests(values, GetMetricValue(k).metric)[LastType].type

-----------------------------------------------------------------------------
TypeOK == /\ yesterday \in Results \cup {<<>>}
          /\ DOMAIN lastHour \subseteq Keys /\ Range(lastHour) \subseteq Vectors
          /\ task \in {"start", "firstHour", "watch", "idle", "newDay", "clean", "hour"}
          /\ midnight \in BOOLEAN /\ behind \in BOOLEAN /\ fresh \in BOOLEAN

\* What a request of the key should be compared with: yesterday, else the calmest
\* hour since midnight, else nothing.  From midnight until both maps are replaced it is
\* still the calmest of the hours since they were replaced before.
Calmest(vectors) == {v \in vectors : \A w \in vectors : Sum(v) <= Sum(w)}
Promised(k) == IF k \in DOMAIN yesterday THEN {yesterday[k]}
               ELSE Calmest(IF behind THEN former[k] ELSE hours[k])

\* Through any number of hours, midnights and partial query results, once the task has
\* replaced the maps of the day before, no baseline is of another day; a request is
\* compared with the baseline of its key, and of its content without a service
\* only when the key has none; the CPU type that is blamed exceeds that baseline
\* by the most, and none is blamed exactly when none exceeds it
\* (checkTask, storeLastHourMetrics, cleanLastHourMetrics, GetMetricValue,
\* CalcMutatedType).
BlamedAgainstCalmest ==
  /\ behind \/ fresh
  /\ \A k \in Keys :
     LET own == IF Promised(k) # {} THEN Promised(k) ELSE Promised(<<"", k[2]>>)
         bases == IF own # {} THEN own ELSE {[t \in Types |-> 0]}
     IN  \A v \in Vectors :
           LET mutated == CalcMutatedType(k, v)
           IN  \E base \in bases :
                 IF mutated = -1 THEN \A t \in Types : v[t] <= base[t]
                 ELSE /\ v[mutated] > base[mutated]
                      /\ \A t \in Types : v[t] - base[t] <= v[mutated] - base[mutated]
=============================================================================
