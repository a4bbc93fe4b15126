----------------------------- MODULE MetricCache -----------------------------
(***************************************************************************)
(* The series the receiver exports for one metric (metrics/metrics.go,     *)
(* metrics/model/cache.go): a map of series, and an LRU of label sets      *)
(* whose evicted members are kept until the next collection, so that the   *)
(* series is exported once more before it is dropped.  An update finds the *)
(* registered series without a lock and registers new ones if there are    *)
(* none; two first updates may both do so, and one registration is lost.   *)
(*                                                                         *)
(* The LRU library is external: adding a key to a full LRU evicts the key  *)
(* used longest ago, and reading a key counts as using it.                 *)
(***************************************************************************)
EXTENDS Naturals, Sequences, FiniteSets, Functions

CONSTANTS Labels,       \* label sets
          CacheSize,    \* metricConfig.cacheSize
          Callers,      \* concurrent calls of UpdateMetric
          MaxUpdates    \* bound on updates

VARIABLES registered,   \* the registered lruMetrics, 0 if none
          created,      \* how many lruMetrics were made
          lru,          \* per lruMetrics, its labelsToTags: least recently used first
          evicted,      \* per lruMetrics, its evictedItems
          datas,        \* per lruMetrics, its series: the number of updates each counts
          call,         \* per caller: idle, or about to update
          order,        \* history: per lruMetrics, labels by last update, newest last
          updates       \* history: number of updates

vars == <<registered, created, lru, evicted, datas, call, order, updates>>

Idle == [pc |-> "idle"]
Instances == 1 .. Cardinality(Callers)

\* The list moves a label it holds to its newest end, or gets a new one there.
Place(s, x) == CHOOSE i \in DOMAIN s : s[i] = x
Without(s, i) == SubSeq(s, 1, i - 1) \o SubSeq(s, i + 1, Len(s))
Use(s, x) == Append(IF x \in Range(s) THEN Without(s, Place(s, x)) ELSE s, x)

Init == /\ registered = 0 /\ created = 0
        /\ lru = [m \in Instances |-> <<>>]
        /\ evicted = [m \in Instances |-> {}]
        /\ datas = [m \in Instances |-> <<>>]
        /\ call = [c \in Callers |-> Idle]
        /\ order = [m \in Instances |-> <<>>]
        /\ updates = 0

-----------------------------------------------------------------------------
(* UpdateMetric *)

\* The unlocked look-up.
LookUp(c, label) ==
  /\ call[c].pc = "idle" /\ updates < MaxUpdates
  /\ updates' = updates + 1
  /\ IF registered = 0
     THEN /\ created' = created + 1
          /\ call' = [call EXCEPT ![c] = [pc |-> "register", label |-> label, metrics |-> created + 1]]
     ELSE /\ call' = [call EXCEPT ![c] = [pc |-> "update", label |-> label, metrics |-> registered]]
          /\ UNCHANGED created
  /\ UNCHANGED <<registered, lru, evicted, datas, order>>

Register(c) ==
  /\ call[c].pc = "register"
  /\ registered' = call[c].metrics
  /\ call' = [call EXCEPT ![c].pc = "update"]
  /\ UNCHANGED <<created, lru, evicted, datas, order, updates>>

\* Cache.Get followed by Cache.Add of an absent label: a label in the LRU becomes
\* the newest, an evicted one is revived, either may evict the oldest.
\* (slip: an evicted label is found and left where it is)
TouchedSlip(keys, gone, label) == IF label \in gone THEN keys ELSE Use(keys, label)
Touched(keys, gone, label) == Use(keys, label)

Update(c) ==
  /\ call[c].pc = "update"
  /\ LET m == call[c].metrics
         label == call[c].label
         used == Touched(lru[m], evicted[m], label)
         full == Len(used) > CacheSize
     IN  /\ lru' = [lru EXCEPT ![m] = IF full THEN Tail(used) ELSE used]
         /\ evicted' = [evicted EXCEPT ![m] =
              (@ \ Range(used)) \cup (IF full THEN {Head(used)} ELSE {})]
         /\ datas' = [datas EXCEPT ![m] =
              [l \in DOMAIN datas[m] \cup {label} |->
                 (IF l \in DOMAIN datas[m] THEN datas[m][l] ELSE 0) + (IF l = label THEN 1 ELSE 0)]]
         /\ order' = [order EXCEPT ![m] = Use(@, label)]
  /\ call' = [call EXCEPT ![c] = Idle]
  /\ UNCHANGED <<registered, created, updates>>

\* The number of values does not match the keys: nothing is recorded.
Reject(c) ==
  /\ call[c].pc = "update"
  /\ call' = [call EXCEPT ![c] = Idle]
  /\ UNCHANGED <<registered, created, lru, evicted, datas, order, updates>>

-----------------------------------------------------------------------------
\* GetMetrics and BuildPromWriteRequest: everything is exported, then series whose
\* label the LRU has evicted are dropped.  One critical section.
Collect ==
  /\ registered # 0 /\ datas[registered] # <<>>
  /\ evicted' = [evicted EXCEPT ![registered] = {}]
  /\ datas' = [datas EXCEPT ![registered] =
       [l \in DOMAIN @ \cap Range(lru[registered]) |-> datas[registered][l]]]
  /\ UNCHANGED <<registered, created, lru, call, order, updates>>

Next == \/ \E c \in Callers : \E l \in Labels : LookUp(c, l)
        \/ \E c \in Callers : Register(c) \/ Update(c) \/ Reject(c)
        \/ Collect
Spec == Init /\ [][Next]_vars

-----------------------------------------------------------------------------
TypeOK == /\ registered \in 0 .. created /\ created <= Cardinality(Callers)
          /\ \A m \in Instances : Len(lru[m]) <= CacheSize /\ DOMAIN datas[m] \subseteq Labels

Newest(m) == {order[m][i] : i \in {j \in DOMAIN order[m] : j > Len(order[m]) - CacheSize}}

\* Whatever is evicted, revived, updated and collected in between, every series
\* has its label in the LRU or among the evicted, never both, so that no series
\* is kept for ever; and the series updated last, as many as the cache holds, are
\* never dropped (Cache.Get, UpdateMetric, GetMetrics).
RecentKept ==
  \A m \in Instances :
     /\ DOMAIN datas[m] = Range(lru[m]) \cup evicted[m]
     /\ Range(lru[m]) \cap evicted[m] = {}
     /\ Newest(m) \subseteq DOMAIN datas[m]
=============================================================================
