------------------------------- MODULE Stores -------------------------------
(***************************************************************************)
(* The stores of a receiver: its tables in ClickHouse, the caches in its   *)
(* memory or in Redis, and the metrics it exports.  Run starts them one    *)
(* after the other; each then takes its own steps, and a step of one       *)
(* leaves the others alone.  The caches share the kind of cache, which is  *)
(* chosen when the receiver starts.                                        *)
(***************************************************************************)
EXTENDS Naturals, Sequences

CONSTANTS Receivers,                                           \* SampledIds, ClickHouseInit
          Apps, Requests, MaxRows, MaxMutations,               \* ActiveApps
          Files, WithoutTTL, Migrations, Configs, MaxStarts,   \* ClickHouseInit
          Callers, Labels, CacheSize, MaxMetricUpdates,        \* MetricCache, TraceLists
          Buckets, Bounds, Histograms, MaxValues,              \* Histogram
          ExpireTime, MaxItems, MaxTime,                       \* TraceLists
          MaxSignals,                                          \* Signals
          Ids, Abnormal, Agents, Home, MaxReports, MaxIndex,   \* SampledIds
          Tuples, PidUrl, MaxAdds, MaxCollections              \* SilentSwitches

VARIABLES rows, mutations, writer, request, twice, gone
pVars == <<rows, mutations, writer, request, twice, gone>>
P == INSTANCE ActiveApps

VARIABLES config, pc, todo, tables, distributed, migrated, broken, starts
iVars == <<config, pc, todo, tables, distributed, migrated, broken, starts>>
I == INSTANCE ClickHouseInit

VARIABLES registered, created, lru, evicted, datas, call, order, updates
mVars == <<registered, created, lru, evicted, datas, call, order, updates>>
M == INSTANCE MetricCache WITH MaxUpdates <- MaxMetricUpdates

VARIABLES counters, bounds, exported, seen
hVars == <<counters, bounds, exported, seen>>
H == INSTANCE Histogram WITH MaxUpdates <- MaxValues

\* IsLocal(), of the three caches.
VARIABLE local

VARIABLES now, lists, traceMap, keys, storing, sweep, stored, raced, calls
lVars == <<now, lists, traceMap, keys, storing, sweep, stored, raced, calls>>
L == INSTANCE TraceLists WITH MaxStores <- MaxItems

VARIABLES signals, workers, taking, arrived, dropped, again, given
gVars == <<signals, workers, taking, arrived, dropped, again, given>>
G == INSTANCE Signals WITH MaxStores <- MaxSignals

VARIABLES index, channel, consumer, traceIds, report, since, offered, late, mayRepeat, reports
sVars == <<index, channel, consumer, traceIds, report, since, offered, late, mayRepeat, reports>>
S == INSTANCE SampledIds

VARIABLES metrics, current, adding, query, collect, uncounted, adds, closed, forgotten, wrong, collections
zVars == <<metrics, current, adding, query, collect, uncounted, adds, closed, forgotten, wrong, collections>>
Z == INSTANCE SilentSwitches

vars == <<local, pVars, iVars, mVars, hVars, lVars, gVars, sVars, zVars>>

-----------------------------------------------------------------------------
\* Every agent reports to a receiver.
ASSUME HomeAssumption == Home \in [Agents -> Receivers]

ASSUME SizesAssumption == MaxSignals \in Nat /\ CacheSize \in Nat /\ ExpireTime \in Nat /\ MaxTime \in Nat

\* The bounds of Prometheus' histograms ascend; each is on the scale or +Inf.
ASSUME BoundsAssumption ==
  /\ Buckets \in Nat
  /\ Bounds \subseteq Seq(H!Values \cup {H!Inf})
  /\ \A b \in Bounds : \A i, j \in DOMAIN b : i < j => b[i] < b[j]

\* The scripts are lists; that of the migrations creates no table, and no two of its
\* statements are the same (migrate.tmpl.sql).
ASSUME ScriptsAssumption ==
  /\ Files \in Seq({Files[i] : i \in DOMAIN Files})
  /\ \A c \in Configs :
       LET script == Migrations[c.cluster]
       IN  /\ script \in Seq({script[i] : i \in DOMAIN script})
           /\ \A i \in DOMAIN script : script[i].op # "create"
           /\ \A i, j \in DOMAIN script : script[i] = script[j] => i = j

Init == P!Init /\ I!Init /\ M!Init /\ H!Init /\ L!Init /\ G!Init /\ S!Init /\ Z!Init

Next == \/ P!Next /\ UNCHANGED <<local, iVars, mVars, hVars, lVars, gVars, sVars, zVars>>
        \/ I!Next /\ UNCHANGED <<local, pVars, mVars, hVars, lVars, gVars, sVars, zVars>>
        \/ M!Next /\ UNCHANGED <<local, pVars, iVars, hVars, lVars, gVars, sVars, zVars>>
        \/ H!Next /\ UNCHANGED <<local, pVars, iVars, mVars, lVars, gVars, sVars, zVars>>
        \/ L!Next /\ UNCHANGED <<pVars, iVars, mVars, hVars, gVars, sVars, zVars>>
        \/ G!Next /\ UNCHANGED <<pVars, iVars, mVars, hVars, lVars, sVars, zVars>>
        \/ S!Next /\ UNCHANGED <<pVars, iVars, mVars, hVars, lVars, gVars, zVars>>
        \/ Z!Next /\ UNCHANGED <<local, pVars, iVars, mVars, hVars, lVars, gVars, sVars>>

Spec == Init /\ [][Next]_vars

-----------------------------------------------------------------------------
(* What the stores promise; each module says what its promise means.       *)

\* One row per application but for a race, and no dead one is answered as active
\* (WriteAppInfos, QueryActiveApps).
AppsTracked == P!AppsTracked

\* A receiver that runs finds its tables, with the TTL of their creator's configuration
\* (but for 0 days), and a prefix of the migrations applied (runInitScripts,
\* executeMultiStatements).
TablesReady == I!TablesReady

\* The series updated last are never dropped (UpdateMetric, GetMetrics).
RecentKept == M!RecentKept

\* Each value is counted in one bucket, whose range holds it (Update, MarshalTo).
CountedInRange == H!CountedInRange

\* A stored span is found, once, until its time is over (StoreTrace, checkExpire).
SpansKept == L!SpansKept

\* A signal is given to its agent, once (StoreSignal, GetAndCleanSignals).
SignalsGiven == G!SignalsGiven

\* An agent is offered every id its receiver knows, once (getTraceIds, Consume).
IdsOffered == S!IdsOffered

\* An agent is told to resume what it was told to stop, once (querySilentSwitches).
SwitchesPaired == Z!SwitchesPaired

\* A slow trace is counted once (addSignal, collectCountMetrics).
CountsReported == Z!CountsReported
=============================================================================
