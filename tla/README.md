# Verification of apo-receiver

TLA+ models of apo-receiver, the receiver of traces, metrics and profiles of APO: what its
goroutines, caches and peers do to each other, checked with TLC on small instances and, where
the models allow it, proved with TLAPS for every size. The models are translated from the Go
code under `src/`; each definition's lines are listed in `PROJECT.json` ("map").

## The system

Agents send spans, OnOff metrics and events over gRPC to one of several receivers. A receiver
keeps them in a cache (in memory, or a Redis shared by all receivers), decides when a trace is
complete enough, analyses it with the help of a trace backend (APM adapter) and writes traces,
relations and reports to ClickHouse. Beside this pipeline it serves agents with sampled trace
ids, a sample rate, slow thresholds and files, and exports metrics.

| component | state | operations | interacts with | what is hard | what makes it correct |
|---|---|---|---|---|---|
| trace triggering (`pkg/analyzer/analyzer.go`: CacheTrace, checkTask) | `waitMap`, `checkMissMap` per receiver; a flag per trace in the cache | CacheTrace (one gRPC call each), the two `Range` loops once a second | cache, other receivers through Redis, report stream | check-then-act on the flag, map entries overwritten while visited, several receivers | a trace is notified, not too early, not too often, and not forgotten |
| task pool (same file: Consume, taskPool, checkTask, processTask) | `todoTasks`, `retryTasks`, channels, `taskIndex` | addTask, getToProcessTasks, sends, processTask, retryTask | subscriber, dispatcher and worker goroutines; trace backend | shared slices, blocking sends, retries by time | every task ends once, justified, in order; retries wait and are bounded |
| report building (same file: build..., storeTrace; `report/`) | traces shared by tasks, relations in the cache | buildRelations, build{Slow,Error}Reports, storeTraces | trace backend, cache, ClickHouse buffers | two tasks of one trace on two workers, check-then-store | each trace and relation is stored once and not lost |
| local cache (`pkg/componment/redis/local_cache.go`) | expirable lists per trace, id queues, signals, relations | Store/Get..., Notify/Subscribe..., checkExpire | analyzer, profile caches | load-or-create, lock held while consuming, expiry | nothing stored or notified is lost before it expires |
| Redis cache (`redis_api.go`, `redis_client.go`) | lists, flag and sample keys, one stream with a consumer group, three channels | the same interface | all receivers | multi-command operations, crash before XACK, blocking subscription | the same, across receivers |
| sampler (`pkg/componment/trace/memory_sampler.go`) | the sample value, local and shared; memory history per node | GetSampleValue, CheckSampleValue | Redis keys with expiry | read-compute-write by several receivers | the value stays within its bounds and recovers |
| profile service (`pkg/componment/profile`) | sampled trace ids with an index, signals per node | Consume, QueryProfiles, addSignal, collectCountMetrics | agents' index windows | index taken before the id is stored | no sampled trace id is missed by an agent |
| slow thresholds (`pkg/componment/threshold`) | map from URL to threshold | storeAllSlowThreshold, UpdateThresholdConfig | cron task, HTTP handler, gRPC handler | copy, compute, install | a configured threshold survives a refresh |
| OnOff baselines (`pkg/componment/onoffmetric`) | yesterday's and last hour's maps | store..., GetMetricValue, CalcMutatedType | Prometheus, analyzer | replacement while read | the better baseline is used |
| ClickHouse writer (`pkg/clickhouse`) | one buffer per table | cache..., getToSend..., batchSendToServer | every producer | size read outside the lock, failed batches | every row is written at most once, in order |
| metrics registry (`pkg/metrics`) | LRU of label sets and their metrics | UpdateMetric, GetMetrics, BuildPromWriteRequest | every goroutine, scraper | double creation, eviction during collection | an exported series is one that is alive |
| ClickHouse tables (`pkg/clickhouse/init.go`, `sqlscript/`) | the tables of the database | create and migrate scripts at start-up | ClickHouse | statements that fail half way, restarts with another configuration | a started receiver finds every table |
| applications (`pkg/clickhouse/tables/originx_app_info.go`) | rows of originx_app_info | WriteAppInfos, QueryActiveApps, updates of the heart beat | agents, writers of all receivers | count-then-insert outside a transaction, updates applied later | an application has one row and the dead are not reported alive |
| agent monitor (`pkg/componment/agentmonitor`) | last two counters per agent | SendAgentMonitorMetric, doStatistic | agents, Prometheus, webhook | windows of different lengths, unsigned wrap | no event is counted twice |
| eBPF files (`pkg/componment/ebpffile`) | files on disk | GetFile | centre server | partial download | a served file is whole |
| report trees (`pkg/analyzer/report`), parsers of calls (`pkg/analyzer/external`) | none: values of one task | collectRelationship, collectErrorNodes, BuildExternals | ClickHouse rows | paths that must be unique, parsers tried in order | rows name their place, calls are described |
| intake (`pkg/receiver`), HTTP server (`pkg/httpserver`) | none of their own | StoreDataGroups, setSLOConfig | the components above | concurrent calls | part of `WriteBuffer`, `TraceTrigger` and `Thresholds` |
| list comparison, generated code, configuration | none | | | | |

`PROJECT.json` lists the components with their files and status, and under "hazards" every place
where this code can go wrong in a way that a test would hardly reach.

## Modules

| module | what it is |
|---|---|
| `TaskLife` | abstract: the life of a task, with no queue and no thread |
| `TaskPool` | the pool, the dispatcher and the workers of the analyzer |
| `TaskPoolProofs` | theorems about `TaskPool`, and that it implements `TaskLife` |
| `SequenceFacts` | lemmas about sequences: Append, Tail, concatenation, selection, flattening and where its elements come from, their ranges and injectivity; functions defined by recursion on numbers |
| `TraceTrigger` | when a trace is notified: CacheTrace on many receivers against their checkTask loops |
| `TraceTriggerProofs` | theorems about `TraceTrigger` |
| `ReportBuild` | what workers do to the state that tasks share: trace lists, IsSent, relations, reports |
| `Sampler` | the sample value that receivers raise, take over and lower |
| `SamplerProofs` | theorems about `Sampler` |
| `Delivery` | abstract: what notify and subscribe promise, whichever cache is used |
| `ReportQueue` | the slice of the local cache and the Redis stream, which implement `Delivery` |
| `TraceLists` | the spans and metrics of a trace in the caches, their creation and expiry |
| `SampledIds` | the windows by which agents learn of sampled trace ids, on several receivers |
| `Signals` | the signals kept for a node until its agent reports |
| `SilentSwitches` | urls an agent stops and resumes profiling, and the counts of slow traces |
| `Thresholds` | the refresh of the slow thresholds against their configuration |
| `OnOffBaseline` | yesterday's and the calmest hour's baselines, and the CPU type that is blamed |
| `WriteBuffer` | from the buffers to the batches and tables of ClickHouse |
| `ActiveApps` | the rows of an application and their updates |
| `ClickHouseInit` | creation and migration of the tables, with failures and restarts |
| `MetricCache` | the LRU of label sets with its evicted items, and the collection |
| `Histogram` | the two kinds of histogram and their export |
| `AgentMonitor` | reports of agents against the periodic statistic |
| `EbpfFile` | the download of a file by concurrent requests |
| `ReportTrees` | relationships and error rows made of a tree of services |
| `External` | which parser describes a call |
| `ReportBuildProofs` | theorems about `ReportBuild` |
| `Services` | composes `Thresholds`, `OnOffBaseline`, `AgentMonitor`, `EbpfFile`, `ReportTrees`, `External` |
| `Stores` | composes `TraceLists`, `SampledIds`, `Signals`, `SilentSwitches`, `ActiveApps`, `ClickHouseInit`, `MetricCache`, `Histogram` |
| `Flows` | composes `WriteBuffer` and `ReportQueue` |
| `ServicesProofs`, `StoresProofs`, `FlowsProofs` | theorems about these compositions, one section per component |
| `MCTaskPool`, `MCTraceTrigger`, `MCReportBuild`, `MCSampler`, `MCServices`, `MCStores`, `MCFlows` | the small instances TLC checks |
| `MCMinRespected` | `MCSampler` with receivers that are always in time |

`Services`, `Stores` and `Flows` are what `Run` and `startGrpcServer` (`pkg/receiver/receiver.go`) start: components that run beside
each other. Their initial state is that of all components, a step is a step of one of them that leaves the others alone; only the
kind of cache is shared, by the three caches of `Stores`. The composition fixes the constants and the assumptions on them, states what
each component promises, and is what the theorems are about.

### TaskPool

| model | code |
|---|---|
| `todoTasks`, `retryTasks` | the slices of `taskPool`; each action on them is one critical section of `taskLock` |
| `retryTimes[t]`, `checkTime[t]` | the fields of a `traceTask` |
| `pending` | the addTask calls the running `Consume` has still to make (slow, then error) |
| `phase`, `fetchTime`, `tasks`, `taskIndex` | where `checkTask` stands, and its local variables |
| `running[w]` | the task worker `w` has received from its unbuffered channel |
| `Consume`, `AddTask` | the subscriber goroutine: Consume decides, addTask adds one task at a time |
| `Tick`, `GetToProcessTasks`, `Send`, `EndSend` | one round of `checkTask`; `Send` waits until the worker is idle |
| `Report`, `RetryTask`, `DropExhausted`, `DropFatal` | the outcomes of `processTask` |
| `outcome`, `attempts`, `failedAt`, `arrivals` | history only: no guard reads them |

A task is a trace object and a report type. A trace that is notified twice makes two `Traces`
objects in the code and is two members of `Traces` here. What `buildReport` computes is abstracted
to success, a failure worth a retry and a final failure; a normal report has no final failure.
Times are whole seconds, as in the code (`Unix()`), and the clock does not go back.
`newTaskPool` turns a period of 0 into 5, so `CheckPeriod` is positive.

### TraceTrigger

One action for each access of `CacheTrace` and of the `Range` callbacks to state that others
share, so that every interleaving of concurrent calls and of the loops of several receivers is
covered: `Collect` (StoreTrace), `MarkTop`, `StoreWait`, `StoreMiss`, `ReadFlag`, `Race`; `Tick`,
`RangeWaitMap`, `VisitWait`, `NotifyReportTraceId`, `DeleteWait`, `RangeCheckMissMap`, `VisitMiss`,
`Compare`, `Promote`, `DeleteMiss`, `EndRange`. The time between `Tick` and `RangeWaitMap` stands
for the sends of `TaskPool`. `flag` is what GetTraceTime returns: `Unset` (0), `Top` (-1) or the
span whose time stamp was recorded; Redis keeps the first value (SETNX), the local cache the last.
A span stands for the nanosecond time stamp its call takes, so stamps are distinct. With a
local cache only one receiver runs.

Left out: the expiry of the flag in Redis (its default is many times the wait), Redis errors, and
the restart of a receiver.

### ReportBuild

The inside of `processTask`, which `TaskPool` takes as one step. `Begin` of a task here is `Send` there;
when tasks are handed out, and in which order, is left open, so every schedule of the pool is covered.

| model | code |
|---|---|
| `cached[t]`, `relation` | the trace lists and the relation keys in the cache |
| `list[t]`, `hasRoot[t]` | `Traces` and `RootTrace` of the `model.Traces` object that the tasks of `t` share |
| `Object`, `sent` | a `model.Trace` in memory, and its `IsSent`; with Redis each load makes new objects, a local cache hands out its own |
| `job[k]` | where the worker of task `k` stands, and its local variables |
| `Arrive`, `Consume` | StoreTrace; Consume |
| `Begin`, `Load`, `ReadList`, `AddTrace` | the check for late spans and `mergeTraces`; an append is a read and a write |
| `StartRelations`, `LookUpNode`, `Claim`, `StoreRelation` | `buildRelations`: root key, backend, then each node's key is looked up, put into the cache, and the relation stored |
| `CheckSent`, `MarkSent`, `Save` | `storeTrace`: `IsSent` is tested, set, and the span stored |
| `BuildSingle`, `BuildMulti`, `Entry`, `Write` | `build{Single,Multi}{Slow,Error}Report(s)` and `generate...Report` |
| `Fail` | `retryTask`, or `recordDropReport` |
| `stored`, `related`, `reports`, `drops`, `consumed`, `due` | history only: no guard reads them but for the bound `MaxEntries` and that a trace is consumed once |

The answer of the trace backend and whether a report comes out of it are chosen freely among the outcomes
the code has a branch for; a query is one step with the look-up before it, as it touches nothing shared.
Between the mark of a span and its row, and between a relation in the cache and its row, other workers run: one of them may write its report, or end its normal trace,
before the row it relies on is there. `RowsHaveTraces` and `NormalSampled` allow that for the very span and relation that a worker is about to write (`BeingWritten`, `BeingRecorded`), and for nothing else; TLC finds either violated
without that allowance. A worker that has marked a span always comes to write it, but for the end of the process.
The number of reports of a trace without root is bounded by `MaxEntries`. The key of the root's look-up
is that of a node that is not a top node, whatever the topology says, as in the code.
Left out: expiry of cached traces and relations, OnOff metrics, and the panic of `generateErrorReport` on a trace without
root when the backend needs details fetched.

### Sampler

| model | code |
|---|---|
| `value`, `valueTtl` | the Redis key of the sample value, or `sampleValue` of the local cache; a missing key reads as 0, as in `getInt` |
| `timeTtl`, `lockTtl` | the keys that mark the last write and the lock, which is never released but expires |
| `SampleValue[r]`, `SampleCount[n]` | `sampler.SampleValue` of a receiver; the count of fast growths of a node |
| `pc`, `sampleValue`, `sampleChanged` | where the receiver's `CheckSampleValue` stands, and its local variables |
| `Start`, `InitTime`, `Stop` | `NewMemorySampler`; the end of the process |
| `CheckSampleValue` | the read, and one of `TakeOver`, `KeepMax`, `CheckNodes` |
| `RaiseValue`, `RaiseTime`, `Lock`, `Has`, `LowerValue`, `LowerTime`, `Reset` | the commands that follow, one step each |
| `SetValue`, `SetTime`, `Fails` | the two SETs of `SetSampleValue`; any command of Redis may fail, with or without effect, as far as the code looks at it |
| `calm` | from now on no node is short of memory, no receiver starts or stops and no command fails |
| `rest`, `lost`, `torn`, `outlived` | history only: no guard reads them |

A tick is a second, and may come at any step of any receiver: a command takes as long as it likes (the client's timeouts and retries are longer than the 2 s of the lock), and the time between two checks is left open, since a Go
ticker fires at once after a check that was late. So the lock may run out while its holder is still at work, and the next receiver comes in. `lost`, `torn` and `outlived` remember the three things that go wrong for good: a value read in vain, which is 0;
a mark that was not written after the value fell (the process ended, the SET failed and was logged) or was asked for in vain (EXISTS failed); and a lock that ran out under its holder, until nobody who was within the lock then, or came in since, is there any more.
`InBounds` and `LoweredOncePerPeriod` name them and show that there is no other way.
Of the memory readings of a node the model keeps what `SetNewSampleValue` makes of them: no excess, an excess, an excess with fast growth.
`CheckCount` is never counted up in the code and is left out.
`MCMinRespected` restricts the same actions to receivers that check every two seconds in no time, with no failing command, to show that the minimum is not respected even then.

### Caches and queues: ReportQueue, TraceLists, SampledIds, Signals, SilentSwitches

A variable `local` chooses between the memory of the only receiver and the Redis that all receivers share; the actions of
the one are disabled in the other.

| model | code |
|---|---|
| `ReportQueue`: `See`, `Lock`, `Consume`, `Unlock` | one round of the local SubscribeReportTraceId: it looks before it locks, and empties after consuming |
| `Read`, `Consume`, `Ack`, `ReadFails`; `Start`, `Crash` | XREADGROUP, the callback, XACK; a process, whose consumer is a new one |
| `TraceLists`: `Load`, `Put`, `Add` | StoreTrace and StoreMetric in memory: find or make the list, put it into the map, append |
| `Check`, `Delete`; `RPush`, `Expire`, `ExpireFails` | checkExpire, which deletes by key what it found expired; the two commands of Redis |
| `SampledIds`: `QueryProfiles`, `GetTraceIndex`, `Answer` | a report: its ids are published, the index is read, the window is answered |
| `IncrTraceIndex`, `Store`, `CleanExpireTraceId` | Consume of an id by each receiver: index, then map; and the expiry |
| `Signals`: `Load`, `StoreList`, `AddSignal`; `StoreSignal` | StoreSignal in memory: look for the list, put a new one into the map, whatever is there by now, and add with the list locked; StoreSignal in Redis |
| `TakeLocked`; `GetListSize`, `GetList`, `LTrim` | GetAndCleanSignals, in memory and as LLEN, LRANGE, LTRIM |
| `SilentSwitches`: `AddSignal`, `AddTotal`, `AddSuccess` | addSignal, one trace of a node at a time |
| `QuerySilentSwitches`, `Visit`, `CheckStatus`, `AnswerSwitches` | the answer to a report, which visits the tuples without that lock |
| `CollectMetrics`, `ReadCounts`, `DeleteMetric`, `EndCollection` | the minute's collection: counters are read, stored, and deleted in a later step |

The subscription to several Redis channels (`redis_api.go:160`) never leaves the first one, so `Subscribed` says that with Redis no abnormal
id is received, as in the code. Agents report one report at a time.

### Services: Thresholds, OnOffBaseline, AgentMonitor, EbpfFile

`Thresholds` splits `storeAllSlowThreshold` where it reads the map (`ListLastHour`), asks for the configuration of each entry
(`StoreYesterday`, `StoreLastHour`) and installs its copy (`Install`), and setSLOConfig into its two writes (`AddOrUpdateSLOTarget`, `UpdateThresholdConfig`). `OnOffBaseline` has
the three steps of the hourly task (`StoreYesterdayMetrics`, `CleanLastHourMetrics`, `StoreLastHourMetrics`) and days that begin anywhere (`Midnight`): the task learns of a new day at its next tick (`CheckTask`), and of one that
began while Start was at work not at all, because checkTask reads its first day later (`Watch`). The histories `hours` and `fresh` follow the days, not the maps. From midnight until the task has replaced both maps (`behind`) requests are
still compared with the day before; `BlamedAgainstCalmest` says with which hours of it (`former`), and that afterwards no baseline is of another day. `GetMetricValue` and `CalcMutatedType`
are operators, evaluated in every state for all latencies. `AgentMonitor` splits a report into `Load` and `Store` and the statistic into a
visit and a store per agent (`Visit`, `Tally`), with differences modulo `Width`. `EbpfFile` has the file on disk absent, cut or
whole; `Truncate` and `Write` are the two halves of os.WriteFile.

### Tables and metrics: WriteBuffer, ActiveApps, ClickHouseInit, MetricCache, Histogram

`WriteBuffer` follows `batchSendToServer` through its `Plan`, the tables in the order they are written, some from one batch:
`ReadLength` outside the lock, `GetToSend` inside, then `Commit` or `WriteFails` for each table; a write that goes on may still miss rows (`Missing`): those of a relation but the last, whose error alone is looked at, and the durations after the first that cannot be recorded. What a table gets of a batch is an operator named for its
writer (`WriteServiceClients`, ...). `ActiveApps` has a count and insert per application in a transaction that the count is
not part of (`InsertNew`, `CommitApps`), and updates that ClickHouse applies later and in order (`ApplyMutation`). `ClickHouseInit` runs one statement at a
time, of several receivers in any order, each with a configuration of its own; statements are [op, table] with what matters of their text: retention, hash, and whether a failure is passed over. A table has the retention that its creator was configured with, whatever the others say. `MetricCache` has the unlocked look-up
(`LookUp`, `Register`), the update that touches or revives a label set, and the collection that drops what was evicted before. `Histogram` places values at the bounds of
the buckets, between them, and beyond both ends.

### Values: ReportTrees, External

Pure functions of a task, checked for every input of the instance: one action computes the rows of a tree, or the description of a span.
`ReportTrees` has a node's children in the order of its list, and says per node, as the code's recursion does, what is collected for it and all below (`Relationships[n]`, `ErrorNodes[n]`). A service is listed exactly when the call
to it is described and its parent is listed: said of each service, that is the whole chain from the root.

### What these models assume

An agent has one outstanding report; a refresh is over before the next begins; calls of drivers, backends and `Consume` return.
Concurrent access to a Go map without a lock, which the runtime may end with a fatal error, is left out: such accesses are atomic.
Redis, ClickHouse, Prometheus, the LRU library and the agents are external and modelled by what the code uses of them.
The type invariants of the components in `Services`, `Stores` and `Flows`, of `ReportBuild` and of `Sampler` are not in the runs, which spend their time
on the properties that say more; the theorems of these modules rest on a proved type invariant of their own.

## Runs

| run | instance | shows |
|---|---|---|
| `task_pool` | one ordinary trace, one of apmType "cw", 2 workers, 1 retry, period 1 s, 2 s | all properties of `TaskPool` and that it implements `TaskLife` |
| `trace_trigger` | 2 receivers, 3 spans of one trace (1 top, 1 of a slow apmType), both caches | the safety properties of `TraceTrigger` |
| `trace_trigger_live` | the same, all spans in one second | every collected trace is in the end notified |
| `top_marked` | Redis only | **violated**: the flag of a trace with a collected top span need not be -1 |
| `nothing_forgotten` | Redis only | **violated**: a trace without top span can be forgotten |
| `report_build` | a slow and erroneous trace with a late profiled root, a normal trace (apmType "cw") of the same entry, 2 workers, 1 retry; local cache, and Redis with miss-top | the safety properties of `ReportBuild` |
| `late_spans_merged` | one trace, two late spans, Redis | **violated**: a retry may lose a late span |
| `sampler` | 2 receivers, one with a node, values 1 to 3, a period of 1 s, 2 fast growths raise; local cache, and Redis with failing commands | all properties of `Sampler` |
| `min_respected` | Redis only, no failing command, checks in time, a period of 3 s | **violated**: a missing key makes the value fall below the minimum |
| `services` | see below | thresholds, baselines, statistics, files, trees and descriptions are right under their races and failures |
| `stores` | see below | tables, series, histograms, lists, ids, signals and switches keep what they promise |
| `flows` | see below | rows and notifications are neither lost nor doubled, and arrive |

The last three runs check the compositions. In `services` and `stores` a behaviour exercises the component that `on` names, and the others rest in an initial
state, so the state space is the sum of theirs, not their product. Nothing is lost: the components share no variable but the kind of cache,
which no step changes, so a behaviour of the composition is for each component one of its own with stutters
(`LocalStays` and `StepOfEach` in `StoresProofs` prove it), and a property speaks of one component only.

| run | component | instance | property: what it says |
|---|---|---|---|
| `services` | `Thresholds` | 2 urls, 2 handlers, 2 configurations | `ConfigurationHonoured`, `KeptForTheDay`: a configured threshold is lost in no way but the two named, and a day's threshold stays |
| | `AgentMonitor` | 1 agent, totals up to 3, differences modulo 16 | `CountedOnce`: no event of an agent that was not restarted is in two sums |
| | `OnOffBaseline` | 2 services, one of them unknown, 3 CPU types, latencies up to 2, 5 query results | `BlamedAgainstCalmest`: the type blamed exceeds the right baseline most, and the baseline is of this day once the task has noticed it |
| | `EbpfFile` | 3 requests | `WholeUnlessWriting`: a cut file is served only while it is written or after a failure |
| | `ReportTrees` | all trees of up to 3 services with up to 2 calls each | `TreesPlaced`: rows have paths of their own below their parents' |
| | `External` | all combinations of the attributes the parsers look at | `CallsDescribed`: exactly the calls are described, and as what they are |
| `stores` | `ActiveApps` | 1 application, 2 receivers, 2 rows, 2 updates under way | `AppsTracked`: a second row only by a race, a dead application not alive |
| | `ClickHouseInit` | 2 receivers, 3 tables, 4 migrations, 4 configurations (2 in a cluster), 3 starts | `TablesReady`: a started receiver has all tables, the retention their creator configured, and a prefix of the migrations |
| | `MetricCache` | 3 label sets, an LRU of 2, 2 callers, 5 updates | `RecentKept`: no series without a label set, the recent ones are kept |
| | `Histogram` | 2 histograms of 2 buckets, 2 updates | `CountedInRange`: each value counts once, in its range |
| | `TraceLists` | 2 callers, 3 items, 4 s, expiry after 1 s | `SpansKept`: an item is found until its time is over, unless its list was replaced |
| | `Signals` | 4 signals | `SignalsGiven`: each is given once, but in the cases named; in memory several workers may find no list |
| | `SampledIds` | 2 ids (one abnormal), 1 agent, 2 receivers, 3 reports | `IdsOffered`: an id is offered once its index is in a window, and once |
| | `SilentSwitches` | 2 tuples of one url, 3 slow traces, 1 collection | `SwitchesPaired`, `CountsReported`: stops and resumptions match, each trace counts once |
| `flows` | `WriteBuffer` | 3 kinds of rows, 2 rows, 3 shapes, all tables | `RowsConserved`, `Flushed`: order and number of rows, and that they are written or lost in the end |
| | `ReportQueue` | 2 receivers, 3 notifications, 2 disruptions | `DeliveredOnce`: it implements `Delivery`, liveness included |

Bounds. Two traces give up to four tasks of all three report types: enough for two tasks of one
trace on two workers, a full batch behind a busy worker and a retry that meets new tasks. One retry is
enough to exhaust a task, and 2 s for two periods: for a fetch that began before a failure, and for
a task that fails again when it is retried. In `TraceTrigger` 4 s are enough for miss-top (1 s), promotion, delay (1 or 2 s) and
notification; spans arrive in the first two seconds, and a call takes at most one second. Two
receivers and two spans without top give both kinds of races: on one receiver and between them.
Three spans of one trace suffice for safety because traces meet only in the iteration over a map.

In `ReportBuild` two tasks of one trace and a third of another on two workers give every pair of workers that
share a list, or only a relation key. One retry is enough to merge while the other task stores; the
late span is the root, so a task may change from many entries to one between attempts. Of the four pairs of
cache and miss-top setting the run takes two, which between them have both values of each.
In `Sampler` one receiver raises, the other takes over, and both lower: a value can be raised twice and lowered twice. The period is shorter than
the lock's 2 s and the key lives for two periods, so that marks, locks and the value run out under every step. Raises by two receivers at once are covered by the theorems.
In the last three runs two actors give every race the code has, since each is between two of them (a look-up and an insert, a copy
and a write, a read and a trim); `EbpfFile` has a third request to see the file the other two leave. Two services beside
the root give siblings and a chain. Three label sets are one more than the LRU holds, and five updates evict, revive and evict again.
One collection and three traces suffice to add to a tuple before, during and after its collection. Three starts are two receivers at once, and one of them again after a failure; two configurations differ in all that a script takes from them. Row kinds
were chosen for the three ways a batch is used: JSON that may not parse, rows that may be dropped, and one batch for several tables.
The safety runs of `TraceTrigger` use that receivers are interchangeable (symmetry); the liveness run does not.

Fairness. Every goroutine of the pool keeps running, a call of the trace backend returns (its
client has a timeout), and the Go runtime schedules every goroutine: hence weak fairness of the
subscriber's addTask, of each step of the dispatcher and of each worker, and of time. Nothing makes a trace or
a span arrive. The same holds for the calls and loops of `TraceTrigger`
and for the checks of `Sampler`, whose Redis commands have a timeout, though none that safety relies on; `Recovers` assumes peace, in which commands work, and nothing makes it come.
`Flushed` assumes that the goroutine of the buffers goes on, whether its writes succeed or fail (`BatchSendToServer`); `DeliveredOnce` that a
subscriber goes on while its process lives and that a stopped receiver is started again, as an orchestrator does; crashes are bounded by `MaxDisruptions`.

Findings.

1. `top_marked`. The comment at `pkg/analyzer/analyzer.go:149` says "When top is collected by one
   collector, mark the flag to -1." With Redis the flag is set with SETNX
   (`pkg/componment/redis/redis_client.go:111-114`). If a span without top was handled first, the
   flag holds its time stamp and the -1 is dropped; the receiver of that span then promotes the trace
   and it is notified and analysed twice. `NotifyBound` says how often at most.
2. `nothing_forgotten`. The comment at `pkg/analyzer/analyzer.go:160` says "If the top is not
   collected, all collectors will raced for the trace." When one receiver gets two spans without top, the
   second replaces the time stamp in its `checkMissMap`, while Redis keeps the first: at the comparison at
   line 706 nobody has won, and the trace is never analysed. With a local cache the same happens if two
   calls interleave. `ForgottenOnlyIfCrowded` and `EveryTraceNotified` show that this is the only way.
3. `late_spans_merged`. "Check whether there will be new Trace/OnOffMetric." says the comment at line 266. The slow and
   the error task of a trace fail together and are retried together, on two workers, and both append to the list of the object they
   share without a lock. One append may overwrite the other: a span that was in the cache is then missing from the list.
4. `min_respected`. "Set Min SampleRate - 1 / (2^N)" says `receiver-config.yml:83`. When the last receiver has stopped, a new one
   finds its key and leaves its expiry alone. If the key expires before the first check, `getInt` returns 0, the receiver takes 0 over, gives it to its agents
   and writes it back (`memory_sampler.go:69`, 105). The default minimum of 0 hides this. `InBounds` says that this and a failing GET, which `getInt` turns into 0 too, are the only ways out of the bounds.

Smaller things met while modelling, with no run of their own:

- A value of exactly 1e-9 or 1e18 is counted in the bucket that starts there, though the comment at `pkg/metrics/vm/vm_histogram.go:157` says
  that the lower bound is not included; `CountedInRange` names the exception.
- "0 means no ttl" say the comment at `pkg/config/config.go:76` and `receiver-config.yml:42`; the templates write the TTL clause whatever the value, so that with 0 days each row is due at once. `TablesReady` therefore speaks of positive days only;
  the model writes the clause as the code does, and the instance has a configuration with 0 days.
- `pkg/clickhouse/tables/report_metric.go:48` writes the entry service into the column of the entry url.
- A profiling event without labels makes the goroutine of the buffers stop with a nil dereference (`pkg/clickhouse/tables/profiling_event.go:89`); `WriteBuffer` leaves it out.

## Proofs

`TaskPoolProofs` holds for any finite or infinite set of traces, any positive number of workers, any retry
bound, period and time bound; `TraceTriggerProofs` for any finite sets of receivers and spans, any traces, either cache and any
delays and bounds; `SamplerProofs` for any finite set of receivers, any nodes, periods and bounds of the value; `ReportBuildProofs` for any finite set of traces, any spans, nodes,
workers and retries; `ServicesProofs`, `FlowsProofs` and `StoresProofs` for any sets of keys, agents, callers and receivers, any times to live and sizes, and any scripts, rows and
results of queries. What they assume of the constants is named, and the runs evaluate it:

| assumption | why the code justifies it |
|---|---|
| `TaskPoolAssumption`, `TraceTriggerAssumption`, `SamplerAssumption`, `ReportBuildAssumption` | the constants have their types, the markers are no values, there is a receiver, the minimum is below the maximum |
| `ServicesAssumption` | the totals of an agent stay below the width of their differences, 2^64 |
| `TypesAssumption`, `SizesAssumption`, `SentAssumption`, `HomeAssumption` | bounds are numbers, every agent reports to a receiver |
| `ResultsAssumption` | a query returns vectors of the types the code asks for, and a content always has a key without a service |
| `ShapesAssumption` | a row parses or not, and has some relationships and calls |
| `TreesAssumption` | the nodes of a tree are numbered as they are made, parents before children, and each is once in the list of its parent's children (`AddChild`) |
| `BoundsAssumption` | the bounds of a Prometheus histogram ascend, which `client_golang` insists on, and the last may be +Inf |
| `ScriptsAssumption` | scripts are lists of statements; `migrate.tmpl.sql` creates no table (only the distributed tables over them) and repeats no statement |

One theorem has hypotheses of its own: `NothingForgottenUncrowded` needs `MissTopTime > 0` and `CallTime <= MissTopTime`. With a miss-top time of 0 the code does not wait for a top
span at all (`analyzer.go:147`), and a trace without one is dropped on purpose; with a call that takes longer than the miss-top time, a loop compares before the race is decided. `receiver-config.yml` has 30 s, and
a call of CacheTrace is a few Redis commands. Without either, TLC finds a forgotten trace.

| theorem | says |
|---|---|
| `TaskPoolProofs!TypeCorrect` | `Spec => []TypeOK` |
| `TasksConserved` | `Spec => []TaskConserved` |
| `DropsJustified` | `Spec => []DropOnlyExhausted` |
| `FirstAttemptsInOrder` | `Spec => []FirstAttemptFIFO` |
| `RetriesWait` | `Spec => RetryAfterPeriod` |
| `FetchTakesAllDue` | `Spec => NoDueTaskLeft` |
| `PoolImplementsLife` | `Spec => ImplementsLife`, step refinement |
| `TraceTriggerProofs!TypeCorrect` | `Spec => []TypeOK` |
| `WaitIsRespected` | `Spec => WaitRespected` |
| `NotificationsBounded` | `Spec => []NotifyBound` |
| `NothingForgottenUncrowded` | `Spec => []ForgottenOnlyIfCrowded`, under the two hypotheses above |
| `SamplerProofs!TypeCorrect` | `Spec => []TypeOK` |
| `BoundsKept` | `Spec => []InBounds` |
| `LoweredOnce` | `Spec => LoweredOncePerPeriod` |
| `ReportBuildProofs!TypeCorrect` | `Spec => []TypeOK`, with which local variables are set at which step |
| `StoredOnceTheorem`, `RelationBoundTheorem`, `RowsHaveTracesTheorem`, `OneVerdictTheorem`, `NormalSampledTheorem` | `Spec => []StoredOnce` and so on: the five safety properties of `report_build` |
| `ServicesProofs`: `ConfigurationHonouredTheorem`, `KeptForTheDayTheorem`, `CountedOnceTheorem`, `WholeUnlessWritingTheorem`, `BlamedAgainstCalmestTheorem`, `TreesPlacedTheorem`, `CallsDescribedTheorem` | `Spec => []CountedOnce` and so on: all properties of `services` |
| `FlowsProofs`: `RowsConservedTheorem` | `Spec => []RowsConserved` |
| `DeliverySafetyTheorem` | `Spec => DeliverySafety`: initial states and steps of `ReportQueue` are those of `Delivery`, or stutter |
| `StoresProofs`: `AppsTrackedTheorem`, `TablesReadyTheorem`, `RecentKeptTheorem`, `CountedInRangeTheorem`, `SpansKeptTheorem`, `SignalsGivenTheorem`, `IdsOfferedTheorem`, `SwitchesPairedTheorem`, `CountsReportedTheorem` | all safety properties of `stores` |

The argument for the pool. `TaskConserved` is not inductive by itself: a task could be consumed again, or a
batch overwritten. `ConservedInv` adds that traces not yet consumed have absent tasks and that the
dispatcher fetches only when its batch is sent. `AttemptsMatch` relates the history `attempts` to
the field `retryTimes`: a task in a queue was handed out `retryTimes` times, a running one once more. `Schedule` says
that new tasks have no attempts, that `retryTasks` is sorted by `checkTime` and bounded by `now + CheckPeriod`, and that a
`checkTime` lies a period after the failure; sortedness is what makes the prefix scan of
`getToProcessTasks` complete. `IInv` is the conjunction, preserved by every action. First attempts need one more invariant,
`ArrivalOrder`: the tasks not handed out yet are the tail of the arrivals, first those at the head of the batch, then
`todoTasks`; the retried tasks of a batch follow the new ones. The refinement maps a task's state to "queued", "running" or
its outcome; `LifeStep` shows each action to be a step of `TaskLife` or a stutter.

The argument for the trigger. Not even `TypeOK` is inductive alone: that a loop finds an entry where it loads one needs
`LoopInv` (a `Range` only has keys to visit that are there, because only the receiver's own loop deletes), and that a promoted stamp is
a span needs `MapInv`. `MapInv` also says that each entry of the two maps stems from a collected span and expires no earlier than
that span allows, `LoopInv` that the visited entry is due at `checkTime`, which lies in the past; together they give `WaitRespected`.
`NotifyBound` counts: the notifications made, the entries of `waitMap` still to notify (`Waiting`) and the chance of the winner to be
promoted (`MayBePromoted`) never exceed the top spans that have stored their entry (`TopDone`) plus the winner. `OwnerInv` makes
this inductive: the flag is the stamp of a finished call, stamps stay with the receiver of their span, so a winner is promoted by one loop and once.

That nothing is forgotten is a pursuit: whatever is done to a trace, somebody still has to notify it. `CallerInv` says who, for each call by where it stands: a top span that has
returned has its receiver on the way to notify (`OnItsWay`); a span without top has left a flag, and the receiver of the span that *is* the flag keeps an entry that it will compare
(`Kept`). `FlagInv` says what a flag can be; `VisitInv` that a loop deletes only what it has notified, and compares only entries whose call has returned, which is where `TimeInv` and the two
hypotheses come in. When all is settled, nobody is left to pursue, so somebody has notified.

The argument for the sampler. `BoundsInv` adds to `InBounds` that a value on its way to the cache is allowed too, unless one was read in vain. For
`LoweredOncePerPeriod`, `LockInv` says that one receiver at a time is between lock and mark as long as no lock ran out under its holder: until then the lock has a second left wherever its holder stands. `RestInv` says that the mark then covers
the rest of the period, but between the two writes, and unless the mark was not written or asked for in vain. No bound on the time of a command is assumed.

The argument for `ReportBuild`. Its state is mostly the local variables of the tasks, so `JobInv` first says which are set at which step; a lemma per action says what it makes of them, in a few shapes
(`Walks`, `Starts`, `Stores`, `Reads`, `Joins`) that the invariants are then proved against, instead of against 20 actions each. `RelationBound` counts the workers that claim a node
(`WorkInv`: those that claim and those that have written are at most as many as ran). `OneVerdict` says for each stage which reports have been made (`VerdictOf`). `StoredOnce` needs that each
object is on one list, one merge or one queue of stores. `RowsHaveTraces` and `NormalSampled` need that what is marked or cached has its row or a worker whose next step writes it, which the steps of the others leave alone.

The arguments for `Services`. `CountedOnce`: what is left to count of an entry starts where the sums end, for the entry that is stored (`EntryOk`), for the report that is to replace it (`ReportOk`) and for the entry the statistic
visits (`VisitOk`), each against the others. `ConfigurationHonoured`: the result that a refresh prepares honours the configurations too (`RefreshInv`), and during a day starts from the map (`CopyInv`). `BlamedAgainstCalmest`: the hour kept for a
key is the calmest of those stored since the maps were replaced, which are today's unless the task is behind, and a clean always follows yesterday's new map (`BaselineInv`), and a loop over the types keeps the worst of those it has seen (`BestOf`, by the least type at which it would not).

The arguments for `Flows`. What was accepted by a buffer is always in three pieces, the rows dealt with, the batch under way, the buffer (`Pieces`); what a table has is what its writer makes of the rows dealt with, without those of
failed writes, which distributes over concatenation (`SequenceFacts`). For the refinement, `LocalInv` and `RedisInv` say where a notification is when it is not consumed: in the list, behind the group's position, or with one
receiver alone; `HowFar` is then the state of `Delivery`, and each action changes it for the notifications it touches, and only forward.

The arguments for `Stores`. `SwitchesPaired`: a tuple that is silent was announced, or is in the answer under way if the query has seen it (`Announced`, `AnswerOk`). `CountsReported`: each loop holds a metric of the tuple it works for (`OwnerInv`).
`SignalsGiven`: what will be trimmed was read, what was read will be trimmed (`Trimmable`). `TablesReady`: the statements a receiver has run so far have left what they create, which no statement of another takes away but a dropped distributed table. `IdsOffered`: an id is offered only when the agent's window has passed its index (`OfferedPassed`), and an id on its way to the map is not in it yet (`ConsumerOk`).
`AppsTracked`: an application has one row, or one writer between count and insert. `RecentKept`: the LRU is a suffix of the order of use, moved on by every use. `SpansKept`: an item that is stored is in its list or key, which lives as long as the item has to
(`ItemOk`), unless the list or key lost a race; a call that found a list has it still in the map, or it lost a race (`CallOk`).

`CountedInRange`: a value goes to one counter, whose range holds it (`SlotFacts`), and each counter holds as many as were seen of its values (`CountersCount`); the sum of a visit then counts the values of the counters visited so far, counter by counter.

The argument for `TreesPlaced` is about trees, not about steps: both lists are collected once and stay. Relationships and error nodes are two instances of one scheme (`Family`): a node adds its own rows, then
those of its children, each moved below the child's place. That the recursion has a solution is shown from the last node up (`RowsExist`), because children have greater numbers; that the code's rows are such a solution, with rows of the
right kind, follows the same way (`TypedDown`). `Placed` then says what the rows of a node and all below it are like: the node itself first, paths and nodes apart, each row after that of its parent, a node below only if its parent is listed
and, if it adds rows, whenever its parent is. `GrownPlaced` shows that it holds for a node when it does for the nodes after it. The two ways of numbering, children from 0 and calls that leave the trace after them, meet in `PathsApart`; that no node is
below two children of another is `SubtreesApart`.

What recursive and folded definitions compute is proved, where it is, from the equations of a recursive function and by the least counterexample (`NaturalsInduction`'s theorems take an operator and cannot be used here); lists are compared element by element.

Model-checked only, and why:

- Liveness (`EveryTaskEnds`, `EveryTraceNotified`, `Recovers`, `Flushed`, and the liveness part of `DeliveredOnce`, that no notification waits for ever): out of the prover's reach.

## Plan

Every component with behaviour of its own has a model, and every safety property of the runs a theorem. What is left:

1. The type invariants that the component modules state, as theorems of the compositions; action properties of the components: what an expired list, a dropped batch or an evicted label set may never do.

## Not modelled

- List comparison (`pkg/compare`), which only its own tests call; generated protobuf code; configuration structures, connection strings and start-up order.
- The values of columns, QueryTraces and the reading back of mutated types: queries with no state of the receiver.
- Filling labels from Kubernetes metadata, the topology and the blamed node that the APM library computes, the SQL parser: external libraries.
- Counters, gauges and the remote writers of the metrics registry: one atomic write, one HTTP call.
- Expiry of cached relations and of the flag of a trace, whose times to live are many times the wait; the arithmetic of `SetNewSampleValue`.
- Late metrics of a span that is already in the list, and the panic of a report on a trace without root span when details must be fetched (see "hazards").
