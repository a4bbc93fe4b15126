---------------------------- MODULE ReportBuild ----------------------------
(***************************************************************************)
(* What a worker does to the state that tasks share while it processes a   *)
(* task: processTask and the build... functions of                         *)
(* pkg/analyzer/analyzer.go.  (When tasks are handed out is in TaskPool.)  *)
(*                                                                         *)
(* The slow and the error task of a trace share one model.Traces object    *)
(* and may run at the same time on two workers.  Both merge late spans     *)
(* into its list, store its spans (unless marked as sent), look up and     *)
(* store relations in the cache, and write reports.                        *)
(*                                                                         *)
(* What the trace backend answers, and whether a report can be built from  *)
(* it, is any of the outcomes the code has a branch for.  Left out: that   *)
(* cached traces and relations expire, and the panic of FillMutatedSpan on *)
(* a trace without root (get_detail_types).                                *)
(***************************************************************************)
EXTENDS Naturals, FiniteSets, SequencesExt, Functions

CONSTANTS
    Traces,        \* the model.Traces objects, one per notified trace id
    CwTraces,      \* those whose apmType is "cw": their tasks ignore retry
    Span,          \* the spans (model.Trace) agents send
    TraceOf,       \* the trace of each span
    TopSpan, SlowSpan, ErrorSpan,  \* spans that are the root, slow, erroneous
    ProfiledSpan,  \* those that are profiled: stored on sight
    Place,         \* service, url and period: what a relation key is made of
    RootPlace,     \* the place of each trace's root span
    Answers,       \* the sets of root nodes the backend may answer with
    Modes,         \* the pairs of global.CACHE.IsLocal() and missTopTime > 0 to consider
    ThreadCount,   \* workers, of all receivers
    RetryTimes,    \* cfg.RetryTimes
    MaxEntries     \* bound: entry nodes of a trace without root

ReportType == {"slow", "error", "normal"}
Task == Traces \X ReportType

\* A topology node, and the relation key made of it (getRelationKey).
Node == [place : Place, top : BOOLEAN]

\* A model.Trace object in memory: which span, and who made it from the cache.
\* (A local cache hands out the same object to everyone.)
Object == [span : Span, by : ReportType \cup {"consume"}]

ASSUME ReportBuildAssumption ==
    /\ CwTraces \subseteq Traces
    /\ TraceOf \in [Span -> Traces]
    /\ TopSpan \subseteq Span /\ SlowSpan \subseteq Span /\ ErrorSpan \subseteq Span
    /\ ProfiledSpan \subseteq Span
    /\ RootPlace \in [Traces -> Place]
    /\ Answers \subseteq SUBSET Node
    /\ Modes \subseteq BOOLEAN \X BOOLEAN
    /\ ThreadCount \in Nat \ {0} /\ RetryTimes \in Nat
    /\ MaxEntries \in Nat

VARIABLES
    local,       \* global.CACHE.IsLocal()
    missTop,     \* missTopTime > 0
    cached,      \* the cache: the spans of each trace, as they arrived
    relation,    \* the cache: the relation keys that have a trace id
    list,        \* traces.Traces
    hasRoot,     \* traces.RootTrace /= nil
    sent,        \* the objects whose IsSent is set
    job,         \* the local variables of each task's processing
    retryTimes,  \* traceTask.retryTimes
    consumed,    \* history: the spans Consume found
    stored,      \* history: how often each object was written (StoreTraceGroup)
    related,     \* history: the traces written as relation of a node
    reports,     \* history: the reports each task has written
    drops        \* history: the drop reports each task has written

cacheVars == <<local, missTop, cached, relation>>
listVars == <<list, hasRoot>>
rowVars == <<related, reports, drops>>
vars == <<cacheVars, listVars, sent, stored, job, retryTimes, consumed, rowVars>>

\* The local variables of a task that is processed.
Idle == [pc |-> "absent",
         merging |-> <<>>,   \* mergeTraces: the spans still to add
         adding |-> {},      \* and the object it is adding,
         seen |-> <<>>,      \* to this list
         due |-> {},         \* history: the spans in the cache when it began
         nodes |-> {},       \* buildRelations: topology.Nodes
         unvisited |-> {},   \* those still to visit,
         claiming |-> {},    \* and the one whose relation it is storing
         storing |-> <<>>,   \* storeTraces: the objects still to store
         after |-> "absent"] \* and where it returns to

pc(k) == job[k].pc
Ends == {"reported", "exhausted", "fatal"}
Running(k) == pc(k) \notin Ends \cup {"absent", "queued"}
TasksOf(t) == {k \in Task : k[1] = t /\ pc(k) /= "absent"}
SpansIn(objects) == {o.span : o \in Range(objects)}

\* The tasks Consume creates for a trace of these spans.
Kinds(spans) ==
    LET urgent == (IF spans \cap SlowSpan /= {} THEN {"slow"} ELSE {})
                    \cup (IF spans \cap ErrorSpan /= {} THEN {"error"} ELSE {}) IN
    IF urgent = {} THEN {"normal"} ELSE urgent

-----------------------------------------------------------------------------
(* Small parts of the actions, each beside the slip it could contain: the  *)
(* variants named ...Slip are used by no action.                           *)

\* The spans of the cache that mergeTraces adds to the list.
NewSpans(k) ==
    LET spans == cached[k[1]] IN
    FlattenSeq([i \in DOMAIN spans |->
                  IF spans[i] \in SpansIn(list[k[1]]) THEN <<>> ELSE <<spans[i]>>])

\* storeTrace: is the object to be stored?
UnsentSlip(o) == TRUE
Unsent(o) == o \notin sent

\* buildRelations: has the relation of a node been written?
TopKnownSlip(n) == n.top /\ n \in relation
PlaceKnownSlip(n) == \E m \in relation : m.place = n.place
Known(n) == n \in relation

\* Where a task goes with the nodes still to visit in buildRelations.
NextNode(k, rest) ==
    IF rest /= {} THEN "relate" ELSE IF k[2] = "normal" THEN "reported" ELSE "build"

\* What remains to be stored when a relation has been written.
ToStoreSlip(k) == SelectSeq(list[k[1]], LAMBDA o : o.span \in TopSpan)
ToStore(k) == list[k[1]]

\* processTask: may the task be tried again?
MayRetry(k) == k[1] \notin CwTraces /\ retryTimes[k] < RetryTimes

-----------------------------------------------------------------------------
Init ==
    /\ \E mode \in Modes : local = mode[1] /\ missTop = mode[2]
    /\ cached = [t \in Traces |-> <<>>]
    /\ relation = {}
    /\ list = [t \in Traces |-> <<>>] /\ hasRoot = [t \in Traces |-> FALSE]
    /\ sent = {} /\ stored = [o \in Object |-> 0]
    /\ job = [k \in Task |-> Idle] /\ retryTimes = [k \in Task |-> 0]
    /\ consumed = [t \in Traces |-> {}]
    /\ related = [n \in Node |-> <<>>]
    /\ reports = [k \in Task |-> 0] /\ drops = [k \in Task |-> 0]

-----------------------------------------------------------------------------
(* The surroundings of the workers.                                        *)

\* A span arrives (StoreTrace).
Arrive(s) ==
    /\ s \notin Range(cached[TraceOf[s]])
    /\ cached' = [cached EXCEPT ![TraceOf[s]] = Append(@, s)]
    /\ UNCHANGED <<local, missTop, relation, listVars, sent, stored, job,
                   retryTimes, consumed, rowVars>>

\* Consume: load the trace, store what is profiled and add its tasks.  (Traces
\* that get none, being single, changed samples or sent, are not of interest here.)
Consume(t) ==
    LET spans == Range(cached[t])
        Load(s) == [span |-> s, by |-> "consume"]
        profiled == {Load(s) : s \in spans \cap ProfiledSpan} IN
    /\ consumed[t] = {} /\ spans /= {}
    /\ missTop \/ spans \cap TopSpan /= {}
    /\ consumed' = [consumed EXCEPT ![t] = spans]
    /\ list' = [list EXCEPT ![t] = [i \in DOMAIN cached[t] |-> Load(cached[t][i])]]
    /\ hasRoot' = [hasRoot EXCEPT ![t] = spans \cap TopSpan /= {}]
    /\ sent' = sent \cup profiled
    /\ stored' = [o \in Object |-> stored[o] + (IF o \in profiled THEN 1 ELSE 0)]
    /\ job' = [k \in Task |-> IF k[1] = t /\ k[2] \in Kinds(spans)
                                 THEN [Idle EXCEPT !.pc = "queued"] ELSE job[k]]
    /\ UNCHANGED <<cacheVars, retryTimes, rowVars>>

-----------------------------------------------------------------------------
(* Steps of the processing of task k, one for each access to shared state. *)

At(k, here) == pc(k) = here
Goto(k, there) == job' = [job EXCEPT ![k].pc = there]
Leave(k, there) == job' = [job EXCEPT ![k] = [Idle EXCEPT !.pc = there]]

\* Store the objects, one by one, then go on at next.
StoreThen(k, objects, next) ==
    IF objects = <<>> THEN [job[k] EXCEPT !.pc = next, !.storing = <<>>, !.after = "absent"]
    ELSE [job[k] EXCEPT !.pc = "store", !.storing = objects, !.after = next]
StoreTraces(k, objects, next) == job' = [job EXCEPT ![k] = StoreThen(k, objects, next)]

\* Merge the spans, one by one, then build the relations: a profiled span is
\* stored before it is added.
MergeThen(k, spans) ==
    LET new == [span |-> Head(spans), by |-> IF local THEN "consume" ELSE k[2]] IN
    IF spans = <<>>
       THEN job' = [job EXCEPT ![k].pc = "relation", ![k].adding = {}, ![k].seen = <<>>]
    ELSE job' = [job EXCEPT
                   ![k] = [StoreThen(k, IF new.span \in ProfiledSpan THEN <<new>> ELSE <<>>,
                                     "append")
                           EXCEPT !.merging = Tail(spans), !.adding = {new}, !.seen = <<>>]]

\* A worker receives the task.  A retry first merges if the cache has more spans,
\* or more metrics (as it may at any time).
Begin(k) ==
    /\ At(k, "queued")
    /\ Cardinality({j \in Task : Running(j)}) < ThreadCount
    /\ \/ /\ retryTimes[k] = 0 \/ Len(cached[k[1]]) <= Len(list[k[1]])
          /\ Goto(k, "relation")
       \/ /\ retryTimes[k] > 0
          /\ job' = [job EXCEPT ![k].pc = "load", ![k].due = Range(cached[k[1]])]
    /\ UNCHANGED <<cacheVars, listVars, sent, stored, retryTimes, consumed, rowVars>>

\* getTracesFromCache, and which of its spans mergeTraces misses in the list.
Load(k) ==
    /\ At(k, "load")
    /\ MergeThen(k, NewSpans(k))
    /\ UNCHANGED <<cacheVars, listVars, sent, stored, retryTimes, consumed, rowVars>>

\* AddTrace appends to a slice that no lock protects: it reads the slice ...
ReadList(k) ==
    /\ At(k, "append")
    /\ job' = [job EXCEPT ![k].pc = "add", ![k].seen = list[k[1]]]
    /\ UNCHANGED <<cacheVars, listVars, sent, stored, retryTimes, consumed, rowVars>>

\* ... and writes it back with the new object.
AddTrace(k) ==
    /\ At(k, "add")
    /\ \E new \in job[k].adding :
          /\ list' = [list EXCEPT ![k[1]] = Append(job[k].seen, new)]
          /\ hasRoot' = [hasRoot EXCEPT ![k[1]] = @ \/ new.span \in TopSpan]
    /\ MergeThen(k, job[k].merging)
    /\ UNCHANGED <<cacheVars, sent, stored, retryTimes, consumed, rowVars>>

\* storeTrace of the next object: already sent, or ...
CheckSent(k) ==
    /\ At(k, "store")
    /\ IF Unsent(Head(job[k].storing)) THEN Goto(k, "mark")
       ELSE StoreTraces(k, Tail(job[k].storing), job[k].after)
    /\ UNCHANGED <<cacheVars, listVars, sent, stored, retryTimes, consumed, rowVars>>

\* ... marked as sent ...
MarkSent(k) ==
    /\ At(k, "mark")
    /\ sent' = sent \cup {Head(job[k].storing)}
    /\ Goto(k, "save")
    /\ UNCHANGED <<cacheVars, listVars, stored, retryTimes, consumed, rowVars>>

\* ... and then written (StoreTraceGroup): a worker that finds it marked goes on
\* at once, whether or not the row is there.
Save(k) ==
    /\ At(k, "save")
    /\ stored' = [stored EXCEPT ![Head(job[k].storing)] = @ + 1]
    /\ StoreTraces(k, Tail(job[k].storing), job[k].after)
    /\ UNCHANGED <<cacheVars, listVars, sent, retryTimes, consumed, rowVars>>

\* A failure worth a retry: retryTask, or recordDropReport.
\* (The slip: each failure leaves a drop report.)
FailSlip(k) ==
    /\ drops' = [drops EXCEPT ![k] = @ + 1]
    /\ IF MayRetry(k)
          THEN /\ Leave(k, "queued")
               /\ retryTimes' = [retryTimes EXCEPT ![k] = @ + 1]
          ELSE Leave(k, "exhausted") /\ UNCHANGED retryTimes
Fail(k) ==
    \/ /\ MayRetry(k)
       /\ Leave(k, "queued")
       /\ retryTimes' = [retryTimes EXCEPT ![k] = @ + 1]
       /\ UNCHANGED drops
    \/ /\ ~MayRetry(k) /\ k[2] /= "normal"
       /\ Leave(k, "exhausted")
       /\ drops' = [drops EXCEPT ![k] = @ + 1]
       /\ UNCHANGED retryTimes
    \/ /\ ~MayRetry(k) /\ k[2] = "normal"
       /\ StoreTraces(k, list[k[1]], "exhausted")
       /\ UNCHANGED <<retryTimes, drops>>

\* buildRelations: a trace whose root's relation is known is only stored.  (The
\* key is that of a node without top, whatever the root's node is.)
LookUpRoot(k) ==
    /\ hasRoot[k[1]] /\ [place |-> RootPlace[k[1]], top |-> FALSE] \in relation
    /\ job' = [job EXCEPT ![k] = [StoreThen(k, list[k[1]], NextNode(k, {})) EXCEPT !.due = {}]]
    /\ UNCHANGED <<retryTimes, drops>>

\* Otherwise the backend fails, or answers; without missTop one node must be a
\* root.  (It sees nothing that is shared here: one step with the look-up.)
QueryServices(k) ==
    /\ ~(hasRoot[k[1]] /\ [place |-> RootPlace[k[1]], top |-> FALSE] \in relation)
    /\ \/ Fail(k)
       \/ \E answer \in Answers :
             /\ missTop \/ \E n \in answer : n.top
             /\ job' = [job EXCEPT ![k].pc = NextNode(k, answer), ![k].due = {},
                                   ![k].nodes = answer, ![k].unvisited = answer]
             /\ UNCHANGED <<retryTimes, drops>>

StartRelations(k) ==
    /\ At(k, "relation")
    /\ LookUpRoot(k) \/ QueryServices(k)
    /\ UNCHANGED <<cacheVars, listVars, sent, stored, consumed, related, reports>>

\* A node whose relation is known is passed over, ...
LookUpNode(k, n) ==
    /\ At(k, "relate") /\ n \in job[k].unvisited
    /\ LET rest == job[k].unvisited \ {n} IN
       job' = IF Known(n)
                 THEN [job EXCEPT ![k].pc = NextNode(k, rest), ![k].unvisited = rest]
                 ELSE [job EXCEPT ![k].pc = "claim", ![k].unvisited = rest, ![k].claiming = {n}]
    /\ UNCHANGED <<cacheVars, listVars, sent, stored, retryTimes, consumed, rowVars>>

\* ... and any other gets the trace in the cache ...
Claim(k) ==
    /\ At(k, "claim")
    /\ relation' = relation \cup job[k].claiming
    /\ Goto(k, "record")
    /\ UNCHANGED <<local, missTop, cached, listVars, sent, stored, retryTimes,
                   consumed, rowVars>>

\* ... and then its row, and the trace is stored with it.
StoreRelation(k) ==
    /\ At(k, "record")
    /\ related' = [n \in Node |-> IF n \in job[k].claiming THEN Append(related[n], k[1])
                                  ELSE related[n]]
    /\ job' = [job EXCEPT ![k] =
                 [StoreThen(k, ToStore(k), NextNode(k, job[k].unvisited)) EXCEPT !.claiming = {}]]
    /\ UNCHANGED <<cacheVars, listVars, sent, stored, retryTimes, consumed, reports, drops>>

-----------------------------------------------------------------------------
(* build{Slow,Error}Reports after the relations.                           *)

\* With a root span: the trace is stored and one report written, or it is tried
\* again (the backend or the entry is missing), or dropped for good.
BuildSingle(k) ==
    /\ At(k, "build") /\ hasRoot[k[1]]
    /\ \/ /\ job' = [job EXCEPT ![k] =
                       [StoreThen(k, list[k[1]], "write") EXCEPT !.nodes = {}]]
          /\ UNCHANGED <<retryTimes, drops>>
       \/ Fail(k)
       \/ /\ Leave(k, "fatal")
          /\ drops' = [drops EXCEPT ![k] = @ + 1]
          /\ UNCHANGED retryTimes
    /\ UNCHANGED <<cacheVars, listVars, sent, stored, consumed, related, reports>>

\* Without: the entry nodes are visited one by one, if there are any.
BuildMulti(k) ==
    /\ At(k, "build") /\ ~hasRoot[k[1]]
    /\ \/ Leave(k, "entries") /\ UNCHANGED <<retryTimes, drops>>
       \/ Fail(k)
    /\ UNCHANGED <<cacheVars, listVars, sent, stored, consumed, related, reports>>

\* An entry gets a report or only a line in the log. (Bound: MaxEntries reports.)
Entry(k) ==
    /\ At(k, "entries")
    /\ \/ Goto(k, "reported")
       \/ reports[k] < MaxEntries /\ StoreTraces(k, list[k[1]], "writeEntry")
    /\ UNCHANGED <<cacheVars, listVars, sent, stored, retryTimes, consumed, rowVars>>

Write(k) ==
    /\ pc(k) \in {"write", "writeEntry"}
    /\ reports' = [reports EXCEPT ![k] = @ + 1]
    /\ Goto(k, IF pc(k) = "write" THEN "reported" ELSE "entries")
    /\ UNCHANGED <<cacheVars, listVars, sent, stored, retryTimes, consumed, related, drops>>

ProcessTask(k) ==
    \/ Load(k) \/ ReadList(k) \/ AddTrace(k) \/ CheckSent(k) \/ MarkSent(k) \/ Save(k)
    \/ StartRelations(k) \/ Claim(k) \/ StoreRelation(k)
    \/ \E n \in Node : LookUpNode(k, n)
    \/ BuildSingle(k) \/ BuildMulti(k) \/ Entry(k) \/ Write(k)

Next ==
    \/ \E s \in Span : Arrive(s)
    \/ \E t \in Traces : Consume(t)
    \/ \E k \in Task : Begin(k) \/ ProcessTask(k)

Spec == Init /\ [][Next]_vars

-----------------------------------------------------------------------------
(* Properties *)

Steps == {"load", "append", "add", "store", "mark", "save", "relation", "relate",
          "claim", "record", "build", "entries", "write", "writeEntry"}

\* Every variable has its type.
TypeOK ==
    /\ local \in BOOLEAN /\ missTop \in BOOLEAN
    /\ cached \in [Traces -> Seq(Span)]
    /\ relation \subseteq Node
    /\ list \in [Traces -> Seq(Object)] /\ hasRoot \in [Traces -> BOOLEAN]
    /\ sent \subseteq Object /\ stored \in [Object -> Nat]
    /\ job \in [Task -> [pc : Steps \cup Ends \cup {"absent", "queued"},
                         merging : Seq(Span), adding : SUBSET Object, seen : Seq(Object),
                         due : SUBSET Span, nodes : SUBSET Node, unvisited : SUBSET Node,
                         claiming : SUBSET Node, storing : Seq(Object),
                         after : Steps \cup Ends \cup {"absent"}]]
    /\ retryTimes \in [Task -> Nat]
    /\ consumed \in [Traces -> SUBSET Span]
    /\ related \in [Node -> Seq(Traces)]
    /\ reports \in [Task -> Nat] /\ drops \in [Task -> Nat]

\* IsSent keeps the rows of a span apart: one object is written at most once by
\* each task of the trace, and a span of a trace with a single task is written
\* at most once however often the task is retried (analyzer.go:440-445).  Two
\* tasks may write a span twice: the mark is tested and set without a lock.
StoredOnce ==
    \A o \in Object :
        LET tasks == Cardinality(TasksOf(TraceOf[o.span])) IN
        stored[o] > 0 =>
            /\ stored[o] = 1 \/ stored[o] <= tasks
            /\ tasks = 1 => \A p \in Object : p.span = o.span /\ p /= o => stored[p] = 0

IsStored(t) ==
    \A s \in consumed[t] : \E o \in Object : o.span = s /\ stored[o] > 0

\* A worker has marked the object, and its next step writes it.
BeingWritten(o) == \E k \in Task : At(k, "save") /\ Head(job[k].storing) = o

\* A worker has put the relation of a node in the cache, and its next step writes it.
BeingRecorded(n) == \E k \in Task : At(k, "record") /\ n \in job[k].claiming

\* A report, and a relation once its worker is done, refers to a trace whose
\* spans are written, although some are written by another worker: the most a
\* report can be early is a span that this worker has marked and writes in its
\* next step (analyzer.go:440-445).  When no worker has the trace any more, all
\* it refers to is there.
RowsHaveTraces ==
    \A t \in Traces :
        \/ \E k \in TasksOf(t) : reports[k] > 0
        \/ /\ \E n \in Node : t \in Range(related[n])
           /\ \A k \in TasksOf(t) : ~Running(k)
        => \A s \in consumed[t] :
              \E o \in Object : o.span = s /\ (stored[o] > 0 \/ BeingWritten(o))

\* Looking a relation up and storing it are two steps, so a relation may be
\* written several times, but not more often than there are workers
\* (analyzer.go:642-643).
RelationBound == \A n \in Node : Len(related[n]) <= ThreadCount

\* A slow or error task leaves a drop report or reports, never both, and one of
\* them in any case if its trace had its root span when it was consumed.
OneVerdict ==
    \A k \in Task :
        /\ drops[k] + (IF reports[k] > 0 THEN 1 ELSE 0) <= 1
        /\ pc(k) \in Ends /\ k[2] /= "normal" /\ consumed[k[1]] \cap TopSpan /= {}
              => drops[k] + reports[k] = 1

\* A normal trace is written when it is done, unless each of its nodes was passed
\* over because its relation had been written, or is written in the next step of
\* another worker, which caches it first: what is known is not sampled again, and
\* nothing else is lost (analyzer.go:640-648).
NormalSampled ==
    \A t \in Traces :
        LET task == job[<<t, "normal">>] IN
        task.pc \in Ends /\ ~IsStored(t) =>
            \A n \in task.nodes : related[n] /= <<>> \/ BeingRecorded(n)

\* "Check whether there will be new Trace" (analyzer.go:266): when a retry has
\* merged, the list has every span that was in the cache when it began.
LateSpansMerged ==
    \A k \in Task : At(k, "relation") => job[k].due \subseteq SpansIn(list[k[1]])

=============================================================================
