----------------------------- MODULE WriteBuffer -----------------------------
(***************************************************************************)
(* The way of rows into ClickHouse (clickhouse/cache.go, client.go,        *)
(* tables/): gRPC handlers and workers append to one buffer per kind of    *)
(* row, and one goroutine cuts the buffers one after the other and writes  *)
(* each as a batch.  The length to cut is read before the lock is taken.   *)
(* A batch that fails is logged and gone.                                  *)
(*                                                                         *)
(* A row has a number n, one per kind.  Rows of four kinds arrive as JSON: *)
(* decoded says whether they parse.  An error report may be dropped; a     *)
(* relation has that many relationships and external calls, the groups of  *)
(* its calls being those of module External.                               *)
(***************************************************************************)
EXTENDS Naturals, SequencesExt

CONSTANTS Offered,               \* the kinds that get rows
          Shapes,                \* what rows look like, without their number
          MaxRows,               \* bound on the rows appended
          ExportServiceClient,   \* configuration
          GenerateClientMetric

VARIABLES buffer,     \* cache: rows per kind
          step,       \* the table batchSendToServer is at, 0 between ticks
          size,       \* the length getToSend... read, 0 if none
          batch,      \* the rows cut in this tick, per kind
          written,    \* external: the rows of each table
          accepted,   \* history: the rows appended to each buffer
          lost        \* history: per table, the rows that were not stored

vars == <<buffer, step, size, batch, written, accepted, lost>>

Json == {"event", "flame", "gc", "onoff"}
Kinds == Json \cup {"trace", "app", "slow", "error", "metric", "relation", "agent"}

\* One tick writes the tables in this order; a later table of a kind uses the
\* batch of the earlier one.
Plan ==
  << <<"event", "profiling_event">>, <<"flame", "flame_graph">>, <<"gc", "jvm_gc">>,
     <<"trace", "span_trace">>, <<"app", "originx_app_info">>, <<"slow", "slow_report">>,
     <<"error", "error_report">>, <<"error", "error_propagation">>, <<"metric", "report_metric">>,
     <<"onoff", "onoff_metric">>, <<"relation", "service_relationship">>,
     <<"agent", "originx_agent_event">>, <<"relation", "service_client">>, <<"relation", "client_metric">> >>
KindAt(i) == Plan[i][1]
TableAt(i) == Plan[i][2]
Tables == {TableAt(i) : i \in DOMAIN Plan}
Cuts(i) == \A j \in 1 .. i - 1 : KindAt(j) # KindAt(i)

Init == /\ buffer = [k \in Kinds |-> <<>>]
        /\ step = 0 /\ size = 0
        /\ batch = [k \in Kinds |-> <<>>]
        /\ written = [t \in Tables |-> <<>>]
        /\ accepted = [k \in Kinds |-> <<>>]
        /\ lost = [t \in Tables |-> {}]

-----------------------------------------------------------------------------
(* Producers.  StoreDataGroups appends a group of JSON rows as it came, and *)
(* rows of its other groups one by one if they parse; reports, relations   *)
(* and metrics come from the analyzer and the profile service.             *)

AppendTo(k, rows) ==
  /\ buffer' = [buffer EXCEPT ![k] = @ \o rows]
  /\ accepted' = [accepted EXCEPT ![k] = @ \o rows]
  /\ UNCHANGED <<step, size, batch, written, lost>>

Total == FoldFunction(LAMBDA rows, n : Len(rows) + n, 0, accepted)

Number(k, i, shape) == [n |-> Len(accepted[k]) + i, shape |-> shape]

BatchStore(k, shapes) ==
  /\ k \in Offered \cap Json
  /\ Total + Len(shapes) <= MaxRows
  /\ AppendTo(k, [i \in DOMAIN shapes |-> Number(k, i, shapes[i])])

CacheRow(k, shape) ==
  /\ k \in Offered \ Json /\ shape.decoded
  /\ Total < MaxRows
  /\ AppendTo(k, <<Number(k, 1, shape)>>)

-----------------------------------------------------------------------------
(* The rows each table gets for a row of its batch: [n, part].             *)

Parts(row, count) == [i \in 1 .. count |-> [n |-> row.n, part |-> i]]
Whole(row) == Parts(row, 1)

\* A row that does not parse is logged and skipped.
Decoded(row) == IF row.shape.decoded THEN Whole(row) ELSE <<>>

WriteProfilingEvents(row) == Decoded(row)
WriteFlameGraph(row) == Decoded(row)
WriteJvmGcs(row) == Decoded(row)
WriteOnOffMetrics(row) == Decoded(row)
WriteSpanTraces(row) == Whole(row)
WriteSlowReports(row) == Whole(row)
WriteErrorReports(row) == Whole(row)
WriteReportMetrics(row) == Whole(row)
WriteAgentEvents(row) == Whole(row)
\* Apps that are there already are left out: module ActiveApps.
WriteAppInfos(row) == Whole(row)
WriteErrorPropagations(row) == IF row.shape.dropped THEN <<>> ELSE Whole(row)
WriteServiceRelationships(row) == Parts(row, row.shape.relationships)
WriteServiceClients(row) == Parts(row, Len(row.shape.calls))
\* A duration is recorded for calls of three groups.
WriteClientMetric(row) ==
  FlattenSeq([i \in DOMAIN row.shape.calls |->
    IF row.shape.calls[i] \in {"external", "db", "mq"} THEN <<[n |-> row.n, part |-> i]>> ELSE <<>>])

RowsOf(table, row) ==
  CASE table = "profiling_event" -> WriteProfilingEvents(row)
    [] table = "flame_graph" -> WriteFlameGraph(row)
    [] table = "jvm_gc" -> WriteJvmGcs(row)
    [] table = "onoff_metric" -> WriteOnOffMetrics(row)
    [] table = "span_trace" -> WriteSpanTraces(row)
    [] table = "originx_app_info" -> WriteAppInfos(row)
    [] table = "slow_report" -> WriteSlowReports(row)
    [] table = "error_report" -> WriteErrorReports(row)
    [] table = "error_propagation" -> WriteErrorPropagations(row)
    [] table = "report_metric" -> WriteReportMetrics(row)
    [] table = "originx_agent_event" -> WriteAgentEvents(row)
    [] table = "service_relationship" -> WriteServiceRelationships(row)
    [] table = "service_client" -> IF ExportServiceClient THEN WriteServiceClients(row) ELSE <<>>
    [] table = "client_metric" -> IF GenerateClientMetric THEN WriteClientMetric(row) ELSE <<>>

RowsFor(table, rows) == FlattenSeq([i \in DOMAIN rows |-> RowsOf(table, rows[i])])

Without(rows, gone) == FlattenSeq([i \in DOMAIN rows |-> IF rows[i] \in gone THEN <<>> ELSE <<rows[i]>>])

-----------------------------------------------------------------------------
(* batchSendToServer *)

\* (slip: the buffer is emptied)
RemainingSlip(rows, count) == <<>>
Remaining(rows, count) == SubSeq(rows, count + 1, Len(rows))

Following(i) == (i + 1) % (Len(Plan) + 1)

Tick ==
  /\ step = 0
  /\ step' = 1
  /\ batch' = [k \in Kinds |-> <<>>]
  /\ UNCHANGED <<buffer, size, written, accepted, lost>>

\* The length is read unlocked; an empty buffer is passed over.
\* (slip: so is one with a single row)
LengthSlip(rows) == IF Len(rows) = 1 THEN 0 ELSE Len(rows)
Length(rows) == Len(rows)

ReadLength ==
  /\ step # 0 /\ Cuts(step) /\ size = 0 /\ batch[KindAt(step)] = <<>>
  /\ size' = Length(buffer[KindAt(step)])
  /\ step' = IF size' = 0 THEN Following(step) ELSE step
  /\ UNCHANGED <<buffer, batch, written, accepted, lost>>

GetToSend ==
  /\ size > 0
  /\ LET k == KindAt(step)
     IN  /\ batch' = [batch EXCEPT ![k] = SubSeq(buffer[k], 1, size)]
         /\ buffer' = [buffer EXCEPT ![k] = Remaining(buffer[k], size)]
  /\ size' = 0
  /\ UNCHANGED <<step, written, accepted, lost>>

\* A table that shares a batch has nothing to do when it is empty.
NothingCut ==
  /\ step # 0 /\ ~Cuts(step) /\ batch[KindAt(step)] = <<>>
  /\ step' = Following(step)
  /\ UNCHANGED <<buffer, size, batch, written, accepted, lost>>

Writing == step # 0 /\ size = 0 /\ batch[KindAt(step)] # <<>>

\* Rows that may be missing from a write that goes on: within a relation only the
\* error of the last relationship is looked at; WriteClientMetric returns at the first
\* duration that cannot be recorded, and those before it stay.
Missing(table, rows) ==
  CASE table = "service_relationship" ->
         SUBSET {r \in Range(rows) : [r EXCEPT !.part = @ + 1] \in Range(rows)}
    [] table = "client_metric" -> {{rows[j] : j \in DOMAIN rows \ 1 .. i} : i \in 0 .. Len(rows)}
    [] OTHER -> {{}}

\* doWithTx commits, or the durations are in the metrics registry.
Commit ==
  /\ Writing
  /\ LET t == TableAt(step)
         rows == RowsFor(t, batch[KindAt(step)])
     IN  \E refused \in Missing(t, rows) :
           /\ written' = [written EXCEPT ![t] = @ \o Without(rows, refused)]
           /\ lost' = [lost EXCEPT ![t] = @ \cup refused]
  /\ step' = Following(step)
  /\ UNCHANGED <<buffer, size, batch, accepted>>

\* Begin, Prepare, Exec or Commit fails: nothing of the batch is stored.
WriteFails ==
  /\ Writing /\ TableAt(step) # "client_metric"
  /\ lost' = [lost EXCEPT ![TableAt(step)] = @ \cup Range(RowsFor(TableAt(step), batch[KindAt(step)]))]
  /\ step' = Following(step)
  /\ UNCHANGED <<buffer, size, batch, written, accepted>>

BatchSendToServer == Tick \/ ReadLength \/ GetToSend \/ NothingCut \/ Commit \/ WriteFails

Next == \/ BatchSendToServer
        \/ \E k \in Kinds, shape \in Shapes : CacheRow(k, shape)
        \/ \E k \in Json : \E shapes \in BoundedSeq(Shapes, 2) : BatchStore(k, shapes)

\* Nothing calls Stop; the driver's calls return, with an error if need be.
Fairness == WF_vars(BatchSendToServer)
Spec == Init /\ [][Next]_vars /\ Fairness

-----------------------------------------------------------------------------
TypeOK == /\ step \in 0 .. Len(Plan)
          /\ \A k \in Kinds : size \in 0 .. MaxRows /\ Len(buffer[k]) <= MaxRows

\* The rows of its kind that the i-th table has still to deal with.
Behind(i) == Len(buffer[KindAt(i)]) + (IF step # 0 /\ step <= i THEN Len(batch[KindAt(i)]) ELSE 0)
Settled(i) == SubSeq(accepted[KindAt(i)], 1, Len(accepted[KindAt(i)]) - Behind(i))

\* Whatever is appended between reading a length, locking, cutting and writing,
\* each table holds the rows that were appended, in that order and once, but for
\* those of its failed writes (getToSend..., batchSendToServer).
RowsConserved ==
  \A i \in DOMAIN Plan :
     written[TableAt(i)] = Without(RowsFor(TableAt(i), Settled(i)), lost[TableAt(i)])

\* Every row is written or lost in the end, by every table it belongs to, even if
\* the writes of another table always fail (batchSendToServer).
Flushed ==
  \A k \in Offered, n \in 1 .. MaxRows :
     Len(accepted[k]) >= n ~> \A i \in DOMAIN Plan : KindAt(i) = k => Len(Settled(i)) >= n
=============================================================================
