-------------------------------- MODULE Flows --------------------------------
(***************************************************************************)
(* The two queues of a receiver whose progress matters: the rows on their  *)
(* way to ClickHouse and the notifications on their way to the analyzer.   *)
(* They share no state: a step of one leaves the other alone.              *)
(***************************************************************************)
EXTENDS Naturals, Sequences

CONSTANTS Offered, Shapes, MaxRows, ExportServiceClient, GenerateClientMetric,  \* WriteBuffer
          Receivers, MaxSent, MaxDisruptions                                    \* ReportQueue

VARIABLES buffer, step, size, batch, written, accepted, lost
wVars == <<buffer, step, size, batch, written, accepted, lost>>
W == INSTANCE WriteBuffer

VARIABLES local, reportTraceIds, stream, group, pending, subscriber,
          sent, unreachable, consumed, disruptions
qVars == <<local, reportTraceIds, stream, group, pending, subscriber,
           sent, unreachable, consumed, disruptions>>
Q == INSTANCE ReportQueue

vars == <<wVars, qVars>>

-----------------------------------------------------------------------------
\* A row either parses or not; a relation has some relationships and calls.
ASSUME ShapesAssumption ==
  Shapes \subseteq [decoded : BOOLEAN, dropped : BOOLEAN, relationships : Nat, calls : Seq(STRING)]

ASSUME SentAssumption == MaxSent \in Nat

Init == W!Init /\ Q!Init

Next == \/ W!Next /\ UNCHANGED qVars
        \/ Q!Next /\ UNCHANGED wVars

\* The writer's goroutine and every receiver go on.
Fairness == /\ WF_wVars(W!BatchSendToServer)
            /\ \A r \in Receivers : WF_qVars(Q!Subscribe(r)) /\ WF_qVars(Q!Start(r))

Spec == Init /\ [][Next]_vars /\ Fairness

-----------------------------------------------------------------------------
(* What the flows promise; each module says what its promise means.        *)

\* Each table holds its rows in order and once, but for those of failed writes
\* (getToSend..., batchSendToServer).
RowsConserved == W!RowsConserved

\* Every row is written or lost in the end (batchSendToServer).
Flushed == W!Flushed

\* A notification is consumed at most once, and in the end, unless it is lost to a
\* failure that is named (SubscribeReportTraceId).
DeliveredOnce == Q!DeliveredOnce
=============================================================================
