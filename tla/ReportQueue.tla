----------------------------- MODULE ReportQueue -----------------------------
(***************************************************************************)
(* From checkTask's NotifyReportTraceId to the analyzer's Consume: a       *)
(* locked slice in the memory of the only receiver (local_cache.go), or a  *)
(* Redis stream that one consumer group of all receivers reads             *)
(* (redis_api.go, redis_client.go).                                        *)
(*                                                                         *)
(* Redis is external.  XADD appends an entry or fails; a retry of the      *)
(* client that adds an entry twice makes two notifications.  XREADGROUP    *)
(* hands an entry to one consumer and notes it as pending; nothing reads   *)
(* pending entries again.  A group receives the entries added after its    *)
(* creation.  A receiver that starts again is a consumer of a new name.    *)
(***************************************************************************)
EXTENDS Naturals, SequencesExt

CONSTANTS Receivers,
          MaxSent,          \* bound on the notifications
          MaxDisruptions    \* bound on crashes and broken connections

VARIABLES local,            \* IsLocal()
          reportTraceIds,   \* the slice of the local cache
          stream,           \* external: all entries added
          group,            \* external: the last entry the group was given, NoGroup
          pending,          \* external: entries given and not acknowledged
          subscriber,       \* per receiver: its process and SubscribeReportTraceId
          sent,             \* history: how many notifications were made
          unreachable,      \* history: those refused, or added when there was no group
          consumed,         \* history: what Consume was called with, in order
          disruptions       \* history

vars == <<local, reportTraceIds, stream, group, pending, subscriber,
          sent, unreachable, consumed, disruptions>>

NoGroup == MaxSent + 1
Down == [pc |-> "down", todo |-> <<>>, given |-> {}]
Idle == [pc |-> "idle", todo |-> <<>>, given |-> {}]
Up(r) == subscriber[r].pc # "down"
\* The mutex of the local cache is held while everything is consumed.
Locked == local /\ \E r \in Receivers : subscriber[r].pc = "consuming"

Init == /\ local \in BOOLEAN
        /\ reportTraceIds = <<>> /\ stream = <<>> /\ group = NoGroup /\ pending = {}
        /\ subscriber = [r \in Receivers |-> Down]
        /\ sent = 0 /\ unreachable = {} /\ consumed = <<>> /\ disruptions = 0

Disruption == disruptions < MaxDisruptions /\ disruptions' = disruptions + 1

\* A local receiver is alone.
Start(r) ==
  /\ ~Up(r) /\ (local => \A q \in Receivers : ~Up(q))
  /\ subscriber' = [subscriber EXCEPT ![r] = Idle]
  /\ \/ group' = IF ~local /\ group = NoGroup THEN Len(stream) ELSE group
     \/ ~local /\ group' = group                  \* XGROUP CREATE fails, which is logged
  /\ UNCHANGED <<local, reportTraceIds, stream, pending, sent, unreachable, consumed, disruptions>>

Crash(r) ==
  /\ Up(r) /\ Disruption
  /\ subscriber' = [subscriber EXCEPT ![r] = Down]
  /\ reportTraceIds' = <<>>
  /\ UNCHANGED <<local, stream, group, pending, sent, unreachable, consumed>>

-----------------------------------------------------------------------------
NotifyReportTraceId(r) ==
  /\ Up(r) /\ ~Locked /\ sent < MaxSent
  /\ sent' = sent + 1
  /\ IF local
     THEN /\ reportTraceIds' = Append(reportTraceIds, sent')
          /\ UNCHANGED <<stream, unreachable>>
     ELSE /\ \/ /\ stream' = Append(stream, sent')
                /\ unreachable' = IF group = NoGroup THEN unreachable \cup {sent'} ELSE unreachable
             \/ /\ stream' = stream
                /\ unreachable' = unreachable \cup {sent'}
          /\ UNCHANGED reportTraceIds
  /\ UNCHANGED <<local, group, pending, subscriber, consumed, disruptions>>

-----------------------------------------------------------------------------
(* LocalCache.SubscribeReportTraceId                                       *)

\* The slice is looked at before the lock is taken ...
See(r) ==
  /\ local /\ subscriber[r].pc = "idle" /\ reportTraceIds # <<>>
  /\ subscriber' = [subscriber EXCEPT ![r] = [Idle EXCEPT !.pc = "locking", !.todo = reportTraceIds]]
  /\ UNCHANGED <<local, reportTraceIds, stream, group, pending, sent, unreachable, consumed, disruptions>>

\* ... and consumed as it is then.  (slip: what was seen is consumed)
ToConsumeSlip(seen) == seen
ToConsume(seen) == reportTraceIds

Lock(r) ==
  /\ subscriber[r].pc = "locking"
  /\ subscriber' = [subscriber EXCEPT ![r] = [@ EXCEPT !.pc = "consuming", !.todo = ToConsume(@)]]
  /\ UNCHANGED <<local, reportTraceIds, stream, group, pending, sent, unreachable, consumed, disruptions>>

Consume(r) ==
  /\ subscriber[r].pc = "consuming" /\ subscriber[r].todo # <<>>
  /\ consumed' = Append(consumed, Head(subscriber[r].todo))
  /\ subscriber' = [subscriber EXCEPT ![r].todo = Tail(@)]
  /\ UNCHANGED <<local, reportTraceIds, stream, group, pending, sent, unreachable, disruptions>>

Unlock(r) ==
  /\ local /\ subscriber[r].pc = "consuming" /\ subscriber[r].todo = <<>>
  /\ reportTraceIds' = <<>>
  /\ subscriber' = [subscriber EXCEPT ![r] = Idle]
  /\ UNCHANGED <<local, stream, group, pending, sent, unreachable, consumed, disruptions>>

-----------------------------------------------------------------------------
(* RedisClient.SubscribeReportTraceId, xReadGroup                          *)

Give == /\ group # NoGroup /\ group < Len(stream)
        /\ group' = group + 1
        /\ pending' = pending \cup {stream[group']}

Read(r) ==
  /\ ~local /\ subscriber[r].pc = "idle"
  /\ Give
  /\ subscriber' = [subscriber EXCEPT ![r] = 
       [pc |-> "consuming", todo |-> <<stream[group']>>, given |-> {stream[group']}]]
  /\ UNCHANGED <<local, reportTraceIds, stream, sent, unreachable, consumed, disruptions>>

\* The connection breaks when the entry has been given.
ReadFails(r) ==
  /\ ~local /\ subscriber[r].pc = "idle"
  /\ Give /\ Disruption
  /\ UNCHANGED <<local, reportTraceIds, stream, subscriber, sent, unreachable, consumed>>

\* A failed XACK is logged.
Ack(r) ==
  /\ ~local /\ subscriber[r].pc = "consuming" /\ subscriber[r].todo = <<>>
  /\ pending' \in {pending, pending \ subscriber[r].given}
  /\ subscriber' = [subscriber EXCEPT ![r] = Idle]
  /\ UNCHANGED <<local, reportTraceIds, stream, group, sent, unreachable, consumed, disruptions>>

Subscribe(r) == See(r) \/ Lock(r) \/ Consume(r) \/ Unlock(r) \/ Read(r) \/ Ack(r)

Next == \E r \in Receivers : \/ Start(r) \/ Crash(r) \/ NotifyReportTraceId(r)
                             \/ Subscribe(r) \/ ReadFails(r)

\* Consume returns: TaskPool.  A receiver that stopped is started again.
Fairness == \A r \in Receivers : WF_vars(Subscribe(r)) /\ WF_vars(Start(r))
Spec == Init /\ [][Next]_vars /\ Fairness
-----------------------------------------------------------------------------
\* The places of m in the order of consumption.
Consumptions(m) == {i \in DOMAIN consumed : consumed[i] = m}
Waiting(m) == \/ Contains(reportTraceIds, m)
              \/ \E i \in DOMAIN stream : i > group /\ stream[i] = m /\ m \notin unreachable
              \/ \E r \in Receivers : ~local /\ Contains(subscriber[r].todo, m)
StateOf(m) ==
  IF m > sent THEN "unsent"
  ELSE CASE \E i, j \in Consumptions(m) : i # j -> "consumed twice"
         [] \E i \in Consumptions(m) : Consumptions(m) = {i} -> "consumed"
         [] Consumptions(m) = {} /\ Waiting(m) -> "queued"
         [] OTHER -> "lost"

D == INSTANCE Delivery WITH Message <- 1 .. MaxSent, state <- [m \in 1 .. MaxSent |-> StateOf(m)]

\* Whatever is notified, crashes or starts between two steps of a subscriber, every
\* notification is consumed at most once, and in the end, unless Redis refused it,
\* had no group for it, or a receiver broke down with it (SubscribeReportTraceId).
DeliveredOnce == D!DeliverySpec
=============================================================================
