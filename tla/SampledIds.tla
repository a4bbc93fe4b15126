------------------------------ MODULE SampledIds ------------------------------
(***************************************************************************)
(* How agents learn of the traces other agents have sampled                *)
(* (profile/profile_server.go, traceid_cache.go, redis/).  A report names  *)
(* the ids its agent sampled, and asks for those with an index above that  *)
(* of its previous report; every receiver learns of every id, through a    *)
(* slice in memory or a Redis channel, and gives it an index of its own.   *)
(*                                                                         *)
(* Redis is external: what is published reaches the receivers that are     *)
(* connected; any command may fail.  An agent is external too: it reports  *)
(* to one receiver, one report at a time, and sends the QueryTime it was   *)
(* given last.  An index of the local cache is the time in nanoseconds:    *)
(* only its order is modelled.                                             *)
(***************************************************************************)
EXTENDS Integers, Sequences, Functions

CONSTANTS Ids,          \* trace ids
          Abnormal,     \* those that are reported as slow or as error traces
          Agents,
          Receivers,
          Home,         \* the receiver of each agent
          MaxReports,   \* bound on reports that name an id
          MaxIndex      \* bound on indexes

VARIABLES local,        \* IsLocal(): all agents have the same receiver
          index,        \* external: kd-traceIndex, or the time
          channel,      \* per receiver: ids published and not consumed
          consumer,     \* per receiver: Consume
          traceIds,     \* per receiver: its traceIdCaches, id to index
          report,       \* per agent: QueryProfiles
          since,        \* per agent: the QueryTime it was given last
          offered,      \* history: per agent, how often it was offered an id, up to 2
          late,         \* history: <<a, id>>, a's window was over when id was stored,
                        \* or the very report was a's
          mayRepeat,    \* history: <<a, id>>, the id or the window of a was reset
          reports       \* history: how many ids were reported

vars == <<local, index, channel, consumer, traceIds, report, since, offered, late, mayRepeat, reports>>

Idle == [pc |-> "idle"]
HomeOf(a) == IF local THEN Home[CHOOSE b \in Agents : TRUE] ELSE Home[a]
Alive == IF local THEN {HomeOf(a) : a \in Agents} ELSE Receivers

\* With Redis, SubscribeTraceIds never comes to its second channel.
Subscribed(id) == local \/ id \notin Abnormal

Init == /\ local \in BOOLEAN
        /\ index = 0
        /\ channel = [r \in Receivers |-> <<>>]
        /\ consumer = [r \in Receivers |-> Idle]
        /\ traceIds = [r \in Receivers |-> <<>>]
        /\ report = [a \in Agents |-> Idle]
        /\ since = [a \in Agents |-> 0]
        /\ offered = [a \in Agents |-> [id \in Ids |-> 0]]
        /\ late = {} /\ mayRepeat = {} /\ reports = 0

-----------------------------------------------------------------------------
(* QueryProfiles                                                           *)

\* NotifySampledTraceIds: some receivers may miss what is published.
QueryProfiles(a, ids) ==
  /\ report[a].pc = "idle" /\ reports + Len(ids) <= MaxReports
  /\ reports' = reports + Len(ids)
  /\ LET published == SelectSeq(ids, Subscribed)
     IN  \E reached \in IF local THEN {Alive} ELSE SUBSET Receivers :
           channel' = [r \in Receivers |-> IF r \in reached THEN channel[r] \o published ELSE channel[r]]
  /\ report' = [report EXCEPT ![a] = [pc |-> "index", ignored |-> Range(ids)]]
  /\ UNCHANGED <<local, index, consumer, traceIds, since, offered, late, mayRepeat>>

\* GetTraceIndex: -1 if Redis has none yet, or fails.
GetTraceIndex(a) ==
  /\ report[a].pc = "index"
  /\ \E end \in IF local THEN {index} ELSE {IF index = 0 THEN -1 ELSE index, -1} :
       report' = [report EXCEPT ![a] = [pc |-> "answer", ignored |-> @.ignored, end |-> end]]
  /\ UNCHANGED <<local, index, channel, consumer, traceIds, since, offered, late, mayRepeat, reports>>

Window(start, end) == start + 1 .. end

\* getTraceIds
InWindow(a) ==
  LET known == traceIds[HomeOf(a)]
      end == report[a].end
  IN  IF end = -1 THEN {} ELSE {id \in DOMAIN known : known[id] \in Window(since[a], end)}
TraceIdsFor(a) == InWindow(a) \ report[a].ignored

Answer(a) ==
  /\ report[a].pc = "answer"
  /\ offered' = [offered EXCEPT ![a] =
       [id \in Ids |-> IF id \in TraceIdsFor(a) /\ @[id] < 2 THEN @[id] + 1 ELSE @[id]]]
  /\ late' = late \cup ({a} \X (InWindow(a) \cap report[a].ignored))
  /\ mayRepeat' = IF report[a].end < since[a] THEN mayRepeat \cup ({a} \X Ids) ELSE mayRepeat
  /\ since' = [since EXCEPT ![a] = report[a].end]
  /\ report' = [report EXCEPT ![a] = Idle]
  /\ UNCHANGED <<local, index, channel, consumer, traceIds, reports>>

-----------------------------------------------------------------------------
(* traceIdCache                                                            *)

\* Consume: an id that is known keeps its index.
\* (slip: it is given a new one)
IsNewSlip(r, id) == TRUE
IsNew(r, id) == id \notin DOMAIN traceIds[r]

IncrTraceIndex(r) ==
  /\ consumer[r].pc = "idle" /\ channel[r] # <<>>
  /\ LET id == Head(channel[r])
     IN  IF IsNew(r, id)
         THEN \/ /\ index < MaxIndex
                 /\ index' = index + 1
                 /\ consumer' = [consumer EXCEPT ![r] = [pc |-> "store", id |-> id, index |-> index']]
              \/ ~local /\ UNCHANGED <<index, consumer>>         \* INCR fails: the id is forgotten
         ELSE UNCHANGED <<index, consumer>>
  /\ channel' = [channel EXCEPT ![r] = Tail(@)]
  /\ UNCHANGED <<local, traceIds, report, since, offered, late, mayRepeat, reports>>

Store(r) ==
  /\ consumer[r].pc = "store"
  /\ LET id == consumer[r].id
         i == consumer[r].index
         passed == {a \in Agents : HomeOf(a) = r /\ since[a] >= i}
     IN  /\ traceIds' = [traceIds EXCEPT ![r] =
              [k \in DOMAIN @ \cup {id} |-> IF k = id THEN i ELSE traceIds[r][k]]]
         /\ late' = late \cup (passed \X {id})
  /\ consumer' = [consumer EXCEPT ![r] = Idle]
  /\ UNCHANGED <<local, index, channel, report, since, offered, mayRepeat, reports>>

\* cleanExpireTraceIds: the id, unless it is reported again, is forgotten.
CleanExpireTraceId(r, id) ==
  /\ id \in DOMAIN traceIds[r]
  /\ traceIds' = [traceIds EXCEPT ![r] = [k \in DOMAIN @ \ {id} |-> @[k]]]
  /\ mayRepeat' = mayRepeat \cup (Agents \X {id})
  /\ UNCHANGED <<local, index, channel, consumer, report, since, offered, late, reports>>

Next == \/ \E a \in Agents : \/ \E n \in 0 .. 1 : \E ids \in [1 .. n -> Ids] : QueryProfiles(a, ids)
                             \/ GetTraceIndex(a) \/ Answer(a)
        \/ \E r \in Receivers : \/ IncrTraceIndex(r) \/ Store(r)
                                \/ \E id \in Ids : CleanExpireTraceId(r, id)
Spec == Init /\ [][Next]_vars

-----------------------------------------------------------------------------
\* An agent is offered every id its receiver knows, as soon as its window is past
\* the id's index, unless it reported the id in the same report or the id was
\* stored too late, its index having been taken before (Consume, getTraceIds); and
\* once, unless the id expired or the index could not be read (GetTraceIndex).
IdsOffered ==
  \A a \in Agents, id \in Ids :
     /\ LET known == traceIds[HomeOf(a)]
        IN  id \in DOMAIN known /\ known[id] <= since[a] => offered[a][id] > 0 \/ <<a, id>> \in late
     /\ offered[a][id] > 1 => <<a, id>> \in mayRepeat
=============================================================================
