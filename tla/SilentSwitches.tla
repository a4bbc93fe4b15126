---------------------------- MODULE SilentSwitches ----------------------------
(***************************************************************************)
(* Which urls of a process an agent is told to stop and to resume          *)
(* profiling, and how many slow traces were profiled                       *)
(* (profile/signal_cache.go, profile_server.go), for one node.             *)
(*                                                                         *)
(* Workers add the slow traces of a tuple to its counters, one at a time;  *)
(* the answer to the node's report and the minute's collection range over  *)
(* the tuples without taking that lock.  One report is outstanding.        *)
(***************************************************************************)
EXTENDS Integers, Sequences

CONSTANTS Tuples,      \* slowReportTuple
          PidUrl,      \* getPidUrl of each
          MaxAdds,     \* bounds on the traces added, the collections
          MaxCollections

VARIABLES metrics,     \* the slowReportMetrics made
          current,     \* SignalCache.metrics: the index of each tuple's metric, 0 if none
          adding,      \* addSignal
          query,       \* querySilentSwitches
          collect,     \* collectCountMetrics
          uncounted,   \* history: per tuple, traces added, less those StoreReportMetric
                       \* counted, less those added to a metric already collected
          adds,        \* history: how many traces were added
          closed,      \* history: urls the agent was told to close and not to recover
          forgotten,   \* history: urls a Closing metric of which was collected
          wrong,       \* history: an url was recovered that was not closed, or is silent
          collections  \* history: how many there were

vars == <<metrics, current, adding, query, collect, uncounted, adds,
          closed, forgotten, wrong, collections>>

Idle == [pc |-> "idle"]
NewMetric == [total |-> 0, success |-> 0, status |-> "Init"]

Init == /\ metrics = <<>> /\ current = [t \in Tuples |-> 0]
        /\ adding = Idle /\ query = Idle /\ collect = Idle
        /\ uncounted = [t \in Tuples |-> 0] /\ adds = 0
        /\ closed = {} /\ forgotten = {} /\ wrong = FALSE /\ collections = 0

-----------------------------------------------------------------------------
(* addSignal, with the mutex held                                          *)

AddSignal(t, isProfiled) ==
  /\ adding.pc = "idle" /\ adds < MaxAdds /\ adds' = adds + 1
  /\ uncounted' = [uncounted EXCEPT ![t] = @ + 1]
  /\ IF current[t] = 0
     THEN metrics' = Append(metrics, NewMetric) /\ current' = [current EXCEPT ![t] = Len(metrics')]
     ELSE UNCHANGED <<metrics, current>>
  /\ adding' = [pc |-> "total", tuple |-> t, metric |-> current'[t], success |-> isProfiled]
  /\ UNCHANGED <<query, collect, closed, forgotten, wrong, collections>>

\* A metric that was read by the collection, or is no longer there, counts in vain.
InVain == \/ adding.metric # current[adding.tuple]
          \/ collect.pc = "delete" /\ collect.tuple = adding.tuple

AddTotal ==
  /\ adding.pc = "total"
  /\ metrics' = [metrics EXCEPT ![adding.metric].total = @ + 1]
  /\ uncounted' = IF InVain THEN [uncounted EXCEPT ![adding.tuple] = @ - 1] ELSE uncounted
  /\ adding' = [adding EXCEPT !.pc = IF adding.success THEN "success" ELSE "idle"]
  /\ UNCHANGED <<current, query, collect, adds, closed, forgotten, wrong, collections>>

AddSuccess ==
  /\ adding.pc = "success"
  /\ metrics' = [metrics EXCEPT ![adding.metric].success = @ + 1]
  /\ adding' = Idle
  /\ UNCHANGED <<current, query, collect, uncounted, adds, closed, forgotten, wrong, collections>>

-----------------------------------------------------------------------------
(* querySilentSwitches                                                     *)

QuerySilentSwitches ==
  /\ query.pc = "idle"
  /\ query' = [pc |-> "range", todo |-> {t \in Tuples : current[t] # 0},
               tuple |-> 0, metric |-> 0, close |-> {}, recover |-> {}, silent |-> {}]
  /\ UNCHANGED <<metrics, current, adding, collect, uncounted, adds, closed, forgotten, wrong, collections>>

\* checkStatus
Status(m) ==
  CASE m.status = "Init" /\ m.total > 0 /\ m.success = 0 -> "Closing"
    [] m.status = "Init" /\ m.total > 0 /\ m.success > 0 -> "Finished"
    [] m.status = "Closing" /\ m.success > 0 -> "Finished"
    [] OTHER -> m.status

If(condition, url) == IF condition THEN {url} ELSE {}

\* Range takes the metric of a tuple, which may be collected before it is checked.
Visit(t) ==
  /\ query.pc = "range" /\ t \in query.todo
  /\ query' = [query EXCEPT !.todo = @ \ {t}, !.pc = IF current[t] = 0 THEN "range" ELSE "check",
                            !.tuple = t, !.metric = current[t]]
  /\ UNCHANGED <<metrics, current, adding, collect, uncounted, adds, closed, forgotten, wrong, collections>>

CheckStatus ==
  /\ query.pc = "check"
  /\ LET url == PidUrl[query.tuple]
         m == metrics[query.metric]
         next == Status(m)
     IN  /\ metrics' = [metrics EXCEPT ![query.metric].status = next]
         /\ query' = [query EXCEPT
              !.pc = "range",
              !.close = @ \cup If(m.status = "Init" /\ next = "Closing", url),
              !.recover = @ \cup If(m.status = "Closing" /\ next = "Finished", url),
              !.silent = @ \cup If(next = "Closing", url)]
         /\ forgotten' = forgotten \cup If(next = "Closing" /\ current[query.tuple] # query.metric, url)
  /\ UNCHANGED <<current, adding, collect, uncounted, adds, closed, wrong, collections>>

\* (slip: an url that is still silent is recovered)
RecoverSlip(q) == q.recover
Recover(q) == q.recover \ q.silent

AnswerSwitches ==
  /\ query.pc = "range" /\ query.todo = {}
  /\ closed' = (closed \cup query.close) \ Recover(query)
  /\ wrong' = (wrong \/ Recover(query) \cap query.silent # {} \/ ~(Recover(query) \subseteq closed))
  /\ query' = Idle
  /\ UNCHANGED <<metrics, current, adding, collect, uncounted, adds, forgotten, collections>>

-----------------------------------------------------------------------------
(* collectCountMetrics: each tuple is read, then deleted                   *)

CollectMetrics ==
  /\ collect.pc = "idle"
  /\ collect' = [pc |-> "range", todo |-> {t \in Tuples : current[t] # 0}]
  /\ collect'.todo # {}
  /\ collections < MaxCollections /\ collections' = collections + 1
  /\ UNCHANGED <<metrics, current, adding, query, uncounted, adds, closed, forgotten, wrong>>

ReadCounts(t) ==
  /\ collect.pc = "range" /\ t \in collect.todo
  /\ uncounted' = [uncounted EXCEPT ![t] = @ - metrics[current[t]].total]
  /\ collect' = [pc |-> "delete", todo |-> collect.todo \ {t}, tuple |-> t]
  /\ UNCHANGED <<metrics, current, adding, query, adds, closed, forgotten, wrong, collections>>

\* (slip: only a metric that has counts is deleted, and reset)
DeletedSlip(t) == IF metrics[current[t]].total = 0 THEN [current EXCEPT ![t] = 0] ELSE current
Deleted(t) == [current EXCEPT ![t] = 0]

DeleteMetric ==
  /\ collect.pc = "delete"
  /\ LET t == collect.tuple
     IN  /\ current' = Deleted(t)
         /\ forgotten' = forgotten \cup If(metrics[current[t]].status = "Closing", PidUrl[t])
  /\ collect' = [pc |-> "range", todo |-> collect.todo]
  /\ UNCHANGED <<metrics, adding, query, uncounted, adds, closed, wrong, collections>>

EndCollection ==
  /\ collect.pc = "range" /\ collect.todo = {}
  /\ collect' = Idle
  /\ UNCHANGED <<metrics, current, adding, query, uncounted, adds, closed, forgotten, wrong, collections>>

Next == \/ \E t \in Tuples : \/ \E p \in BOOLEAN : AddSignal(t, p)
                             \/ Visit(t) \/ ReadCounts(t)
        \/ CheckStatus \/ AddTotal \/ AddSuccess \/ QuerySilentSwitches \/ AnswerSwitches
        \/ CollectMetrics \/ DeleteMetric \/ EndCollection
Spec == Init /\ [][Next]_vars

-----------------------------------------------------------------------------
Live(t) == IF current[t] = 0 \/ (collect.pc = "delete" /\ collect.tuple = t) THEN 0
           ELSE metrics[current[t]].total
Pending(t) == IF adding.pc = "total" /\ adding.tuple = t THEN 1 ELSE 0
Closing(url) == \E t \in Tuples : PidUrl[t] = url /\ current[t] # 0 /\ metrics[current[t]].status = "Closing"

\* An agent is told to resume an url only if it was told to stop it and no tuple of
\* the url is still silent; and an url it was told to stop has a tuple that will
\* tell when to resume, unless the minute's collection forgot that (checkStatus,
\* querySilentSwitches, collectCountMetrics).
SwitchesPaired ==
  /\ ~wrong
  /\ query.pc = "idle" => \A url \in closed : Closing(url) \/ url \in forgotten

\* Every slow trace is reported once in the count of its tuple, but for those that
\* were added while the tuple was collected (addSignal, collectCountMetrics).
CountsReported ==
  \A t \in Tuples : uncounted[t] = Live(t) + Pending(t)
=============================================================================
