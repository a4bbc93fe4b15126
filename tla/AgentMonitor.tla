---------------------------- MODULE AgentMonitor ----------------------------
(***************************************************************************)
(* Event counters of the eBPF agents (agent_monitor_server.go): an agent   *)
(* reports its running totals, and every five minutes a statistic adds up  *)
(* what each agent counted since the last one and alarms about agents      *)
(* whose totals stand still.  Both load an entry of monitorIds and store a *)
(* new one in two steps.  An agent that restarts counts from 0 again; the  *)
(* differences are unsigned.                                               *)
(*                                                                         *)
(* The queries to Prometheus and the messages to DingTalk only matter for  *)
(* whether the request is refused: failing messages are logged.  CPU and   *)
(* memory readings are carried along and left out.                         *)
(***************************************************************************)
EXTENDS Naturals, FiniteSets, Functions

CONSTANTS Agents, MaxTotal, Width,   \* bounds: an agent's total, unsigned differences
          Period                     \* the minutes a summary averages over: 5

VARIABLES total,       \* external: the agent's own counter
          report,     \* SendAgentMonitorMetric: idle, or loaded with the old entry
          monitorIds,  \* reported agents: the last total counted from, the last reported
          statistic,   \* doStatistic: idle, or the agents still to visit and the sum
          summary,     \* the last summary
          counted,     \* history: events of each agent added to any sum
          first,       \* history: the total the agent reported first
          fell         \* history: agents that restarted

vars == <<total, report, monitorIds, statistic, summary, counted, first, fell>>

Idle == [pc |-> "idle"]
Unknown == [known |-> FALSE]
Entry(pre, now) == [known |-> TRUE, preEvtNum |-> pre, nowEvtNum |-> now]

Difference(entry) == (entry.nowEvtNum + Width - entry.preEvtNum) % Width

Average(sum, count) == IF count = 0 THEN 0 ELSE sum \div count

Init == /\ total = [a \in Agents |-> 0]
        /\ report = [a \in Agents |-> Idle]
        /\ monitorIds = [a \in Agents |-> Unknown]
        /\ statistic = Idle
        /\ summary = [valid |-> 0, perMinute |-> 0]
        /\ counted = [a \in Agents |-> 0]
        /\ first = [a \in Agents |-> 0]
        /\ fell = {}

-----------------------------------------------------------------------------
(* external: the agent *)

Count(a) ==
  /\ total[a] < MaxTotal
  /\ total' = [total EXCEPT ![a] = @ + 1]
  /\ UNCHANGED <<report, monitorIds, statistic, summary, counted, first, fell>>

Restart(a) ==
  /\ total[a] > 0 /\ a \notin fell
  /\ total' = [total EXCEPT ![a] = 0]
  /\ fell' = fell \cup {a}
  /\ UNCHANGED <<report, monitorIds, statistic, summary, counted, first>>

-----------------------------------------------------------------------------
(* SendAgentMonitorMetric; an agent sends its reports one after the other. *)

\* A report whose CPU query fails is refused before anything is loaded.
Load(a) ==
  /\ report[a].pc = "idle"
  /\ report' = [report EXCEPT ![a] = [pc |-> "loaded", evtNum |-> total[a], old |-> monitorIds[a]]]
  /\ UNCHANGED <<total, monitorIds, statistic, summary, counted, first, fell>>

\* A new agent starts at its own total: nothing is counted from its first report.
Store(a) ==
  /\ report[a].pc = "loaded"
  /\ LET r == report[a]
     IN  /\ monitorIds' = [monitorIds EXCEPT ![a] =
              IF r.old.known THEN Entry(r.old.nowEvtNum, r.evtNum) ELSE Entry(r.evtNum, r.evtNum)]
         /\ first' = IF r.old.known THEN first ELSE [first EXCEPT ![a] = r.evtNum]
  /\ report' = [report EXCEPT ![a] = Idle]
  /\ UNCHANGED <<total, statistic, summary, counted, fell>>

-----------------------------------------------------------------------------
(* doStatistic: a Range over monitorIds, then a summary.                   *)

StartStatistic ==
  /\ statistic.pc = "idle"
  /\ statistic' = [pc |-> "range", todo |-> Agents, sum |-> 0, valid |-> 0]
  /\ UNCHANGED <<total, report, monitorIds, summary, counted, first, fell>>

Visit(a) ==
  /\ statistic.pc = "range" /\ a \in statistic.todo
  /\ statistic' = IF monitorIds[a].known
                  THEN [pc |-> "visit", todo |-> statistic.todo \ {a}, sum |-> statistic.sum,
                        valid |-> statistic.valid, agent |-> a, entry |-> monitorIds[a]]
                  ELSE [statistic EXCEPT !.todo = @ \ {a}]
  /\ UNCHANGED <<total, report, monitorIds, summary, counted, first, fell>>

AfterVisit(events) ==
  [pc |-> "range", todo |-> statistic.todo, sum |-> statistic.sum + events,
   valid |-> IF events > 0 THEN statistic.valid + 1 ELSE statistic.valid]

\* (slip: what was counted is not taken off the entry)
CountedEntrySlip(entry) == entry
CountedEntry(entry) == Entry(entry.nowEvtNum, entry.nowEvtNum)

\* Growth is added up and the entry stored back as counted; it may overwrite
\* a report that arrived since Visit.
Tally ==
  /\ statistic.pc = "visit" /\ Difference(statistic.entry) > 0
  /\ LET a == statistic.agent
         events == Difference(statistic.entry)
     IN  /\ statistic' = AfterVisit(events)
         /\ monitorIds' = [monitorIds EXCEPT ![a] = CountedEntry(statistic.entry)]
         /\ counted' = [counted EXCEPT ![a] = IF a \in fell THEN 0 ELSE @ + events]
  /\ UNCHANGED <<total, report, summary, first, fell>>

\* An agent that stands still: only a message.
Alarm ==
  /\ statistic.pc = "visit" /\ Difference(statistic.entry) = 0
  /\ statistic' = AfterVisit(0)
  /\ UNCHANGED <<total, report, monitorIds, summary, counted, first, fell>>

Summarize ==
  /\ statistic.pc = "range" /\ statistic.todo = {}
  /\ summary' = [valid |-> statistic.valid, perMinute |-> Average(statistic.sum, Period)]
  /\ statistic' = Idle
  /\ UNCHANGED <<total, report, monitorIds, counted, first, fell>>

Next == \/ \E a \in Agents : Count(a) \/ Restart(a) \/ Load(a) \/ Store(a) \/ Visit(a)
        \/ StartStatistic \/ Tally \/ Alarm \/ Summarize
Spec == Init /\ [][Next]_vars

-----------------------------------------------------------------------------
TypeOK ==
  /\ \A a \in Agents : monitorIds[a] \in {Unknown} \cup {Entry(p, n) : p, n \in 0 .. MaxTotal}
  /\ statistic.pc = "idle" \/ statistic.todo \subseteq Agents
  /\ \A a \in Agents : report[a] = Idle \/ report[a].evtNum \in 0 .. MaxTotal

\* However reports and statistics overtake each other, no event of an agent that
\* has not restarted is counted twice: all sums together hold at most what the
\* agent reported beyond its first report (SendAgentMonitorMetric, doStatistic).
CountedOnce ==
  \A a \in Agents \ fell : counted[a] + first[a] <= total[a]
=============================================================================
