--------------------------- MODULE ServicesProofs ---------------------------
(***************************************************************************)
(* Theorems about the services, for any agents, URLs, requests, trees and  *)
(* spans.                                                                  *)
(***************************************************************************)
EXTENDS Services, SequenceFacts, FiniteSetTheorems, TLAPS

-----------------------------------------------------------------------------
(* AgentMonitor                                                            *)

\* What is left to count of an entry starts where the sums of agent a end.
Open(a, entry) == /\ entry.known
                  /\ entry.preEvtNum \in Nat /\ entry.nowEvtNum \in Nat
                  /\ first[a] + counted[a] <= entry.preEvtNum
                  /\ entry.preEvtNum <= entry.nowEvtNum
                  /\ entry.nowEvtNum <= total[a]

EntryOk(a) == monitorIds[a].known => Open(a, monitorIds[a])

\* A report that is under way knows the newest total: whatever it stores starts
\* after all that a statistic may have counted meanwhile.
ReportOk(a) ==
  report[a].pc = "loaded" =>
    /\ report[a].evtNum <= total[a]
    /\ report[a].old.known <=> monitorIds[a].known
    /\ report[a].old.known =>
         /\ report[a].old.nowEvtNum \in Nat
         /\ first[a] + counted[a] <= report[a].old.nowEvtNum
         /\ report[a].old.nowEvtNum <= report[a].evtNum
         /\ monitorIds[a].nowEvtNum <= report[a].old.nowEvtNum

\* A visited entry is counted once, and is no newer than what is stored.
VisitOk(a) ==
  statistic.pc = "visit" /\ statistic.agent = a =>
    /\ Open(a, statistic.entry)
    /\ monitorIds[a].known
    /\ statistic.entry.nowEvtNum <= monitorIds[a].nowEvtNum
    /\ report[a].pc = "loaded" => statistic.entry.nowEvtNum <= report[a].old.nowEvtNum

AgentOk(a) == /\ ~monitorIds[a].known => counted[a] = 0
              /\ first[a] + counted[a] <= total[a]
              /\ EntryOk(a) /\ ReportOk(a) /\ VisitOk(a)

AgentTypes ==
  /\ total \in [Agents -> 0 .. MaxTotal]
  /\ first \in [Agents -> Nat] /\ counted \in [Agents -> Nat]
  /\ DOMAIN report = Agents /\ DOMAIN monitorIds = Agents
  /\ \A a \in Agents : monitorIds[a].known \in BOOLEAN
  /\ fell \subseteq Agents
  /\ \A a \in Agents : report[a].pc = "loaded" => report[a].evtNum \in Nat
  /\ statistic.pc \in {"range", "visit"} => statistic.todo \subseteq Agents
  /\ statistic.pc = "visit" => statistic.agent \in Agents

AgentInv == AgentTypes /\ \A a \in Agents \ fell : AgentOk(a)

LEMMA DifferenceExact ==
  ASSUME NEW p \in Nat, NEW n \in Nat, p <= n, n < Width
  PROVE  A!Difference(A!Entry(p, n)) = n - p
<1>1. \A d \in Nat, w \in Nat : d < w => (d + w) % w = d
  OBVIOUS
<1> QED
  BY <1>1, ServicesAssumption DEF A!Difference, A!Entry

LEMMA AgentInitInv == A!Init => AgentInv
<1> SUFFICES ASSUME A!Init PROVE AgentInv
  OBVIOUS
<1> USE ServicesAssumption DEF A!Init, A!Idle, A!Unknown
<1>1. AgentTypes
  <2>1. total \in [Agents -> 0 .. MaxTotal] /\ first \in [Agents -> Nat] /\ counted \in [Agents -> Nat]
    OBVIOUS
  <2>2. statistic.pc = "idle"
    OBVIOUS
  <2>3. \A a \in Agents : monitorIds[a].known = FALSE
    OBVIOUS
  <2> QED
    BY <2>1, <2>2, <2>3 DEF AgentTypes
<1>2. ASSUME NEW a \in Agents PROVE AgentOk(a)
  BY DEF AgentOk, EntryOk, ReportOk, VisitOk
<1> QED
  BY <1>1, <1>2 DEF AgentInv

LEMMA AgentStepInv == AgentInv /\ [A!Next]_aVars => AgentInv'
<1> SUFFICES ASSUME AgentInv, [A!Next]_aVars PROVE AgentInv'
  OBVIOUS
<1>a. AgentTypes /\ \A a \in Agents \ fell : AgentOk(a)
  BY DEF AgentInv
<1> USE ServicesAssumption
<1>1. ASSUME NEW a \in Agents, A!Count(a) PROVE AgentInv'
  <2>1. AgentTypes'
    BY <1>1, <1>a DEF A!Count, AgentTypes
  <2>2. ASSUME NEW b \in Agents \ fell PROVE AgentOk(b)'
    <3>1. AgentOk(b) /\ total[b] <= total'[b] /\ total[b] \in Nat /\ total'[b] \in Nat
      BY <1>1, <1>a DEF A!Count, AgentTypes
    <3> QED
      BY <1>1, <1>a, <3>1
         DEF A!Count, AgentTypes, AgentOk, EntryOk, Open, ReportOk, VisitOk
  <2> QED
    BY <1>1, <2>1, <2>2 DEF A!Count, AgentInv
<1>2. ASSUME NEW a \in Agents, A!Restart(a) PROVE AgentInv'
  <2>1. AgentTypes'
    BY <1>2, <1>a DEF A!Restart, AgentTypes
  <2>2. ASSUME NEW b \in Agents \ fell' PROVE AgentOk(b)'
    <3>1. AgentOk(b) /\ total'[b] = total[b]
      BY <1>2, <1>a DEF A!Restart, AgentTypes
    <3> QED
      BY <1>2, <3>1 DEF A!Restart, AgentOk, EntryOk, Open, ReportOk, VisitOk
  <2> QED
    BY <2>1, <2>2 DEF AgentInv
<1>3. ASSUME NEW a \in Agents, A!Load(a) PROVE AgentInv'
  <2>1. AgentTypes'
    BY <1>3, <1>a DEF A!Load, AgentTypes
  <2>2. ASSUME NEW b \in Agents \ fell PROVE AgentOk(b)'
    <3>1. AgentOk(b) /\ total[b] \in Nat
      BY <1>a DEF AgentTypes
    <3>2. CASE b = a
      BY <1>3, <1>a, <3>1, <3>2
         DEF A!Load, AgentTypes, AgentOk, EntryOk, Open, ReportOk, VisitOk
    <3>3. CASE b /= a
      BY <1>3, <1>a, <3>1, <3>3
         DEF A!Load, AgentTypes, AgentOk, EntryOk, Open, ReportOk, VisitOk
    <3> QED
      BY <3>2, <3>3
  <2> QED
    BY <1>3, <2>1, <2>2 DEF A!Load, AgentInv
<1>4. ASSUME NEW a \in Agents, A!Store(a) PROVE AgentInv'
  <2> DEFINE r == report[a]
             e == IF r.old.known THEN A!Entry(r.old.nowEvtNum, r.evtNum) ELSE A!Entry(r.evtNum, r.evtNum)
  <2>1. /\ r.pc = "loaded" /\ report' = [report EXCEPT ![a] = A!Idle]
        /\ monitorIds' = [monitorIds EXCEPT ![a] = e]
        /\ first' = IF r.old.known THEN first ELSE [first EXCEPT ![a] = r.evtNum]
        /\ UNCHANGED <<total, statistic, counted, fell>>
    BY <1>4 DEF A!Store
  <2>2. e.known = TRUE /\ A!Idle.pc = "idle"
    BY DEF A!Entry, A!Idle
  <2> HIDE DEF e
  <2>3. AgentTypes'
    <3>1. first' \in [Agents -> Nat] /\ e.known \in BOOLEAN
      BY <1>a, <2>1, <2>2 DEF AgentTypes
    <3> QED
      BY <1>a, <2>1, <2>2, <3>1 DEF AgentTypes
  <2>4. ASSUME NEW b \in Agents \ fell, b /= a PROVE AgentOk(b)'
    BY <1>a, <2>1, <2>4 DEF AgentTypes, AgentOk, EntryOk, Open, ReportOk, VisitOk
  <2>5. ASSUME a \notin fell PROVE AgentOk(a)'
    <3>1. /\ AgentOk(a) /\ total[a] \in Nat /\ first[a] \in Nat /\ counted[a] \in Nat
          /\ r.evtNum \in Nat
      BY <1>a, <2>1, <2>5 DEF AgentTypes
    <3>2. /\ monitorIds'[a] = e /\ report'[a] = A!Idle
      BY <1>a, <2>1 DEF AgentTypes
    <3>3. CASE r.old.known
      <4>1. first' = first /\ e.preEvtNum = r.old.nowEvtNum /\ e.nowEvtNum = r.evtNum
        BY <2>1, <3>3 DEF e, A!Entry
      <4> QED
        BY <2>1, <2>2, <3>1, <3>2, <3>3, <4>1 DEF AgentOk, EntryOk, Open, ReportOk, VisitOk
    <3>4. CASE ~r.old.known
      <4>1. first'[a] = r.evtNum /\ e.preEvtNum = r.evtNum /\ e.nowEvtNum = r.evtNum
        BY <1>a, <2>1, <3>4 DEF e, A!Entry, AgentTypes
      <4> QED
        BY <2>1, <2>2, <3>1, <3>2, <3>4, <4>1 DEF AgentOk, EntryOk, Open, ReportOk, VisitOk
    <3> QED
      BY <3>3, <3>4
  <2> QED
    BY <2>1, <2>3, <2>4, <2>5 DEF AgentInv
<1>5. ASSUME NEW a \in Agents, A!Visit(a) PROVE AgentInv'
  <2>1. UNCHANGED <<total, report, monitorIds, counted, first, fell>>
    BY <1>5 DEF A!Visit
  <2>2. /\ statistic'.pc \in {"range", "visit"} /\ statistic'.todo \subseteq Agents
        /\ statistic'.pc = "visit" =>
              monitorIds[a].known /\ statistic'.agent = a /\ statistic'.entry = monitorIds[a]
    BY <1>5, <1>a DEF A!Visit, AgentTypes
  <2>3. AgentTypes'
    BY <1>a, <2>1, <2>2 DEF AgentTypes
  <2>4. ASSUME NEW b \in Agents \ fell PROVE AgentOk(b)'
    BY <1>a, <2>1, <2>2, <2>4 DEF AgentTypes, AgentOk, EntryOk, Open, ReportOk, VisitOk
  <2> QED
    BY <2>1, <2>3, <2>4 DEF AgentInv
<1>6. CASE A!StartStatistic \/ A!Alarm \/ A!Summarize
  <2>1. /\ UNCHANGED <<total, report, monitorIds, counted, first, fell>>
        /\ statistic'.pc \in {"idle", "range"}
        /\ statistic'.pc = "range" => statistic'.todo \subseteq Agents
    BY <1>6, <1>a DEF A!StartStatistic, A!Alarm, A!Summarize, A!AfterVisit, A!Idle, AgentTypes
  <2> QED
    BY <1>a, <2>1 DEF AgentInv, AgentTypes, AgentOk, EntryOk, Open, ReportOk, VisitOk
<1>7. CASE A!Tally
  <2>1. PICK a \in Agents : statistic.pc = "visit" /\ statistic.agent = a
    BY <1>7, <1>a DEF A!Tally, AgentTypes
  <2> DEFINE e == statistic.entry
             n == A!Difference(e)
             c == A!Entry(e.nowEvtNum, e.nowEvtNum)
  <2>2. /\ statistic'.pc = "range" /\ statistic'.todo \subseteq Agents
        /\ monitorIds' = [monitorIds EXCEPT ![a] = c]
        /\ counted' = [counted EXCEPT ![a] = IF a \in fell THEN 0 ELSE @ + n]
        /\ UNCHANGED <<total, report, first, fell>>
    BY <1>7, <1>a, <2>1 DEF A!Tally, A!AfterVisit, A!CountedEntry, AgentTypes
  <2>3. c.known = TRUE /\ c.preEvtNum = e.nowEvtNum /\ c.nowEvtNum = e.nowEvtNum
    BY DEF A!Entry
  <2>4. ASSUME a \notin fell PROVE n = e.nowEvtNum - e.preEvtNum /\ n \in Nat
    <3>1. Open(a, e) /\ total[a] \in 0 .. MaxTotal
      BY <1>a, <2>1, <2>4 DEF AgentTypes, AgentOk, VisitOk
    <3>2. A!Difference(e) = A!Difference(A!Entry(e.preEvtNum, e.nowEvtNum))
      BY DEF A!Difference, A!Entry
    <3>3. e.nowEvtNum < Width /\ first[a] + counted[a] \in Nat
      BY <1>a, <3>1 DEF Open, AgentTypes
    <3> QED
      BY <3>1, <3>2, <3>3, DifferenceExact DEF Open
  <2> HIDE DEF c, n
  <2>5. AgentTypes'
    <3>1. counted' \in [Agents -> Nat]
      BY <1>a, <2>1, <2>2, <2>4 DEF AgentTypes
    <3> QED
      BY <1>a, <2>1, <2>2, <2>3, <3>1 DEF AgentTypes
  <2>6. ASSUME NEW b \in Agents \ fell, b /= a PROVE AgentOk(b)'
    BY <1>a, <2>1, <2>2, <2>6 DEF AgentTypes, AgentOk, EntryOk, Open, ReportOk, VisitOk
  <2>7. ASSUME a \notin fell PROVE AgentOk(a)'
    <3>1. AgentOk(a) /\ total[a] \in Nat /\ first[a] \in Nat /\ counted[a] \in Nat
      BY <1>a, <2>1, <2>7 DEF AgentTypes
    <3>2. /\ monitorIds'[a] = c /\ counted'[a] = counted[a] + n
      BY <1>a, <2>1, <2>2, <2>7 DEF AgentTypes
    <3>3. /\ first[a] + counted'[a] <= e.nowEvtNum /\ first[a] + counted'[a] \in Nat
          /\ e.nowEvtNum \in Nat /\ e.nowEvtNum <= total[a]
      BY <2>1, <2>4, <2>7, <3>1, <3>2 DEF AgentOk, VisitOk, Open
    <3>4. EntryOk(a)' /\ VisitOk(a)'
      BY <2>2, <2>3, <3>1, <3>2, <3>3 DEF EntryOk, VisitOk, Open
    <3>5. ASSUME report[a].pc = "loaded"
          PROVE  /\ report[a].old.known /\ report[a].old.nowEvtNum \in Nat
                 /\ e.nowEvtNum <= report[a].old.nowEvtNum
                 /\ report[a].old.nowEvtNum <= report[a].evtNum
                 /\ report[a].evtNum <= total[a]
      BY <2>1, <3>1, <3>5 DEF AgentOk, ReportOk, VisitOk
    <3>6. ReportOk(a)'
      BY <2>2, <2>3, <3>2, <3>3, <3>5 DEF ReportOk
    <3>7. monitorIds'[a].known /\ first'[a] + counted'[a] <= total'[a]
      BY <2>2, <2>3, <3>1, <3>2, <3>3
    <3> QED
      BY <3>4, <3>6, <3>7 DEF AgentOk
  <2> QED
    BY <2>2, <2>5, <2>6, <2>7 DEF AgentInv
<1>10. CASE UNCHANGED aVars
  BY <1>10, <1>a DEF aVars, AgentInv, AgentTypes, AgentOk, EntryOk, Open, ReportOk, VisitOk
<1> QED
  BY <1>1, <1>2, <1>3, <1>4, <1>5, <1>6, <1>7, <1>10 DEF A!Next

\* The services take turns: a step of one is a step or a stutter of each.
LEMMA StepOfEach ==
  ASSUME [Next]_vars
  PROVE  /\ [T!Next]_tVars /\ [A!Next]_aVars /\ [O!Next]_oVars
         /\ [E!Next]_eVars /\ [R!Next]_rVars /\ [X!Next]_xVars
BY DEF Next, vars

LEMMA SpecAgentInv == Spec => []AgentInv
<1>1. Init => AgentInv
  BY AgentInitInv DEF Init
<1>2. AgentInv /\ [Next]_vars => AgentInv'
  BY AgentStepInv, StepOfEach
<1> QED
  BY <1>1, <1>2, PTL DEF Spec

\* No event of an agent that has not restarted is ever counted twice, in whatever
\* order reports and statistics load and store the entries they share.
THEOREM CountedOnceTheorem == Spec => []CountedOnce
<1>1. AgentInv => CountedOnce
  <2> SUFFICES ASSUME AgentInv, NEW a \in Agents \ fell PROVE counted[a] + first[a] <= total[a]
    BY DEF CountedOnce, A!CountedOnce
  <2> QED
    BY DEF AgentInv, AgentTypes, AgentOk
<1> QED
  BY <1>1, SpecAgentInv, PTL

-----------------------------------------------------------------------------
(* EbpfFile                                                                *)

Writing(q) == request[q].pc = "writing"

\* The file is cut only while it is written or after a failure, and what a request
\* is about to write is cut only after a failure.
FileInv ==
  /\ DOMAIN request = Requests /\ DOMAIN response = Requests
  /\ file = "cut" => damaged \/ \E q \in Requests : Writing(q)
  /\ \A r \in Requests :
        request[r].pc \in {"write", "writing"} /\ request[r].content = "cut" => damaged

LEMMA FileInitInv == E!Init => FileInv
BY DEF E!Init, E!Idle, FileInv

LEMMA FileStepInv == FileInv /\ [E!Next]_eVars => FileInv'
<1> SUFFICES ASSUME FileInv, [E!Next]_eVars PROVE FileInv'
  OBVIOUS
<1> USE DEF FileInv, Writing, E!Goto, E!Idle
<1>1. ASSUME NEW r \in Requests, NEW version, E!Stat(r, version) PROVE FileInv'
  BY <1>1 DEF E!Stat
<1>2. ASSUME NEW r \in Requests, NEW content, E!Fetched(r, content) PROVE FileInv'
  BY <1>2 DEF E!Fetched
<1>3. ASSUME NEW r \in Requests, E!Read(r) PROVE FileInv'
  BY <1>3 DEF E!Read
<1>4. ASSUME NEW r \in Requests, E!FetchFails(r) PROVE FileInv'
  <2>1. CASE request[r].version = "v1"
    BY <1>4, <2>1 DEF E!FetchFails
  <2>2. CASE request[r].version # "v1"
    <3>1. /\ request' = [request EXCEPT ![r] = E!Idle] /\ DOMAIN response' = Requests
          /\ request[r].pc = "fetch" /\ UNCHANGED <<file, damaged>>
      BY <1>4, <2>2 DEF E!FetchFails
    <3>2. /\ \A q \in Requests \ {r} : request'[q] = request[q]
          /\ request'[r].pc = "idle"
      BY <3>1
    <3> QED
      BY <3>1, <3>2
  <2> QED
    BY <2>1, <2>2
<1>5. ASSUME NEW r \in Requests, E!CannotWrite(r) PROVE FileInv'
  BY <1>5 DEF E!CannotWrite
<1>6. ASSUME NEW r \in Requests, E!Truncate(r) PROVE FileInv'
  BY <1>6 DEF E!Truncate
<1>7. ASSUME NEW r \in Requests, E!Write(r) PROVE FileInv'
  BY <1>7 DEF E!Write
<1>8. ASSUME NEW r \in Requests, E!WriteFails(r) PROVE FileInv'
  BY <1>8 DEF E!WriteFails
<1>9. CASE E!Restart
  BY <1>9 DEF E!Restart
<1>10. ASSUME NEW r \in Requests, E!Ask(r) PROVE FileInv'
  BY <1>10 DEF E!Ask
<1>11. CASE UNCHANGED eVars
  BY <1>11 DEF eVars
<1> QED
  BY <1>1, <1>2, <1>3, <1>4, <1>5, <1>6, <1>7, <1>8, <1>9, <1>10, <1>11 DEF E!Next, E!GetFile

LEMMA SpecFileInv == Spec => []FileInv
<1>1. Init => FileInv
  BY FileInitInv DEF Init
<1>2. FileInv /\ [Next]_vars => FileInv'
  BY FileStepInv, StepOfEach
<1> QED
  BY <1>1, <1>2, PTL DEF Spec

ServedWhole ==
  \A r \in Requests :
    response'[r] = "cut" /\ response[r] # "cut" =>
      damaged \/ \E q \in Requests : request[q].pc = "writing" /\ q # r

\* However many requests download the program at once and wherever the receiver
\* stops, an agent is served a cut program only while another request writes it,
\* or after a failure.
THEOREM WholeUnlessWritingTheorem == Spec => WholeUnlessWriting
<1>1. FileInv /\ [Next]_vars => [ServedWhole]_eVars
  <2> SUFFICES ASSUME FileInv, E!Next, NEW s \in Requests,
                      response'[s] = "cut", response[s] # "cut"
               PROVE  damaged \/ \E q \in Requests : Writing(q) /\ q # s
    BY StepOfEach DEF ServedWhole, Writing
  <2> USE DEF FileInv, E!Goto
  <2>1. ASSUME NEW r \in Requests, E!Read(r) PROVE damaged \/ \E q \in Requests : Writing(q) /\ q # s
    <3>1. s = r /\ file = "cut" /\ request[r].pc = "read"
      BY <2>1 DEF E!Read
    <3> QED
      BY <3>1 DEF Writing
  <2>2. ASSUME NEW r \in Requests, E!Write(r) PROVE damaged
    <3>1. s = r /\ request[r].content = "cut" /\ request[r].pc = "writing"
      BY <2>2 DEF E!Write
    <3> QED
      BY <3>1
  <2>3. ASSUME NEW r \in Requests,
               E!FetchFails(r) \/ E!CannotWrite(r) \/ E!WriteFails(r) \/ E!Ask(r)
        PROVE  FALSE
    <3>1. \E answer \in {"no file", "error", "none"} :
            response' = [response EXCEPT ![r] = answer] \/ UNCHANGED response
      BY <2>3 DEF E!FetchFails, E!CannotWrite, E!WriteFails, E!Ask
    <3> QED
      BY <3>1
  <2>4. ASSUME UNCHANGED response PROVE FALSE
    BY <2>4
  <2> QED
    BY <2>1, <2>2, <2>3, <2>4 DEF E!Next, E!GetFile, E!Restart, E!Stat, E!Fetched, E!Truncate
<1>2. [][ServedWhole]_eVars => WholeUnlessWriting
  BY PTL DEF WholeUnlessWriting, E!WholeUnlessWriting, ServedWhole, eVars, E!vars
<1> QED
  BY <1>1, <1>2, SpecFileInv, PTL DEF Spec

-----------------------------------------------------------------------------
(* Thresholds                                                              *)

UnderWay(u) == \E h \in Handlers : handler[h].pc # "idle" /\ handler[h].uri = u

\* The configuration last set for u is what map has for it, if it has anything.
Honours(map, u) ==
  u \in DOMAIN map /\ target[u] # T!Unset /\ ~UnderWay(u)
    => map[u] = T!GetSlowThresholdFromSLOs(target[u])

ThresholdTypes ==
  /\ DOMAIN target = Uris /\ DOMAIN handler = Handlers
  /\ \A h \in Handlers : handler[h].pc = "added" => handler[h].uri \in Uris
  /\ \A h \in Handlers : handler[h].pc \in {"idle", "added"}
  /\ refresh.pc \in {"idle", "yesterday", "lastHour"}
  /\ refresh.pc # "idle" => refresh.isInit \in BOOLEAN /\ refresh.todo \subseteq Uris
  /\ refresh.pc # "idle" => DOMAIN refresh.result \subseteq Uris
  /\ DOMAIN current \subseteq Uris

\* The first refresh runs before any request is served.
StartInv ==
  refresh.pc # "idle" /\ refresh.isInit =>
    (\A h \in Handlers : handler[h].pc = "idle") /\ (\A u \in Uris : target[u] = T!Unset)

CurrentInv == \A u \in DOMAIN current \ overridden : Honours(current, u)

\* The result of a refresh honours the configurations that were set before the
\* refresh read the map or the library; at midnight it is independent of the map.
RefreshInv ==
  refresh.pc # "idle" =>
    \A u \in DOMAIN refresh.result \ missed :
       refresh.pc = "yesterday" \/ u \notin overridden => Honours(refresh.result, u)

\* A refresh of the last hour starts from the map.
CopyInv ==
  refresh.pc = "lastHour" =>
    \A u \in DOMAIN current \ missed :
       u \in DOMAIN refresh.result /\ refresh.result[u] = current[u]

ThresholdInv == ThresholdTypes /\ StartInv /\ CurrentInv /\ RefreshInv /\ CopyInv

LEMMA ThresholdInitInv == T!Init => ThresholdInv
<1> SUFFICES ASSUME T!Init PROVE ThresholdInv
  OBVIOUS
<1> USE DEF T!Init, T!Idle
<1>1. /\ refresh.pc = "yesterday" /\ refresh.isInit = TRUE
      /\ refresh.todo \subseteq Uris /\ refresh.result = <<>>
  OBVIOUS
<1>2. \A h \in Handlers : handler[h].pc = "idle"
  OBVIOUS
<1>3. DOMAIN current = {} /\ DOMAIN refresh.result = {}
  BY <1>1
<1>4. ThresholdTypes
  BY <1>1, <1>2, <1>3 DEF ThresholdTypes
<1>5. StartInv /\ CurrentInv /\ RefreshInv /\ CopyInv
  BY <1>1, <1>2, <1>3 DEF StartInv, CurrentInv, RefreshInv, CopyInv
<1> QED
  BY <1>4, <1>5 DEF ThresholdInv

\* What a step of the refresh writes into its result honours the library.
LEMMA StoreHonours ==
  ASSUME NEW u \in Uris, NEW map, NEW default, NEW v \in Uris,
         v # u => Honours(map, v),
         NEW new, new = T!Extend(map, u, T!GetSlowThresholdFromSLOs(T!GetSLOConfigOrDefault(u, default)))
  PROVE  Honours(new, v)
BY DEF Honours, T!GetSLOConfigOrDefault, T!Extend

LEMMA ThresholdStepInv == ThresholdInv /\ [T!Next]_tVars => ThresholdInv'
<1> SUFFICES ASSUME ThresholdInv, [T!Next]_tVars PROVE ThresholdInv'
  OBVIOUS
<1>a. ThresholdTypes /\ StartInv /\ CurrentInv /\ RefreshInv /\ CopyInv
  BY DEF ThresholdInv
<1>1. ASSUME NEW entries \in SUBSET Uris, T!BeginMidnight(entries) PROVE ThresholdInv'
  <2>1. /\ refresh'.pc = "yesterday" /\ refresh'.isInit = FALSE
        /\ refresh'.todo = entries /\ refresh'.result = <<>> /\ DOMAIN refresh'.result = {}
        /\ UNCHANGED <<current, target, handler, overridden>>
    BY <1>1 DEF T!BeginMidnight
  <2> QED
    BY <1>a, <2>1
       DEF ThresholdInv, ThresholdTypes, StartInv, CurrentInv, RefreshInv, CopyInv, Honours, UnderWay
<1>2. ASSUME NEW u \in Uris, NEW default, T!StoreYesterday(u, default) PROVE ThresholdInv'
  <2> DEFINE new == T!Extend(refresh.result, u, T!GetSlowThresholdFromSLOs(T!GetSLOConfigOrDefault(u, default)))
  <2>1. /\ refresh.pc = "yesterday" /\ refresh'.pc = "yesterday" /\ refresh'.isInit = refresh.isInit
        /\ refresh'.todo \subseteq Uris /\ refresh'.result = new
        /\ UNCHANGED <<current, target, handler, missed, overridden>>
    BY <1>2, <1>a DEF T!StoreYesterday, ThresholdTypes
  <2>2. DOMAIN new = DOMAIN refresh.result \cup {u}
    BY DEF T!Extend
  <2> HIDE DEF new
  <2>3. ThresholdTypes' /\ StartInv' /\ CopyInv' /\ CurrentInv'
    BY <1>a, <2>1, <2>2 DEF ThresholdTypes, StartInv, CopyInv, CurrentInv, Honours, UnderWay
  <2>4. ASSUME NEW v \in DOMAIN new \ missed PROVE Honours(new, v)
    BY <1>a, <2>1, <2>2, <2>4, StoreHonours DEF new, RefreshInv, ThresholdTypes
  <2>5. RefreshInv'
    BY <2>1, <2>4 DEF RefreshInv, Honours, UnderWay
  <2> QED
    BY <2>3, <2>5 DEF ThresholdInv
<1>3. ASSUME NEW entries \in SUBSET Uris, T!ListLastHour(entries) PROVE ThresholdInv'
  <2> DEFINE result == IF refresh.pc = "idle" THEN <<>> ELSE refresh.result
             merged == [u \in DOMAIN result \cup DOMAIN current |->
                          IF u \in DOMAIN current THEN current[u] ELSE result[u]]
  <2>1. /\ refresh.pc = "idle" \/ (refresh.pc = "yesterday" /\ refresh.isInit)
        /\ refresh'.pc = "lastHour" /\ (refresh'.isInit <=> refresh.pc # "idle")
        /\ refresh'.isInit \in BOOLEAN
        /\ refresh'.todo = entries /\ refresh'.result = merged
        /\ UNCHANGED <<current, target, handler, overridden>>
    BY <1>3 DEF T!ListLastHour
  <2>2. DOMAIN result \subseteq Uris /\ (refresh.pc = "idle" => DOMAIN result = {})
    BY <1>a DEF ThresholdTypes
  <2>3. /\ DOMAIN merged = DOMAIN result \cup DOMAIN current
        /\ \A u \in DOMAIN current : merged[u] = current[u]
    OBVIOUS
  <2> HIDE DEF merged
  <2>4. ThresholdTypes'
    BY <1>a, <2>1, <2>2, <2>3 DEF ThresholdTypes
  <2>5. StartInv' /\ CurrentInv' /\ CopyInv'
    BY <1>a, <2>1, <2>3 DEF StartInv, CurrentInv, CopyInv, Honours, UnderWay
  <2>6. RefreshInv'
    <3> SUFFICES ASSUME NEW u \in DOMAIN merged, u \notin overridden
                 PROVE  Honours(merged, u)
      BY <2>1 DEF RefreshInv, Honours, UnderWay
    <3>1. CASE refresh.pc = "idle"
      BY <1>a, <2>2, <2>3, <3>1 DEF CurrentInv, Honours
    <3>2. CASE refresh.pc # "idle"
      BY <1>a, <2>1, <2>2, <2>3, <3>2 DEF StartInv, Honours, ThresholdTypes
    <3> QED
      BY <3>1, <3>2
  <2> QED
    BY <2>4, <2>5, <2>6 DEF ThresholdInv
<1>4. CASE T!ListFails
  <2>1. refresh'.pc = "idle" /\ UNCHANGED <<current, target, handler, missed, overridden>>
    BY <1>4 DEF T!ListFails, T!Idle
  <2> QED
    BY <1>a, <2>1
       DEF ThresholdInv, ThresholdTypes, StartInv, CurrentInv, RefreshInv, CopyInv, Honours, UnderWay
<1>5. ASSUME NEW u \in Uris, NEW default, T!StoreLastHour(u, default) PROVE ThresholdInv'
  <2> DEFINE new == T!Extend(refresh.result, u, T!GetSlowThresholdFromSLOs(T!GetSLOConfigOrDefault(u, default)))
  <2>1. /\ refresh.pc = "lastHour" /\ refresh'.pc = "lastHour" /\ refresh'.isInit = refresh.isInit
        /\ refresh'.todo \subseteq Uris
        /\ refresh'.result = IF u \in DOMAIN refresh.result THEN refresh.result ELSE new
        /\ UNCHANGED <<current, target, handler, missed, overridden>>
    BY <1>5, <1>a DEF T!StoreLastHour, T!Known, ThresholdTypes
  <2>2. /\ DOMAIN new = DOMAIN refresh.result \cup {u}
        /\ \A v \in DOMAIN refresh.result : v # u => new[v] = refresh.result[v]
    BY DEF T!Extend
  <2> HIDE DEF new
  <2>3. ThresholdTypes' /\ StartInv' /\ CopyInv' /\ CurrentInv'
    BY <1>a, <2>1, <2>2 DEF ThresholdTypes, StartInv, CopyInv, CurrentInv, Honours, UnderWay
  <2>4. ASSUME NEW v \in DOMAIN new \ missed, v \notin overridden PROVE Honours(new, v)
    BY <1>a, <2>1, <2>2, <2>4, StoreHonours DEF new, RefreshInv, ThresholdTypes
  <2>5. RefreshInv'
    BY <1>a, <2>1, <2>4 DEF RefreshInv, Honours, UnderWay
  <2> QED
    BY <2>3, <2>5 DEF ThresholdInv
<1>6. CASE T!Install
  <2>1. /\ refresh.pc = "lastHour" \/ (refresh.pc = "yesterday" /\ ~refresh.isInit)
        /\ current' = refresh.result /\ refresh'.pc = "idle"
        /\ overridden' = IF refresh.pc = "yesterday" THEN missed ELSE overridden \cup missed
        /\ UNCHANGED <<target, handler, missed>>
    BY <1>6 DEF T!Install, T!Idle
  <2>2. CurrentInv'
    BY <1>a, <2>1 DEF RefreshInv, CurrentInv, Honours, UnderWay
  <2>3. ThresholdTypes' /\ StartInv' /\ RefreshInv' /\ CopyInv'
    BY <1>a, <2>1 DEF ThresholdTypes, StartInv, RefreshInv, CopyInv
  <2> QED
    BY <2>2, <2>3 DEF ThresholdInv
<1>7. ASSUME NEW h \in Handlers, NEW u \in Uris, NEW configs, T!AddOrUpdateSLOTarget(h, u, configs)
      PROVE  ThresholdInv'
  <2>1. /\ handler[h].pc = "idle" /\ ~(refresh.pc # "idle" /\ refresh.isInit)
        /\ handler'[h].pc = "added" /\ handler'[h].uri = u
        /\ \A g \in Handlers \ {h} : handler'[g] = handler[g]
        /\ DOMAIN handler' = Handlers /\ DOMAIN target' = Uris
        /\ \A v \in Uris \ {u} : target'[v] = target[v]
        /\ UNCHANGED <<current, refresh, missed, overridden>>
    BY <1>7, <1>a DEF T!AddOrUpdateSLOTarget, ThresholdTypes
  <2>2. ThresholdTypes' /\ StartInv' /\ CopyInv'
    BY <1>a, <2>1 DEF ThresholdTypes, StartInv, CopyInv
  <2>3. UnderWay(u)' /\ \A v \in Uris \ {u} : UnderWay(v)' <=> UnderWay(v)
    BY <2>1 DEF UnderWay
  <2>4. CurrentInv' /\ RefreshInv'
    BY <1>a, <2>1, <2>3 DEF CurrentInv, RefreshInv, Honours, ThresholdTypes
  <2> QED
    BY <2>2, <2>4 DEF ThresholdInv
<1>8. ASSUME NEW h \in Handlers, T!UpdateThresholdConfig(h) PROVE ThresholdInv'
  <2>1. PICK u \in Uris : handler[h].pc = "added" /\ handler[h].uri = u
    BY <1>8, <1>a DEF T!UpdateThresholdConfig, ThresholdTypes
  <2> DEFINE configs == handler[h].configs
  <2>2. /\ handler'[h].pc = "idle" /\ DOMAIN handler' = Handlers
        /\ \A g \in Handlers \ {h} : handler'[g] = handler[g]
        /\ current' = T!Extend(current, u, T!GetSlowThresholdFromSLOs(configs))
        /\ missed' = missed \cup {u}
        /\ overridden' = IF configs = target[u] THEN overridden \ {u} ELSE overridden \cup {u}
        /\ UNCHANGED <<target, refresh>>
    BY <1>8, <1>a, <2>1 DEF T!UpdateThresholdConfig, T!Configured, T!Idle, ThresholdTypes
  <2>3. /\ DOMAIN current' = DOMAIN current \cup {u}
        /\ current'[u] = T!GetSlowThresholdFromSLOs(configs)
        /\ \A v \in DOMAIN current : v # u => current'[v] = current[v]
    BY <2>2 DEF T!Extend
  <2>4. ThresholdTypes' /\ StartInv' /\ CopyInv'
    BY <1>a, <2>1, <2>2, <2>3 DEF ThresholdTypes, StartInv, CopyInv
  <2>5. \A v \in Uris \ {u} : UnderWay(v)' <=> UnderWay(v)
    BY <2>1, <2>2 DEF UnderWay
  <2>6. RefreshInv'
    BY <1>a, <2>2, <2>5 DEF RefreshInv, Honours, ThresholdTypes
  <2>7. CurrentInv'
    BY <1>a, <2>2, <2>3, <2>5 DEF CurrentInv, Honours, ThresholdTypes
  <2> QED
    BY <2>4, <2>6, <2>7 DEF ThresholdInv
<1>9. CASE UNCHANGED tVars
  BY <1>a, <1>9 DEF tVars, ThresholdInv, ThresholdTypes, StartInv, CurrentInv, RefreshInv,
                    CopyInv, Honours, UnderWay
<1> QED
  BY <1>1, <1>2, <1>3, <1>4, <1>5, <1>6, <1>7, <1>8, <1>9
     DEF T!Next, T!StoreAllSlowThreshold, T!SetSLOConfig

LEMMA SpecThresholdInv == Spec => []ThresholdInv
<1>1. Init => ThresholdInv
  BY ThresholdInitInv DEF Init
<1>2. ThresholdInv /\ [Next]_vars => ThresholdInv'
  BY ThresholdStepInv, StepOfEach
<1> QED
  BY <1>1, <1>2, PTL DEF Spec

\* A configuration is lost only by a refresh that had read the map or by a request
\* that crossed it: any other is what the map holds once its request is served.
THEOREM ConfigurationHonouredTheorem == Spec => []ConfigurationHonoured
<1>1. ThresholdInv => ConfigurationHonoured
  <2> SUFFICES ASSUME ThresholdInv, NEW u \in DOMAIN current \ overridden, target[u] # T!Unset,
                      \A h \in Handlers : handler[h].pc = "idle" \/ handler[h].uri # u
               PROVE  current[u] = T!GetSlowThresholdFromSLOs(target[u])
    BY DEF ConfigurationHonoured, T!ConfigurationHonoured
  <2> QED
    BY DEF ThresholdInv, CurrentInv, Honours, UnderWay
<1> QED
  BY <1>1, SpecThresholdInv, PTL

Kept == \A u \in DOMAIN current :
          \/ u \in DOMAIN current' /\ current'[u] = current[u]
          \/ u \in missed'
          \/ refresh.pc = "yesterday"

\* During a day no refresh changes a threshold that is installed, except one a
\* configuration overtook.
THEOREM KeptForTheDayTheorem == Spec => KeptForTheDay
<1>1. ThresholdInv /\ [Next]_vars => [Kept]_tVars
  <2> SUFFICES ASSUME ThresholdInv, T!Next PROVE Kept
    BY StepOfEach
  <2>1. CASE T!Install
    BY <2>1 DEF ThresholdInv, CopyInv, T!Install, Kept
  <2>2. ASSUME NEW h \in Handlers, T!UpdateThresholdConfig(h) PROVE Kept
    BY <2>2 DEF T!UpdateThresholdConfig, T!Configured, T!Extend, Kept
  <2>3. ASSUME UNCHANGED current PROVE Kept
    BY <2>3 DEF Kept
  <2> QED
    BY <2>1, <2>2, <2>3
       DEF T!Next, T!StoreAllSlowThreshold, T!SetSLOConfig, T!BeginMidnight, T!ListLastHour,
           T!StoreYesterday, T!StoreLastHour, T!ListFails, T!AddOrUpdateSLOTarget
<1>2. [][Kept]_tVars => KeptForTheDay
  BY PTL DEF KeptForTheDay, T!KeptForTheDay, Kept, tVars, T!vars
<1> QED
  BY <1>1, <1>2, SpecThresholdInv, PTL DEF Spec

-----------------------------------------------------------------------------
(* External                                                                *)

LEMMA CalledIs ==
  ASSUME NEW group, NEW type, NEW name, NEW detail
  PROVE  /\ X!Called(group, type, name, detail).group = group
         /\ X!Called(group, type, name, detail).type = type
         /\ X!Called(group, type, name, detail).name = name
         /\ group # "nil" => X!Called(group, type, name, detail) # X!Nil
BY DEF X!Called, X!Nil

\* The top of a path is its own top.
LEMMA TopUrlTwice == \A parts : X!TopUrl(X!TopUrl(parts)) = X!TopUrl(parts)
<1> SUFFICES ASSUME NEW parts PROVE X!TopUrl(X!TopUrl(parts)) = X!TopUrl(parts)
  OBVIOUS
<1>1. CASE Len(parts) = 1
  BY <1>1 DEF X!TopUrl
<1>2. CASE Len(parts) # 1
  <2>1. PICK top : X!TopUrl(parts) = <<"", top>>
    BY <1>2 DEF X!TopUrl
  <2>2. X!TopUrl(<<"", top>>) = <<"", top>>
    BY DEF X!TopUrl
  <2> QED
    BY <2>1, <2>2
<1> QED
  BY <1>1, <1>2

\* What each parser finds.
LEMMA ParsersFind ==
  ASSUME NEW s
  PROVE  /\ X!DbParser(s) # X!Nil <=> s.kind = "client" /\ s.db # "none"
         /\ X!DbParser(s) # X!Nil => X!DbParser(s).group = "db"
         /\ X!HttpParser(s) # X!Nil <=> s.kind = "client" /\ s.http
         /\ X!HttpParser(s) # X!Nil =>
              /\ X!HttpParser(s).group = "external" /\ X!HttpParser(s).type = "http"
              /\ X!HttpParser(s).name = X!TopUrl(s.url)
         /\ X!RpcParser(s) # X!Nil <=> s.kind = "client" /\ s.rpc
         /\ X!RpcParser(s) # X!Nil =>
              X!RpcParser(s).group = "external" /\ X!RpcParser(s).type = "rpc"
         /\ X!UnknownParser(s) # X!Nil
         /\ X!UnknownParser(s).group = "external" /\ X!UnknownParser(s).type = "unknown"
         /\ s.kind \in {"consumer", "producer"} \/ (s.kind = "client" /\ s.mq) =>
              X!MqParser(s) # X!Nil /\ X!MqParser(s).group = "mq"
<1>1. /\ X!DbParser(s) # X!Nil <=> s.kind = "client" /\ s.db # "none"
      /\ X!DbParser(s) # X!Nil => X!DbParser(s).group = "db"
  BY CalledIs DEF X!DbParser
<1>2. /\ X!HttpParser(s) # X!Nil <=> s.kind = "client" /\ s.http
      /\ X!HttpParser(s) # X!Nil =>
           /\ X!HttpParser(s).group = "external" /\ X!HttpParser(s).type = "http"
           /\ X!HttpParser(s).name = X!TopUrl(s.url)
  BY CalledIs DEF X!HttpParser
<1>3. /\ X!RpcParser(s) # X!Nil <=> s.kind = "client" /\ s.rpc
      /\ X!RpcParser(s) # X!Nil =>
           X!RpcParser(s).group = "external" /\ X!RpcParser(s).type = "rpc"
  BY CalledIs DEF X!RpcParser
<1>4. /\ X!UnknownParser(s) # X!Nil
      /\ X!UnknownParser(s).group = "external" /\ X!UnknownParser(s).type = "unknown"
  BY CalledIs DEF X!UnknownParser
<1>5. ASSUME s.kind \in {"consumer", "producer"} \/ (s.kind = "client" /\ s.mq)
      PROVE  X!MqParser(s) # X!Nil /\ X!MqParser(s).group = "mq"
  BY <1>5, CalledIs DEF X!MqParser, X!NoSystem
<1> QED
  BY <1>1, <1>2, <1>3, <1>4, <1>5

Described(s, e) ==
  /\ e # X!Nil <=> s.kind \in {"client", "consumer", "producer"}
  /\ e.group = "db" <=> s.kind = "client" /\ s.db # "none"
  /\ e.group = "external" /\ e.type = "http" => X!TopUrl(e.name) = e.name
  /\ e.group = "mq" => s.mq \/ s.kind # "client"
  /\ e.group = "external" /\ e.type = "unknown" => ~s.http /\ ~s.rpc /\ ~s.mq

LEMMA BuildExternalDescribes == \A s : Described(s, X!BuildExternal(s))
<1> SUFFICES ASSUME NEW s PROVE Described(s, X!BuildExternal(s))
  OBVIOUS
<1> USE DEF Described, X!BuildExternal, X!Otherwise
<1>n. X!Nil.group = "nil"
  BY DEF X!Nil
<1>1. CASE s.kind # "client"
  BY <1>n, <1>1, ParsersFind
<1>2. CASE s.kind = "client" /\ s.db # "none"
  BY <1>n, <1>2, ParsersFind
<1>3. CASE s.kind = "client" /\ s.db = "none" /\ s.http
  <2>1. X!BuildExternal(s) = X!HttpParser(s)
    BY <1>3, ParsersFind
  <2>2. X!TopUrl(X!HttpParser(s).name) = X!HttpParser(s).name
    BY <1>3, ParsersFind, TopUrlTwice
  <2> QED
    BY <1>3, <2>1, <2>2, ParsersFind DEF Described
<1>4. CASE s.kind = "client" /\ s.db = "none" /\ ~s.http
  BY <1>n, <1>4, ParsersFind
<1> QED
  BY <1>1, <1>2, <1>3, <1>4

\* Exactly the spans that leave or enter through another component are described,
\* whichever attributes they lack: a database call as one, a queue as a queue, an
\* HTTP call by the top of its path.
THEOREM CallsDescribedTheorem == Spec => CallsDescribed
<1>1. [Next]_vars => [Described(span, external')]_xVars
  BY StepOfEach, BuildExternalDescribes DEF X!Next, X!BuildExternals
<1>2. [][Described(span, external')]_xVars => CallsDescribed
  BY PTL DEF CallsDescribed, X!CallsDescribed, Described, xVars, X!vars
<1> QED
  BY <1>1, <1>2, PTL DEF Spec

-----------------------------------------------------------------------------
(* OnOffBaseline                                                           *)

\* The recursive functions of the module satisfy their equations.
LEMMA SumsEquation ==
  ASSUME NEW v \in O!Vectors
  PROVE  /\ O!Sums(v) = [t \in O!Types |-> IF t = 0 THEN v[0] ELSE O!Sums(v)[t - 1] + v[t]]
         /\ O!Sums(v) \in [O!Types -> Int]
<1> DEFINE Equation(f) == f = [t \in O!Types |-> IF t = 0 THEN v[0] ELSE f[t - 1] + v[t]]
           step == [t \in 1 .. LastType |-> [x \in Int |-> x + v[t]]]
<1> USE TypesAssumption DEF O!Types, O!Vectors
<1>1. \A t \in 0 .. LastType : v[t] \in Int
  OBVIOUS
<1>2. \A t \in 1 .. LastType : \A x \in Int : step[t][x] = x + v[t] /\ step[t][x] \in Int
  BY <1>1
<1>3. PICK g \in [0 .. LastType -> Int] : Solves(g, step, LastType, v[0])
  <2>1. v[0] \in Int /\ Closed(step, LastType, Int)
    BY <1>1, <1>2 DEF Closed
  <2> HIDE DEF step
  <2> QED
    BY ONLY <2>1, TypesAssumption, RecursionExists
<1>4. Equation(g)
  <2>1. ASSUME NEW t \in 1 .. LastType PROVE g[t] = g[t - 1] + v[t]
    <3>1. g[t] = step[t][g[t - 1]] /\ g[t - 1] \in Int
      <4> HIDE DEF step
      <4> QED
        BY <1>3 DEF Solves
    <3> HIDE DEF step
    <3> QED
      BY <1>2, <3>1
  <2>2. g[0] = v[0]
    BY <1>3 DEF Solves
  <2> HIDE DEF step
  <2> QED
    BY <2>1, <2>2
<1>5. Equation(O!Sums(v))
  BY <1>4 DEF O!Sums
<1>6. /\ O!Sums(v)[0] = v[0]
      /\ \A t \in 1 .. LastType : O!Sums(v)[t] = O!Sums(v)[t - 1] + v[t]
  <2> DEFINE f == O!Sums(v)
  <2>1. Equation(f)
    BY <1>5
  <2> HIDE DEF f
  <2>2. f[0] = v[0] /\ \A t \in 1 .. LastType : f[t] = f[t - 1] + v[t]
    BY <2>1
  <2> QED
    BY <2>2 DEF f
<1>7. \A t \in 0 .. LastType : O!Sums(v)[t] \in Int
  <2> DEFINE Ints == {i \in 0 .. LastType : O!Sums(v)[i] \in Int}
  <2>1. 0 \in Ints /\ \A t \in 1 .. LastType : t - 1 \in Ints => t \in Ints
    BY <1>1, <1>6
  <2>2. \A t \in 0 .. LastType : t \in Ints
    <3> HIDE DEF Ints
    <3> QED
      BY ONLY <2>1, TypesAssumption, UpTo
  <2> QED
    BY <2>2
<1> QED
  BY <1>5, <1>7

LEMMA SumType == \A v \in O!Vectors : O!Sum(v) \in Int
BY SumsEquation, TypesAssumption DEF O!Sum, O!Types

\* Of the types checked so far, best has the one that exceeds its baseline most.
BestOf(best, t, values, base) ==
  \/ /\ best = [type |-> -1, excess |-> 0]
     /\ \A i \in 0 .. t : values[i] <= base[i]
  \/ \E m \in 0 .. t :
       /\ best = [type |-> m, excess |-> values[m] - base[m]]
       /\ values[m] > base[m]
       /\ \A i \in 0 .. t : values[i] - base[i] <= values[m] - base[m]

LEMMA CheckedBest ==
  ASSUME NEW values \in O!Vectors, NEW base \in O!Vectors, NEW t \in O!Types, NEW best,
         IF t = 0 THEN best = [type |-> -1, excess |-> 0] ELSE BestOf(best, t - 1, values, base)
  PROVE  BestOf(O!Checked(best, t, values, base), t, values, base)
<1> USE TypesAssumption DEF O!Types, O!Vectors
<1> DEFINE new == [type |-> t, excess |-> values[t] - base[t]]
<1>1. \A i \in 0 .. t : values[i] \in Nat /\ base[i] \in Nat
  OBVIOUS
<1>2. t \in 0 .. t /\ \A i \in 0 .. t : i = t \/ i \in 0 .. t - 1
  OBVIOUS
<1>3. CASE best = [type |-> -1, excess |-> 0] /\ \A i \in 0 .. t - 1 : values[i] <= base[i]
  <2>1. best.excess = 0
    BY <1>3
  <2>2. CASE values[t] > base[t]
    <3>1. O!Checked(best, t, values, base) = new
      BY <1>1, <2>1, <2>2 DEF O!Checked, O!Better
    <3>2. ASSUME NEW i \in 0 .. t PROVE values[i] - base[i] <= values[t] - base[t]
      <4>1. values[i] \in Nat /\ base[i] \in Nat /\ values[t] \in Nat /\ base[t] \in Nat
        BY <1>1, <1>2
      <4>2. CASE i = t
        BY <4>1, <4>2
      <4>3. CASE i \in 0 .. t - 1
        BY <1>3, <2>2, <4>1, <4>3
      <4> QED
        BY <1>2, <4>2, <4>3
    <3> QED
      BY ONLY <1>2, <2>2, <3>1, <3>2 DEF BestOf
  <2>3. CASE ~(values[t] > base[t])
    <3>1. O!Checked(best, t, values, base) = best
      BY <1>1, <2>3 DEF O!Checked, O!Better
    <3>2. ASSUME NEW i \in 0 .. t PROVE values[i] <= base[i]
      <4>1. CASE i = t
        BY <1>1, <1>2, <2>3, <4>1
      <4>2. CASE i \in 0 .. t - 1
        BY <1>3, <4>2
      <4> QED
        BY <1>2, <4>1, <4>2
    <3> QED
      BY ONLY <1>3, <3>1, <3>2 DEF BestOf
  <2> QED
    BY <2>2, <2>3
<1>4. ASSUME t # 0, NEW m \in 0 .. t - 1,
             best = [type |-> m, excess |-> values[m] - base[m]], values[m] > base[m],
             \A i \in 0 .. t - 1 : values[i] - base[i] <= values[m] - base[m]
      PROVE  BestOf(O!Checked(best, t, values, base), t, values, base)
  <2>1. best.excess = values[m] - base[m] /\ best.excess > 0 /\ best.excess \in Int /\ m \in 0 .. t
    BY <1>1, <1>4
  <2>2. CASE values[t] - base[t] > best.excess
    <3>1. O!Checked(best, t, values, base) = new
      BY <1>1, <2>1, <2>2 DEF O!Checked, O!Better
    <3>2. ASSUME NEW i \in 0 .. t PROVE values[i] - base[i] <= values[t] - base[t]
      <4>1. values[i] \in Nat /\ base[i] \in Nat /\ values[t] \in Nat /\ base[t] \in Nat
        BY <1>1, <1>2
      <4>2. CASE i = t
        BY <4>1, <4>2
      <4>3. CASE i \in 0 .. t - 1
        <5>1. values[i] - base[i] <= best.excess
          BY <1>4, <2>1, <4>3
        <5> QED
          BY ONLY <2>1, <2>2, <4>1, <5>1
      <4> QED
        BY <1>2, <4>2, <4>3
    <3>3. values[t] > base[t]
      BY <1>1, <2>1, <2>2
    <3> QED
      BY ONLY <1>2, <3>1, <3>2, <3>3 DEF BestOf
  <2>3. CASE ~(values[t] - base[t] > best.excess)
    <3>1. O!Checked(best, t, values, base) = best
      BY <1>1, <2>1, <2>3 DEF O!Checked, O!Better
    <3>2. ASSUME NEW i \in 0 .. t PROVE values[i] - base[i] <= values[m] - base[m]
      <4>1. values[t] \in Nat /\ base[t] \in Nat
        BY <1>1, <1>2
      <4>2. CASE i = t
        BY <2>1, <2>3, <4>1, <4>2
      <4>3. CASE i \in 0 .. t - 1
        BY <1>4, <4>3
      <4> QED
        BY <1>2, <4>2, <4>3
    <3> QED
      BY <1>4, <2>1, <3>1, <3>2 DEF BestOf
  <2> QED
    BY <2>2, <2>3
<1>5. t = 0 => 0 .. t - 1 = {}
  OBVIOUS
<1> QED
  BY <1>3, <1>4, <1>5 DEF BestOf

LEMMA BestsFindBest ==
  ASSUME NEW values \in O!Vectors, NEW base \in O!Vectors
  PROVE  BestOf(O!Bests(values, base)[LastType], LastType, values, base)
<1> DEFINE Equation(f) ==
             f = [t \in O!Types |->
                    O!Checked(IF t = 0 THEN [type |-> -1, excess |-> 0] ELSE f[t - 1], t, values, base)]
           none == [type |-> -1, excess |-> 0]
           S == {none} \cup [type : O!Types, excess : Int]
           first0 == O!Checked(none, 0, values, base)
           step == [t \in 1 .. LastType |-> [x \in S |-> O!Checked(x, t, values, base)]]
           Best == O!Bests(values, base)
<1> USE TypesAssumption DEF O!Types, O!Vectors
<1>1. \A t \in 0 .. LastType : \A x \in S : O!Checked(x, t, values, base) \in S
  <2> SUFFICES ASSUME NEW t \in 0 .. LastType, NEW x \in S PROVE O!Checked(x, t, values, base) \in S
    OBVIOUS
  <2>1. [type |-> t, excess |-> values[t] - base[t]] \in S
    OBVIOUS
  <2> QED
    BY <2>1 DEF O!Checked
<1>2. first0 \in S
  BY <1>1
<1>3. \A t \in 1 .. LastType : \A x \in S :
        step[t][x] = O!Checked(x, t, values, base) /\ step[t][x] \in S
  BY <1>1
<1>4. PICK g \in [0 .. LastType -> S] : Solves(g, step, LastType, first0)
  <2>1. Closed(step, LastType, S)
    BY <1>3 DEF Closed
  <2> HIDE DEF step, S, first0
  <2> QED
    BY ONLY <1>2, <2>1, TypesAssumption, RecursionExists
<1>5. Equation(g)
  <2> HIDE DEF S
  <2>1. ASSUME NEW t \in 1 .. LastType PROVE g[t] = O!Checked(g[t - 1], t, values, base)
    <3> HIDE DEF step
    <3>1. g[t] = step[t][g[t - 1]] /\ g[t - 1] \in S
      BY <1>4 DEF Solves
    <3> QED
      BY <1>3, <3>1
  <2>2. g[0] = first0
    <3> HIDE DEF step
    <3> QED
      BY <1>4 DEF Solves
  <2> HIDE DEF step
  <2> QED
    BY <2>1, <2>2
<1>6. Equation(Best)
  BY <1>5 DEF O!Bests
<1>7. Best[0] = first0 /\ \A t \in 1 .. LastType : Best[t] = O!Checked(Best[t - 1], t, values, base)
  BY <1>6
<1>8. \A t \in 0 .. LastType : BestOf(Best[t], t, values, base)
  <2> HIDE DEF Best
  <2>1. BestOf(Best[0], 0, values, base)
    <3>1. IF 0 = 0 THEN none = [type |-> -1, excess |-> 0] ELSE BestOf(none, 0 - 1, values, base)
      OBVIOUS
    <3>2. 0 \in O!Types
      OBVIOUS
    <3> HIDE DEF none
    <3>3. BestOf(O!Checked(none, 0, values, base), 0, values, base)
      BY <3>1, <3>2, CheckedBest
    <3> QED
      BY <1>7, <3>3
  <2>2. ASSUME NEW t \in 1 .. LastType, BestOf(Best[t - 1], t - 1, values, base)
        PROVE  BestOf(Best[t], t, values, base)
    <3>1. t \in O!Types /\ t # 0
      OBVIOUS
    <3>2. BestOf(O!Checked(Best[t - 1], t, values, base), t, values, base)
      BY <2>2, <3>1, CheckedBest
    <3> QED
      BY <1>7, <3>2
  <2> DEFINE Right == {i \in 0 .. LastType : BestOf(Best[i], i, values, base)}
  <2>3. 0 \in Right /\ \A t \in 1 .. LastType : t - 1 \in Right => t \in Right
    BY <2>1, <2>2
  <2>4. \A t \in 0 .. LastType : t \in Right
    <3> HIDE DEF Right
    <3> QED
      BY ONLY <2>3, TypesAssumption, UpTo
  <2> QED
    BY <2>4
<1> QED
  BY <1>8

\* The vectors among which the one kept for a key is the calmest.
Seen == IF behind THEN former ELSE hours

\* While the task has still to replace a map, the maps count as those of the day before.
DayInv ==
  /\ midnight \in BOOLEAN /\ behind \in BOOLEAN /\ fresh \in BOOLEAN
  /\ midnight \/ task \in {"newDay", "clean"} => behind
  /\ behind \/ fresh
  /\ task = "clean" => fresh \/ midnight
  /\ behind => hours = O!NoHours

\* The hour kept for a key is the calmest of those seen.
BaselineInv ==
  /\ DayInv
  /\ DOMAIN yesterday \subseteq O!Keys /\ \A k \in DOMAIN yesterday : yesterday[k] \in O!Vectors
  /\ DOMAIN lastHour \subseteq O!Keys
  /\ \A k \in O!Keys :
        /\ Seen[k] \subseteq O!Vectors
        /\ k \in DOMAIN lastHour <=> Seen[k] # {}
        /\ k \in DOMAIN lastHour => lastHour[k] \in O!Calmest(Seen[k])

LEMMA BaselineInitInv == O!Init => BaselineInv
<1> SUFFICES ASSUME O!Init PROVE BaselineInv
  OBVIOUS
<1>1. DOMAIN yesterday = {} /\ DOMAIN lastHour = {} /\ Seen = [k \in O!Keys |-> {}]
  BY DEF O!Init, O!NoHours, Seen
<1>2. DayInv
  BY DEF O!Init, DayInv
<1> QED
  BY <1>1, <1>2 DEF BaselineInv

LEMMA DayStepInv == DayInv /\ [O!Next]_oVars => DayInv'
<1> SUFFICES ASSUME DayInv, [O!Next]_oVars PROVE DayInv'
  OBVIOUS
<1> USE DEF DayInv, O!historyVars
<1>1. CASE O!StoreYesterdayMetrics
  BY <1>1 DEF O!StoreYesterdayMetrics
<1>2. CASE O!CleanLastHourMetrics
  BY <1>2 DEF O!CleanLastHourMetrics
<1>3. ASSUME NEW result \in Results, O!StoreLastHourMetrics(result) PROVE DayInv'
  BY <1>3 DEF O!StoreLastHourMetrics
<1>4. CASE O!Watch
  BY <1>4 DEF O!Watch
<1>5. CASE O!CheckTask
  BY <1>5 DEF O!CheckTask
<1>6. CASE O!Midnight
  BY <1>6 DEF O!Midnight
<1>7. CASE UNCHANGED oVars
  BY <1>7 DEF oVars
<1> QED
  BY <1>1, <1>2, <1>3, <1>4, <1>5, <1>6, <1>7 DEF O!Next

LEMMA BaselineStepInv == BaselineInv /\ [O!Next]_oVars => BaselineInv'
<1> SUFFICES ASSUME BaselineInv, [O!Next]_oVars PROVE BaselineInv'
  OBVIOUS
<1>0. DayInv /\ DayInv'
  BY DayStepInv DEF BaselineInv
<1>1. CASE O!StoreYesterdayMetrics
  <2>1. Seen' = Seen /\ lastHour' = lastHour /\ yesterday' \in Results
    BY <1>1 DEF O!StoreYesterdayMetrics, Seen
  <2> QED
    BY <1>0, <2>1, ResultsAssumption DEF BaselineInv
<1>2. CASE O!CleanLastHourMetrics
  <2>1. DOMAIN lastHour' = {} /\ UNCHANGED yesterday
    BY <1>2 DEF O!CleanLastHourMetrics
  <2>2. Seen' = [k \in O!Keys |-> {}]
    <3>1. former' = O!NoHours /\ hours' = hours /\ hours = O!NoHours
      BY <1>0, <1>2 DEF O!CleanLastHourMetrics, DayInv
    <3> QED
      BY <3>1 DEF Seen, O!NoHours
  <2> QED
    BY <1>0, <2>1, <2>2 DEF BaselineInv
<1>3. ASSUME NEW result \in Results, O!StoreLastHourMetrics(result) PROVE BaselineInv'
  <2> DEFINE new == DOMAIN result \ DOMAIN yesterday
             Stays(k) == k \in DOMAIN lastHour /\ (k \notin new \/ ~(O!Compare(lastHour[k], result[k]) > 0))
  <2>1. /\ lastHour' = [k \in DOMAIN lastHour \cup new |-> IF Stays(k) THEN lastHour[k] ELSE result[k]]
        /\ Seen' = [k \in O!Keys |-> IF k \in new THEN Seen[k] \cup {result[k]} ELSE Seen[k]]
        /\ UNCHANGED yesterday
    BY <1>3 DEF O!StoreLastHourMetrics, Seen
  <2>2. new \subseteq O!Keys /\ \A k \in new : result[k] \in O!Vectors
    BY ResultsAssumption
  <2>3. ASSUME NEW k \in O!Keys
        PROVE  /\ Seen'[k] \subseteq O!Vectors
               /\ k \in DOMAIN lastHour' <=> Seen'[k] # {}
               /\ k \in DOMAIN lastHour' => lastHour'[k] \in O!Calmest(Seen'[k])
    <3>1. /\ Seen[k] \subseteq O!Vectors
          /\ k \in DOMAIN lastHour <=> Seen[k] # {}
          /\ k \in DOMAIN lastHour => lastHour[k] \in O!Calmest(Seen[k])
      BY DEF BaselineInv
    <3>2. CASE k \notin new
      <4>1. Seen'[k] = Seen[k] /\ (k \in DOMAIN lastHour' <=> k \in DOMAIN lastHour)
        BY <2>1, <3>2
      <4>2. k \in DOMAIN lastHour => lastHour'[k] = lastHour[k]
        BY <2>1, <3>2
      <4> QED
        BY <3>1, <4>1, <4>2
    <3>3. CASE k \in new
      <4>1. /\ Seen'[k] = Seen[k] \cup {result[k]} /\ k \in DOMAIN lastHour'
            /\ lastHour'[k] = IF Stays(k) THEN lastHour[k] ELSE result[k]
        BY <2>1, <3>3
      <4>2. result[k] \in O!Vectors /\ O!Sum(result[k]) \in Int
        BY <2>2, <3>3, SumType
      <4>3. \A w \in Seen[k] : O!Sum(w) \in Int
        BY <3>1, SumType
      <4>4. CASE k \notin DOMAIN lastHour
        BY <3>1, <4>1, <4>2, <4>4 DEF O!Calmest
      <4>5. CASE k \in DOMAIN lastHour
        <5>1. lastHour[k] \in Seen[k] /\ \A w \in Seen[k] : O!Sum(lastHour[k]) <= O!Sum(w)
          BY <3>1, <4>5 DEF O!Calmest
        <5>2. Stays(k) <=> ~(O!Sum(lastHour[k]) - O!Sum(result[k]) > 0)
          BY <3>3, <4>5 DEF O!Compare
        <5>3. CASE Stays(k)
          <6>1. O!Sum(lastHour[k]) <= O!Sum(result[k])
            BY <4>2, <4>3, <5>1, <5>2, <5>3
          <6> QED
            BY <3>1, <4>1, <4>2, <5>1, <5>3, <6>1 DEF O!Calmest
        <5>4. CASE ~Stays(k)
          <6>1. \A w \in Seen[k] : O!Sum(result[k]) <= O!Sum(w)
            BY <4>2, <4>3, <5>1, <5>2, <5>4
          <6> QED
            BY <3>1, <4>1, <4>2, <5>4, <6>1 DEF O!Calmest
        <5> QED
          BY <5>3, <5>4
      <4> QED
        BY <4>4, <4>5
    <3> QED
      BY <3>2, <3>3
  <2>4. DOMAIN lastHour' \subseteq O!Keys
    BY <2>1, <2>2 DEF BaselineInv
  <2> QED
    BY <1>0, <2>1, <2>3, <2>4 DEF BaselineInv
<1>4. CASE O!Midnight
  <2>1. Seen' = Seen
    BY <1>4 DEF O!Midnight, Seen
  <2> QED
    BY <1>0, <1>4, <2>1 DEF O!Midnight, BaselineInv
<1>5. CASE UNCHANGED <<yesterday, lastHour, behind, hours, former>>
  <2>1. Seen' = Seen
    BY <1>5 DEF Seen
  <2> QED
    BY <1>0, <1>5, <2>1 DEF BaselineInv
<1> QED
  BY <1>1, <1>2, <1>3, <1>4, <1>5 DEF O!Next, O!Watch, O!CheckTask, O!historyVars, oVars

LEMMA SpecBaselineInv == Spec => []BaselineInv
<1>1. Init => BaselineInv
  BY BaselineInitInv DEF Init
<1>2. BaselineInv /\ [Next]_vars => BaselineInv'
  BY BaselineStepInv, StepOfEach
<1> QED
  BY <1>1, <1>2, PTL DEF Spec

\* GetMetricValue finds what was promised for the key, or nothing.
LEMMA BaselinePromised ==
  ASSUME BaselineInv, NEW k \in O!Keys
  PROVE  /\ O!Baseline(k) # O!NoBaseline <=> O!Promised(k) # {}
         /\ O!Promised(k) # {} => O!Baseline(k).metric \in O!Promised(k)
         /\ O!Promised(k) \subseteq O!Vectors
<1>1. CASE k \in DOMAIN yesterday
  <2>1. O!Baseline(k) = [metric |-> yesterday[k], range |-> "24h"] /\ O!Promised(k) = {yesterday[k]}
    BY <1>1 DEF O!Baseline, O!Promised
  <2>2. O!Baseline(k).range = "24h" /\ O!NoBaseline.range = "unknown"
    BY <2>1 DEF O!NoBaseline
  <2> QED
    BY <1>1, <2>1, <2>2 DEF BaselineInv
<1>2. CASE k \notin DOMAIN yesterday /\ k \in DOMAIN lastHour
  <2>1. /\ O!Baseline(k) = [metric |-> lastHour[k], range |-> "1h"]
        /\ O!Promised(k) = O!Calmest(Seen[k])
    BY <1>2 DEF O!Baseline, O!Promised, Seen
  <2>2. O!Baseline(k).range = "1h" /\ O!NoBaseline.range = "unknown"
    BY <2>1 DEF O!NoBaseline
  <2>3. lastHour[k] \in O!Calmest(Seen[k]) /\ O!Calmest(Seen[k]) \subseteq O!Vectors
    BY <1>2 DEF BaselineInv, O!Calmest
  <2> QED
    BY <2>1, <2>2, <2>3
<1>3. CASE k \notin DOMAIN yesterday /\ k \notin DOMAIN lastHour
  BY <1>3 DEF BaselineInv, Seen, O!Baseline, O!Promised, O!Calmest
<1> QED
  BY <1>1, <1>2, <1>3

\* Through any hours, midnights and query results, and for any number of CPU types, the
\* type that is blamed is the one that exceeds its baseline most; the baseline is
\* yesterday's or the calmest hour's since midnight, or from a midnight until the task
\* has replaced both maps that of the day before.
THEOREM BlamedAgainstCalmestTheorem == Spec => []BlamedAgainstCalmest
<1>1. ASSUME BaselineInv, NEW k \in O!Keys, NEW v \in O!Vectors
      PROVE  LET mutated == O!CalcMutatedType(k, v)
                 own == IF O!Promised(k) # {} THEN O!Promised(k) ELSE O!Promised(<<"", k[2]>>)
                 bases == IF own # {} THEN own ELSE {[t \in O!Types |-> 0]}
             IN  \E base \in bases :
                   IF mutated = -1 THEN \A t \in O!Types : v[t] <= base[t]
                   ELSE /\ v[mutated] > base[mutated]
                        /\ \A t \in O!Types : v[t] - base[t] <= v[mutated] - base[mutated]
  <2> DEFINE any == <<"", k[2]>>
             own == IF O!Promised(k) # {} THEN O!Promised(k) ELSE O!Promised(any)
             bases == IF own # {} THEN own ELSE {[t \in O!Types |-> 0]}
             base == O!GetMetricValue(k).metric
             best == O!Bests(v, base)[LastType]
  <2>1. any \in O!Keys
    BY ResultsAssumption DEF O!Keys
  <2>2. [t \in O!Types |-> 0] \in O!Vectors
    BY TypesAssumption DEF O!Vectors, O!Types
  <2>3. base \in bases /\ bases \subseteq O!Vectors
    <3>1. CASE O!Promised(k) # {}
      BY <1>1, <3>1, BaselinePromised DEF O!GetMetricValue
    <3>2. CASE O!Promised(k) = {}
      <4>1. O!GetMetricValue(k) = O!Baseline(any) /\ own = O!Promised(any)
        BY <1>1, <3>2, BaselinePromised DEF O!GetMetricValue
      <4>2. CASE O!Promised(any) # {}
        BY <1>1, <2>1, <4>1, <4>2, BaselinePromised
      <4>3. CASE O!Promised(any) = {}
        <5>1. O!Baseline(any) = O!NoBaseline
          BY <1>1, <2>1, <4>3, BaselinePromised
        <5>2. base = [t \in O!Types |-> 0]
          <6>1. O!NoBaseline.metric = [t \in O!Types |-> 0]
            BY DEF O!NoBaseline
          <6> QED
            BY ONLY <4>1, <5>1, <6>1
        <5>3. bases = {[t \in O!Types |-> 0]}
          BY <4>1, <4>3
        <5> QED
          BY ONLY <2>2, <5>2, <5>3
      <4> QED
        BY <4>2, <4>3
    <3> QED
      BY <3>1, <3>2
  <2>4. BestOf(best, LastType, v, base) /\ O!CalcMutatedType(k, v) = best.type
    BY <1>1, <2>3, BestsFindBest DEF O!CalcMutatedType
  <2> HIDE DEF best, base, bases
  <2>5. IF best.type = -1 THEN \A t \in O!Types : v[t] <= base[t]
        ELSE /\ v[best.type] > base[best.type]
             /\ \A t \in O!Types : v[t] - base[t] <= v[best.type] - base[best.type]
    <3>1. CASE best = [type |-> -1, excess |-> 0] /\ \A i \in 0 .. LastType : v[i] <= base[i]
      BY <3>1 DEF O!Types
    <3>2. ASSUME NEW m \in 0 .. LastType, best = [type |-> m, excess |-> v[m] - base[m]],
                 v[m] > base[m], \A i \in 0 .. LastType : v[i] - base[i] <= v[m] - base[m]
          PROVE  best.type = m /\ m # -1
      BY <3>2, TypesAssumption
    <3> QED
      BY <2>4, <3>1, <3>2 DEF BestOf, O!Types
  <2> QED
    BY <2>3, <2>4, <2>5 DEF bases
<1>2. BaselineInv => behind \/ fresh
  BY DEF BaselineInv, DayInv
<1>3. BaselineInv => BlamedAgainstCalmest
  BY <1>1, <1>2 DEF BlamedAgainstCalmest, O!BlamedAgainstCalmest
<1> QED
  BY <1>3, SpecBaselineInv, PTL
-----------------------------------------------------------------------------
(* Rows of a tree.  A family f has a tree of nodes 1 .. f.n with their     *)
(* parents and children, the rows f.own that a node adds for itself (none  *)
(* if it and all below are left out), f.lift that moves a row below the    *)
(* i-th child, and f.up, the node whose row is above a row.                *)

TreeShape(f) ==
  /\ f.n \in Nat \ {0}
  /\ \A c \in 2 .. f.n : f.parent[c] \in 1 .. c - 1
  /\ f.children \in [1 .. f.n -> Seq(2 .. f.n)]
  /\ \A p \in 1 .. f.n : \A i, j \in DOMAIN f.children[p] : f.children[p][i] = f.children[p][j] => i = j
  /\ \A p \in 1 .. f.n : \A c \in 2 .. f.n :
       f.parent[c] = p <=> \E i \in DOMAIN f.children[p] : f.children[p][i] = c

RowKind(f) ==
  /\ \A r \in f.kind : r.path \in Seq(Nat) /\ r.node \in Nat
  /\ \A i \in Nat \ {0} : \A r \in f.kind :
       /\ f.lift[i][r] \in f.kind
       /\ f.lift[i][r].path = <<i - 1>> \o r.path
       /\ f.lift[i][r].node = r.node
       /\ f.up[f.lift[i][r]] = f.up[r]

OwnRows(f) ==
  /\ \A m \in 1 .. f.n : f.own[m] \in Seq(f.kind)
  /\ \A m \in 1 .. f.n : f.own[m] # <<>> =>
       /\ f.own[m][1].path = <<>> /\ f.own[m][1].node = m
       /\ m # 1 => f.up[f.own[m][1]] = f.parent[m]
       /\ \A i \in 2 .. Len(f.own[m]) : /\ f.own[m][i].path = <<Len(f.children[m]) + i - 2>>
                                        /\ f.own[m][i].node = 0
                                        /\ f.up[f.own[m][i]] = m

Family(f) == TreeShape(f) /\ RowKind(f) /\ OwnRows(f)

Blocks(f, rows, m) ==
  [i \in DOMAIN f.children[m] |->
     [j \in DOMAIN rows[f.children[m][i]] |-> f.lift[i][rows[f.children[m][i]][j]]]]
Grown(f, rows, m) == IF f.own[m] = <<>> THEN <<>> ELSE f.own[m] \o FlattenSeq(Blocks(f, rows, m))

\* What the rows rs of node m and all below it are like.
PathsApart(rs) == \A i, j \in DOMAIN rs : rs[i].path = rs[j].path => i = j
NodesApart(rs) == \A i, j \in DOMAIN rs : rs[i].node = rs[j].node /\ rs[i].node # 0 => i = j
HasNode(rs, c) == \E j \in DOMAIN rs : rs[j].node = c
RootFirst(f, rs, m) ==
  /\ f.own[m] # <<>> <=> rs # <<>>
  /\ rs # <<>> => rs[1].path = <<>> /\ rs[1].node = m /\ (m # 1 => f.up[rs[1]] = f.parent[m])
ParentAbove(f, rs) ==
  \A i \in DOMAIN rs : rs[i].path # <<>> =>
    \E j \in 1 .. i - 1 : rs[j].node = f.up[rs[i]] /\ rs[j].path = Front(rs[i].path)
Inside(f, rs, m) ==
  \A i \in DOMAIN rs : rs[i].node # 0 =>
    /\ rs[i].node \in m .. f.n /\ f.own[rs[i].node] # <<>>
    /\ rs[i].node # m => HasNode(rs, f.parent[rs[i].node])
ChildrenIn(f, rs) ==
  \A c \in 2 .. f.n : HasNode(rs, f.parent[c]) /\ f.own[c] # <<>> => HasNode(rs, c)

Placed(f, rs, m) ==
  /\ rs \in Seq(f.kind)
  /\ RootFirst(f, rs, m) /\ PathsApart(rs) /\ NodesApart(rs)
  /\ ParentAbove(f, rs) /\ Inside(f, rs, m) /\ ChildrenIn(f, rs)

\* The rows of a node are its own and, block by block, those below its children.
Source(f, rows, m, blk, pos, i) == rows[f.children[m][blk[i]]][pos[i]]
Layout(f, rows, m, rs, k, l, blk, pos) ==
  /\ k \in Nat \ {0} /\ k = Len(f.own[m]) /\ l \in Nat /\ rs \in Seq(f.kind) /\ Len(rs) = k + l
  /\ \A i \in 1 .. k : rs[i] = f.own[m][i]
  /\ \A i \in 1 .. l :
       /\ blk[i] \in DOMAIN f.children[m] /\ blk[i] \in Nat \ {0}
       /\ pos[i] \in DOMAIN rows[f.children[m][blk[i]]] /\ pos[i] \in Nat \ {0}
       /\ Source(f, rows, m, blk, pos, i) \in f.kind
       /\ rs[k + i] = f.lift[blk[i]][Source(f, rows, m, blk, pos, i)]
  /\ \A i, j \in 1 .. l : blk[i] = blk[j] /\ pos[i] = pos[j] => i = j
  /\ \A b \in DOMAIN f.children[m] : \A q \in DOMAIN rows[f.children[m][b]] :
       \E i \in 1 .. l : blk[i] = b /\ pos[i] = q
  /\ \A i \in 1 .. l : \A q \in 1 .. pos[i] - 1 : \E j \in 1 .. i - 1 : blk[j] = blk[i] /\ pos[j] = q

LEMMA LayoutExists ==
  ASSUME NEW f, Family(f), NEW rows, NEW m \in 1 .. f.n, f.own[m] # <<>>,
         \A c \in m + 1 .. f.n : rows[c] \in Seq(f.kind)
  PROVE  \E k, l, blk, pos : Layout(f, rows, m, Grown(f, rows, m), k, l, blk, pos)
<1> DEFINE cs == f.children[m]
          own == f.own[m]
          ss == Blocks(f, rows, m)
          F == FlattenSeq(ss)
          n == Len(cs)
<1>1. cs \in Seq(2 .. f.n) /\ n \in Nat /\ DOMAIN cs = 1 .. n
  BY DEF Family, TreeShape
<1>2. ASSUME NEW i \in 1 .. n PROVE cs[i] \in m + 1 .. f.n
  <2>1. cs[i] \in 2 .. f.n
    <3> DEFINE Both == 2 .. f.n
    <3>1. cs \in Seq(Both) /\ i \in DOMAIN cs
      BY <1>1
    <3> HIDE DEF cs, Both
    <3>2. cs[i] \in Both
      BY ONLY <3>1
    <3> QED
      BY <3>2 DEF Both
  <2>2. f.parent[cs[i]] = m
    BY <1>1, <2>1 DEF Family, TreeShape
  <2>3. m \in 1 .. cs[i] - 1 /\ f.n \in Nat
    BY <2>1, <2>2 DEF Family, TreeShape
  <2> QED
    BY <2>1, <2>3
<1>3. \A i \in 1 .. n : rows[cs[i]] \in Seq(f.kind)
  BY <1>2
<1>4. \A i \in 1 .. n : \A r \in f.kind : f.lift[i][r] \in f.kind
  <2>1. \A i \in 1 .. n : i \in Nat \ {0}
    BY <1>1
  <2> QED
    BY <2>1 DEF Family, RowKind
<1>5. ss = [i \in 1 .. n |-> [j \in DOMAIN rows[cs[i]] |-> f.lift[i][rows[cs[i]][j]]]]
  BY <1>1 DEF Blocks
<1>6. ASSUME NEW i \in 1 .. n
      PROVE  /\ ss[i] \in Seq(f.kind) /\ Len(ss[i]) = Len(rows[cs[i]])
             /\ DOMAIN rows[cs[i]] = 1 .. Len(ss[i])
             /\ \A j \in 1 .. Len(ss[i]) : rows[cs[i]][j] \in f.kind /\ ss[i][j] = f.lift[i][rows[cs[i]][j]]
  <2> DEFINE r == rows[cs[i]]
            s == [j \in DOMAIN r |-> f.lift[i][r[j]]]
  <2>1. r \in Seq(f.kind) /\ Len(r) \in Nat /\ DOMAIN r = 1 .. Len(r)
    BY <1>3
  <2>2. ss[i] = s
    BY <1>5
  <2> HIDE DEF r, ss
  <2>3. \A j \in 1 .. Len(r) : r[j] \in f.kind /\ f.lift[i][r[j]] \in f.kind
    BY <1>4, <2>1
  <2>4. s \in [1 .. Len(r) -> f.kind]
    BY <2>1, <2>3
  <2>5. s \in Seq(f.kind) /\ Len(s) = Len(r)
    BY <2>1, <2>4
  <2>6. \A j \in 1 .. Len(r) : s[j] = f.lift[i][r[j]]
    BY <2>1
  <2> HIDE DEF s
  <2> QED
    BY <2>1, <2>2, <2>3, <2>5, <2>6 DEF r
<1> HIDE DEF ss
<1>7. ss \in Seq(Seq(f.kind)) /\ Len(ss) = n
  <2>1. ss \in [1 .. n -> Seq(f.kind)]
    BY <1>5, <1>6
  <2> HIDE DEF n
  <2> QED
    BY <1>1, <2>1
<1>8. PICK blk, pos : Places(F, ss, n, blk, pos)
  BY <1>7, FlattenPlaces
<1>9. own \in Seq(f.kind) /\ own # <<>> /\ F \in Seq(f.kind)
  BY <1>7, FlattenType DEF Family, OwnRows
<1> DEFINE k == Len(own)
          l == Len(F)
          rs == Grown(f, rows, m)
<1>10. rs = own \o F
  BY DEF Grown, ss
<1> HIDE DEF F, own, rs
<1>11. /\ k \in Nat \ {0} /\ l \in Nat /\ rs \in Seq(f.kind) /\ Len(rs) = k + l
       /\ \A i \in 1 .. k : rs[i] = own[i]
       /\ \A i \in 1 .. l : rs[k + i] = F[i]
  BY <1>9, <1>10, ConcatIndex
<1>12. ASSUME NEW i \in 1 .. l
       PROVE  /\ blk[i] \in DOMAIN cs /\ blk[i] \in Nat \ {0}
              /\ pos[i] \in DOMAIN rows[cs[blk[i]]] /\ pos[i] \in Nat \ {0}
              /\ Source(f, rows, m, blk, pos, i) \in f.kind
              /\ rs[k + i] = f.lift[blk[i]][Source(f, rows, m, blk, pos, i)]
  <2>1. blk[i] \in 1 .. n /\ pos[i] \in 1 .. Len(ss[blk[i]]) /\ F[i] = ss[blk[i]][pos[i]]
    BY <1>8 DEF Places
  <2> DEFINE b == blk[i]
            q == pos[i]
  <2>2. b \in 1 .. n /\ q \in 1 .. Len(ss[b]) /\ F[i] = ss[b][q]
    BY <2>1
  <2>3. Source(f, rows, m, blk, pos, i) = rows[cs[b]][q]
    BY DEF Source
  <2> HIDE DEF b, q
  <2>4. /\ DOMAIN rows[cs[b]] = 1 .. Len(ss[b]) /\ Len(ss[b]) \in Nat
        /\ rows[cs[b]][q] \in f.kind /\ ss[b][q] = f.lift[b][rows[cs[b]][q]]
    BY <1>6, <2>2
  <2>5. b \in DOMAIN cs /\ b \in Nat \ {0} /\ q \in DOMAIN rows[cs[b]] /\ q \in Nat \ {0}
    BY <1>1, <2>2, <2>4
  <2>6. rs[k + i] = f.lift[b][rows[cs[b]][q]]
    BY <1>11, <2>2, <2>4
  <2> QED
    BY <2>3, <2>4, <2>5, <2>6 DEF b, q
<1>13. \A i, j \in 1 .. l : blk[i] = blk[j] /\ pos[i] = pos[j] => i = j
  BY <1>8 DEF Places
<1>14. ASSUME NEW b \in DOMAIN cs, NEW q \in DOMAIN rows[cs[b]]
       PROVE  \E i \in 1 .. l : blk[i] = b /\ pos[i] = q
  <2>1. b \in 1 .. n /\ q \in 1 .. Len(ss[b])
    BY <1>1, <1>6
  <2> QED
    BY <1>8, <2>1 DEF Places
<1>15. \A i \in 1 .. l : \A q \in 1 .. pos[i] - 1 : \E j \in 1 .. i - 1 : blk[j] = blk[i] /\ pos[j] = q
  BY <1>8 DEF Places
<1>16. Layout(f, rows, m, rs, k, l, blk, pos)
  <2> HIDE DEF cs, k, l
  <2>1. k = Len(f.own[m]) /\ \A i \in 1 .. k : rs[i] = f.own[m][i]
    BY <1>11 DEF own, k
  <2>2. \A i \in 1 .. l :
              /\ blk[i] \in DOMAIN f.children[m] /\ blk[i] \in Nat \ {0}
              /\ pos[i] \in DOMAIN rows[f.children[m][blk[i]]] /\ pos[i] \in Nat \ {0}
              /\ Source(f, rows, m, blk, pos, i) \in f.kind
              /\ rs[k + i] = f.lift[blk[i]][Source(f, rows, m, blk, pos, i)]
    BY <1>12 DEF cs
  <2>3. \A b \in DOMAIN f.children[m] : \A q \in DOMAIN rows[f.children[m][b]] :
          \E i \in 1 .. l : blk[i] = b /\ pos[i] = q
    BY <1>14 DEF cs
  <2> QED
    BY ONLY <1>11, <1>13, <1>15, <2>1, <2>2, <2>3 DEF Layout
<1> QED
  BY <1>16 DEF rs


\* No node is below two children of a node.
LEMMA SubtreesApart ==
  ASSUME NEW f, Family(f), NEW rows, NEW m \in 1 .. f.n,
         NEW c \in m + 1 .. f.n, NEW d \in m + 1 .. f.n, c # d,
         f.parent[c] = m, f.parent[d] = m,
         Placed(f, rows[c], c), Placed(f, rows[d], d),
         NEW y, y # 0, HasNode(rows[c], y), HasNode(rows[d], y)
  PROVE  FALSE
<1> DEFINE Both == {x \in 1 .. f.n : HasNode(rows[c], x) /\ HasNode(rows[d], x)}
<1>1. ASSUME NEW e \in m + 1 .. f.n, Placed(f, rows[e], e), NEW x, x # 0, HasNode(rows[e], x)
      PROVE  x \in e .. f.n /\ (x # e => HasNode(rows[e], f.parent[x]))
  BY <1>1 DEF Placed, Inside, HasNode
<1>n. f.n \in Nat /\ \A x \in 2 .. f.n : f.parent[x] \in 1 .. x - 1
  BY DEF Family, TreeShape
<1>2. y \in Both
  <2>1. y \in c .. f.n
    BY <1>1
  <2>2. y \in 1 .. f.n
    BY <1>n, <2>1
  <2> QED
    BY <2>2
<1>3. PICK x \in Both : \A z \in Both : x <= z
  <2>1. Both \in SUBSET Nat /\ Both # {}
    BY <1>n, <1>2
  <2> HIDE DEF Both
  <2> QED
    BY <2>1, LeastElement
<1>4. /\ x \in 1 .. f.n /\ x # 0 /\ x \in c .. f.n /\ x \in d .. f.n
      /\ x # c => HasNode(rows[c], f.parent[x])
      /\ x # d => HasNode(rows[d], f.parent[x])
  <2>1. x \in 1 .. f.n /\ x # 0 /\ HasNode(rows[c], x) /\ HasNode(rows[d], x)
    OBVIOUS
  <2>2. x \in c .. f.n /\ (x # c => HasNode(rows[c], f.parent[x]))
    BY <1>1, <2>1
  <2>3. x \in d .. f.n /\ (x # d => HasNode(rows[d], f.parent[x]))
    BY <1>1, <2>1
  <2> QED
    BY <2>1, <2>2, <2>3
<1>5. CASE x = c
  <2>1. HasNode(rows[d], m) /\ m # 0
    BY <1>4, <1>5
  <2>2. m \in d .. f.n
    BY <1>1, <2>1
  <2> QED
    BY <2>2
<1>6. CASE x = d
  <2>1. HasNode(rows[c], m) /\ m # 0
    BY <1>4, <1>6
  <2>2. m \in c .. f.n
    BY <1>1, <2>1
  <2> QED
    BY <2>2
<1>7. CASE x # c /\ x # d
  <2>1. x \in 2 .. f.n
    BY <1>4
  <2>2. f.parent[x] \in 1 .. x - 1
    BY <1>n, <2>1
  <2>3. f.parent[x] \in 1 .. f.n
    BY <1>n, <2>1, <2>2
  <2>4. f.parent[x] \in Both
    BY <1>4, <1>7, <2>3
  <2>5. x <= f.parent[x]
    BY <1>3, <2>4
  <2> QED
    BY <2>1, <2>2, <2>5
<1> QED
  BY <1>5, <1>6, <1>7

\* What a row below a node has from the row it was made of.
BelowRow(f, rows, m, rs, k, blk, pos, i) ==
  LET c == f.children[m][blk[i]]
      r == Source(f, rows, m, blk, pos, i)
  IN  /\ c \in m + 1 .. f.n /\ f.parent[c] = m /\ Placed(f, rows[c], c)
      /\ r.path \in Seq(Nat) /\ r.node \in Nat
      /\ rs[k + i].path = <<blk[i] - 1>> \o r.path
      /\ rs[k + i].node = r.node /\ f.up[rs[k + i]] = f.up[r]

LEMMA RowsBelow ==
  ASSUME NEW f, Family(f), NEW rows, NEW m \in 1 .. f.n, f.own[m] # <<>>,
         \A c \in m + 1 .. f.n : Placed(f, rows[c], c),
         NEW rs, NEW k, NEW l, NEW blk, NEW pos, Layout(f, rows, m, rs, k, l, blk, pos)
  PROVE  /\ k \in Nat \ {0} /\ l \in Nat /\ DOMAIN rs = 1 .. k + l
         /\ \A i \in 1 .. k + l : i = 1 \/ i \in 2 .. k \/ (i > k /\ \E j \in 1 .. l : i = k + j)
         /\ rs[1].path = <<>> /\ rs[1].node = m /\ (m # 1 => f.up[rs[1]] = f.parent[m])
         /\ \A i \in 2 .. k : /\ rs[i].path = <<Len(f.children[m]) + i - 2>>
                              /\ rs[i].node = 0 /\ f.up[rs[i]] = m
         /\ \A i \in 1 .. l : BelowRow(f, rows, m, rs, k, blk, pos, i)
         /\ \A i \in 1 .. l : blk[i] \in 1 .. Len(f.children[m]) /\ pos[i] \in Nat \ {0}
<1>1. /\ k \in Nat \ {0} /\ k = Len(f.own[m]) /\ l \in Nat /\ rs \in Seq(f.kind) /\ Len(rs) = k + l
      /\ \A i \in 1 .. k : rs[i] = f.own[m][i]
  BY DEF Layout
<1>2. \A i \in 1 .. l :
       /\ blk[i] \in DOMAIN f.children[m] /\ blk[i] \in Nat \ {0}
       /\ pos[i] \in DOMAIN rows[f.children[m][blk[i]]] /\ pos[i] \in Nat \ {0}
       /\ Source(f, rows, m, blk, pos, i) \in f.kind
       /\ rs[k + i] = f.lift[blk[i]][Source(f, rows, m, blk, pos, i)]
  BY DEF Layout
<1>3. f.children[m] \in Seq(2 .. f.n) /\ f.n \in Nat /\ DOMAIN f.children[m] = 1 .. Len(f.children[m])
  BY DEF Family, TreeShape
<1>4. DOMAIN rs = 1 .. k + l
  BY <1>1
<1>5. \A i \in 1 .. k + l : i = 1 \/ i \in 2 .. k \/ (i > k /\ \E j \in 1 .. l : i = k + j)
  <2>1. ASSUME NEW i \in 1 .. k + l, i # 1, i \notin 2 .. k
        PROVE  i > k /\ i - k \in 1 .. l /\ i = k + (i - k)
    BY <1>1, <2>1
  <2> QED
    BY <2>1
<1>6. rs[1].path = <<>> /\ rs[1].node = m /\ (m # 1 => f.up[rs[1]] = f.parent[m])
  <2>1. rs[1] = f.own[m][1]
    BY <1>1
  <2> QED
    BY <2>1 DEF Family, OwnRows
<1>7. ASSUME NEW i \in 2 .. k
      PROVE  /\ rs[i].path = <<Len(f.children[m]) + i - 2>>
             /\ rs[i].node = 0 /\ f.up[rs[i]] = m
  <2>1. rs[i] = f.own[m][i] /\ i \in 2 .. Len(f.own[m])
    BY <1>1
  <2> QED
    BY <2>1 DEF Family, OwnRows
<1>8. ASSUME NEW i \in 1 .. l PROVE BelowRow(f, rows, m, rs, k, blk, pos, i)
  <2> DEFINE b == blk[i]
            c == f.children[m][b]
            r == Source(f, rows, m, blk, pos, i)
  <2>1. b \in DOMAIN f.children[m] /\ b \in Nat \ {0} /\ r \in f.kind /\ rs[k + i] = f.lift[b][r]
    BY <1>2
  <2> HIDE DEF r, b
  <2>2. c \in 2 .. f.n
    <3> DEFINE Both == 2 .. f.n
              s == f.children[m]
    <3>1. s \in Seq(Both) /\ b \in DOMAIN s
      BY <1>3, <2>1
    <3> HIDE DEF Both, s
    <3>2. s[b] \in Both
      BY ONLY <3>1
    <3> QED
      BY <3>2 DEF Both, s
  <2>3. f.parent[c] = m
    BY <2>1, <2>2 DEF Family, TreeShape
  <2>4. m \in 1 .. c - 1
    BY <2>2, <2>3 DEF Family, TreeShape
  <2> HIDE DEF c
  <2>5. c \in m + 1 .. f.n
    BY <1>3, <2>2, <2>4
  <2>6. Placed(f, rows[c], c)
    BY <2>5
  <2>7. /\ r.path \in Seq(Nat) /\ r.node \in Nat
        /\ rs[k + i].path = <<b - 1>> \o r.path
        /\ rs[k + i].node = r.node /\ f.up[rs[k + i]] = f.up[r]
    BY <2>1 DEF Family, RowKind
  <2> QED
    BY <2>3, <2>5, <2>6, <2>7 DEF BelowRow, b, c, r
<1>9. \A i \in 1 .. l : blk[i] \in 1 .. Len(f.children[m]) /\ pos[i] \in Nat \ {0}
  BY <1>2, <1>3
<1> QED
  BY <1>1, <1>4, <1>5, <1>6, <1>7, <1>8, <1>9

\* If the rows below its children are in their places, so are those of a node.
LEMMA GrownPlaced ==
  ASSUME NEW f, Family(f), NEW rows, NEW m \in 1 .. f.n, f.own[m] # <<>>,
         \A c \in m + 1 .. f.n : Placed(f, rows[c], c)
  PROVE  Placed(f, Grown(f, rows, m), m)
<1> DEFINE rs == Grown(f, rows, m)
          cs == f.children[m]
          n == Len(cs)
<1>1. PICK k, l, blk, pos : Layout(f, rows, m, rs, k, l, blk, pos)
  <2>1. \A c \in m + 1 .. f.n : rows[c] \in Seq(f.kind)
    BY DEF Placed
  <2> QED
    BY <2>1, LayoutExists
<1> DEFINE r(i) == Source(f, rows, m, blk, pos, i)
          child(i) == cs[blk[i]]
<1> HIDE DEF rs
<1>2. /\ k \in Nat \ {0} /\ l \in Nat /\ DOMAIN rs = 1 .. k + l
      /\ \A i \in 1 .. k + l : i = 1 \/ i \in 2 .. k \/ (i > k /\ \E j \in 1 .. l : i = k + j)
      /\ rs[1].path = <<>> /\ rs[1].node = m /\ (m # 1 => f.up[rs[1]] = f.parent[m])
      /\ \A i \in 2 .. k : rs[i].path = <<n + i - 2>> /\ rs[i].node = 0 /\ f.up[rs[i]] = m
      /\ \A i \in 1 .. l : BelowRow(f, rows, m, rs, k, blk, pos, i)
      /\ \A i \in 1 .. l : blk[i] \in 1 .. n /\ pos[i] \in Nat \ {0}
  BY <1>1, RowsBelow
<1>3. /\ rs \in Seq(f.kind)
      /\ \A i, j \in 1 .. l : blk[i] = blk[j] /\ pos[i] = pos[j] => i = j
      /\ \A b \in DOMAIN cs : \A q \in DOMAIN rows[cs[b]] : \E i \in 1 .. l : blk[i] = b /\ pos[i] = q
      /\ \A i \in 1 .. l : \A q \in 1 .. pos[i] - 1 : \E j \in 1 .. i - 1 : blk[j] = blk[i] /\ pos[j] = q
      /\ \A i \in 1 .. l : pos[i] \in DOMAIN rows[child(i)]
      /\ rs # <<>>
  <2>1. /\ rs \in Seq(f.kind)
        /\ \A i, j \in 1 .. l : blk[i] = blk[j] /\ pos[i] = pos[j] => i = j
        /\ \A b \in DOMAIN cs : \A q \in DOMAIN rows[cs[b]] : \E i \in 1 .. l : blk[i] = b /\ pos[i] = q
        /\ \A i \in 1 .. l : \A q \in 1 .. pos[i] - 1 : \E j \in 1 .. i - 1 : blk[j] = blk[i] /\ pos[j] = q
        /\ \A i \in 1 .. l : pos[i] \in DOMAIN rows[child(i)]
    BY <1>1 DEF Layout
  <2>2. Len(rs) = k + l
    BY <1>1 DEF Layout
  <2>3. rs # <<>>
    BY <1>2, <2>1, <2>2
  <2> QED
    BY <2>1, <2>3
<1>4. n \in Nat /\ DOMAIN cs = 1 .. n /\ f.n \in Nat /\ cs \in Seq(2 .. f.n)
  BY DEF Family, TreeShape
<1>5. \A i \in 1 .. l : r(i) = rows[child(i)][pos[i]] /\ k + i \in 1 .. k + l /\ k + i # 1
  BY <1>2 DEF Source
<1>6. \A i \in 1 .. l :
        /\ child(i) \in m + 1 .. f.n /\ f.parent[child(i)] = m /\ Placed(f, rows[child(i)], child(i))
        /\ r(i).path \in Seq(Nat) /\ r(i).node \in Nat
        /\ rs[k + i].path = <<blk[i] - 1>> \o r(i).path
        /\ rs[k + i].node = r(i).node /\ f.up[rs[k + i]] = f.up[r(i)]
  BY <1>2 DEF BelowRow
<1> HIDE DEF r, child, cs, n
<1>s. ASSUME NEW i \in 1 .. l
      PROVE  /\ r(i) = rows[child(i)][pos[i]] /\ pos[i] \in DOMAIN rows[child(i)]
             /\ PathsApart(rows[child(i)]) /\ NodesApart(rows[child(i)])
             /\ Inside(f, rows[child(i)], child(i)) /\ ChildrenIn(f, rows[child(i)])
  BY <1>3, <1>5, <1>6 DEF Placed
<1>7. \A i \in 1 .. l : /\ rs[k + i].path # <<>> /\ rs[k + i].path[1] = blk[i] - 1
                        /\ Tail(rs[k + i].path) = r(i).path
                        /\ r(i).path = <<>> => Front(rs[k + i].path) = <<>>
                        /\ r(i).path # <<>> => Front(rs[k + i].path) = <<blk[i] - 1>> \o Front(r(i).path)
  <2> TAKE i \in 1 .. l
  <2>1. blk[i] - 1 \in Nat /\ r(i).path \in Seq(Nat)
    <3>1. blk[i] \in 1 .. n
      BY <1>2
    <3>2. r(i).path \in Seq(Nat)
      BY <1>6
    <3> QED
      BY <1>4, <3>1, <3>2
  <2> DEFINE x == blk[i] - 1
            p == r(i).path
  <2>2. rs[k + i].path = <<x>> \o p
    BY <1>6
  <2>3. x \in Nat /\ p \in Seq(Nat)
    BY <2>1
  <2> HIDE DEF x, p
  <2>4. /\ <<x>> \o p # <<>> /\ (<<x>> \o p)[1] = x /\ Tail(<<x>> \o p) = p
        /\ p = <<>> => Front(<<x>> \o p) = <<>>
        /\ p # <<>> => Front(<<x>> \o p) = <<x>> \o Front(p)
    BY <2>3, PrefixFacts
  <2> QED
    BY <2>2, <2>4 DEF x, p
<1>8. \A i \in 2 .. k : rs[i].path # <<>> /\ rs[i].path[1] = n + i - 2 /\ Front(rs[i].path) = <<>>
  <2> TAKE i \in 2 .. k
  <2> DEFINE x == n + i - 2
  <2>1. rs[i].path = <<x>> /\ x \in Nat
    BY <1>2, <1>4
  <2> HIDE DEF x
  <2>2. <<x>> # <<>> /\ <<x>>[1] = x /\ Front(<<x>>) = <<>>
    BY <2>1 DEF Front
  <2> QED
    BY <2>1, <2>2 DEF x
<1>9. RootFirst(f, rs, m)
  BY <1>2, <1>3 DEF RootFirst
<1>10. \A i \in 1 .. l : \A y : HasNode(rows[child(i)], y) => HasNode(rs, y)
  <2> SUFFICES ASSUME NEW i \in 1 .. l, NEW y, HasNode(rows[child(i)], y) PROVE HasNode(rs, y)
    OBVIOUS
  <2>1. PICK q \in DOMAIN rows[child(i)] : rows[child(i)][q].node = y
    BY DEF HasNode
  <2>2. PICK j \in 1 .. l : blk[j] = blk[i] /\ pos[j] = q
    <3>1. blk[i] \in DOMAIN cs /\ q \in DOMAIN rows[cs[blk[i]]]
      BY <1>2, <1>4 DEF child
    <3> QED
      BY <1>3, <3>1
  <2>3. r(j) = rows[child(i)][q]
    BY <1>5, <2>2 DEF child
  <2>4. rs[k + j].node = y /\ k + j \in DOMAIN rs
    BY <1>2, <1>5, <1>6, <2>1, <2>3
  <2> QED
    BY <2>4 DEF HasNode
<1>11. ASSUME NEW c \in 2 .. f.n, f.parent[c] = m, f.own[c] # <<>> PROVE HasNode(rs, c)
  <2>1. PICK b \in DOMAIN cs : cs[b] = c
    BY <1>11 DEF Family, TreeShape, cs
  <2>2. Placed(f, rows[c], c)
    <3>1. m \in 1 .. c - 1
      BY <1>11 DEF Family, TreeShape
    <3>2. c \in m + 1 .. f.n
      BY <1>4, <3>1
    <3> QED
      BY <3>2
  <2>3. rows[c] # <<>> /\ rows[c][1].node = c /\ rows[c] \in Seq(f.kind)
    BY <1>11, <2>2 DEF Placed, RootFirst
  <2>4. 1 \in DOMAIN rows[c]
    BY <2>3
  <2>5. PICK j \in 1 .. l : blk[j] = b /\ pos[j] = 1
    BY <1>3, <2>1, <2>4
  <2>6. r(j) = rows[c][1]
    BY <1>5, <2>1, <2>5 DEF child
  <2>7. rs[k + j].node = c /\ k + j \in DOMAIN rs
    BY <1>2, <1>5, <1>6, <2>3, <2>6
  <2> QED
    BY <2>7 DEF HasNode
<1>12. PathsApart(rs)
  <2> SUFFICES ASSUME NEW i \in 1 .. k + l, NEW j \in 1 .. k + l, rs[i].path = rs[j].path PROVE i = j
    BY <1>2 DEF PathsApart
  <2>1. ASSUME NEW a \in 1 .. k + l, NEW b \in 1 .. k + l, rs[a].path = rs[b].path, a \in 2 .. k, b \notin 2 .. k
        PROVE  FALSE
    <3>1. CASE b = 1
      BY <1>2, <1>8, <2>1, <3>1
    <3>2. ASSUME NEW d \in 1 .. l, b = k + d PROVE FALSE
      <4>1. rs[b].path[1] = blk[d] - 1 /\ rs[a].path[1] = n + a - 2
        BY <1>7, <1>8, <2>1, <3>2
      <4>2. blk[d] - 1 = n + a - 2
        BY ONLY <4>1, <2>1, Zenon
      <4>3. blk[d] \in 1 .. n /\ a \in 2 .. k
        BY <1>2, <2>1
      <4> QED
        BY <1>2, <1>4, <4>2, <4>3
    <3> QED
      BY <1>2, <2>1, <3>1, <3>2
  <2>2. CASE i \in 2 .. k \/ j \in 2 .. k
    <3>1. i \in 2 .. k /\ j \in 2 .. k
      BY <2>1, <2>2
    <3>2. rs[i].path[1] = n + i - 2 /\ rs[j].path[1] = n + j - 2
      BY <1>8, <3>1
    <3>3. n + i - 2 = n + j - 2
      BY ONLY <3>2, rs[i].path = rs[j].path, Zenon
    <3> QED
      BY <1>4, <3>3
  <2>3. CASE i = 1 \/ j = 1
    <3>1. ASSUME NEW a \in 1 .. k + l, rs[a].path = <<>> PROVE a = 1
      <4>1. a \notin 2 .. k
        BY <1>8, <3>1
      <4>2. \A b \in 1 .. l : a # k + b
        BY <1>7, <3>1
      <4> QED
        BY <1>2, <4>1, <4>2
    <3>2. rs[i].path = <<>> /\ rs[j].path = <<>>
      BY <1>2, <2>3
    <3> QED
      BY <3>1, <3>2
  <2>4. ASSUME NEW a \in 1 .. l, NEW b \in 1 .. l, i = k + a, j = k + b PROVE i = j
    <3>1. /\ rs[i].path[1] = blk[a] - 1 /\ Tail(rs[i].path) = r(a).path
          /\ rs[j].path[1] = blk[b] - 1 /\ Tail(rs[j].path) = r(b).path
      BY <1>7, <2>4
    <3>2. blk[a] - 1 = blk[b] - 1 /\ r(a).path = r(b).path
      BY ONLY <3>1, rs[i].path = rs[j].path, Zenon
    <3>3. blk[a] = blk[b]
      <4>1. blk[a] \in Nat /\ blk[b] \in Nat
        BY <1>2, <1>4
      <4> QED
        BY <3>2, <4>1
    <3>4. /\ Placed(f, rows[child(a)], child(a)) /\ child(a) = child(b)
          /\ pos[a] \in DOMAIN rows[child(a)] /\ pos[b] \in DOMAIN rows[child(a)]
          /\ r(a) = rows[child(a)][pos[a]] /\ r(b) = rows[child(a)][pos[b]]
      BY <1>3, <1>5, <1>6, <3>3 DEF child
    <3>5. pos[a] = pos[b]
      BY <3>2, <3>4 DEF Placed, PathsApart
    <3>6. a = b
      BY <1>3, <3>3, <3>5
    <3> QED
      BY <2>4, <3>6
  <2> QED
    BY <1>2, <2>2, <2>3, <2>4
<1>13. \A i \in 1 .. l : r(i).node # 0 => r(i).node \in child(i) .. f.n /\ r(i).node # m
  <2> SUFFICES ASSUME NEW i \in 1 .. l, r(i).node # 0
               PROVE  r(i).node \in child(i) .. f.n /\ r(i).node # m
    OBVIOUS
  <2>1. r(i).node \in child(i) .. f.n
    BY <1>s DEF Inside
  <2>2. child(i) \in m + 1 .. f.n
    BY <1>6
  <2> QED
    BY <2>1, <2>2
<1>14. NodesApart(rs)
  <2> SUFFICES ASSUME NEW i \in 1 .. k + l, NEW j \in 1 .. k + l, rs[i].node = rs[j].node, rs[i].node # 0
               PROVE  i = j
    BY <1>2 DEF NodesApart
  <2>1. i \notin 2 .. k /\ j \notin 2 .. k
    BY <1>2
  <2>2. ASSUME NEW a \in 1 .. l, k + a \in {i, j} PROVE i # 1 /\ j # 1
    <3>1. r(a).node = rs[i].node /\ r(a).node = rs[j].node
      BY <1>6, <2>2
    <3>2. r(a).node # m
      BY <1>13, <3>1
    <3> QED
      BY <1>2, <3>1, <3>2
  <2>3. ASSUME NEW a \in 1 .. l, NEW b \in 1 .. l, i = k + a, j = k + b PROVE i = j
    <3>1. /\ r(a).node = r(b).node /\ r(a).node # 0
          /\ pos[a] \in DOMAIN rows[child(a)] /\ pos[b] \in DOMAIN rows[child(b)]
          /\ r(a) = rows[child(a)][pos[a]] /\ r(b) = rows[child(b)][pos[b]]
      BY <1>3, <1>5, <1>6, <2>3
    <3>2. HasNode(rows[child(a)], r(a).node) /\ HasNode(rows[child(b)], r(a).node)
      BY <3>1 DEF HasNode
    <3>3. child(a) = child(b)
      <4>1. /\ child(a) \in m + 1 .. f.n /\ f.parent[child(a)] = m /\ Placed(f, rows[child(a)], child(a))
            /\ child(b) \in m + 1 .. f.n /\ f.parent[child(b)] = m /\ Placed(f, rows[child(b)], child(b))
        BY <1>6
      <4> QED
        BY <3>1, <3>2, <4>1, SubtreesApart
    <3>4. blk[a] = blk[b]
      <4>1. blk[a] \in DOMAIN cs /\ blk[b] \in DOMAIN cs /\ cs[blk[a]] = cs[blk[b]]
        BY <1>2, <1>4, <3>3 DEF child
      <4> QED
        BY <4>1 DEF Family, TreeShape, cs
    <3>5. pos[a] = pos[b]
      <4>1. /\ NodesApart(rows[child(a)]) /\ pos[a] \in DOMAIN rows[child(a)] /\ pos[b] \in DOMAIN rows[child(a)]
            /\ rows[child(a)][pos[a]].node = rows[child(a)][pos[b]].node
            /\ rows[child(a)][pos[a]].node # 0
        BY <1>s, <3>1, <3>3
      <4> QED
        BY ONLY <4>1 DEF NodesApart
    <3>6. a = b
      BY <1>3, <3>4, <3>5
    <3> QED
      BY <2>3, <3>6
  <2> QED
    BY <1>2, <2>1, <2>2, <2>3
<1>15. ParentAbove(f, rs)
  <2> SUFFICES ASSUME NEW i \in 1 .. k + l, rs[i].path # <<>>
               PROVE  \E j \in 1 .. i - 1 : rs[j].node = f.up[rs[i]] /\ rs[j].path = Front(rs[i].path)
    BY <1>2 DEF ParentAbove
  <2>0. i # 1 /\ 1 \in 1 .. i - 1
    BY <1>2
  <2>1. CASE i \in 2 .. k
    BY <1>2, <1>8, <2>0, <2>1
  <2>2. ASSUME NEW a \in 1 .. l, i = k + a
        PROVE  \E j \in 1 .. i - 1 : rs[j].node = f.up[rs[i]] /\ rs[j].path = Front(rs[i].path)
    <3>1. /\ child(a) \in m + 1 .. f.n /\ f.parent[child(a)] = m /\ Placed(f, rows[child(a)], child(a))
          /\ pos[a] \in DOMAIN rows[child(a)] /\ r(a) = rows[child(a)][pos[a]]
          /\ f.up[rs[i]] = f.up[r(a)] /\ pos[a] \in Nat \ {0}
      BY <1>2, <1>3, <1>5, <1>6, <2>2
    <3>2. rows[child(a)] \in Seq(f.kind)
      BY <3>1 DEF Placed
    <3>3. CASE r(a).path = <<>>
      <4>1. Front(rs[i].path) = <<>>
        BY <1>7, <2>2, <3>3
      <4>2. 1 \in DOMAIN rows[child(a)] /\ rows[child(a)] # <<>>
        BY <3>1, <3>2
      <4>3. rows[child(a)][1].path = <<>> /\ (child(a) # 1 => f.up[rows[child(a)][1]] = f.parent[child(a)])
        BY <3>1, <4>2 DEF Placed, RootFirst
      <4>4. pos[a] = 1
        BY <3>1, <3>3, <4>2, <4>3 DEF Placed, PathsApart
      <4>5. f.up[r(a)] = m
        BY <3>1, <4>3, <4>4
      <4> QED
        BY <1>2, <2>0, <3>1, <4>1, <4>5
    <3>4. CASE r(a).path # <<>>
      <4>1. PICK q \in 1 .. pos[a] - 1 :
              rows[child(a)][q].node = f.up[r(a)] /\ rows[child(a)][q].path = Front(r(a).path)
        BY <3>1, <3>4 DEF Placed, ParentAbove
      <4>2. PICK j \in 1 .. a - 1 : blk[j] = blk[a] /\ pos[j] = q
        BY <1>3
      <4>3. j \in 1 .. l /\ k + j \in 1 .. i - 1
        BY <1>2, <2>2
      <4>4. r(j) = rows[child(a)][q]
        BY <1>5, <4>2, <4>3 DEF child
      <4>5. rs[k + j].node = f.up[rs[i]]
        BY <1>6, <3>1, <4>1, <4>3, <4>4
      <4>6. rs[k + j].path = <<blk[a] - 1>> \o Front(r(a).path)
        BY <1>6, <4>1, <4>2, <4>3, <4>4
      <4>7. Front(rs[i].path) = <<blk[a] - 1>> \o Front(r(a).path)
        BY <1>7, <2>2, <3>4
      <4> QED
        BY <4>3, <4>5, <4>6, <4>7
    <3> QED
      BY <3>3, <3>4
  <2> QED
    BY <1>2, <2>0, <2>1, <2>2
<1>16. Inside(f, rs, m)
  <2> SUFFICES ASSUME NEW i \in 1 .. k + l, rs[i].node # 0
               PROVE  /\ rs[i].node \in m .. f.n /\ f.own[rs[i].node] # <<>>
                      /\ rs[i].node # m => HasNode(rs, f.parent[rs[i].node])
    BY <1>2 DEF Inside
  <2>1. CASE i = 1
    BY <1>2, <1>4, <2>1
  <2>2. ASSUME NEW a \in 1 .. l, i = k + a
        PROVE  /\ rs[i].node \in m .. f.n /\ f.own[rs[i].node] # <<>>
               /\ rs[i].node # m => HasNode(rs, f.parent[rs[i].node])
    <3> DEFINE y == r(a).node
    <3>1. rs[i].node = y /\ y # 0
      BY <1>6, <2>2
    <3>2. /\ y \in child(a) .. f.n /\ f.own[y] # <<>>
          /\ y # child(a) => HasNode(rows[child(a)], f.parent[y])
      <4>1. /\ r(a) = rows[child(a)][pos[a]] /\ pos[a] \in DOMAIN rows[child(a)]
            /\ Inside(f, rows[child(a)], child(a)) /\ r(a).node # 0
        BY <1>s, <3>1
      <4> QED
        BY ONLY <4>1 DEF Inside
    <3>3. child(a) \in m + 1 .. f.n /\ f.parent[child(a)] = m
      BY <1>6
    <3> HIDE DEF y
    <3>4. y \in m .. f.n
      BY <3>2, <3>3
    <3>5. HasNode(rs, m)
      <4>1. 1 \in DOMAIN rs
        BY <1>2
      <4> QED
        BY <1>2, <4>1 DEF HasNode
    <3>6. HasNode(rs, f.parent[y])
      BY <1>10, <3>2, <3>3, <3>5
    <3> QED
      BY <3>1, <3>2, <3>4, <3>6
  <2> QED
    BY <1>2, <2>1, <2>2
<1>17. ChildrenIn(f, rs)
  <2> SUFFICES ASSUME NEW c \in 2 .. f.n, HasNode(rs, f.parent[c]), f.own[c] # <<>>
               PROVE  HasNode(rs, c)
    BY DEF ChildrenIn
  <2>1. PICK i \in 1 .. k + l : rs[i].node = f.parent[c]
    BY <1>2 DEF HasNode
  <2>2. f.parent[c] # 0
    BY DEF Family, TreeShape
  <2>3. CASE i = 1
    BY <1>2, <1>11, <2>1, <2>3
  <2>4. ASSUME NEW a \in 1 .. l, i = k + a PROVE HasNode(rs, c)
    <3>1. HasNode(rows[child(a)], f.parent[c])
      <4>1. r(a).node = f.parent[c] /\ r(a) = rows[child(a)][pos[a]] /\ pos[a] \in DOMAIN rows[child(a)]
        BY <1>6, <1>s, <2>1, <2>4
      <4> QED
        BY ONLY <4>1 DEF HasNode
    <3>2. HasNode(rows[child(a)], c)
      BY <1>6, <3>1 DEF Placed, ChildrenIn
    <3> QED
      BY <1>10, <3>2
  <2> QED
    BY <1>2, <2>1, <2>2, <2>3, <2>4
<1> QED
  BY <1>3, <1>9, <1>12, <1>14, <1>15, <1>16, <1>17 DEF Placed, rs

\* Nothing is in its place.
LEMMA NothingPlaced ==
  ASSUME NEW f, NEW m, f.own[m] = <<>>
  PROVE  Placed(f, <<>>, m)
<1>1. <<>> \in Seq(f.kind) /\ DOMAIN <<>> = {}
  OBVIOUS
<1> QED
  BY <1>1 DEF Placed, RootFirst, PathsApart, NodesApart, ParentAbove, Inside, ChildrenIn, HasNode

\* The rows of a tree, collected from its leaves up, are in their places.
LEMMA RowsPlaced ==
  ASSUME NEW f, Family(f), NEW rows, \A m \in 1 .. f.n : rows[m] = Grown(f, rows, m)
  PROVE  \A m \in 1 .. f.n : Placed(f, rows[m], m)
<1> DEFINE Good == {t \in 0 .. f.n : \A m \in f.n + 1 - t .. f.n : Placed(f, rows[m], m)}
<1>1. f.n \in Nat
  BY DEF Family, TreeShape
<1>2. 0 \in Good
  BY <1>1
<1>3. ASSUME NEW t \in 1 .. f.n, t - 1 \in Good PROVE t \in Good
  <2> DEFINE m == f.n + 1 - t
  <2>1. m \in 1 .. f.n /\ f.n + 1 - (t - 1) = m + 1 /\ t \in 0 .. f.n
    BY <1>1
  <2>2. \A c \in m + 1 .. f.n : Placed(f, rows[c], c)
    BY <1>3, <2>1
  <2> HIDE DEF m
  <2>3. Placed(f, rows[m], m)
    <3>1. CASE f.own[m] = <<>>
      BY <2>1, <3>1, NothingPlaced DEF Grown
    <3>2. CASE f.own[m] # <<>>
      BY <2>1, <2>2, <3>2, GrownPlaced
    <3> QED
      BY <3>1, <3>2
  <2>4. \A c \in m .. f.n : c = m \/ c \in m + 1 .. f.n
    BY <1>1, <2>1
  <2>5. \A c \in m .. f.n : Placed(f, rows[c], c)
    BY <2>2, <2>3, <2>4
  <2> QED
    BY <2>1, <2>5 DEF m
<1>4. \A t \in 0 .. f.n : t \in Good
  <2> HIDE DEF Good
  <2> QED
    BY ONLY <1>1, <1>2, <1>3, UpTo
<1>5. f.n \in Good
  BY <1>1, <1>4
<1> QED
  BY <1>1, <1>5

LEMMA ChildAfter ==
  ASSUME NEW f, Family(f), NEW m \in 1 .. f.n, NEW i \in DOMAIN f.children[m]
  PROVE  f.children[m][i] \in m + 1 .. f.n /\ i \in Nat \ {0}
<1> DEFINE cs == f.children[m]
          Both == 2 .. f.n
          c == cs[i]
<1>1. cs \in Seq(Both) /\ i \in DOMAIN cs
  BY DEF Family, TreeShape
<1>2. c \in Both /\ i \in Nat \ {0}
  <2> HIDE DEF Both, cs
  <2> QED
    BY <1>1
<1>3. c \in 2 .. f.n
  BY <1>2
<1> HIDE DEF c
<1>4. f.parent[c] = m
  BY <1>1, <1>3 DEF Family, TreeShape, c
<1>5. m \in 1 .. c - 1 /\ f.n \in Nat
  BY <1>3, <1>4 DEF Family, TreeShape
<1>6. c \in m + 1 .. f.n
  BY <1>3, <1>5
<1> QED
  BY <1>2, <1>6 DEF c

\* The rows of a node depend on those of later nodes only.
LEMMA GrownSame ==
  ASSUME NEW f, Family(f), NEW m \in 1 .. f.n, NEW x, NEW y, \A c \in m + 1 .. f.n : x[c] = y[c]
  PROVE  Grown(f, x, m) = Grown(f, y, m)
<1>1. \A i \in DOMAIN f.children[m] : x[f.children[m][i]] = y[f.children[m][i]]
  BY ChildAfter
<1>2. Blocks(f, x, m) = Blocks(f, y, m)
  BY <1>1 DEF Blocks
<1> QED
  BY <1>2 DEF Grown

LEMMA GrownTyped ==
  ASSUME NEW f, Family(f), NEW m \in 1 .. f.n, NEW x, \A c \in m + 1 .. f.n : x[c] \in Seq(f.kind)
  PROVE  Grown(f, x, m) \in Seq(f.kind)
<1>1. CASE f.own[m] = <<>>
  <2>1. <<>> \in Seq(f.kind)
    OBVIOUS
  <2> QED
    BY <1>1, <2>1 DEF Grown
<1>2. CASE f.own[m] # <<>>
  BY <1>2, LayoutExists DEF Layout
<1> QED
  BY <1>1, <1>2

\* There are rows to collect.
LEMMA RowsExist ==
  ASSUME NEW f, Family(f)
  PROVE  \E rows \in [1 .. f.n -> Seq(f.kind)] : \A m \in 1 .. f.n : rows[m] = Grown(f, rows, m)
<1> DEFINE n == f.n
          S == [1 .. n -> Seq(f.kind)]
          at(t) == n - t + 1
          step == [t \in 1 .. n |-> [x \in S |-> [x EXCEPT ![at(t)] = Grown(f, x, at(t))]]]
          b == [m \in 1 .. n |-> <<>>]
<1>1. n \in Nat
  BY DEF Family, TreeShape
<1>2. b \in S
  <2>1. <<>> \in Seq(f.kind)
    OBVIOUS
  <2> QED
    BY <2>1
<1>3. ASSUME NEW t \in 1 .. n PROVE at(t) \in 1 .. n /\ \A c \in at(t) + 1 .. n : c \in 1 .. n /\ c # at(t)
  BY <1>1
<1>4. ASSUME NEW t \in 1 .. n, NEW x \in S
      PROVE  /\ step[t][x] = [x EXCEPT ![at(t)] = Grown(f, x, at(t))]
             /\ step[t][x] \in S
  <2>1. Grown(f, x, at(t)) \in Seq(f.kind)
    <3>1. \A c \in at(t) + 1 .. n : x[c] \in Seq(f.kind)
      BY <1>3
    <3> DEFINE m == at(t)
    <3>2. m \in 1 .. f.n /\ \A c \in m + 1 .. f.n : x[c] \in Seq(f.kind)
      BY <1>3, <3>1
    <3> HIDE DEF m
    <3>3. Grown(f, x, m) \in Seq(f.kind)
      BY <3>2, GrownTyped
    <3> QED
      BY <3>3 DEF m
  <2>2. step[t][x] = [x EXCEPT ![at(t)] = Grown(f, x, at(t))]
    OBVIOUS
  <2> QED
    BY <1>3, <2>1, <2>2
<1>5. PICK g \in [0 .. n -> S] : Solves(g, step, n, b)
  <2>1. Closed(step, n, S)
    BY <1>4 DEF Closed
  <2> HIDE DEF step, S, b, n
  <2> QED
    BY ONLY <1>1, <1>2, <2>1, RecursionExists
<1>6. ASSUME NEW t \in 1 .. n
      PROVE  g[t - 1] \in S /\ g[t] = [g[t - 1] EXCEPT ![at(t)] = Grown(f, g[t - 1], at(t))] /\ g[t] \in S
  <2>1. g[t] = step[t][g[t - 1]] /\ g[t - 1] \in S
    <3>1. t - 1 \in 0 .. n
      BY <1>1
    <3> HIDE DEF step, S
    <3> QED
      BY <1>5, <3>1 DEF Solves
  <2> HIDE DEF step, at, S
  <2> QED
    BY <1>4, <2>1
<1> DEFINE U == {t \in 0 .. n : \A m \in n - t + 1 .. n : g[t][m] = Grown(f, g[t], m)}
<1>7. 0 \in U
  BY <1>1
<1>8. ASSUME NEW t \in 1 .. n, t - 1 \in U PROVE t \in U
  <2> DEFINE x == g[t - 1]
            y == g[t]
            k == at(t)
  <2>1. /\ k \in 1 .. n /\ t \in 0 .. n /\ n - (t - 1) + 1 = k + 1
        /\ \A m \in n - t + 1 .. n : m = k \/ m \in k + 1 .. n
        /\ \A m \in k .. n : \A c \in m + 1 .. n : c \in 1 .. n /\ c # k
        /\ \A m \in k + 1 .. n : m \in k .. n /\ m \in 1 .. n /\ m # k
    BY <1>1
  <2>2. x \in S /\ y = [x EXCEPT ![k] = Grown(f, x, k)] /\ y \in S
    BY <1>6
  <2>3. \A m \in k + 1 .. n : x[m] = Grown(f, x, m)
    BY <1>8, <2>1
  <2> HIDE DEF x, y, k, at
  <2>4. y[k] = Grown(f, x, k) /\ \A m \in 1 .. n : m # k => y[m] = x[m]
    BY <2>1, <2>2
  <2>5. ASSUME NEW m \in k .. n, m \in 1 .. n PROVE Grown(f, x, m) = Grown(f, y, m)
    <3>1. \A c \in m + 1 .. f.n : x[c] = y[c]
      BY <2>1, <2>4
    <3>2. m \in 1 .. f.n
      BY <2>5
    <3> QED
      BY ONLY Family(f), <3>1, <3>2, GrownSame
  <2>6. k \in k .. n
    BY <1>1, <2>1
  <2>7. y[k] = Grown(f, y, k)
    BY <2>1, <2>4, <2>5, <2>6
  <2>8. \A m \in k + 1 .. n : y[m] = Grown(f, y, m)
    BY <2>1, <2>3, <2>4, <2>5
  <2>9. \A m \in n - t + 1 .. n : y[m] = Grown(f, y, m)
    BY <2>1, <2>7, <2>8
  <2> QED
    BY <2>1, <2>9 DEF y
<1>9. \A t \in 0 .. n : t \in U
  <2> HIDE DEF U
  <2> QED
    BY ONLY <1>1, <1>7, <1>8, UpTo
<1>10. n \in 0 .. n /\ n - n + 1 = 1
  BY <1>1
<1>11. n \in U
  BY <1>9, <1>10
<1>12. \A m \in 1 .. n : g[n][m] = Grown(f, g[n], m)
  BY <1>10, <1>11
<1>13. g[n] \in S
  <2> HIDE DEF S
  <2> QED
    BY <1>5, <1>10
<1> QED
  BY <1>12, <1>13

\* Rows are as they must be when they are so wherever those below are.
LEMMA TypedDown ==
  ASSUME NEW f, Family(f), NEW rows,
         \A m \in 1 .. f.n : (\A c \in m + 1 .. f.n : rows[c] \in Seq(f.kind)) => rows[m] = Grown(f, rows, m)
  PROVE  \A m \in 1 .. f.n : rows[m] = Grown(f, rows, m)
<1> DEFINE Good == {t \in 0 .. f.n : \A m \in f.n + 1 - t .. f.n : rows[m] \in Seq(f.kind)}
<1>1. f.n \in Nat
  BY DEF Family, TreeShape
<1>2. 0 \in Good
  BY <1>1
<1>3. ASSUME NEW t \in 1 .. f.n, t - 1 \in Good PROVE t \in Good
  <2> DEFINE m == f.n + 1 - t
  <2>1. m \in 1 .. f.n /\ f.n + 1 - (t - 1) = m + 1 /\ t \in 0 .. f.n
    BY <1>1
  <2>2. \A c \in m + 1 .. f.n : rows[c] \in Seq(f.kind)
    BY <1>3, <2>1
  <2> HIDE DEF m
  <2>3. rows[m] \in Seq(f.kind)
    BY <2>1, <2>2, GrownTyped
  <2>4. \A c \in m .. f.n : c = m \/ c \in m + 1 .. f.n
    BY <1>1, <2>1
  <2>5. \A c \in m .. f.n : rows[c] \in Seq(f.kind)
    BY <2>2, <2>3, <2>4
  <2> QED
    BY <2>1, <2>5 DEF m
<1>4. \A t \in 0 .. f.n : t \in Good
  <2> HIDE DEF Good
  <2> QED
    BY ONLY <1>1, <1>2, <1>3, UpTo
<1>5. f.n \in Good
  BY <1>1, <1>4
<1>6. ASSUME NEW m \in 1 .. f.n PROVE \A c \in m + 1 .. f.n : rows[c] \in Seq(f.kind)
  BY <1>1, <1>5
<1> QED
  BY <1>6

-----------------------------------------------------------------------------
(* ReportTrees: relationships and error nodes are such rows.               *)

Collected(kind, own, up) ==
  [n |-> Len(tree.parent), parent |-> tree.parent, children |-> tree.children,
   kind |-> kind, own |-> own, up |-> up,
   lift |-> [i \in Nat \ {0} |-> [r \in kind |-> R!Below(i, r)]]]

LEMMA CollectedShape ==
  ASSUME tree \in Trees, NEW kind, NEW own, NEW up
  PROVE  /\ TreeShape(Collected(kind, own, up))
         /\ R!Nodes = 1 .. Len(tree.parent) /\ 1 \in R!Nodes
         /\ tree.exits \in [R!Nodes -> Seq(Nat)]
<1> DEFINE f == Collected(kind, own, up)
          n == Len(tree.parent)
<1>1. f.n = n /\ f.parent = tree.parent /\ f.children = tree.children
  BY DEF Collected
<1>2. /\ tree.parent \in Seq(Nat) /\ n > 0
      /\ \A c \in 2 .. n : tree.parent[c] \in 1 .. c - 1
      /\ tree.children \in [1 .. n -> Seq(2 .. n)]
      /\ \A p \in 1 .. n :
           /\ \A i, j \in DOMAIN tree.children[p] : tree.children[p][i] = tree.children[p][j] => i = j
           /\ \A c \in 2 .. n : tree.parent[c] = p <=> \E i \in DOMAIN tree.children[p] : tree.children[p][i] = c
      /\ tree.exits \in [1 .. n -> Seq(Nat)]
  BY TreesAssumption
<1>3. n \in Nat \ {0} /\ DOMAIN tree.parent = 1 .. n
  BY <1>2
<1>4. 1 \in 1 .. n
  BY <1>3
<1>5. R!Nodes = 1 .. n
  BY <1>3 DEF R!Nodes
<1>7. \A p \in 1 .. n :
        /\ \A i, j \in DOMAIN tree.children[p] : tree.children[p][i] = tree.children[p][j] => i = j
        /\ \A c \in 2 .. n : tree.parent[c] = p <=> \E i \in DOMAIN tree.children[p] : tree.children[p][i] = c
  BY <1>2
<1> HIDE DEF n, f
<1>6. TreeShape(f)
  <2> DEFINE parent == tree.parent
            children == tree.children
  <2>1. f.n = n /\ f.parent = parent /\ f.children = children
    BY <1>1
  <2>2. \A p \in 1 .. n : \A i, j \in DOMAIN children[p] : children[p][i] = children[p][j] => i = j
    BY <1>7
  <2>3. \A p \in 1 .. n : \A c \in 2 .. n : parent[c] = p <=> \E i \in DOMAIN children[p] : children[p][i] = c
    BY <1>7
  <2>4. (\A c \in 2 .. n : parent[c] \in 1 .. c - 1) /\ children \in [1 .. n -> Seq(2 .. n)]
    BY <1>2
  <2> HIDE DEF parent, children
  <2> HIDE DEF n
  <2>5. f.n \in Nat \ {0} /\ \A c \in 2 .. f.n : f.parent[c] \in 1 .. c - 1
    BY ONLY <1>3, <2>1, <2>4
  <2>6. f.children \in [1 .. f.n -> Seq(2 .. f.n)]
    BY ONLY <2>1, <2>4
  <2>7. \A p \in 1 .. f.n : \A i, j \in DOMAIN f.children[p] : f.children[p][i] = f.children[p][j] => i = j
    BY ONLY <2>1, <2>2
  <2>8. \A p \in 1 .. f.n : \A c \in 2 .. f.n :
          f.parent[c] = p <=> \E i \in DOMAIN f.children[p] : f.children[p][i] = c
    BY ONLY <2>1, <2>3
  <2> QED
    BY ONLY <2>5, <2>6, <2>7, <2>8 DEF TreeShape
<1> QED
  BY <1>2, <1>4, <1>5, <1>6 DEF n, f

\* What the code collects below a node is what the family has there.
LEMMA CollectedBelow ==
  ASSUME NEW kind, NEW own, NEW up, NEW f, f = Collected(kind, own, up), Family(f),
         NEW rows, NEW m \in 1 .. f.n, \A c \in m + 1 .. f.n : rows[c] \in Seq(kind)
  PROVE  R!RowsBelow(m, rows) = FlattenSeq(Blocks(f, rows, m))
<1> DEFINE cs == tree.children[m]
<1>1. /\ f.children[m] = cs
      /\ \A i \in Nat \ {0} : \A r \in kind : f.lift[i][r] = R!Below(i, r)
  BY DEF Collected
<1>2. ASSUME NEW i \in DOMAIN cs
      PROVE  [j \in DOMAIN rows[cs[i]] |-> f.lift[i][rows[cs[i]][j]]]
               = [j \in DOMAIN rows[cs[i]] |-> R!Below(i, rows[cs[i]][j])]
  <2>1. cs[i] \in m + 1 .. f.n /\ i \in Nat \ {0}
    BY <1>1, ChildAfter
  <2> DEFINE s == rows[cs[i]]
  <2>2. s \in Seq(kind)
    BY <2>1
  <2> HIDE DEF s
  <2>3. \A j \in DOMAIN s : s[j] \in kind
    BY <2>2
  <2>4. \A j \in DOMAIN s : f.lift[i][s[j]] = R!Below(i, s[j])
    BY <1>1, <2>1, <2>3
  <2> QED
    BY <2>4 DEF s
<1>3. Blocks(f, rows, m) = [i \in DOMAIN cs |-> [j \in DOMAIN rows[cs[i]] |-> R!Below(i, rows[cs[i]][j])]]
  BY <1>1, <1>2 DEF Blocks
<1>4. R!RowsBelow(m, rows) = FlattenSeq([i \in DOMAIN cs |-> [j \in DOMAIN rows[cs[i]] |-> R!Below(i, rows[cs[i]][j])]])
  BY DEF R!RowsBelow, R!FlattenSeq, FlattenSeq
<1> QED
  BY <1>3, <1>4

\* A row below a node is still a row, one step further down.
LEMMA PathBelow ==
  ASSUME NEW i \in Nat \ {0}, NEW p \in Seq(Nat)
  PROVE  <<i - 1>> \o p \in Seq(Nat) /\ Len(<<i - 1>> \o p) = Len(p) + 1
<1>1. i - 1 \in Nat
  OBVIOUS
<1> DEFINE x == i - 1
<1>2. x \in Nat
  BY <1>1
<1> HIDE DEF x
<1>3. <<x>> \o p \in Seq(Nat) /\ Len(<<x>> \o p) = Len(p) + 1
  BY <1>2
<1> QED
  BY <1>3 DEF x

RelationshipRows == [path : Seq(Nat), kind : {"server", "client"}, node : Nat, parent : Nat]
OwnRelationships ==
  [m \in R!Nodes |-> IF ~R!Described(m) THEN <<>>
                     ELSE <<R!ServerRow(m)>> \o [i \in 1 .. R!ClientSides(m) |-> R!ClientRow(m, i)]]
RelationshipFamily == Collected(RelationshipRows, OwnRelationships, [r \in RelationshipRows |-> r.parent])

LEMMA ClientSidesCounted ==
  ASSUME tree \in Trees, NEW m \in R!Nodes
  PROVE  R!ClientSides(m) \in Nat
<1> DEFINE S == {i \in DOMAIN tree.exits[m] : tree.exits[m][i] = 0}
          s == tree.exits[m]
<1>1. s \in Seq(Nat)
  BY CollectedShape
<1>2. DOMAIN s = 1 .. Len(s) /\ Len(s) \in Nat
  <2> HIDE DEF s
  <2> QED
    BY <1>1
<1>3. IsFiniteSet(1 .. Len(s))
  BY <1>2, FS_Interval
<1>4. S \subseteq 1 .. Len(s)
  BY <1>2
<1>5. IsFiniteSet(S)
  <2> HIDE DEF S, s
  <2> QED
    BY <1>3, <1>4, FS_Subset
<1>6. Cardinality(S) \in Nat
  <2> HIDE DEF S
  <2> QED
    BY <1>5, FS_CardinalityType
<1>7. R!Cardinality(S) = Cardinality(S)
  BY DEF R!Cardinality, Cardinality
<1> QED
  BY <1>6, <1>7 DEF R!ClientSides

LEMMA RelationshipsFamily ==
  ASSUME tree \in Trees
  PROVE  /\ Family(RelationshipFamily)
         /\ \A m \in R!Nodes : OwnRelationships[m] # <<>> <=> R!Described(m)
<1> DEFINE f == RelationshipFamily
<1>1. /\ f.n = Len(tree.parent) /\ f.parent = tree.parent /\ f.children = tree.children
      /\ f.kind = RelationshipRows /\ f.own = OwnRelationships
      /\ f.up = [r \in RelationshipRows |-> r.parent]
      /\ f.lift = [i \in Nat \ {0} |-> [r \in RelationshipRows |-> R!Below(i, r)]]
  BY DEF RelationshipFamily, Collected
<1>2. TreeShape(f) /\ R!Nodes = 1 .. f.n
  BY <1>1, CollectedShape DEF RelationshipFamily
<1> HIDE DEF f
<1>3. RowKind(f)
  <2>1. \A r \in RelationshipRows : r.path \in Seq(Nat) /\ r.node \in Nat
    BY DEF RelationshipRows
  <2>2. ASSUME NEW i \in Nat \ {0}, NEW r \in RelationshipRows
        PROVE  /\ R!Below(i, r) \in RelationshipRows
               /\ R!Below(i, r).path = <<i - 1>> \o r.path
               /\ R!Below(i, r).node = r.node
               /\ R!Below(i, r).parent = r.parent
    <3> DEFINE p == <<i - 1>> \o r.path
    <3>1. p \in Seq(Nat)
      BY <2>1, PathBelow
    <3>2. R!Below(i, r) = [r EXCEPT !.path = p]
      BY DEF R!Below, RelationshipRows
    <3> HIDE DEF p
    <3>3. [r EXCEPT !.path = p] \in RelationshipRows
      BY <3>1 DEF RelationshipRows
    <3>4. /\ [r EXCEPT !.path = p].path = p /\ [r EXCEPT !.path = p].node = r.node
          /\ [r EXCEPT !.path = p].parent = r.parent
      BY DEF RelationshipRows
    <3> QED
      BY <3>2, <3>3, <3>4 DEF p
  <2>3. ASSUME NEW i \in Nat \ {0}, NEW r \in f.kind
        PROVE  /\ f.lift[i][r] \in f.kind
               /\ f.lift[i][r].path = <<i - 1>> \o r.path
               /\ f.lift[i][r].node = r.node
               /\ f.up[f.lift[i][r]] = f.up[r]
    <3>1. r \in RelationshipRows /\ f.lift[i][r] = R!Below(i, r)
      BY <1>1
    <3>2. f.up[R!Below(i, r)] = R!Below(i, r).parent /\ f.up[r] = r.parent
      BY <1>1, <2>2, <3>1
    <3> QED
      BY ONLY <1>1, <2>2, <3>1, <3>2
  <2> QED
    BY <1>1, <2>1, <2>3 DEF RowKind
<1>4. OwnRows(f) /\ \A m \in R!Nodes : f.own[m] # <<>> <=> R!Described(m)
  <2>1. ASSUME NEW m \in 1 .. f.n
        PROVE  /\ f.own[m] \in Seq(f.kind) /\ (f.own[m] # <<>> <=> R!Described(m))
               /\ f.own[m] # <<>> =>
                    /\ f.own[m][1].path = <<>> /\ f.own[m][1].node = m
                    /\ m # 1 => f.up[f.own[m][1]] = f.parent[m]
                    /\ \A i \in 2 .. Len(f.own[m]) : /\ f.own[m][i].path = <<Len(f.children[m]) + i - 2>>
                                                     /\ f.own[m][i].node = 0
                                                     /\ f.up[f.own[m][i]] = m
    <3> DEFINE server == R!ServerRow(m)
              k == R!ClientSides(m)
              clients == [i \in 1 .. k |-> R!ClientRow(m, i)]
              own == <<server>> \o clients
    <3>1. m \in Nat \ {0} /\ m \in R!Nodes /\ k \in Nat
      BY <1>2, ClientSidesCounted
    <3>2. m = 1 \/ tree.parent[m] \in Nat
      BY <1>1, <1>2 DEF TreeShape
    <3>3. server \in RelationshipRows /\ server.path = <<>> /\ server.node = m /\ (m # 1 => server.parent = tree.parent[m])
      <4>1. <<>> \in Seq(Nat)
        OBVIOUS
      <4> QED
        BY <3>1, <3>2, <4>1 DEF R!ServerRow, RelationshipRows
    <3>4. f.children[m] \in Seq(2 .. f.n)
      BY <1>2 DEF TreeShape
    <3>5. Len(f.children[m]) \in Nat
      BY <3>4
    <3>6. ASSUME NEW i \in 1 .. k
          PROVE  /\ R!ClientRow(m, i) \in RelationshipRows
                 /\ R!ClientRow(m, i).path = <<Len(f.children[m]) + i - 1>>
                 /\ R!ClientRow(m, i).node = 0 /\ R!ClientRow(m, i).parent = m
      <4> DEFINE x == Len(f.children[m]) + i - 1
      <4>1. x \in Nat
        BY <3>1, <3>5
      <4>2. R!ClientPath(m, i) = <<x>>
        BY <1>1 DEF R!ClientPath
      <4> HIDE DEF x
      <4>3. <<x>> \in Seq(Nat)
        BY <4>1
      <4>4. R!ClientRow(m, i) = [path |-> <<x>>, kind |-> "client", node |-> 0, parent |-> m]
        BY <4>2 DEF R!ClientRow
      <4>5. R!ClientRow(m, i) \in RelationshipRows
        BY <3>1, <4>3, <4>4 DEF RelationshipRows
      <4> QED
        BY <4>4, <4>5 DEF x
    <3> HIDE DEF server, k
    <3>7. clients \in Seq(RelationshipRows) /\ Len(clients) = k /\ \A i \in 1 .. k : clients[i] = R!ClientRow(m, i)
      <4>1. clients \in [1 .. k -> RelationshipRows]
        BY <3>6
      <4>2. \A i \in 1 .. k : clients[i] = R!ClientRow(m, i)
        OBVIOUS
      <4> HIDE DEF clients
      <4> QED
        BY <3>1, <4>1, <4>2
    <3> HIDE DEF clients
    <3>8. /\ own \in Seq(RelationshipRows) /\ own # <<>> /\ Len(own) = k + 1 /\ own[1] = server
          /\ \A i \in 2 .. k + 1 : own[i] = clients[i - 1]
      <4>1. <<server>> \in Seq(RelationshipRows) /\ Len(<<server>>) = 1 /\ <<server>>[1] = server
        BY <3>3
      <4> QED
        BY <3>1, <3>7, <4>1
    <3> HIDE DEF own
    <3>9. ASSUME NEW i \in 2 .. Len(own)
          PROVE  /\ own[i].path = <<Len(f.children[m]) + i - 2>>
                 /\ own[i].node = 0 /\ own[i].parent = m /\ own[i] \in RelationshipRows
      <4>1. i - 1 \in 1 .. k /\ i \in 2 .. k + 1
        BY <3>1, <3>8
      <4>2. own[i] = R!ClientRow(m, i - 1)
        BY <3>7, <3>8, <4>1
      <4>3. Len(f.children[m]) + (i - 1) - 1 = Len(f.children[m]) + i - 2
        BY <3>5
      <4> QED
        BY <3>6, <4>1, <4>2, <4>3
    <3>10. f.own[m] = IF ~R!Described(m) THEN <<>> ELSE own
      BY <1>1, <3>1 DEF OwnRelationships, own, server, clients, k
    <3>11. \A r \in RelationshipRows : f.up[r] = r.parent
      BY <1>1
    <3>12. CASE R!Described(m)
      <4>1. f.own[m] = own
        BY <3>10, <3>12
      <4>2. f.own[m] \in Seq(f.kind) /\ (f.own[m] # <<>> <=> R!Described(m))
        BY <1>1, <3>8, <3>12, <4>1
      <4>3. /\ f.own[m][1].path = <<>> /\ f.own[m][1].node = m
            /\ m # 1 => f.up[f.own[m][1]] = f.parent[m]
        BY <1>1, <3>3, <3>8, <3>11, <4>1
      <4>4. \A i \in 2 .. Len(f.own[m]) : /\ f.own[m][i].path = <<Len(f.children[m]) + i - 2>>
                                          /\ f.own[m][i].node = 0
                                          /\ f.up[f.own[m][i]] = m
        BY <3>9, <3>11, <4>1
      <4> QED
        BY ONLY <4>2, <4>3, <4>4
    <3>13. CASE ~R!Described(m)
      <4>1. f.own[m] = <<>>
        BY <3>10, <3>13
      <4>2. <<>> \in Seq(f.kind)
        OBVIOUS
      <4> QED
        BY <3>13, <4>1, <4>2
    <3> QED
      BY <3>12, <3>13
  <2>2. \A m \in R!Nodes : f.own[m] # <<>> <=> R!Described(m)
    BY <1>2, <2>1
  <2>3. OwnRows(f)
    BY <2>1 DEF OwnRows
  <2> QED
    BY <2>2, <2>3
<1> QED
  BY <1>1, <1>2, <1>3, <1>4 DEF Family, f

ErrorRows == {r \in [path : Seq(Nat), kind : {"error"}, node : Nat \ {0}, depth : Nat] : r.depth = Len(r.path) + 1}
OwnErrors == [m \in R!Nodes |-> <<R!ErrorRow(m)>>]
ErrorFamily == Collected(ErrorRows, OwnErrors, [r \in ErrorRows |-> tree.parent[r.node]])

LEMMA ErrorsFamily ==
  ASSUME tree \in Trees
  PROVE  Family(ErrorFamily)
<1> DEFINE f == ErrorFamily
<1>1. /\ f.n = Len(tree.parent) /\ f.parent = tree.parent /\ f.children = tree.children
      /\ f.kind = ErrorRows /\ f.own = OwnErrors
      /\ f.up = [r \in ErrorRows |-> tree.parent[r.node]]
      /\ f.lift = [i \in Nat \ {0} |-> [r \in ErrorRows |-> R!Below(i, r)]]
  BY DEF ErrorFamily, Collected
<1>2. TreeShape(f) /\ R!Nodes = 1 .. f.n
  BY <1>1, CollectedShape DEF ErrorFamily
<1> HIDE DEF f
<1>3. RowKind(f)
  <2>1. \A r \in ErrorRows : r.path \in Seq(Nat) /\ r.node \in Nat
    BY DEF ErrorRows
  <2>2. ASSUME NEW i \in Nat \ {0}, NEW r \in ErrorRows
        PROVE  /\ R!Below(i, r) \in ErrorRows
               /\ R!Below(i, r).path = <<i - 1>> \o r.path
               /\ R!Below(i, r).node = r.node
    <3> DEFINE p == <<i - 1>> \o r.path
              d == r.depth + 1
              Both == [path : Seq(Nat), kind : {"error"}, node : Nat \ {0}, depth : Nat]
              row == [r EXCEPT !.path = p, !.depth = d]
    <3>1. p \in Seq(Nat) /\ Len(p) = Len(r.path) + 1
      BY <2>1, PathBelow
    <3>2. r \in Both /\ r.depth = Len(r.path) + 1 /\ r.kind = "error"
      BY DEF ErrorRows
    <3>3. R!Below(i, r) = row
      BY <3>2 DEF R!Below
    <3>4. d \in Nat /\ d = Len(p) + 1
      BY <3>1, <3>2
    <3> HIDE DEF p, d
    <3>5. row \in Both /\ row.path = p /\ row.node = r.node /\ row.depth = d
      BY <3>1, <3>2, <3>4
    <3> HIDE DEF row
    <3>6. row \in ErrorRows
      BY <3>4, <3>5 DEF ErrorRows
    <3> QED
      BY <3>3, <3>5, <3>6 DEF p
  <2>3. ASSUME NEW i \in Nat \ {0}, NEW r \in f.kind
        PROVE  /\ f.lift[i][r] \in f.kind
               /\ f.lift[i][r].path = <<i - 1>> \o r.path
               /\ f.lift[i][r].node = r.node
               /\ f.up[f.lift[i][r]] = f.up[r]
    <3>1. r \in ErrorRows /\ f.lift[i][r] = R!Below(i, r)
      BY <1>1
    <3>2. f.up[R!Below(i, r)] = tree.parent[R!Below(i, r).node] /\ f.up[r] = tree.parent[r.node]
      BY <1>1, <2>2, <3>1
    <3> QED
      BY ONLY <1>1, <2>2, <3>1, <3>2
  <2> QED
    BY <1>1, <2>1, <2>3 DEF RowKind
<1>4. OwnRows(f)
  <2>1. ASSUME NEW m \in 1 .. f.n
        PROVE  /\ f.own[m] \in Seq(f.kind) /\ Len(f.own[m]) = 1
               /\ f.own[m][1].path = <<>> /\ f.own[m][1].node = m
               /\ f.up[f.own[m][1]] = f.parent[m]
    <3> DEFINE row == R!ErrorRow(m)
    <3>1. m \in Nat \ {0} /\ m \in R!Nodes
      BY <1>2
    <3>2. row \in ErrorRows /\ row.path = <<>> /\ row.node = m
      <4>1. <<>> \in Seq(Nat) /\ Len(<<>>) + 1 = 1 /\ 1 \in Nat
        OBVIOUS
      <4>2. row \in [path : Seq(Nat), kind : {"error"}, node : Nat \ {0}, depth : Nat]
        BY <3>1, <4>1 DEF R!ErrorRow
      <4>3. row.depth = 1 /\ row.path = <<>> /\ row.node = m
        BY DEF R!ErrorRow
      <4> HIDE DEF row
      <4> QED
        BY <4>1, <4>2, <4>3 DEF ErrorRows
    <3>3. f.own[m] = <<row>>
      BY <1>1, <3>1 DEF OwnErrors
    <3> HIDE DEF row
    <3>4. <<row>> \in Seq(ErrorRows) /\ Len(<<row>>) = 1 /\ <<row>>[1] = row
      BY <3>2
    <3>5. f.up[row] = tree.parent[m]
      BY <1>1, <3>2
    <3> QED
      BY <1>1, <3>2, <3>3, <3>4, <3>5
  <2>2. ASSUME NEW m \in 1 .. f.n PROVE 2 .. Len(f.own[m]) = {}
    <3>1. 2 .. 1 = {}
      OBVIOUS
    <3> QED
      BY <2>1, <3>1
  <2> QED
    BY <2>1, <2>2 DEF OwnRows
<1> QED
  BY <1>2, <1>3, <1>4 DEF Family, f

\* What the code collects for a node and all below it is what the family has there.
LEMMA RelationshipsCollected ==
  ASSUME tree \in Trees
  PROVE  \A m \in 1 .. RelationshipFamily.n :
           R!Relationships[m] = Grown(RelationshipFamily, R!Relationships, m)
<1> DEFINE f == RelationshipFamily
          Clients(m) == [i \in 1 .. R!ClientSides(m) |-> R!ClientRow(m, i)]
          Row(x, m) == IF ~R!Described(m) THEN <<>> ELSE <<R!ServerRow(m)>> \o Clients(m) \o R!RowsBelow(m, x)
          Equation(x) == x = [m \in R!Nodes |-> Row(x, m)]
<1>1. Family(f) /\ f.own = OwnRelationships /\ f.kind = RelationshipRows /\ R!Nodes = 1 .. f.n
  BY RelationshipsFamily, CollectedShape DEF RelationshipFamily, Collected
<1>2. ASSUME NEW x, NEW m \in 1 .. f.n, \A c \in m + 1 .. f.n : x[c] \in Seq(RelationshipRows)
      PROVE  Grown(f, x, m) = Row(x, m)
  <2>1. R!RowsBelow(m, x) = FlattenSeq(Blocks(f, x, m))
    BY <1>1, <1>2, CollectedBelow DEF RelationshipFamily
  <2>2. f.own[m] = IF ~R!Described(m) THEN <<>> ELSE <<R!ServerRow(m)>> \o Clients(m)
    BY <1>1 DEF OwnRelationships
  <2>3. f.own[m] # <<>> <=> R!Described(m)
    BY <1>1, RelationshipsFamily
  <2> HIDE DEF f, Clients
  <2> QED
    BY <2>1, <2>2, <2>3 DEF Grown
<1> HIDE DEF f
<1>3. PICK g \in [1 .. f.n -> Seq(f.kind)] : \A m \in 1 .. f.n : g[m] = Grown(f, g, m)
  BY <1>1, RowsExist
<1>4. ASSUME NEW m \in 1 .. f.n PROVE g[m] = Row(g, m)
  <2>1. \A c \in m + 1 .. f.n : g[c] \in Seq(f.kind)
    <3>1. \A c \in m + 1 .. f.n : c \in 1 .. f.n
      BY <1>1 DEF Family, TreeShape
    <3> QED
      BY <3>1
  <2> QED
    BY <1>1, <1>2, <1>3, <2>1
<1>5. Equation(g)
  BY <1>1, <1>4
<1>6. Equation(R!Relationships)
  BY <1>5 DEF R!Relationships
<1> DEFINE rows == R!Relationships
<1>7. ASSUME NEW m \in 1 .. f.n, \A c \in m + 1 .. f.n : rows[c] \in Seq(f.kind)
      PROVE  rows[m] = Grown(f, rows, m)
  <2>1. Equation(rows)
    BY <1>6
  <2>2. Grown(f, rows, m) = Row(rows, m)
    BY <1>1, <1>2, <1>7
  <2> HIDE DEF rows, Row
  <2>3. rows[m] = Row(rows, m)
    BY <1>1, <2>1
  <2> QED
    BY <2>2, <2>3
<1> HIDE DEF rows
<1>8. \A m \in 1 .. f.n : rows[m] = Grown(f, rows, m)
  BY <1>1, <1>7, TypedDown
<1> QED
  BY <1>8 DEF f, rows

LEMMA ErrorsCollected ==
  ASSUME tree \in Trees
  PROVE  \A m \in 1 .. ErrorFamily.n : R!ErrorNodes[m] = Grown(ErrorFamily, R!ErrorNodes, m)
<1> DEFINE f == ErrorFamily
          Row(x, m) == <<R!ErrorRow(m)>> \o R!RowsBelow(m, x)
          Equation(x) == x = [m \in R!Nodes |-> Row(x, m)]
<1>1. Family(f) /\ f.own = OwnErrors /\ f.kind = ErrorRows /\ R!Nodes = 1 .. f.n
  BY ErrorsFamily, CollectedShape DEF ErrorFamily, Collected
<1>2. ASSUME NEW x, NEW m \in 1 .. f.n, \A c \in m + 1 .. f.n : x[c] \in Seq(ErrorRows)
      PROVE  Grown(f, x, m) = Row(x, m)
  <2>1. R!RowsBelow(m, x) = FlattenSeq(Blocks(f, x, m))
    BY <1>1, <1>2, CollectedBelow DEF ErrorFamily
  <2>2. f.own[m] = <<R!ErrorRow(m)>>
    BY <1>1 DEF OwnErrors
  <2>3. <<R!ErrorRow(m)>> # <<>>
    OBVIOUS
  <2> HIDE DEF f
  <2> QED
    BY <2>1, <2>2, <2>3 DEF Grown
<1> HIDE DEF f
<1>3. PICK g \in [1 .. f.n -> Seq(f.kind)] : \A m \in 1 .. f.n : g[m] = Grown(f, g, m)
  BY <1>1, RowsExist
<1>4. ASSUME NEW m \in 1 .. f.n PROVE g[m] = Row(g, m)
  <2>1. \A c \in m + 1 .. f.n : g[c] \in Seq(f.kind)
    <3>1. \A c \in m + 1 .. f.n : c \in 1 .. f.n
      BY <1>1 DEF Family, TreeShape
    <3> QED
      BY <3>1
  <2> QED
    BY <1>1, <1>2, <1>3, <2>1
<1>5. Equation(g)
  BY <1>1, <1>4
<1>6. Equation(R!ErrorNodes)
  BY <1>5 DEF R!ErrorNodes
<1> DEFINE rows == R!ErrorNodes
<1>7. ASSUME NEW m \in 1 .. f.n, \A c \in m + 1 .. f.n : rows[c] \in Seq(f.kind)
      PROVE  rows[m] = Grown(f, rows, m)
  <2>1. Equation(rows)
    BY <1>6
  <2>2. Grown(f, rows, m) = Row(rows, m)
    BY <1>1, <1>2, <1>7
  <2> HIDE DEF rows, Row
  <2>3. rows[m] = Row(rows, m)
    BY <1>1, <2>1
  <2> QED
    BY <2>2, <2>3
<1> HIDE DEF rows
<1>8. \A m \in 1 .. f.n : rows[m] = Grown(f, rows, m)
  BY <1>1, <1>7, TypedDown
<1> QED
  BY <1>8 DEF f, rows

\* From the root's rows: a node has one if it has rows of its own and its parent is listed.
LEMMA NodesListed ==
  ASSUME NEW f, Family(f), NEW rs, Placed(f, rs, 1), rs # <<>>, NEW c \in 1 .. f.n
  PROVE  HasNode(rs, c) <=> f.own[c] # <<>> /\ (c = 1 \/ HasNode(rs, f.parent[c]))
<1>1. HasNode(rs, 1) /\ f.own[1] # <<>>
  <2>1. rs \in Seq(f.kind) /\ rs[1].node = 1 /\ f.own[1] # <<>>
    BY DEF Placed, RootFirst
  <2>2. 1 \in DOMAIN rs
    BY <2>1
  <2> QED
    BY <2>1, <2>2 DEF HasNode
<1>2. HasNode(rs, c) => f.own[c] # <<>> /\ (c = 1 \/ HasNode(rs, f.parent[c]))
  BY DEF Placed, Inside, HasNode
<1>3. f.own[c] # <<>> /\ c # 1 /\ HasNode(rs, f.parent[c]) => HasNode(rs, c)
  BY DEF Placed, ChildrenIn
<1> QED
  BY <1>1, <1>2, <1>3

\* If every node has rows of its own, every node is listed.
LEMMA AllListed ==
  ASSUME NEW f, Family(f), NEW rs, Placed(f, rs, 1), rs # <<>>, \A c \in 1 .. f.n : f.own[c] # <<>>
  PROVE  \A c \in 1 .. f.n : HasNode(rs, c)
<1> DEFINE Missing == {c \in 1 .. f.n : ~HasNode(rs, c)}
<1>1. SUFFICES ASSUME Missing # {} PROVE FALSE
  OBVIOUS
<1>2. PICK c \in Missing : \A d \in Missing : c <= d
  <2>1. Missing \in SUBSET Nat /\ Missing # {}
    BY <1>1
  <2> HIDE DEF Missing
  <2> QED
    BY <2>1, LeastElement
<1>3. c \in 1 .. f.n /\ ~HasNode(rs, c) /\ f.own[c] # <<>>
  OBVIOUS
<1>4. c # 1 /\ ~HasNode(rs, f.parent[c])
  BY <1>3, NodesListed
<1>5. f.n \in Nat /\ c \in 2 .. f.n
  BY <1>3, <1>4 DEF Family, TreeShape
<1>6. f.parent[c] \in 1 .. c - 1
  BY <1>5 DEF Family, TreeShape
<1>7. f.parent[c] \in 1 .. f.n
  BY <1>5, <1>6
<1>8. f.parent[c] \in Missing
  BY <1>4, <1>7
<1>9. c <= f.parent[c]
  BY <1>2, <1>8
<1> QED
  BY <1>5, <1>6, <1>9

\* What the property says of the rows rs of the tree.
PlacedRelationships(rs) ==
  /\ R!Apart(rs)
  /\ \A i \in DOMAIN rs : rs[i].path # <<>> =>
       \E j \in 1 .. i - 1 : rs[j].node = rs[i].parent /\ rs[j].path = R!Front(rs[i].path)
  /\ \A n \in R!Nodes : HasNode(rs, n) <=> R!Described(n) /\ (n = 1 \/ HasNode(rs, tree.parent[n]))
PlacedErrorNodes(rs) ==
  /\ R!Apart(rs)
  /\ \A i \in DOMAIN rs : rs[i].depth = Len(rs[i].path) + 1
  /\ {rs[i].node : i \in DOMAIN rs} = R!Nodes

LEMMA RelationshipsStored ==
  ASSUME tree \in Trees, NEW rs, rs = R!Relationships[1], rs # <<>>
  PROVE  PlacedRelationships(rs)
<1> DEFINE f == RelationshipFamily
<1>2. /\ Family(f) /\ R!Nodes = 1 .. f.n /\ 1 \in 1 .. f.n /\ f.parent = tree.parent
      /\ f.kind = RelationshipRows /\ f.up = [r \in RelationshipRows |-> r.parent] /\ f.own = OwnRelationships
  BY RelationshipsFamily, CollectedShape DEF RelationshipFamily, Collected
<1>3. \A m \in 1 .. f.n : R!Relationships[m] = Grown(f, R!Relationships, m)
  BY RelationshipsCollected
<1>4. \A m \in R!Nodes : f.own[m] # <<>> <=> R!Described(m)
  BY <1>2, RelationshipsFamily
<1> HIDE DEF f
<1>5. Placed(f, R!Relationships[1], 1)
  BY <1>2, <1>3, RowsPlaced
<1>6. Placed(f, rs, 1)
  BY <1>5
<1>7. R!Apart(rs)
  BY <1>6 DEF Placed, PathsApart, NodesApart, R!Apart
<1>8. rs \in Seq(RelationshipRows)
  BY <1>2, <1>6 DEF Placed
<1>9. ASSUME NEW i \in DOMAIN rs, rs[i].path # <<>>
      PROVE  \E j \in 1 .. i - 1 : rs[j].node = rs[i].parent /\ rs[j].path = R!Front(rs[i].path)
  <2>1. rs[i] \in RelationshipRows
    BY <1>8
  <2>2. f.up[rs[i]] = rs[i].parent
    BY <1>2, <2>1
  <2>3. Front(rs[i].path) = R!Front(rs[i].path)
    BY DEF Front, R!Front
  <2>4. PICK j \in 1 .. i - 1 : rs[j].node = f.up[rs[i]] /\ rs[j].path = Front(rs[i].path)
    BY <1>6, <1>9 DEF Placed, ParentAbove
  <2>5. rs[j].node = rs[i].parent /\ rs[j].path = R!Front(rs[i].path)
    BY ONLY <2>2, <2>3, <2>4, Zenon
  <2> QED
    BY <2>5
<1>10. ASSUME NEW n \in R!Nodes
       PROVE  HasNode(rs, n) <=> R!Described(n) /\ (n = 1 \/ HasNode(rs, tree.parent[n]))
  <2>1. HasNode(rs, n) <=> f.own[n] # <<>> /\ (n = 1 \/ HasNode(rs, f.parent[n]))
    <3>1. rs # <<>> /\ n \in 1 .. f.n
      BY <1>2
    <3> QED
      BY <1>2, <1>6, <3>1, NodesListed
  <2>2. f.own[n] # <<>> <=> R!Described(n)
    BY <1>4
  <2> QED
    BY <1>2, <2>1, <2>2
<1> QED
  BY <1>7, <1>9, <1>10 DEF PlacedRelationships

LEMMA ErrorNodesStored ==
  ASSUME tree \in Trees, NEW rs, rs = R!ErrorNodes[1], rs # <<>>
  PROVE  PlacedErrorNodes(rs)
<1> DEFINE f == ErrorFamily
<1>2. /\ Family(f) /\ R!Nodes = 1 .. f.n /\ 1 \in 1 .. f.n
      /\ f.kind = ErrorRows /\ f.own = OwnErrors
  BY ErrorsFamily, CollectedShape DEF ErrorFamily, Collected
<1>3. \A m \in 1 .. f.n : R!ErrorNodes[m] = Grown(f, R!ErrorNodes, m)
  BY ErrorsCollected
<1> HIDE DEF f
<1>4. Placed(f, R!ErrorNodes[1], 1)
  BY <1>2, <1>3, RowsPlaced
<1>5. Placed(f, rs, 1)
  BY <1>4
<1>6. R!Apart(rs)
  BY <1>5 DEF Placed, PathsApart, NodesApart, R!Apart
<1>7. rs \in Seq(ErrorRows)
  BY <1>2, <1>5 DEF Placed
<1>8. ASSUME NEW i \in DOMAIN rs
      PROVE  rs[i].depth = Len(rs[i].path) + 1 /\ rs[i].node \in R!Nodes
  <2>1. rs[i] \in ErrorRows
    BY <1>7
  <2>2. rs[i].depth = Len(rs[i].path) + 1 /\ rs[i].node # 0
    BY <2>1 DEF ErrorRows
  <2>3. rs[i].node \in 1 .. f.n
    BY <1>5, <2>2 DEF Placed, Inside
  <2> QED
    BY <1>2, <2>2, <2>3
<1>9. ASSUME NEW c \in R!Nodes PROVE \E i \in DOMAIN rs : rs[i].node = c
  <2>1. \A m \in 1 .. f.n : f.own[m] # <<>>
    <3>1. \A m \in R!Nodes : OwnErrors[m] = <<R!ErrorRow(m)>>
      BY DEF OwnErrors
    <3>2. \A m \in R!Nodes : OwnErrors[m] # <<>>
      BY ONLY <3>1
    <3>3. f.own = OwnErrors /\ R!Nodes = 1 .. f.n
      BY <1>2
    <3> QED
      BY ONLY <3>2, <3>3, Zenon
  <2>2. HasNode(rs, c)
    BY <1>2, <1>5, <2>1, AllListed
  <2> QED
    BY <2>2 DEF HasNode
<1>10. {rs[i].node : i \in DOMAIN rs} = R!Nodes
  BY <1>8, <1>9
<1> QED
  BY <1>6, <1>8, <1>10 DEF PlacedErrorNodes

TreesInv == tree \in Trees /\ TreesPlaced

LEMMA TreesInvInit == Init => TreesInv
BY DEF Init, R!Init, TreesInv, TreesPlaced, R!TreesPlaced, R!RelationshipsPlaced, R!ErrorNodesPlaced

LEMMA TreesInvStep == TreesInv /\ [Next]_vars => TreesInv'
<1> SUFFICES ASSUME TreesInv, [Next]_vars PROVE TreesInv'
  OBVIOUS
<1>1. tree \in Trees /\ R!RelationshipsPlaced /\ R!ErrorNodesPlaced
  BY DEF TreesInv, TreesPlaced, R!TreesPlaced
<1>2. [R!Next]_rVars
  BY StepOfEach
<1>3. /\ tree' = tree
      /\ relationships' = relationships \/ relationships' = R!Relationships[1]
      /\ errorNodes' = errorNodes \/ errorNodes' = R!ErrorNodes[1]
  BY <1>2 DEF R!Next, R!CollectRelationships, R!NewErrorPropagation, rVars
<1>4. /\ R!RelationshipsPlaced <=> (relationships # <<>> => PlacedRelationships(relationships))
      /\ R!ErrorNodesPlaced <=> (errorNodes # <<>> => PlacedErrorNodes(errorNodes))
  BY DEF R!RelationshipsPlaced, R!ErrorNodesPlaced, PlacedRelationships, PlacedErrorNodes, R!Listed, HasNode
<1>5. relationships' # <<>> => PlacedRelationships(relationships')
  BY <1>1, <1>3, <1>4, RelationshipsStored
<1>6. errorNodes' # <<>> => PlacedErrorNodes(errorNodes')
  BY <1>1, <1>3, <1>4, ErrorNodesStored
<1>7. R!RelationshipsPlaced'
  BY <1>3, <1>5 DEF R!RelationshipsPlaced, PlacedRelationships, R!Listed, HasNode,
                    R!Nodes, R!Described, R!HasSide
<1>8. R!ErrorNodesPlaced'
  BY <1>3, <1>6 DEF R!ErrorNodesPlaced, PlacedErrorNodes, R!Nodes
<1> QED
  BY <1>1, <1>3, <1>7, <1>8 DEF TreesInv, TreesPlaced, R!TreesPlaced

\* In every tree of services the relationships a trace stores, and the nodes of an
\* error tree, have paths of their own, the row of a service comes after that of its
\* parent, and exactly the services whose calls are described from the root on are
\* listed (collectRelationship, collectErrorNodes).
THEOREM TreesPlacedTheorem == Spec => []TreesPlaced
<1>1. TreesInv => TreesPlaced
  BY DEF TreesInv
<1> QED
  BY <1>1, TreesInvInit, TreesInvStep, PTL DEF Spec
=============================================================================
