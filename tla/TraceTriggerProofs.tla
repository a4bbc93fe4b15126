------------------------- MODULE TraceTriggerProofs -------------------------
(***************************************************************************)
(* Theorems about TraceTrigger, for any receivers, traces and spans.       *)
(***************************************************************************)
EXTENDS TraceTrigger, FiniteSetTheorems, TLAPS

-----------------------------------------------------------------------------
(* The inductive invariant.                                                *)

\* The time before which span s does not make its trace be notified.
DueAt(s) ==
    collectedAt[s] + WaitTime(s) + (IF s \in TopSpan THEN 0 ELSE MissTopTime)

\* A call knows its receiver and its start; spans with top and spans without
\* take different ways through CacheTrace.
CallInv ==
    \A s \in Span :
        /\ pc[s] /= "new" => at[s] \in Receiver /\ collectedAt[s] <= now
        /\ pc[s] \in {"mark", "wait"} => s \in TopSpan
        /\ pc[s] \in {"stamp", "read", "race"} => s \notin TopSpan

\* Span s, collected without top, has been missing its top for longer than
\* MissTopTime at time limit.
Missed(s, t, limit) ==
    s \in Collected(t) \ TopSpan /\ collectedAt[s] + MissTopTime <= limit

\* Every entry of the maps stems from a collected span and expires no earlier
\* than that span allows.
MapInv ==
    \A r \in Receiver, t \in Trace :
        /\ waitMap[r][t] /= Unset =>
              \E s \in Collected(t) : DueAt(s) <= waitMap[r][t]
        /\ checkMissMap[r][t] /= Unset =>
              Missed(checkMissMap[r][t].stamp, t, checkMissMap[r][t].expireTime)

\* The loop of receiver r ranges over entries that exist, and the one it visits
\* is due.
LoopOk(r) ==
    /\ checkTime[r] <= now
    /\ phase[r] \in {"wait", "notify", "deleteWait"} =>
          unvisited[r] \subseteq Keys(waitMap[r])
    /\ phase[r] \in {"miss", "compare", "promote", "deleteMiss"} =>
          unvisited[r] \subseteq Keys(checkMissMap[r])
    /\ phase[r] \in {"notify", "deleteWait", "compare", "promote", "deleteMiss"} =>
          visiting[r] \in Visited /\ visiting[r].trace \notin unvisited[r]
    /\ phase[r] = "notify" =>
          \E s \in Collected(visiting[r].trace) : DueAt(s) < checkTime[r]
    /\ phase[r] \in {"compare", "promote"} =>
          Missed(visiting[r].stamp, visiting[r].trace, checkTime[r])

LoopInv == \A r \in Receiver : LoopOk(r)

IInv == TypeOK /\ CallInv /\ MapInv /\ LoopInv

-----------------------------------------------------------------------------
LEMMA ReceiverFacts ==
    /\ Running \subseteq Receiver
    /\ \A s \in Span : WaitTime(s) \in Nat /\ TraceOf[s] \in Trace
    /\ Unset \notin Nat /\ Unset \notin Span /\ Top \notin Span /\ Top /= Unset
<1>1. (CHOOSE r \in Receiver : TRUE) \in Receiver
  BY TraceTriggerAssumption
<1> QED
  BY <1>1, TraceTriggerAssumption DEF Running, WaitTime

LEMMA InitInv == Init => IInv
<1> SUFFICES ASSUME Init PROVE IInv
  OBVIOUS
<1> USE ReceiverFacts DEF Init
<1>1. local \in BOOLEAN
  BY TraceTriggerAssumption
<1>2. TypeOK
  BY <1>1 DEF TypeOK
<1>3. CallInv /\ MapInv
  BY DEF CallInv, MapInv
<1>4. LoopInv
  BY DEF LoopInv, LoopOk
<1> QED
  BY <1>2, <1>3, <1>4 DEF IInv

LEMMA VisitType ==
    ASSUME TypeOK, NEW r \in Receiver, NEW t, NEW expire, NEW stamp, NEW from,
           NEW to \in {"notify", "compare"},
           [trace |-> t, stamp |-> stamp] \in Visited,
           Visit(r, t, expire, stamp, from, to)
    PROVE  TypeOK'
<1> DEFINE e == [trace |-> t, stamp |-> stamp]
<1>1. unvisited' \in [Receiver -> SUBSET Trace]
  BY DEF Visit, TypeOK
<1>2. phase' = phase \/ phase' = [phase EXCEPT ![r] = to]
  BY DEF Visit, Goto
<1>3. visiting' = visiting \/ visiting' = [visiting EXCEPT ![r] = e]
  BY DEF Visit
<1>4. visiting' \in [Receiver -> Visited \cup {Unset}]
  <2> HIDE DEF e
  <2> QED
    BY <1>3 DEF TypeOK, e
<1> QED
  BY <1>1, <1>2, <1>4 DEF Visit, callVars, TypeOK

\* The types, one step at a time.  Where a loop visits an entry, LoopInv says
\* that the entry exists.
LEMMA TypeStep == IInv /\ [Next]_vars => TypeOK'
<1> SUFFICES ASSUME IInv, [Next]_vars PROVE TypeOK'
  OBVIOUS
<1>a. TypeOK /\ CallInv /\ LoopInv /\ MapInv
  BY DEF IInv
<1> USE ReceiverFacts DEF callVars, rangeVars
<1>1. CASE Clock
  BY <1>1, <1>a DEF Clock, TypeOK
<1>2. ASSUME NEW s \in Span, NEW r \in Running, Collect(s, r) PROVE TypeOK'
  <2>1. AfterStore(s) \in {"mark", "wait", "stamp", "done"}
    BY DEF AfterStore
  <2> QED
    BY <1>2, <1>a, <2>1 DEF Collect, Step, TypeOK
<1>3. ASSUME NEW s \in Span, MarkTop(s) PROVE TypeOK'
  BY <1>3, <1>a DEF MarkTop, Step, RecordTraceTime, Recorded, TypeOK
<1>4. ASSUME NEW s \in Span, StoreWait(s) PROVE TypeOK'
  <2>1. now + WaitTime(s) \in Nat /\ at[s] \in Receiver
    BY <1>4, <1>a DEF StoreWait, Step, CallInv, TypeOK
  <2>2. waitMap' \in [Receiver -> [Trace -> Nat \cup {Unset}]]
    BY <1>4, <1>a, <2>1 DEF StoreWait, TypeOK
  <2> QED
    BY <1>4, <1>a, <2>2 DEF StoreWait, Step, TypeOK
<1>5. ASSUME NEW s \in Span, StoreMiss(s) PROVE TypeOK'
  <2>1. [stamp |-> s, expireTime |-> now + MissTopTime] \in [stamp : Span, expireTime : Nat]
    BY <1>a, TraceTriggerAssumption DEF TypeOK
  <2> QED
    BY <1>5, <1>a, <2>1 DEF StoreMiss, Step, TypeOK
<1>6. ASSUME NEW s \in Span, ReadFlag(s) PROVE TypeOK'
  BY <1>6, <1>a DEF ReadFlag, Step, TypeOK
<1>7. ASSUME NEW s \in Span, Race(s) PROVE TypeOK'
  BY <1>7, <1>a DEF Race, Step, RecordTraceTime, Recorded, TypeOK
<1>8. ASSUME NEW r \in Running, Tick(r) PROVE TypeOK'
  BY <1>8, <1>a DEF Tick, Goto, TypeOK
<1>9. ASSUME NEW r \in Running, RangeWaitMap(r) PROVE TypeOK'
  BY <1>9, <1>a DEF RangeWaitMap, Goto, Keys, TypeOK
<1>10. ASSUME NEW r \in Running, RangeCheckMissMap(r) PROVE TypeOK'
  BY <1>10, <1>a DEF RangeCheckMissMap, Goto, Keys, TypeOK
<1>11. ASSUME NEW r \in Running, EndRange(r) PROVE TypeOK'
  BY <1>11, <1>a DEF EndRange, Goto, TypeOK
<1>12. ASSUME NEW r \in Running, NEW t \in Trace, VisitWait(r, t) PROVE TypeOK'
  <2>1. [trace |-> t, stamp |-> Unset] \in Visited
    BY DEF Visited
  <2> QED
    BY <1>12, <1>a, <2>1, VisitType DEF VisitWait
<1>13. ASSUME NEW r \in Running, NEW t \in Trace, VisitMiss(r, t) PROVE TypeOK'
  <2>1. t \in Keys(checkMissMap[r])
    BY <1>13, <1>a DEF VisitMiss, LoopInv, LoopOk
  <2>2. checkMissMap[r][t].stamp \in Span
    BY <1>a, <2>1 DEF Keys, TypeOK
  <2>3. [trace |-> t, stamp |-> checkMissMap[r][t].stamp] \in Visited
    BY <2>2 DEF Visited
  <2> QED
    BY <1>13, <1>a, <2>3, VisitType DEF VisitMiss
<1>14. ASSUME NEW r \in Running, NotifyReportTraceId(r) PROVE TypeOK'
  <2>1. visiting[r].trace \in Trace
    BY <1>14, <1>a DEF NotifyReportTraceId, Goto, LoopInv, LoopOk, Visited
  <2>2. notified' \in [Trace -> Nat]
    BY <1>14, <1>a, <2>1 DEF NotifyReportTraceId, TypeOK
  <2> QED
    BY <1>14, <1>a, <2>2 DEF NotifyReportTraceId, Goto, TypeOK
<1>15. ASSUME NEW r \in Running, DeleteWait(r) PROVE TypeOK'
  BY <1>15, <1>a DEF DeleteWait, Goto, Without, TypeOK
<1>16. ASSUME NEW r \in Running, Compare(r) PROVE TypeOK'
  BY <1>16, <1>a DEF Compare, Goto, TypeOK
<1>17. ASSUME NEW r \in Running, Promote(r) PROVE TypeOK'
  <2>1. visiting[r].stamp \in Span
    BY <1>17, <1>a DEF Promote, Goto, LoopInv, LoopOk, Missed, Collected
  <2>2. checkTime[r] + WaitTime(visiting[r].stamp) \in Nat
    BY <1>a, <2>1 DEF TypeOK
  <2> QED
    BY <1>17, <1>a, <2>2 DEF Promote, Goto, TypeOK
<1>18. ASSUME NEW r \in Running, DeleteMiss(r) PROVE TypeOK'
  BY <1>18, <1>a DEF DeleteMiss, Goto, Without, TypeOK
<1>19. CASE UNCHANGED vars
  BY <1>19, <1>a DEF vars, TypeOK
<1> QED
  BY <1>1, <1>2, <1>3, <1>4, <1>5, <1>6, <1>7, <1>8, <1>9, <1>10, <1>11, <1>12, <1>13,
     <1>14, <1>15, <1>16, <1>17, <1>18, <1>19 DEF Next, CacheTrace, CheckTask

-----------------------------------------------------------------------------
(* What a step leaves alone.                                               *)

\* A collected span stays collected, where and when it was; time only grows.
LEMMA Grows ==
    ASSUME TypeOK, [Next]_vars
    PROVE  /\ now <= now'
           /\ \A s \in Span : pc[s] /= "new" =>
                 pc'[s] /= "new" /\ collectedAt'[s] = collectedAt[s] /\ at'[s] = at[s]
<1> USE DEF TypeOK, callVars, Step
<1>1. CASE Clock
  BY <1>1 DEF Clock
<1>2. ASSUME NEW s \in Span, NEW r \in Running, Collect(s, r)
      PROVE  /\ now <= now'
             /\ \A o \in Span : pc[o] /= "new" =>
                   pc'[o] /= "new" /\ collectedAt'[o] = collectedAt[o] /\ at'[o] = at[o]
  BY <1>2 DEF Collect
<1>3. ASSUME NEW s \in Span, CacheTrace(s)
      PROVE  /\ UNCHANGED <<now, collectedAt, at>>
             /\ \A o \in Span : pc[o] /= "new" => pc'[o] /= "new"
  BY <1>3 DEF CacheTrace, MarkTop, StoreWait, StoreMiss, ReadFlag, Race
<1>4. ASSUME NEW r \in Running, CheckTask(r) PROVE UNCHANGED <<now, pc, collectedAt, at>>
  BY <1>4 DEF CheckTask, Tick, RangeWaitMap, RangeCheckMissMap, EndRange,
       NotifyReportTraceId, DeleteWait, Compare, Promote, DeleteMiss, VisitWait, VisitMiss, Visit
<1>5. CASE UNCHANGED vars
  BY <1>5 DEF vars
<1>6. ASSUME UNCHANGED <<now, collectedAt, at>>,
             \A o \in Span : pc[o] /= "new" => pc'[o] /= "new"
      PROVE  /\ now <= now'
             /\ \A s \in Span : pc[s] /= "new" =>
                   pc'[s] /= "new" /\ collectedAt'[s] = collectedAt[s] /\ at'[s] = at[s]
  BY <1>6
<1> QED
  <2>1. CASE \E s \in Span, r \in Running : Collect(s, r)
    BY <1>2, <2>1
  <2>2. CASE \E s \in Span : CacheTrace(s)
    BY <1>3, <1>6, <2>2
  <2>3. CASE \E r \in Running : CheckTask(r)
    BY <1>4, <1>6, <2>3
  <2> QED
    BY <1>1, <1>5, <2>1, <2>2, <2>3 DEF Next

\* So what was due stays due, and what missed its top has still missed it.
LEMMA Stable ==
    ASSUME TypeOK, [Next]_vars, NEW t \in Trace
    PROVE  \A s \in Collected(t) :
              /\ s \in Collected(t)' /\ DueAt(s)' = DueAt(s)
              /\ \A limit \in Nat : Missed(s, t, limit) => Missed(s, t, limit)'
  BY Grows DEF Collected, DueAt, Missed, WaitTime

\* A step of the calls, of the clock or none leaves the loops alone; a step of
\* the loop of receiver r leaves the calls and the other receivers alone.
LEMMA LoopStepsOnly ==
    ASSUME [Next]_vars
    PROVE  \/ UNCHANGED rangeVars
           \/ /\ UNCHANGED <<callVars, now, pc>>
              /\ \E r \in Running : CheckTask(r)
<1>1. ASSUME Clock \/ (\E s \in Span, r \in Running : Collect(s, r))
             \/ (\E s \in Span : CacheTrace(s)) \/ UNCHANGED vars
      PROVE  UNCHANGED rangeVars
  BY <1>1 DEF Clock, Collect, CacheTrace, MarkTop, StoreWait, StoreMiss, ReadFlag, Race, vars
<1>2. ASSUME NEW r \in Running, CheckTask(r) PROVE UNCHANGED <<callVars, now, pc>>
  BY <1>2 DEF CheckTask, Tick, RangeWaitMap, RangeCheckMissMap, EndRange,
       NotifyReportTraceId, DeleteWait, Compare, Promote, DeleteMiss, VisitWait, VisitMiss, Visit
<1> QED
  BY <1>1, <1>2 DEF Next

-----------------------------------------------------------------------------
LEMMA CallStep == IInv /\ [Next]_vars => CallInv'
<1> SUFFICES ASSUME IInv, [Next]_vars PROVE CallInv'
  OBVIOUS
<1>a. TypeOK /\ CallInv
  BY DEF IInv
<1> USE ReceiverFacts DEF callVars, Step
<1>1. CASE Clock
  BY <1>1, <1>a DEF Clock, CallInv, TypeOK
<1>2. ASSUME NEW s \in Span, NEW r \in Running, Collect(s, r) PROVE CallInv'
  BY <1>2, <1>a DEF Collect, AfterStore, CallInv, TypeOK
<1>3. ASSUME NEW s \in Span, CacheTrace(s) PROVE CallInv'
  BY <1>3, <1>a DEF CacheTrace, MarkTop, StoreWait, StoreMiss, ReadFlag, Race, CallInv, TypeOK
<1>4. ASSUME UNCHANGED <<callVars, now, pc>> PROVE CallInv'
  BY <1>4, <1>a DEF CallInv
<1>5. CASE UNCHANGED vars
  BY <1>4, <1>5 DEF vars
<1>6. ASSUME NEW r \in Running, CheckTask(r) PROVE UNCHANGED <<callVars, now, pc>>
  BY <1>6 DEF CheckTask, Tick, RangeWaitMap, RangeCheckMissMap, EndRange,
       NotifyReportTraceId, DeleteWait, Compare, Promote, DeleteMiss, VisitWait, VisitMiss, Visit
<1> QED
  BY <1>1, <1>2, <1>3, <1>4, <1>5, <1>6 DEF Next

\* The entries of the maps: each is stored by a call for its own span, or
\* promoted by the loop for a span that has missed its top.
LEMMA MapStep == IInv /\ [Next]_vars => MapInv'
<1> SUFFICES ASSUME IInv, [Next]_vars PROVE MapInv'
  OBVIOUS
<1>a. TypeOK /\ CallInv /\ MapInv /\ LoopInv
  BY DEF IInv
<1>b. TypeOK'
  BY TypeStep
<1> USE ReceiverFacts DEF callVars
<1> DEFINE WaitEntry(r, t) ==
             waitMap[r][t] /= Unset => \E s \in Collected(t) : DueAt(s) <= waitMap[r][t]
           MissEntry(r, t) ==
             checkMissMap[r][t] /= Unset =>
               Missed(checkMissMap[r][t].stamp, t, checkMissMap[r][t].expireTime)
<1>c. ASSUME NEW r \in Receiver, NEW t \in Trace, waitMap'[r][t] = waitMap[r][t]
      PROVE  WaitEntry(r, t)'
  BY <1>a, <1>c, Stable DEF MapInv
<1>d. ASSUME NEW r \in Receiver, NEW t \in Trace, checkMissMap'[r][t] = checkMissMap[r][t]
      PROVE  MissEntry(r, t)'
  <2> SUFFICES ASSUME checkMissMap[r][t] /= Unset PROVE MissEntry(r, t)'
    BY <1>d
  <2> DEFINE e == checkMissMap[r][t]
  <2>1. e.expireTime \in Nat /\ e.stamp \in Span
    BY <1>a DEF TypeOK
  <2>2. Missed(e.stamp, t, e.expireTime)
    BY <1>a DEF MapInv
  <2>3. Missed(e.stamp, t, e.expireTime)'
    BY <1>a, <1>d, <2>1, <2>2, Stable DEF Missed
  <2> QED
    BY <2>3
<1>e. ASSUME NEW r \in Receiver, NEW t \in Trace, waitMap'[r][t] = Unset
      PROVE  WaitEntry(r, t)'
  BY <1>e
<1>f. ASSUME NEW r \in Receiver, NEW t \in Trace, checkMissMap'[r][t] = Unset
      PROVE  MissEntry(r, t)'
  BY <1>f
<1>g. SUFFICES \A r \in Receiver, t \in Trace : WaitEntry(r, t)' /\ MissEntry(r, t)'
  BY DEF MapInv
<1>1. CASE UNCHANGED <<waitMap, checkMissMap>>
  BY <1>1, <1>c, <1>d
<1>2. ASSUME NEW s \in Span, StoreWait(s)
      PROVE  \A r \in Receiver, t \in Trace : WaitEntry(r, t)' /\ MissEntry(r, t)'
  <2>1. PICK q \in Receiver, u \in Trace, time \in Nat :
           /\ q = at[s] /\ u = TraceOf[s] /\ time = now + WaitTime(s)
           /\ s \in TopSpan /\ collectedAt[s] <= now /\ pc[s] = "wait"
    BY <1>2, <1>a DEF StoreWait, Step, CallInv, TypeOK
  <2>2. waitMap' = [waitMap EXCEPT ![q][u] = time] /\ checkMissMap' = checkMissMap
    BY <1>2, <2>1 DEF StoreWait
  <2>3. s \in Collected(u)' /\ DueAt(s)' <= time
    <3>1. s \in Collected(u) /\ DueAt(s) <= time
      BY <1>a, <2>1 DEF Collected, DueAt, TypeOK
    <3> QED
      BY <1>a, <3>1, Stable
  <2>4. waitMap'[q][u] = time
    BY <1>a, <2>2 DEF TypeOK
  <2>5. WaitEntry(q, u)'
    BY <2>3, <2>4
  <2>6. ASSUME NEW r \in Receiver, NEW t \in Trace, ~(r = q /\ t = u)
        PROVE  waitMap'[r][t] = waitMap[r][t]
    BY <1>a, <2>2, <2>6 DEF TypeOK
  <2> HIDE DEF WaitEntry, MissEntry
  <2> QED
    BY <1>c, <1>d, <2>2, <2>5, <2>6
<1>3. ASSUME NEW s \in Span, StoreMiss(s)
      PROVE  \A r \in Receiver, t \in Trace : WaitEntry(r, t)' /\ MissEntry(r, t)'
  <2>1. PICK q \in Receiver, u \in Trace, time \in Nat :
           /\ q = at[s] /\ u = TraceOf[s] /\ time = now + MissTopTime
           /\ s \notin TopSpan /\ collectedAt[s] <= now /\ pc[s] = "stamp"
    BY <1>3, <1>a, TraceTriggerAssumption DEF StoreMiss, Step, CallInv, TypeOK
  <2> DEFINE e == [stamp |-> s, expireTime |-> time]
  <2>2. checkMissMap' = [checkMissMap EXCEPT ![q][u] = e] /\ waitMap' = waitMap
    BY <1>3, <2>1 DEF StoreMiss
  <2>3. Missed(s, u, time)'
    <3>1. s \in Collected(u) /\ Missed(s, u, time)
      BY <1>a, <2>1, TraceTriggerAssumption DEF Missed, Collected, TypeOK
    <3> QED
      BY <1>a, <3>1, Stable
  <2>4. checkMissMap'[q][u] = e
    BY <1>a, <2>2 DEF TypeOK
  <2>5. MissEntry(q, u)'
    BY <2>3, <2>4
  <2>6. ASSUME NEW r \in Receiver, NEW t \in Trace, ~(r = q /\ t = u)
        PROVE  checkMissMap'[r][t] = checkMissMap[r][t]
    BY <1>a, <2>2, <2>6 DEF TypeOK
  <2> HIDE DEF WaitEntry, MissEntry, e
  <2> QED
    BY <1>c, <1>d, <2>2, <2>5, <2>6
<1>4. ASSUME NEW q \in Running, Promote(q)
      PROVE  \A r \in Receiver, t \in Trace : WaitEntry(r, t)' /\ MissEntry(r, t)'
  <2>1. visiting[q] \in Visited /\ Missed(visiting[q].stamp, visiting[q].trace, checkTime[q])
    BY <1>4, <1>a DEF Promote, Goto, LoopInv, LoopOk
  <2>2. PICK u \in Trace, s \in Span, time \in Nat :
           /\ u = visiting[q].trace /\ s = visiting[q].stamp
           /\ time = checkTime[q] + WaitTime(s)
           /\ Missed(s, u, checkTime[q])
    BY <1>a, <2>1 DEF Missed, Collected, Visited, TypeOK
  <2>3. waitMap' = [waitMap EXCEPT ![q][u] = time] /\ checkMissMap' = checkMissMap
    BY <1>4, <2>2 DEF Promote
  <2>4. s \in Collected(u)' /\ DueAt(s)' <= time
    <3>1. s \in Collected(u) /\ DueAt(s) <= time
      BY <1>a, <2>2, TraceTriggerAssumption DEF Missed, DueAt, TypeOK
    <3> QED
      BY <1>a, <3>1, Stable
  <2>5. waitMap'[q][u] = time
    BY <1>a, <2>3 DEF TypeOK
  <2>6. WaitEntry(q, u)'
    BY <2>4, <2>5
  <2>7. ASSUME NEW r \in Receiver, NEW t \in Trace, ~(r = q /\ t = u)
        PROVE  waitMap'[r][t] = waitMap[r][t]
    BY <1>a, <2>3, <2>7 DEF TypeOK
  <2> HIDE DEF WaitEntry, MissEntry
  <2> QED
    BY <1>c, <1>d, <2>3, <2>6, <2>7
<1>5. ASSUME NEW q \in Running, DeleteWait(q)
      PROVE  \A r \in Receiver, t \in Trace : WaitEntry(r, t)' /\ MissEntry(r, t)'
  <2>1. ASSUME NEW r \in Receiver, NEW t \in Trace
        PROVE  waitMap'[r][t] \in {waitMap[r][t], Unset}
    BY <1>5, <1>a DEF DeleteWait, Without, TypeOK
  <2>2. checkMissMap' = checkMissMap
    BY <1>5 DEF DeleteWait
  <2> HIDE DEF WaitEntry, MissEntry
  <2> QED
    BY <1>c, <1>d, <1>e, <2>1, <2>2
<1>6. ASSUME NEW q \in Running, DeleteMiss(q)
      PROVE  \A r \in Receiver, t \in Trace : WaitEntry(r, t)' /\ MissEntry(r, t)'
  <2>1. ASSUME NEW r \in Receiver, NEW t \in Trace
        PROVE  checkMissMap'[r][t] \in {checkMissMap[r][t], Unset}
    BY <1>6, <1>a DEF DeleteMiss, Without, TypeOK
  <2>2. waitMap' = waitMap
    BY <1>6 DEF DeleteMiss
  <2> HIDE DEF WaitEntry, MissEntry
  <2> QED
    BY <1>c, <1>d, <1>f, <2>1, <2>2
<1>7. \/ UNCHANGED <<waitMap, checkMissMap>>
      \/ \E s \in Span : StoreWait(s) \/ StoreMiss(s)
      \/ \E r \in Running : Promote(r) \/ DeleteWait(r) \/ DeleteMiss(r)
  BY DEF Next, vars, Clock, Collect, CacheTrace, MarkTop, ReadFlag, Race, CheckTask, Tick,
       RangeWaitMap, RangeCheckMissMap, EndRange, NotifyReportTraceId, Compare, VisitWait,
       VisitMiss, Visit
<1> HIDE DEF WaitEntry, MissEntry
<1> QED
  BY <1>1, <1>2, <1>3, <1>4, <1>5, <1>6, <1>7

-----------------------------------------------------------------------------
\* The calls only add entries to the maps.
LEMMA CallsAddEntries ==
    ASSUME TypeOK,
           Clock \/ (\E s \in Span, r \in Running : Collect(s, r))
           \/ (\E s \in Span : CacheTrace(s)) \/ UNCHANGED vars
    PROVE  \A r \in Receiver :
              /\ Keys(waitMap[r]) \subseteq Keys(waitMap'[r])
              /\ Keys(checkMissMap[r]) \subseteq Keys(checkMissMap'[r])
<1> USE ReceiverFacts DEF Keys
<1>1. CASE UNCHANGED <<waitMap, checkMissMap>>
  BY <1>1
<1>2. ASSUME NEW s \in Span, StoreWait(s)
      PROVE  \A r \in Receiver :
                /\ Keys(waitMap[r]) \subseteq Keys(waitMap'[r])
                /\ Keys(checkMissMap[r]) \subseteq Keys(checkMissMap'[r])
  <2>1. now + WaitTime(s) /= Unset /\ checkMissMap' = checkMissMap
    BY <1>2 DEF StoreWait, TypeOK
  <2>2. \A r \in Receiver, t \in Trace : waitMap[r][t] /= Unset => waitMap'[r][t] /= Unset
    BY <1>2, <2>1 DEF StoreWait, TypeOK
  <2> QED
    BY <2>1, <2>2
<1>3. ASSUME NEW s \in Span, StoreMiss(s)
      PROVE  \A r \in Receiver :
                /\ Keys(waitMap[r]) \subseteq Keys(waitMap'[r])
                /\ Keys(checkMissMap[r]) \subseteq Keys(checkMissMap'[r])
  <2>1. waitMap' = waitMap
    BY <1>3 DEF StoreMiss
  <2>2. \A r \in Receiver, t \in Trace :
           checkMissMap[r][t] /= Unset => checkMissMap'[r][t] /= Unset
    <3>1. [stamp |-> s, expireTime |-> now + MissTopTime] /= Unset
      <4>1. [stamp |-> s, expireTime |-> now + MissTopTime] \in [stamp : Span, expireTime : Nat]
        BY TraceTriggerAssumption DEF TypeOK
      <4> QED
        BY <4>1, TraceTriggerAssumption
    <3> QED
      BY <1>3, <3>1 DEF StoreMiss, TypeOK
  <2> QED
    BY <2>1, <2>2
<1> QED
  BY <1>1, <1>2, <1>3 DEF Clock, Collect, CacheTrace, MarkTop, ReadFlag, Race, vars

\* The loop of one receiver does not touch another's.
LEMMA OneLoop ==
    ASSUME TypeOK, NEW q \in Receiver, CheckTask(q), NEW r \in Receiver, r /= q
    PROVE  /\ UNCHANGED <<callVars, now, pc>>
           /\ phase'[r] = phase[r] /\ checkTime'[r] = checkTime[r]
           /\ unvisited'[r] = unvisited[r] /\ visiting'[r] = visiting[r]
           /\ waitMap'[r] = waitMap[r] /\ checkMissMap'[r] = checkMissMap[r]
<1> USE DEF Goto, TypeOK
<1>1. CASE Tick(q) \/ RangeWaitMap(q) \/ RangeCheckMissMap(q) \/ EndRange(q)
  BY <1>1 DEF Tick, RangeWaitMap, RangeCheckMissMap, EndRange
<1>2. CASE NotifyReportTraceId(q) \/ DeleteWait(q)
  BY <1>2 DEF NotifyReportTraceId, DeleteWait
<1>3. CASE Compare(q) \/ Promote(q) \/ DeleteMiss(q)
  BY <1>3 DEF Compare, Promote, DeleteMiss
<1>4. CASE \E t \in Trace : VisitWait(q, t) \/ VisitMiss(q, t)
  BY <1>4 DEF VisitWait, VisitMiss, Visit
<1> QED
  BY <1>1, <1>2, <1>3, <1>4 DEF CheckTask

\* The receiver's own loop.
LEMMA LoopOwnStep ==
    ASSUME IInv, TypeOK', NEW q \in Running, CheckTask(q)
    PROVE  LoopOk(q)'
<1>a. TypeOK /\ MapInv /\ LoopOk(q) /\ q \in Receiver
  BY ReceiverFacts DEF IInv, LoopInv
<1>b. UNCHANGED <<now, pc, collectedAt>>
  BY DEF CheckTask, Tick, RangeWaitMap, RangeCheckMissMap, EndRange, NotifyReportTraceId,
       DeleteWait, Compare, Promote, DeleteMiss, VisitWait, VisitMiss, Visit, callVars
<1>c. /\ \A t : Collected(t)' = Collected(t)
      /\ \A s \in Span : DueAt(s)' = DueAt(s)
      /\ \A s, t, limit : Missed(s, t, limit)' = Missed(s, t, limit)
  BY <1>b DEF Collected, DueAt, Missed, WaitTime
<1> USE ReceiverFacts DEF Goto, callVars
<1>1. CASE Tick(q)
  BY <1>1, <1>a DEF Tick, TypeOK, LoopOk
<1>2. CASE RangeWaitMap(q)
  BY <1>2, <1>a DEF RangeWaitMap, TypeOK, LoopOk, Keys
<1>3. CASE RangeCheckMissMap(q)
  BY <1>3, <1>a DEF RangeCheckMissMap, TypeOK, LoopOk, Keys
<1>4. CASE EndRange(q)
  BY <1>4, <1>a DEF EndRange, TypeOK, LoopOk
<1>5. CASE NotifyReportTraceId(q)
  BY <1>5, <1>a DEF NotifyReportTraceId, TypeOK, LoopOk, Keys
<1>6. CASE DeleteWait(q)
  BY <1>6, <1>a DEF DeleteWait, Without, TypeOK, LoopOk, Keys
<1>7. CASE Compare(q)
  BY <1>7, <1>a, <1>b DEF Compare, TypeOK, LoopOk, Keys, Missed, Collected
<1>8. CASE Promote(q)
  BY <1>8, <1>a DEF Promote, TypeOK, LoopOk, Keys
<1>9. CASE DeleteMiss(q)
  BY <1>9, <1>a DEF DeleteMiss, Without, TypeOK, LoopOk, Keys
<1>10. ASSUME NEW t \in Trace, VisitWait(q, t) PROVE LoopOk(q)'
  <2> DEFINE e == [trace |-> t, stamp |-> Unset]
  <2>1. /\ phase[q] = "wait" /\ unvisited' = [unvisited EXCEPT ![q] = @ \ {t}]
        /\ UNCHANGED <<waitMap, checkMissMap, checkTime>>
    BY <1>10 DEF VisitWait, Visit
  <2>2. CASE UNCHANGED <<phase, visiting>>
    BY <1>a, <1>b, <2>1, <2>2 DEF TypeOK, LoopOk, Keys
  <2>3. CASE /\ waitMap[q][t] < checkTime[q]
             /\ phase' = [phase EXCEPT ![q] = "notify"]
             /\ visiting' = [visiting EXCEPT ![q] = e]
    <3>1. t \in Keys(waitMap[q])
      BY <1>10, <1>a, <2>1 DEF VisitWait, LoopOk
    <3>2. PICK s \in Collected(t) : DueAt(s) <= waitMap[q][t]
      BY <1>a, <3>1 DEF MapInv, Keys
    <3>3. DueAt(s) < checkTime[q]
      <4>1. /\ s \in Span /\ waitMap[q][t] \in Nat /\ checkTime[q] \in Nat
            /\ collectedAt[s] \in Nat
        BY <1>a, <3>1, <3>2 DEF TypeOK, Keys, Collected
      <4>2. DueAt(s) \in Nat
        BY <4>1, TraceTriggerAssumption DEF DueAt
      <4> QED
        BY <2>3, <3>2, <4>1, <4>2
    <3>4. /\ phase'[q] = "notify" /\ visiting'[q] = e /\ unvisited'[q] = unvisited[q] \ {t}
          /\ checkTime'[q] = checkTime[q]
      BY <1>a, <2>1, <2>3 DEF TypeOK
    <3>5. e \in Visited /\ e.trace = t
      BY DEF Visited
    <3>6. /\ unvisited[q] \subseteq Keys(waitMap[q]) /\ checkTime[q] <= now
          /\ Keys(waitMap[q])' = Keys(waitMap[q])
      BY <1>a, <2>1 DEF LoopOk, Keys
    <3>7. \E o \in Collected(t)' : DueAt(o)' < checkTime[q]
      <4>1. s \in Span /\ s \in Collected(t)' /\ DueAt(s)' = DueAt(s)
        BY <1>c, <3>2 DEF Collected
      <4> QED
        BY <3>3, <4>1
    <3> HIDE DEF e
    <3> QED
      BY <1>b, <3>4, <3>5, <3>6, <3>7 DEF LoopOk
  <2> QED
    BY <1>10, <2>2, <2>3 DEF VisitWait, Visit, Expired
<1>11. ASSUME NEW t \in Trace, VisitMiss(q, t) PROVE LoopOk(q)'
  <2>0. t \in Keys(checkMissMap[q])
    BY <1>11, <1>a DEF VisitMiss, LoopOk
  <2>1. PICK s \in Span, time \in Nat :
           s = checkMissMap[q][t].stamp /\ time = checkMissMap[q][t].expireTime
    <3>1. checkMissMap[q][t] \in [stamp : Span, expireTime : Nat]
      BY <1>a, <2>0 DEF TypeOK, Keys
    <3> QED
      BY <3>1
  <2> DEFINE e == [trace |-> t, stamp |-> s]
  <2>2. /\ phase[q] = "miss" /\ unvisited' = [unvisited EXCEPT ![q] = @ \ {t}]
        /\ UNCHANGED <<waitMap, checkMissMap, checkTime>>
    BY <1>11 DEF VisitMiss, Visit
  <2>3. CASE UNCHANGED <<phase, visiting>>
    BY <1>a, <1>b, <2>2, <2>3 DEF TypeOK, LoopOk, Keys
  <2>4. CASE /\ time < checkTime[q]
             /\ phase' = [phase EXCEPT ![q] = "compare"]
             /\ visiting' = [visiting EXCEPT ![q] = e]
    <3>1. Missed(s, t, checkTime[q])
      <4>1. Missed(s, t, time)
        BY <1>a, <2>0, <2>1 DEF MapInv, Keys
      <4> QED
        BY <1>a, <2>4, <4>1, TraceTriggerAssumption DEF Missed, TypeOK
    <3>2. /\ phase'[q] = "compare" /\ visiting'[q] = e /\ unvisited'[q] = unvisited[q] \ {t}
          /\ checkTime'[q] = checkTime[q]
      BY <1>a, <2>2, <2>4 DEF TypeOK
    <3>3. e \in Visited /\ e.trace = t /\ e.stamp = s
      BY DEF Visited
    <3>4. /\ unvisited[q] \subseteq Keys(checkMissMap[q]) /\ checkTime[q] <= now
          /\ Keys(checkMissMap[q])' = Keys(checkMissMap[q])
      BY <1>a, <2>2 DEF LoopOk, Keys
    <3>5. Missed(visiting[q].stamp, visiting[q].trace, checkTime[q])'
      <4> HIDE DEF e
      <4> QED
        BY <1>b, <3>1, <3>2, <3>3 DEF Missed, Collected
    <3> HIDE DEF e
    <3> QED
      BY <1>b, <3>2, <3>3, <3>4, <3>5 DEF LoopOk
  <2> QED
    BY <1>11, <2>1, <2>3, <2>4 DEF VisitMiss, Visit, Expired
<1> QED
  BY <1>1, <1>2, <1>3, <1>4, <1>5, <1>6, <1>7, <1>8, <1>9, <1>10, <1>11 DEF CheckTask

LEMMA LoopStep == IInv /\ [Next]_vars => LoopInv'
<1> SUFFICES ASSUME IInv, [Next]_vars PROVE LoopInv'
  OBVIOUS
<1>a. TypeOK /\ CallInv /\ MapInv /\ LoopInv /\ TypeOK'
  BY TypeStep DEF IInv
<1> USE ReceiverFacts DEF callVars, rangeVars
<1>1. ASSUME Clock \/ (\E s \in Span, r \in Running : Collect(s, r))
             \/ (\E s \in Span : CacheTrace(s)) \/ UNCHANGED vars
      PROVE  LoopInv'
  <2>1. UNCHANGED rangeVars
    BY <1>1 DEF Clock, Collect, CacheTrace, MarkTop, StoreWait, StoreMiss, ReadFlag, Race, vars
  <2> SUFFICES ASSUME NEW r \in Receiver PROVE LoopOk(r)'
    BY DEF LoopInv
  <2>2. LoopOk(r) /\ now <= now'
    BY <1>a, Grows DEF LoopInv
  <2>3. checkTime'[r] <= now'
    BY <1>a, <2>1, <2>2 DEF LoopOk, TypeOK
  <2>4. /\ Keys(waitMap[r]) \subseteq Keys(waitMap'[r])
        /\ Keys(checkMissMap[r]) \subseteq Keys(checkMissMap'[r])
    BY <1>1, <1>a, CallsAddEntries
  <2>5. Keys(waitMap[r])' = Keys(waitMap'[r]) /\ Keys(checkMissMap[r])' = Keys(checkMissMap'[r])
    BY DEF Keys
  <2>6. ASSUME phase[r] = "notify"
        PROVE  \E s \in Collected(visiting[r].trace)' : DueAt(s)' < checkTime[r]
    <3>1. PICK t \in Trace : t = visiting[r].trace
      BY <2>2, <2>6 DEF LoopOk, Visited
    <3>2. \E s \in Collected(t)' : DueAt(s)' < checkTime[r]
      BY <1>a, <2>2, <2>6, <3>1, Stable DEF LoopOk
    <3>3. visiting'[r].trace = t
      BY <2>1, <3>1
    <3> QED
      BY <3>2, <3>3 DEF Collected
  <2>7. ASSUME phase[r] \in {"compare", "promote"}
        PROVE  Missed(visiting[r].stamp, visiting[r].trace, checkTime[r])'
    <3>1. visiting[r].trace \in Trace /\ checkTime[r] \in Nat
      BY <1>a, <2>2, <2>7 DEF LoopOk, Visited, TypeOK
    <3>2. Missed(visiting[r].stamp, visiting[r].trace, checkTime[r])
      BY <2>2, <2>7 DEF LoopOk
    <3> QED
      BY <1>a, <2>1, <3>1, <3>2, Stable DEF Missed
  <2> QED
    BY <2>1, <2>2, <2>3, <2>4, <2>5, <2>6, <2>7 DEF LoopOk
<1>2. ASSUME NEW q \in Running, CheckTask(q) PROVE LoopInv'
  <2>1. UNCHANGED <<callVars, now, pc>>
    BY <1>2 DEF CheckTask, Tick, RangeWaitMap, RangeCheckMissMap, EndRange,
         NotifyReportTraceId, DeleteWait, Compare, Promote, DeleteMiss, VisitWait, VisitMiss, Visit
  <2>2. ASSUME NEW r \in Receiver, r /= q PROVE LoopOk(r)'
    <3>1. LoopOk(r)
      BY <1>a DEF LoopInv
    <3> QED
      BY <1>2, <1>a, <2>1, <2>2, <3>1, OneLoop
         DEF LoopOk, Collected, DueAt, Missed, Keys
  <2>3. LoopOk(q)'
    BY <1>2, <1>a, LoopOwnStep
  <2> QED
    BY <2>2, <2>3 DEF LoopInv
<1> QED
  BY <1>1, <1>2 DEF Next

-----------------------------------------------------------------------------
(* The theorems.                                                           *)

LEMMA InductiveInv == Spec => []IInv
<1>1. IInv /\ [Next]_vars => IInv'
  BY TypeStep, CallStep, MapStep, LoopStep DEF IInv
<1> QED
  BY <1>1, InitInv, PTL DEF Spec

\* Every variable of the calls, the cache and the loops keeps its type; in
\* particular checkTask finds an entry wherever it loads one.
THEOREM TypeCorrect == Spec => []TypeOK
<1>1. IInv => TypeOK
  BY DEF IInv
<1> QED
  BY <1>1, InductiveInv, PTL

\* However calls and loops interleave, checkTask notifies no trace before one
\* of its spans allows it.
THEOREM WaitIsRespected == Spec => WaitRespected
<1> DEFINE Respected ==
             \A t \in Trace : notified'[t] /= notified[t] =>
               \E s \in Collected(t) :
                 now > collectedAt[s] + WaitTime(s)
                       + (IF s \in TopSpan THEN 0 ELSE MissTopTime)
<1>1. ASSUME IInv, [Next]_vars PROVE [Respected]_vars
  <2>a. TypeOK /\ LoopInv
    BY <1>1 DEF IInv
  <2>1. CASE UNCHANGED notified
    BY <2>1
  <2>2. ASSUME NEW r \in Running, NotifyReportTraceId(r) PROVE Respected
    <3>1. /\ r \in Receiver /\ phase[r] = "notify" /\ LoopOk(r)
          /\ notified' = [notified EXCEPT ![visiting[r].trace] = @ + 1]
      BY <2>2, <2>a, ReceiverFacts DEF NotifyReportTraceId, Goto, LoopInv
    <3>2. PICK s \in Collected(visiting[r].trace) : DueAt(s) < checkTime[r]
      BY <3>1 DEF LoopOk
    <3>3. DueAt(s) < now
      <4>1. s \in Span /\ collectedAt[s] \in Nat /\ checkTime[r] \in Nat /\ now \in Nat
        BY <2>a, <3>1, <3>2 DEF Collected, TypeOK
      <4>2. DueAt(s) \in Nat /\ checkTime[r] <= now
        BY <3>1, <4>1, ReceiverFacts, TraceTriggerAssumption DEF DueAt, LoopOk
      <4> QED
        BY <3>2, <4>1, <4>2
    <3>4. \A t \in Trace : notified'[t] /= notified[t] => t = visiting[r].trace
      BY <2>a, <3>1 DEF TypeOK
    <3>5. s \in Span /\ DueAt(s) \in Nat /\ now \in Nat
      BY <2>a, <3>2, ReceiverFacts, TraceTriggerAssumption DEF Collected, TypeOK, DueAt
    <3> QED
      BY <3>2, <3>3, <3>4, <3>5 DEF DueAt
  <2>3. UNCHANGED notified \/ \E r \in Running : NotifyReportTraceId(r)
    BY <1>1 DEF Next, vars, Clock, Collect, CacheTrace, MarkTop, StoreWait, StoreMiss,
         ReadFlag, Race, CheckTask, Tick, RangeWaitMap, RangeCheckMissMap, EndRange,
         DeleteWait, Compare, Promote, DeleteMiss, VisitWait, VisitMiss, Visit
  <2> QED
    BY <2>1, <2>2, <2>3
<1> QED
  BY <1>1, InductiveInv, PTL DEF Spec, WaitRespected

-----------------------------------------------------------------------------
(* How often a trace is notified, when the cache is Redis.                 *)

\* The flag of a trace is the stamp of a call that has returned; the stamps a
\* receiver keeps are those of its own calls; the loop promotes the winner, and
\* deletes from waitMap what it has visited there.
OwnerInv ==
    /\ \A t \in Trace : flag[t] \in Span => pc[flag[t]] = "done"
    /\ \A r \in Receiver, t \in Trace :
          checkMissMap[r][t] /= Unset => at[checkMissMap[r][t].stamp] = r
    /\ \A r \in Receiver :
          /\ phase[r] \in {"compare", "promote"} => at[visiting[r].stamp] = r
          /\ phase[r] = "promote" /\ ~local => flag[visiting[r].trace] = visiting[r].stamp
          /\ phase[r] \in {"notify", "deleteWait"} =>
                visiting[r].trace \in Keys(waitMap[r])

\* The receivers still to notify t for an entry of their waitMap.
Waiting(t) ==
    {r \in Receiver : /\ t \in Keys(waitMap[r])
                      /\ ~(phase[r] = "deleteWait" /\ visiting[r].trace = t)}

\* The winner of the race for t is with receiver r and not yet promoted.
Visits(r, t) == phase[r] \in {"compare", "promote", "deleteMiss"} /\ visiting[r].trace = t
MayPromote(r, t) ==
    \/ /\ Visits(r, t) /\ phase[r] /= "deleteMiss"
       /\ visiting[r].stamp = flag[t]
    \/ /\ ~Visits(r, t)
       /\ t \in Keys(checkMissMap[r]) /\ checkMissMap[r][t].stamp = flag[t]
MayBePromoted(t) == flag[t] \in Span /\ \E r \in Receiver : MayPromote(r, t)

\* The top spans of t that have stored their entry.
TopDone(t) == {s \in Collected(t) \cap TopSpan : pc[s] = "done"}

\* The notifications of t, past and to come, are covered by its top spans and
\* by the winner of its race.
One(p) == IF p THEN 1 ELSE 0
Covered(t) ==
    notified[t] + Cardinality(Waiting(t)) + One(MayBePromoted(t))
        <= Cardinality(TopDone(t)) + One(flag[t] \in Span)

CountInv == ~local => \A t \in Trace : Covered(t)

LEMMA DoneStays ==
    ASSUME TypeOK, [Next]_vars, NEW s \in Span, pc[s] = "done"
    PROVE  pc'[s] = "done"
<1>1. CASE UNCHANGED pc
  BY <1>1
<1>2. ASSUME NEW o \in Span, NEW from \in {"new", "mark", "wait", "stamp", "read", "race"},
             NEW to, Step(o, from, to)
      PROVE  pc'[s] = "done"
  BY <1>2 DEF Step, TypeOK
<1> QED
  BY <1>1, <1>2 DEF Next, vars, Clock, Collect, CacheTrace, MarkTop, StoreWait, StoreMiss,
       ReadFlag, Race, CheckTask, Tick, RangeWaitMap, RangeCheckMissMap, EndRange,
       NotifyReportTraceId, DeleteWait, Compare, Promote, DeleteMiss, VisitWait, VisitMiss,
       Visit, callVars

\* What a step may do to the flag of a trace.
LEMMA FlagSteps ==
    ASSUME TypeOK, [Next]_vars, NEW t \in Trace, flag'[t] /= flag[t]
    PROVE  /\ UNCHANGED <<waitMap, checkMissMap, rangeVars, callVars, notified>>
           /\ ~local => flag[t] = Unset
           /\ \/ flag'[t] = Top /\ \E s \in Span : MarkTop(s)
              \/ \E s \in Span : Race(s) /\ TraceOf[s] = t /\ flag'[t] = s
<1>1. ASSUME NEW s \in Span, NEW value, RecordTraceTime(s, value)
      PROVE  flag'[t] = value /\ TraceOf[s] = t /\ (~local => flag[t] = Unset)
  BY <1>1 DEF RecordTraceTime, Recorded, TypeOK
<1>2. CASE UNCHANGED flag
  BY <1>2
<1>3. CASE \E s \in Span : MarkTop(s)
  BY <1>1, <1>3 DEF MarkTop
<1>4. CASE \E s \in Span : Race(s)
  BY <1>1, <1>4 DEF Race
<1> QED
  BY <1>2, <1>3, <1>4 DEF Next, vars, Clock, Collect, CacheTrace, StoreWait, StoreMiss,
       ReadFlag, CheckTask, Tick, RangeWaitMap, RangeCheckMissMap, EndRange,
       NotifyReportTraceId, DeleteWait, Compare, Promote, DeleteMiss, VisitWait, VisitMiss,
       Visit

LEMMA OwnerInit == Init => OwnerInv
BY ReceiverFacts DEF Init, OwnerInv

LEMMA OwnerStep == IInv /\ OwnerInv /\ [Next]_vars => OwnerInv'
<1> SUFFICES ASSUME IInv, OwnerInv, [Next]_vars PROVE OwnerInv'
  OBVIOUS
<1>a. TypeOK /\ CallInv /\ MapInv /\ LoopInv /\ TypeOK'
  BY TypeStep DEF IInv
<1> USE ReceiverFacts
<1>1. ASSUME NEW t \in Trace, flag'[t] \in Span PROVE pc'[flag'[t]] = "done"
  <2>1. CASE flag'[t] = flag[t]
    BY <1>a, <1>1, <2>1, DoneStays DEF OwnerInv
  <2>2. ASSUME NEW s \in Span, Race(s), flag'[t] = s PROVE pc'[s] = "done"
    BY <1>a, <2>2 DEF Race, Step, TypeOK
  <2> QED
    BY <1>a, <1>1, <2>1, <2>2, FlagSteps
<1>2. ASSUME NEW r \in Receiver, NEW t \in Trace, checkMissMap'[r][t] /= Unset
      PROVE  at'[checkMissMap'[r][t].stamp] = r
  <2>1. CASE checkMissMap'[r][t] = checkMissMap[r][t]
    <3>1. PICK s \in Span : s = checkMissMap[r][t].stamp /\ s \in Collected(t)
      BY <1>a, <1>2, <2>1 DEF MapInv, Missed, Collected
    <3>2. at[s] = r /\ pc[s] /= "new"
      BY <1>2, <2>1, <3>1 DEF OwnerInv, Collected
    <3>3. at'[s] = at[s]
      BY <1>a, <3>2, Grows
    <3> QED
      BY <2>1, <3>1, <3>2, <3>3
  <2>2. ASSUME NEW s \in Span, StoreMiss(s) PROVE at'[checkMissMap'[r][t].stamp] = r
    <3>1. CASE r = at[s] /\ t = TraceOf[s]
      BY <1>a, <2>2, <3>1 DEF StoreMiss, callVars, TypeOK
    <3>2. CASE ~(r = at[s] /\ t = TraceOf[s])
      <4>1. checkMissMap'[r][t] = checkMissMap[r][t]
        BY <1>a, <2>2, <3>2 DEF StoreMiss, TypeOK
      <4> QED
        BY <2>1, <4>1
    <3> QED
      BY <3>1, <3>2
  <2>3. ASSUME NEW q \in Running, DeleteMiss(q)
        PROVE  checkMissMap'[r][t] = checkMissMap[r][t]
    BY <1>a, <1>2, <2>3 DEF DeleteMiss, Without, TypeOK
  <2>4. CASE UNCHANGED checkMissMap
    BY <2>1, <2>4
  <2> QED
    BY <2>1, <2>2, <2>3, <2>4 DEF Next, vars, Clock, Collect, CacheTrace, MarkTop, StoreWait,
         ReadFlag, Race, CheckTask, Tick, RangeWaitMap, RangeCheckMissMap, EndRange,
         NotifyReportTraceId, DeleteWait, Compare, Promote, VisitWait, VisitMiss, Visit
<1> DEFINE Loop(r) ==
             /\ phase[r] \in {"compare", "promote"} => at[visiting[r].stamp] = r
             /\ phase[r] = "promote" /\ ~local => flag[visiting[r].trace] = visiting[r].stamp
             /\ phase[r] \in {"notify", "deleteWait"} =>
                   visiting[r].trace \in Keys(waitMap[r])
<1>3. ASSUME Clock \/ (\E s \in Span, r \in Running : Collect(s, r))
             \/ (\E s \in Span : CacheTrace(s)) \/ UNCHANGED vars,
             NEW r \in Receiver
      PROVE  Loop(r)'
  <2>1. UNCHANGED rangeVars /\ UNCHANGED local
    BY <1>3 DEF Clock, Collect, CacheTrace, MarkTop, StoreWait, StoreMiss, ReadFlag, Race,
         vars, callVars
  <2>2. UNCHANGED <<phase, visiting>>
    BY <2>1 DEF rangeVars
  <2>3. ASSUME phase[r] \in {"compare", "promote"}
        PROVE  at'[visiting[r].stamp] = r
    <3>1. visiting[r].stamp \in Span /\ pc[visiting[r].stamp] /= "new"
      BY <1>a, <2>3 DEF LoopInv, LoopOk, Missed, Collected
    <3> QED
      BY <1>a, <2>3, <3>1, Grows DEF OwnerInv
  <2>4. ASSUME phase[r] = "promote", ~local
        PROVE  flag'[visiting[r].trace] = visiting[r].stamp
    <3>1. PICK t \in Trace : t = visiting[r].trace
      BY <1>a, <2>4 DEF LoopInv, LoopOk, Visited
    <3>2. flag[t] \in Span /\ flag[t] = visiting[r].stamp
      BY <1>a, <2>4, <3>1 DEF OwnerInv, LoopInv, LoopOk, Missed, Collected
    <3> QED
      BY <1>a, <2>4, <3>1, <3>2, FlagSteps
  <2>5. Keys(waitMap[r]) \subseteq Keys(waitMap'[r])
    BY <1>3, <1>a, CallsAddEntries
  <2>6. Keys(waitMap[r])' = Keys(waitMap'[r])
    BY DEF Keys
  <2> QED
    BY <2>1, <2>2, <2>3, <2>4, <2>5, <2>6 DEF OwnerInv
<1>4. ASSUME NEW q \in Running, CheckTask(q), NEW r \in Receiver PROVE Loop(r)'
  <2>1. UNCHANGED <<callVars, flag>>
    BY <1>4 DEF CheckTask, Tick, RangeWaitMap, RangeCheckMissMap, EndRange,
         NotifyReportTraceId, DeleteWait, Compare, Promote, DeleteMiss, VisitWait, VisitMiss,
         Visit
  <2>2. CASE r /= q
    <3>1. /\ phase'[r] = phase[r] /\ visiting'[r] = visiting[r]
          /\ waitMap'[r] = waitMap[r]
      BY <1>4, <1>a, <2>2, OneLoop
    <3> QED
      BY <2>1, <3>1 DEF OwnerInv, Keys, callVars
  <2>3. CASE r = q
    <3> USE DEF Goto, callVars
    <3>1. CASE Tick(q) \/ RangeWaitMap(q) \/ RangeCheckMissMap(q) \/ EndRange(q)
               \/ DeleteWait(q) \/ DeleteMiss(q) \/ Promote(q)
      <4>1. phase'[q] \notin {"compare", "promote", "notify", "deleteWait"}
        BY <1>a, <2>3, <3>1 DEF Tick, RangeWaitMap, RangeCheckMissMap, EndRange, DeleteWait,
             DeleteMiss, Promote, TypeOK
      <4> QED
        BY <2>3, <4>1
    <3>2. CASE NotifyReportTraceId(q)
      BY <1>a, <2>3, <3>2 DEF NotifyReportTraceId, OwnerInv, Keys, TypeOK
    <3>3. CASE Compare(q)
      BY <1>a, <2>3, <3>3 DEF Compare, OwnerInv, TypeOK
    <3>4. ASSUME NEW t \in Trace, VisitWait(q, t) PROVE Loop(q)'
      <4>1. phase[q] = "wait" /\ t \in Keys(waitMap[q]) /\ waitMap' = waitMap
        BY <1>a, <2>3, <3>4 DEF VisitWait, Visit, LoopInv, LoopOk
      <4>2. CASE UNCHANGED <<phase, visiting>>
        BY <4>1, <4>2
      <4>3. CASE /\ phase' = [phase EXCEPT ![q] = "notify"]
                 /\ visiting' = [visiting EXCEPT ![q] = [trace |-> t, stamp |-> Unset]]
        <5>1. phase'[q] = "notify" /\ visiting'[q].trace = t
          BY <1>a, <4>3 DEF TypeOK
        <5> QED
          BY <4>1, <5>1 DEF Keys
      <4> QED
        BY <3>4, <4>2, <4>3 DEF VisitWait, Visit
    <3>5. ASSUME NEW t \in Trace, VisitMiss(q, t) PROVE Loop(q)'
      <4>1. phase[q] = "miss" /\ t \in Keys(checkMissMap[q])
        BY <1>a, <2>3, <3>5 DEF VisitMiss, LoopInv, LoopOk
      <4>2. PICK s \in Span : s = checkMissMap[q][t].stamp
        BY <1>a, <4>1 DEF Keys, MapInv, Missed, Collected
      <4>3. at[s] = q
        BY <4>1, <4>2 DEF OwnerInv, Keys
      <4>4. CASE UNCHANGED <<phase, visiting>>
        BY <4>1, <4>4
      <4>5. CASE /\ phase' = [phase EXCEPT ![q] = "compare"]
                 /\ visiting' = [visiting EXCEPT ![q] = [trace |-> t, stamp |-> s]]
        <5>1. phase'[q] = "compare" /\ visiting'[q].stamp = s
          BY <1>a, <4>5 DEF TypeOK
        <5> QED
          BY <2>1, <4>3, <5>1
      <4> QED
        BY <3>5, <4>2, <4>4, <4>5 DEF VisitMiss, Visit
    <3> QED
      BY <1>4, <2>3, <3>1, <3>2, <3>3, <3>4, <3>5 DEF CheckTask
  <2> QED
    BY <2>2, <2>3
<1>5. \A r \in Receiver : Loop(r)'
  <2> HIDE DEF Loop
  <2> QED
    BY <1>3, <1>4 DEF Next
<1> QED
  BY <1>1, <1>2, <1>5 DEF OwnerInv

-----------------------------------------------------------------------------
LEMMA CardinalityOneMore ==
    ASSUME NEW S, NEW T, NEW x, IsFiniteSet(S), IsFiniteSet(T), T \subseteq S \cup {x}
    PROVE  Cardinality(T) <= Cardinality(S) + 1
<1>1. /\ IsFiniteSet(S \cup {x})
      /\ Cardinality(S \cup {x}) = Cardinality(S) \/ Cardinality(S \cup {x}) = Cardinality(S) + 1
  BY FS_AddElement
<1>2. Cardinality(T) <= Cardinality(S \cup {x})
  BY <1>1, FS_Subset
<1>3. Cardinality(S) \in Nat /\ Cardinality(T) \in Nat
  BY FS_CardinalityType
<1> QED
  BY <1>1, <1>2, <1>3

\* Both sides of Covered are counts.
LEMMA Counts ==
    ASSUME NEW t \in Trace
    PROVE  /\ IsFiniteSet(Waiting(t)) /\ IsFiniteSet(TopDone(t))
           /\ Cardinality(Waiting(t)) \in Nat /\ Cardinality(TopDone(t)) \in Nat
           /\ IsFiniteSet(Waiting(t)') /\ IsFiniteSet(TopDone(t)')
           /\ Cardinality(Waiting(t)') \in Nat /\ Cardinality(TopDone(t)') \in Nat
<1>1. /\ Waiting(t) \subseteq Receiver /\ TopDone(t) \subseteq Span
      /\ Waiting(t)' \subseteq Receiver /\ TopDone(t)' \subseteq Span
  BY DEF Waiting, TopDone, Collected
<1> QED
  BY <1>1, FS_Subset, FS_CardinalityType, TraceTriggerAssumption

\* What covers the notifications is never lost.
LEMMA CoverGrows ==
    ASSUME TypeOK, [Next]_vars, ~local, NEW t \in Trace
    PROVE  /\ TopDone(t) \subseteq TopDone(t)'
           /\ flag[t] \in Span => flag'[t] = flag[t]
<1>1. TopDone(t) \subseteq TopDone(t)'
  BY Stable, DoneStays DEF TopDone, Collected
<1>2. flag[t] \in Span => flag'[t] = flag[t]
  BY FlagSteps, ReceiverFacts
<1> QED
  BY <1>1, <1>2

\* A step after which no more notifications are to come keeps t covered.
LEMMA CoveredFrame ==
    ASSUME TypeOK, TypeOK', [Next]_vars, ~local, NEW t \in Trace, Covered(t),
           notified'[t] = notified[t],
           Waiting(t)' \subseteq Waiting(t),
           MayBePromoted(t)' => MayBePromoted(t)
    PROVE  Covered(t)'
<1>1. /\ IsFiniteSet(Waiting(t)) /\ IsFiniteSet(TopDone(t))
      /\ Cardinality(Waiting(t)) \in Nat /\ Cardinality(TopDone(t)) \in Nat
  BY Counts
<1>2. /\ IsFiniteSet(Waiting(t)') /\ IsFiniteSet(TopDone(t)')
      /\ Cardinality(Waiting(t)') \in Nat /\ Cardinality(TopDone(t)') \in Nat
  BY Counts
<1>3. Cardinality(Waiting(t)') <= Cardinality(Waiting(t))
  BY <1>1, FS_Subset
<1>4. Cardinality(TopDone(t)) <= Cardinality(TopDone(t)')
  BY <1>2, CoverGrows, FS_Subset
<1>5. One(flag[t] \in Span) <= One(flag'[t] \in Span)
  BY CoverGrows DEF One
<1>6. One(MayBePromoted(t)') <= One(MayBePromoted(t))
  BY DEF One
<1>7. /\ One(flag[t] \in Span) \in Nat /\ One(flag'[t] \in Span) \in Nat
      /\ One(MayBePromoted(t)') \in Nat /\ One(MayBePromoted(t)) \in Nat
      /\ notified[t] \in Nat
  BY DEF One, TypeOK
<1>8. /\ Covered(t)' <=> notified'[t] + Cardinality(Waiting(t)') + One(MayBePromoted(t)')
                           <= Cardinality(TopDone(t)') + One(flag'[t] \in Span)
      /\ notified[t] + Cardinality(Waiting(t)) + One(MayBePromoted(t))
            <= Cardinality(TopDone(t)) + One(flag[t] \in Span)
  BY DEF Covered, One
<1> HIDE DEF Covered
<1> QED
  BY <1>1, <1>2, <1>3, <1>4, <1>5, <1>6, <1>7, <1>8

\* The four steps that spend or earn a notification.

\* A top span earns the one entry it stores.
LEMMA CoveredStoreWait ==
    ASSUME IInv, IInv', ~local, NEW t \in Trace, Covered(t),
           NEW s \in Span, StoreWait(s), TraceOf[s] = t
    PROVE  Covered(t)'
<1>a. TypeOK /\ CallInv /\ TypeOK' /\ [Next]_vars
  BY DEF IInv, Next, CacheTrace
<1>1. /\ pc[s] = "wait" /\ s \in TopSpan /\ at[s] \in Receiver /\ pc'[s] = "done"
      /\ s \in Collected(t)'
  BY <1>a DEF StoreWait, Step, CallInv, TypeOK, Collected
<1>2. s \notin TopDone(t) /\ TopDone(t) \cup {s} \subseteq TopDone(t)'
  BY <1>a, <1>1, CoverGrows DEF TopDone
<1>3. Cardinality(TopDone(t)') >= Cardinality(TopDone(t)) + 1
  <2>1. Cardinality(TopDone(t) \cup {s}) = Cardinality(TopDone(t)) + 1
    BY <1>2, Counts, FS_AddElement
  <2>2. Cardinality(TopDone(t) \cup {s}) <= Cardinality(TopDone(t)')
    BY <1>2, Counts, FS_Subset
  <2>3. Cardinality(TopDone(t) \cup {s}) \in Nat
    BY <2>1, Counts
  <2> QED
    BY <2>1, <2>2, <2>3, Counts
<1>4. Waiting(t)' \subseteq Waiting(t) \cup {at[s]}
  BY <1>a, ReceiverFacts DEF StoreWait, Waiting, Keys, rangeVars, TypeOK
<1>5. Cardinality(Waiting(t)') <= Cardinality(Waiting(t)) + 1
  BY <1>4, Counts, CardinalityOneMore
<1>6. UNCHANGED <<notified, flag>> /\ MayBePromoted(t)' = MayBePromoted(t)
  BY DEF StoreWait, rangeVars, MayBePromoted, MayPromote, Visits, Keys
<1>7. One(flag[t] \in Span) \in Nat /\ One(MayBePromoted(t)) \in Nat /\ notified[t] \in Nat
  BY <1>a DEF One, TypeOK
<1>8. /\ Covered(t)' <=> notified[t] + Cardinality(Waiting(t)') + One(MayBePromoted(t))
                           <= Cardinality(TopDone(t)') + One(flag[t] \in Span)
      /\ notified[t] + Cardinality(Waiting(t)) + One(MayBePromoted(t))
            <= Cardinality(TopDone(t)) + One(flag[t] \in Span)
  BY <1>6 DEF Covered, One
<1> HIDE DEF Covered
<1> QED
  BY <1>3, <1>5, <1>7, <1>8, Counts

\* The winner of a race earns the one promotion of its stamp.
LEMMA CoveredRace ==
    ASSUME IInv, IInv', ~local, NEW t \in Trace, Covered(t),
           NEW s \in Span, Race(s), flag[t] = Unset, flag'[t] = s
    PROVE  Covered(t)'
<1>a. TypeOK /\ TypeOK' /\ [Next]_vars
  BY DEF IInv, Next, CacheTrace
<1>1. Cardinality(TopDone(t)) <= Cardinality(TopDone(t)')
  BY <1>a, Counts, CoverGrows, FS_Subset
<1>2. UNCHANGED notified /\ Waiting(t)' = Waiting(t)
  BY DEF Race, rangeVars, Waiting, Keys
<1>3. /\ One(flag[t] \in Span) = 0 /\ One(flag'[t] \in Span) = 1
      /\ One(MayBePromoted(t)) = 0 /\ One(MayBePromoted(t)') \in {0, 1}
  BY ReceiverFacts DEF One, MayBePromoted
<1>4. notified[t] \in Nat
  BY <1>a DEF TypeOK
<1>5. /\ Covered(t)' <=> notified[t] + Cardinality(Waiting(t)) + One(MayBePromoted(t)')
                           <= Cardinality(TopDone(t)') + One(flag'[t] \in Span)
      /\ notified[t] + Cardinality(Waiting(t)) + One(MayBePromoted(t))
            <= Cardinality(TopDone(t)) + One(flag[t] \in Span)
  BY <1>2 DEF Covered, One
<1> HIDE DEF Covered
<1> QED
  BY <1>1, <1>3, <1>4, <1>5, Counts

\* The promotion turns the chance of the winner into one entry.
LEMMA CoveredPromote ==
    ASSUME IInv, IInv', OwnerInv, OwnerInv', ~local, NEW t \in Trace, Covered(t),
           NEW q \in Running, Promote(q), visiting[q].trace = t
    PROVE  Covered(t)'
<1>a. TypeOK /\ LoopInv /\ TypeOK' /\ MapInv' /\ LoopInv' /\ q \in Receiver
  BY ReceiverFacts DEF IInv
<1>b. [Next]_vars
  BY DEF Next, CheckTask
<1>1. phase[q] = "promote" /\ phase'[q] = "deleteMiss" /\ UNCHANGED <<flag, visiting, notified>>
  BY <1>a DEF Promote, Goto, TypeOK
<1>2. visiting[q].stamp = flag[t] /\ flag[t] \in Span /\ at[flag[t]] = q
  BY <1>a, <1>1 DEF OwnerInv, LoopInv, LoopOk, Missed, Collected
<1>3. MayBePromoted(t)
  BY <1>a, <1>1, <1>2 DEF MayBePromoted, MayPromote, Visits
<1>4. ~MayBePromoted(t)'
  <2>1. ~MayPromote(q, t)'
    BY <1>1 DEF MayPromote, Visits
  <2>2. ASSUME NEW r \in Receiver, MayPromote(r, t)' PROVE r = q
    <3>1. at'[flag[t]] = r
      BY <1>a, <1>1, <2>2 DEF MayPromote, Visits, OwnerInv, Keys
    <3> QED
      BY <1>2, <3>1 DEF Promote, callVars
  <2> QED
    BY <2>1, <2>2 DEF MayBePromoted
<1>5. Waiting(t)' \subseteq Waiting(t) \cup {q}
  BY <1>a, <1>1 DEF Promote, Goto, Waiting, Keys, TypeOK
<1>6. Cardinality(Waiting(t)') <= Cardinality(Waiting(t)) + 1
  BY <1>5, Counts, CardinalityOneMore
<1>7. Cardinality(TopDone(t)) <= Cardinality(TopDone(t)')
  BY <1>a, <1>b, Counts, CoverGrows, FS_Subset
<1>8. /\ One(MayBePromoted(t)) = 1 /\ One(MayBePromoted(t)') = 0
      /\ One(flag[t] \in Span) \in Nat /\ notified[t] \in Nat
  BY <1>a, <1>3, <1>4 DEF One, TypeOK
<1>9. /\ Covered(t)' <=> notified[t] + Cardinality(Waiting(t)') + One(MayBePromoted(t)')
                           <= Cardinality(TopDone(t)') + One(flag[t] \in Span)
      /\ notified[t] + Cardinality(Waiting(t)) + One(MayBePromoted(t))
            <= Cardinality(TopDone(t)) + One(flag[t] \in Span)
  BY <1>1 DEF Covered, One
<1> HIDE DEF Covered
<1> QED
  BY <1>6, <1>7, <1>8, <1>9, Counts

\* A notification spends one entry.
LEMMA CoveredNotify ==
    ASSUME IInv, IInv', OwnerInv, ~local, NEW t \in Trace, Covered(t),
           NEW q \in Running, NotifyReportTraceId(q), visiting[q].trace = t
    PROVE  Covered(t)'
<1>a. TypeOK /\ TypeOK' /\ q \in Receiver
  BY ReceiverFacts DEF IInv
<1>1. /\ phase[q] = "notify" /\ phase' = [phase EXCEPT ![q] = "deleteWait"]
      /\ UNCHANGED <<flag, visiting, waitMap, checkMissMap, pc>>
  BY DEF NotifyReportTraceId, Goto
<1>2. q \in Waiting(t)
  BY <1>a, <1>1 DEF OwnerInv, Waiting
<1>3. Waiting(t)' = Waiting(t) \ {q}
  BY <1>a, <1>1 DEF Waiting, Keys, TypeOK
<1>4. Cardinality(Waiting(t)') = Cardinality(Waiting(t)) - 1
  BY <1>2, <1>3, Counts, FS_RemoveElement
<1>5. notified'[t] = notified[t] + 1 /\ notified[t] \in Nat
  BY <1>a DEF NotifyReportTraceId, TypeOK
<1>6. MayBePromoted(t)' = MayBePromoted(t) /\ TopDone(t)' = TopDone(t)
  <2>1. \A r \in Receiver : Visits(r, t)' = Visits(r, t)
    BY <1>a, <1>1 DEF Visits, TypeOK
  <2>2. \A r \in Receiver : phase'[r] /= "deleteMiss" <=> phase[r] /= "deleteMiss"
    BY <1>a, <1>1 DEF TypeOK
  <2>3. TopDone(t)' = TopDone(t)
    BY <1>1 DEF TopDone, Collected
  <2>4. \A r \in Receiver : MayPromote(r, t)' <=> MayPromote(r, t)
    BY <1>1, <2>1, <2>2 DEF MayPromote, Keys
  <2> QED
    BY <1>1, <2>3, <2>4 DEF MayBePromoted
<1>7. One(MayBePromoted(t)) \in Nat /\ One(flag[t] \in Span) \in Nat
  BY DEF One
<1>8. /\ Covered(t)' <=> notified'[t] + Cardinality(Waiting(t)') + One(MayBePromoted(t))
                           <= Cardinality(TopDone(t)) + One(flag[t] \in Span)
      /\ notified[t] + Cardinality(Waiting(t)) + One(MayBePromoted(t))
            <= Cardinality(TopDone(t)) + One(flag[t] \in Span)
  BY <1>1, <1>6 DEF Covered, One
<1> HIDE DEF Covered
<1> QED
  BY <1>4, <1>5, <1>7, <1>8, Counts

\* Every other step of a loop leaves the notifications to come as they are, or
\* makes them fewer.
LEMMA LoopSpends ==
    ASSUME IInv, OwnerInv, NEW t \in Trace, NEW q \in Running, CheckTask(q),
           ~(visiting[q].trace = t /\ (NotifyReportTraceId(q) \/ Promote(q)))
    PROVE  /\ notified'[t] = notified[t]
           /\ Waiting(t)' \subseteq Waiting(t)
           /\ MayBePromoted(t)' => MayBePromoted(t)
<1>a. TypeOK /\ LoopInv /\ q \in Receiver
  BY ReceiverFacts DEF IInv
<1>b. UNCHANGED flag
  BY DEF CheckTask, Tick, RangeWaitMap, RangeCheckMissMap, EndRange, NotifyReportTraceId,
       DeleteWait, Compare, Promote, DeleteMiss, VisitWait, VisitMiss, Visit
<1> DEFINE InWaiting(r) ==
             /\ t \in Keys(waitMap[r])
             /\ ~(phase[r] = "deleteWait" /\ visiting[r].trace = t)
<1>1. ASSUME NEW r \in Receiver, r /= q
      PROVE  /\ InWaiting(r)' => InWaiting(r)
             /\ MayPromote(r, t)' => MayPromote(r, t)
  <2>1. /\ phase'[r] = phase[r] /\ visiting'[r] = visiting[r]
        /\ waitMap'[r] = waitMap[r] /\ checkMissMap'[r] = checkMissMap[r]
    BY <1>a, <1>1, OneLoop
  <2> QED
    BY <1>b, <2>1 DEF Keys, MayPromote, Visits
<1>2. SUFFICES /\ notified'[t] = notified[t]
               /\ InWaiting(q)' => InWaiting(q)
               /\ MayPromote(q, t)' => MayPromote(q, t)
  <2> HIDE DEF InWaiting
  <2>1. Waiting(t) = {r \in Receiver : InWaiting(r)}
    BY DEF Waiting, InWaiting
  <2>2. Waiting(t)' = {r \in Receiver : InWaiting(r)'}
    BY DEF Waiting, InWaiting
  <2> QED
    BY <1>1, <1>2, <1>b, <2>1, <2>2 DEF MayBePromoted
<1> USE DEF Goto, TypeOK
<1>3. CASE Tick(q) \/ RangeWaitMap(q) \/ RangeCheckMissMap(q) \/ EndRange(q)
  <2>1. /\ phase[q] \notin {"compare", "promote", "deleteMiss", "deleteWait"}
        /\ phase'[q] \notin {"compare", "promote", "deleteMiss", "deleteWait"}
        /\ UNCHANGED <<notified, waitMap, checkMissMap>>
    BY <1>a, <1>3 DEF Tick, RangeWaitMap, RangeCheckMissMap, EndRange
  <2> QED
    BY <1>b, <2>1 DEF Keys, MayPromote, Visits
<1>4. CASE NotifyReportTraceId(q)
  <2>1. /\ phase[q] = "notify" /\ phase'[q] = "deleteWait"
        /\ UNCHANGED <<waitMap, checkMissMap, visiting>>
        /\ notified'[t] = notified[t]
    BY <1>a, <1>4 DEF NotifyReportTraceId
  <2> QED
    BY <1>b, <2>1 DEF Keys, MayPromote, Visits
<1>5. CASE DeleteWait(q)
  <2>1. /\ phase[q] = "deleteWait" /\ phase'[q] = "wait" /\ UNCHANGED <<notified, checkMissMap>>
    BY <1>a, <1>5 DEF DeleteWait
  <2>2. waitMap'[q][t] = IF t = visiting[q].trace THEN Unset ELSE waitMap[q][t]
    BY <1>a, <1>5 DEF DeleteWait, Without
  <2> QED
    BY <1>b, <2>1, <2>2 DEF Keys, MayPromote, Visits
<1>6. CASE Compare(q)
  <2>1. /\ phase[q] = "compare" /\ phase'[q] \in {"promote", "deleteMiss"}
        /\ UNCHANGED <<notified, waitMap, checkMissMap, visiting>>
    BY <1>a, <1>6 DEF Compare
  <2> QED
    BY <1>b, <2>1 DEF Keys, MayPromote, Visits
<1>7. CASE Promote(q)
  <2>1. /\ phase[q] = "promote" /\ phase'[q] = "deleteMiss" /\ visiting[q].trace /= t
        /\ UNCHANGED <<notified, checkMissMap, visiting>>
        /\ waitMap'[q][t] = waitMap[q][t]
    BY <1>a, <1>7 DEF Promote
  <2> QED
    BY <1>b, <2>1 DEF Keys, MayPromote, Visits
<1>8. CASE DeleteMiss(q)
  <2>1. /\ phase[q] = "deleteMiss" /\ phase'[q] = "miss" /\ UNCHANGED <<notified, waitMap>>
    BY <1>a, <1>8 DEF DeleteMiss
  <2>2. checkMissMap'[q][t] = IF t = visiting[q].trace THEN Unset ELSE checkMissMap[q][t]
    BY <1>a, <1>8 DEF DeleteMiss, Without
  <2> QED
    BY <1>b, <2>1, <2>2 DEF Keys, MayPromote, Visits
<1>9. ASSUME NEW u \in Trace, VisitWait(q, u)
      PROVE  /\ notified'[t] = notified[t]
             /\ InWaiting(q)' => InWaiting(q)
             /\ MayPromote(q, t)' => MayPromote(q, t)
  <2>1. /\ phase[q] = "wait" /\ phase'[q] \in {"wait", "notify"}
        /\ UNCHANGED <<notified, waitMap, checkMissMap>>
    BY <1>a, <1>9 DEF VisitWait, Visit
  <2> QED
    BY <1>b, <2>1 DEF Keys, MayPromote, Visits
<1>10. ASSUME NEW u \in Trace, VisitMiss(q, u)
       PROVE  /\ notified'[t] = notified[t]
              /\ InWaiting(q)' => InWaiting(q)
              /\ MayPromote(q, t)' => MayPromote(q, t)
  <2>1. /\ phase[q] = "miss" /\ u \in Keys(checkMissMap[q])
        /\ UNCHANGED <<notified, waitMap, checkMissMap>>
    BY <1>a, <1>10 DEF VisitMiss, Visit, LoopInv, LoopOk
  <2>2. CASE UNCHANGED <<phase, visiting>>
    BY <1>b, <2>1, <2>2 DEF Keys, MayPromote, Visits
  <2>3. CASE /\ phase' = [phase EXCEPT ![q] = "compare"]
             /\ visiting' = [visiting EXCEPT
                                ![q] = [trace |-> u, stamp |-> checkMissMap[q][u].stamp]]
    <3>1. /\ phase'[q] = "compare" /\ visiting'[q].trace = u
          /\ visiting'[q].stamp = checkMissMap[q][u].stamp
      BY <1>a, <2>3
    <3> QED
      BY <1>b, <2>1, <3>1 DEF Keys, MayPromote, Visits
  <2> QED
    BY <1>10, <2>2, <2>3 DEF VisitMiss, Visit
<1> HIDE DEF InWaiting
<1> QED
  BY <1>3, <1>4, <1>5, <1>6, <1>7, <1>8, <1>9, <1>10 DEF CheckTask

\* So do the calls, apart from StoreWait of a top span of t and the race for t.
LEMMA CallsSpend ==
    ASSUME IInv, OwnerInv, ~local, NEW t \in Trace,
           Clock \/ (\E s \in Span, r \in Running : Collect(s, r))
           \/ (\E s \in Span : CacheTrace(s)) \/ UNCHANGED vars,
           ~ \E s \in Span : StoreWait(s) /\ TraceOf[s] = t,
           flag'[t] \in Span => flag'[t] = flag[t]
    PROVE  /\ notified'[t] = notified[t]
           /\ Waiting(t)' \subseteq Waiting(t)
           /\ MayBePromoted(t)' => MayBePromoted(t)
<1>a. TypeOK
  BY DEF IInv
<1>b. UNCHANGED <<rangeVars, notified>>
  BY DEF Clock, Collect, CacheTrace, MarkTop, StoreWait, StoreMiss, ReadFlag, Race, vars
<1>1. ASSUME NEW r \in Receiver PROVE waitMap'[r][t] = waitMap[r][t]
  <2>1. ASSUME NEW s \in Span, StoreWait(s) PROVE waitMap'[r][t] = waitMap[r][t]
    BY <1>a, <2>1 DEF StoreWait, TypeOK
  <2> QED
    BY <2>1 DEF Clock, Collect, CacheTrace, MarkTop, StoreMiss, ReadFlag, Race, vars
<1>2. Waiting(t)' \subseteq Waiting(t)
  BY <1>b, <1>1 DEF Waiting, Keys, rangeVars
<1>3. ASSUME MayBePromoted(t)' PROVE MayBePromoted(t)
  <2>1. PICK s \in Span : s = flag[t] /\ s = flag'[t]
    BY <1>3 DEF MayBePromoted
  <2>2. PICK r \in Receiver : MayPromote(r, t)'
    BY <1>3 DEF MayBePromoted
  <2>3. CASE checkMissMap'[r][t] = checkMissMap[r][t]
    <3>1. MayPromote(r, t)
      BY <1>b, <2>1, <2>2, <2>3 DEF MayPromote, Visits, Keys, rangeVars
    <3> QED
      BY <2>1, <3>1 DEF MayBePromoted
  <2>4. CASE \E o \in Span : StoreMiss(o)
    <3>1. PICK o \in Span : StoreMiss(o)
      BY <2>4
    <3>2. o /= s
      BY <2>1, <3>1 DEF StoreMiss, Step, OwnerInv
    <3>3. \/ checkMissMap'[r][t] = checkMissMap[r][t]
          \/ checkMissMap'[r][t] = [stamp |-> o, expireTime |-> now + MissTopTime]
      BY <1>a, <3>1 DEF StoreMiss, TypeOK
    <3>4. checkMissMap'[r][t] = [stamp |-> o, expireTime |-> now + MissTopTime]
             => MayPromote(r, t)
      BY <1>b, <2>1, <2>2, <3>2 DEF MayPromote, Visits, Keys, rangeVars
    <3> QED
      BY <2>1, <2>3, <3>3, <3>4 DEF MayBePromoted
  <2> QED
    BY <2>3, <2>4 DEF Clock, Collect, CacheTrace, MarkTop, StoreWait, ReadFlag, Race, vars
<1> QED
  BY <1>b, <1>2, <1>3

LEMMA CountInit == Init => CountInv
<1> SUFFICES ASSUME Init, NEW t \in Trace PROVE Covered(t)
  BY DEF CountInv
<1>1. Waiting(t) = {} /\ TopDone(t) = {} /\ ~MayBePromoted(t) /\ flag[t] \notin Span
  BY ReceiverFacts DEF Init, Waiting, TopDone, Collected, Keys, MayBePromoted
<1>2. notified[t] = 0
  BY DEF Init
<1> QED
  BY <1>1, <1>2, FS_EmptySet DEF Covered, One

LEMMA CountStep ==
    ASSUME IInv, IInv', OwnerInv, OwnerInv', CountInv, [Next]_vars
    PROVE  CountInv'
<1>a. TypeOK /\ TypeOK'
  BY DEF IInv
<1> SUFFICES ASSUME ~local, NEW t \in Trace PROVE Covered(t)'
  <2>1. UNCHANGED local
    BY DEF Next, vars, Clock, Collect, CacheTrace, MarkTop, StoreWait, StoreMiss, ReadFlag,
         Race, CheckTask, Tick, RangeWaitMap, RangeCheckMissMap, EndRange,
         NotifyReportTraceId, DeleteWait, Compare, Promote, DeleteMiss, VisitWait, VisitMiss,
         Visit, callVars
  <2> QED
    BY <2>1 DEF CountInv
<1>b. Covered(t)
  BY DEF CountInv
<1>1. CASE \E s \in Span : StoreWait(s) /\ TraceOf[s] = t
  BY <1>1, <1>b, CoveredStoreWait
<1>2. CASE flag'[t] \in Span /\ flag'[t] /= flag[t]
  <2>1. PICK s \in Span : Race(s) /\ flag'[t] = s
    BY <1>2, <1>a, FlagSteps, ReceiverFacts
  <2>2. flag[t] = Unset
    BY <1>2, <1>a, FlagSteps
  <2> QED
    BY <1>b, <2>1, <2>2, CoveredRace
<1>3. CASE \E q \in Running :
              visiting[q].trace = t /\ (NotifyReportTraceId(q) \/ Promote(q))
  BY <1>3, <1>b, CoveredNotify, CoveredPromote
<1>4. CASE /\ \E q \in Running : CheckTask(q)
           /\ ~ \E q \in Running :
                   visiting[q].trace = t /\ (NotifyReportTraceId(q) \/ Promote(q))
  <2>1. /\ notified'[t] = notified[t] /\ Waiting(t)' \subseteq Waiting(t)
        /\ MayBePromoted(t)' => MayBePromoted(t)
    BY <1>4, LoopSpends
  <2> QED
    BY <1>a, <1>b, <2>1, CoveredFrame
<1>5. CASE /\ Clock \/ (\E s \in Span, r \in Running : Collect(s, r))
              \/ (\E s \in Span : CacheTrace(s)) \/ UNCHANGED vars
           /\ ~ \E s \in Span : StoreWait(s) /\ TraceOf[s] = t
           /\ ~ (flag'[t] \in Span /\ flag'[t] /= flag[t])
  <2>1. /\ notified'[t] = notified[t] /\ Waiting(t)' \subseteq Waiting(t)
        /\ MayBePromoted(t)' => MayBePromoted(t)
    BY <1>5, CallsSpend
  <2> QED
    BY <1>a, <1>b, <2>1, CoveredFrame
<1> QED
  BY <1>1, <1>2, <1>3, <1>4, <1>5 DEF Next

\* With Redis, a trace is notified at most once for each of its top spans, and
\* once more if a span without top won the race for it.
THEOREM NotificationsBounded == Spec => []NotifyBound
<1>1. Init => IInv /\ OwnerInv /\ CountInv
  BY InitInv, OwnerInit, CountInit
<1>2. (IInv /\ OwnerInv /\ CountInv) /\ [Next]_vars => (IInv /\ OwnerInv /\ CountInv)'
  <2>1. IInv /\ [Next]_vars => IInv'
    BY TypeStep, CallStep, MapStep, LoopStep DEF IInv
  <2> QED
    BY <2>1, OwnerStep, CountStep
<1>3. IInv /\ CountInv => NotifyBound
  <2> SUFFICES ASSUME IInv, CountInv, NEW t \in Trace, ~local
               PROVE  notified[t] <= Cardinality(Collected(t) \cap TopSpan)
                                       + (IF flag[t] \in Span THEN 1 ELSE 0)
    BY DEF NotifyBound
  <2>1. Covered(t) /\ notified[t] \in Nat
    BY DEF CountInv, IInv, TypeOK
  <2>2. /\ TopDone(t) \subseteq Collected(t) \cap TopSpan
        /\ Collected(t) \cap TopSpan \subseteq Span
    BY DEF TopDone, Collected
  <2>3. /\ Cardinality(TopDone(t)) <= Cardinality(Collected(t) \cap TopSpan)
        /\ Cardinality(Collected(t) \cap TopSpan) \in Nat
    BY <2>2, FS_Subset, FS_CardinalityType, TraceTriggerAssumption
  <2>4. One(MayBePromoted(t)) \in Nat
    BY DEF One
  <2> QED
    BY <2>1, <2>3, <2>4, Counts DEF Covered, One
<1> QED
  BY <1>1, <1>2, <1>3, PTL DEF Spec


-----------------------------------------------------------------------------
(* No trace is forgotten, unless it is crowded.                            *)

NoTop(t) == Collected(t) \cap TopSpan = {}

\* Receiver r is to notify trace t, or somebody has.
OnItsWay(t, r) == t \in Keys(waitMap[r]) \/ notified[t] > 0

\* The receiver of s keeps an entry for the trace of s, which it is not about to delete.
Kept(s) ==
    LET r == at[s]
        t == TraceOf[s]
    IN  checkMissMap[r][t] /= Unset /\ ~(phase[r] = "deleteMiss" /\ visiting[r].trace = t)

\* No call lasts longer than its bound.
TimeInv == \A s \in Span : InCall(s) => now <= collectedAt[s] + CallTime

\* The call of s, a span of t without top, at r is over.
Returned(s, t, r) ==
    s \in Span \ TopSpan /\ TraceOf[s] = t /\ at[s] = r /\ pc[s] = "done"

\* What a loop deletes from waitMap it has notified; what it looks at in
\* checkMissMap is of a call that has returned.
VisitInv ==
    \A r \in Receiver :
        /\ phase[r] = "deleteWait" => notified[visiting[r].trace] > 0
        /\ phase[r] \in {"compare", "promote", "deleteMiss"} =>
              Returned(visiting[r].stamp, visiting[r].trace, r)

\* The flag of a trace is -1 only if a top span came, or is the stamp of another
\* span of it.
FlagInv ==
    \A t \in Trace : /\ flag[t] = Top => ~NoTop(t)
                     /\ flag[t] \in Span => flag[t] \in Collected(t) \ TopSpan

\* A top span whose call has returned makes its receiver notify the trace.  Without
\* one, a call that has returned has left a flag, its own or another's; and the
\* receiver of the span that is the flag notifies the trace or will compare.
CallerOk(s) ==
    LET t == TraceOf[s]
    IN  /\ s \in TopSpan /\ pc[s] = "done" => OnItsWay(t, at[s])
        /\ pc[s] = "done" /\ NoTop(t) => flag[t] \in Span
        /\ pc[s] \in {"read", "race"} /\ ~Crowded(t) => Kept(s)
        /\ NoTop(t) /\ ~Crowded(t) /\ flag[t] = s => OnItsWay(t, at[s]) \/ Kept(s)

CallerInv == \A s \in Span : CallerOk(s)
PursuitInv == TimeInv /\ VisitInv /\ FlagInv /\ CallerInv

LEMMA PursuitInit == Init => PursuitInv
BY ReceiverFacts DEF Init, PursuitInv, TimeInv, VisitInv, FlagInv, CallerInv, CallerOk, InCall

\* The call of s moves on only by its own steps.
LEMMA CallMoves ==
    ASSUME TypeOK, [Next]_vars, NEW s \in Span, pc'[s] /= pc[s]
    PROVE  (\E r \in Running : Collect(s, r)) \/ CacheTrace(s)
<1>1. ASSUME NEW o \in Span, NEW from, NEW to, Step(o, from, to) PROVE o = s
  BY <1>1 DEF Step, TypeOK
<1>2. ASSUME NEW o \in Span, NEW r \in Running, Collect(o, r) PROVE o = s
  BY <1>1, <1>2 DEF Collect
<1>3. ASSUME NEW o \in Span, CacheTrace(o) PROVE o = s
  BY <1>1, <1>3 DEF CacheTrace, MarkTop, StoreWait, StoreMiss, ReadFlag, Race
<1>4. CASE UNCHANGED pc
  BY <1>4
<1> QED
  BY <1>2, <1>3, <1>4 DEF Next, vars, Clock, CheckTask, Tick, RangeWaitMap, RangeCheckMissMap,
       EndRange, NotifyReportTraceId, DeleteWait, Compare, Promote, DeleteMiss, VisitWait,
       VisitMiss, Visit

\* A step takes at most one trace out of a waitMap, and one entry of a checkMissMap.
LEMMA EntrySteps ==
    ASSUME TypeOK, [Next]_vars, NEW r \in Receiver, NEW t \in Trace
    PROVE  /\ \/ t \in Keys(waitMap[r]) => t \in Keys(waitMap'[r])
              \/ phase[r] = "deleteWait" /\ visiting[r].trace = t
           /\ \/ checkMissMap'[r][t] = checkMissMap[r][t]
              \/ \E s \in Span : StoreMiss(s) /\ at[s] = r /\ TraceOf[s] = t
              \/ DeleteMiss(r) /\ visiting[r].trace = t
<1> USE ReceiverFacts
<1>1. ASSUME Clock \/ (\E s \in Span, p \in Running : Collect(s, p))
             \/ (\E s \in Span : CacheTrace(s)) \/ UNCHANGED vars
      PROVE  /\ t \in Keys(waitMap[r]) => t \in Keys(waitMap'[r])
             /\ \/ checkMissMap'[r][t] = checkMissMap[r][t]
                \/ \E s \in Span : StoreMiss(s) /\ at[s] = r /\ TraceOf[s] = t
  <2>1. ASSUME NEW s \in Span, StoreMiss(s), ~(at[s] = r /\ TraceOf[s] = t)
        PROVE  checkMissMap'[r][t] = checkMissMap[r][t]
    BY <2>1 DEF StoreMiss, TypeOK
  <2>2. UNCHANGED checkMissMap \/ \E s \in Span : StoreMiss(s)
    BY <1>1 DEF Clock, Collect, CacheTrace, MarkTop, StoreWait, ReadFlag, Race, vars
  <2> QED
    BY <1>1, <2>1, <2>2, CallsAddEntries
<1>2. ASSUME NEW q \in Running, CheckTask(q), q /= r
      PROVE  waitMap'[r] = waitMap[r] /\ checkMissMap'[r] = checkMissMap[r]
  BY <1>2, OneLoop
<1>3. ASSUME r \in Running, CheckTask(r)
      PROVE  /\ \/ t \in Keys(waitMap[r]) => t \in Keys(waitMap'[r])
                \/ phase[r] = "deleteWait" /\ visiting[r].trace = t
             /\ \/ checkMissMap'[r][t] = checkMissMap[r][t]
                \/ DeleteMiss(r) /\ visiting[r].trace = t
  <2>1. CASE UNCHANGED <<waitMap, checkMissMap>>
    BY <2>1
  <2>2. CASE DeleteWait(r)
    BY <2>2 DEF DeleteWait, Without, Goto, Keys, TypeOK
  <2>3. CASE DeleteMiss(r)
    BY <2>3 DEF DeleteMiss, Without, Goto, Keys, TypeOK
  <2>4. CASE Promote(r)
    <3>1. \A stamp : WaitTime(stamp) \in Nat
      BY TraceTriggerAssumption DEF WaitTime
    <3>2. checkTime[r] + WaitTime(visiting[r].stamp) /= Unset
      BY <3>1 DEF TypeOK
    <3> QED
      BY <2>4, <3>2 DEF Promote, Keys, TypeOK
  <2> QED
    BY <1>3, <2>1, <2>2, <2>3, <2>4 DEF CheckTask, Tick, RangeWaitMap, RangeCheckMissMap,
         EndRange, NotifyReportTraceId, Compare, VisitWait, VisitMiss, Visit
<1> QED
  BY <1>1, <1>2, <1>3 DEF Next

\* No notification is taken back.
LEMMA NotifiedStays ==
    ASSUME TypeOK, [Next]_vars, NEW t \in Trace
    PROVE  notified[t] <= notified'[t]
<1>1. CASE UNCHANGED notified
  BY <1>1 DEF TypeOK
<1>2. ASSUME NEW r \in Running, NotifyReportTraceId(r) PROVE notified[t] <= notified'[t]
  BY <1>2 DEF NotifyReportTraceId, TypeOK
<1> QED
  BY <1>1, <1>2 DEF Next, vars, Clock, Collect, CacheTrace, MarkTop, StoreWait, StoreMiss,
       ReadFlag, Race, CheckTask, Tick, RangeWaitMap, RangeCheckMissMap, EndRange, DeleteWait,
       Compare, Promote, DeleteMiss, VisitWait, VisitMiss, Visit

LEMMA OnItsWayStays ==
    ASSUME TypeOK, TypeOK', VisitInv, [Next]_vars, NEW t \in Trace, NEW r \in Receiver,
           OnItsWay(t, r)
    PROVE  OnItsWay(t, r)'
<1>1. notified[t] \in Nat /\ notified'[t] \in Nat /\ notified[t] <= notified'[t]
  BY NotifiedStays DEF TypeOK
<1>2. CASE notified[t] > 0
  BY <1>1, <1>2 DEF OnItsWay
<1>3. CASE t \in Keys(waitMap[r]) /\ ~(phase[r] = "deleteWait" /\ visiting[r].trace = t)
  <2>1. t \in Keys(waitMap'[r])
    BY <1>3, EntrySteps
  <2> QED
    BY <2>1 DEF OnItsWay, Keys
<1>4. CASE phase[r] = "deleteWait" /\ visiting[r].trace = t
  BY <1>2, <1>4 DEF VisitInv
<1> QED
  BY <1>2, <1>3, <1>4 DEF OnItsWay

\* A trace stays crowded, and a top span that came has come.
LEMMA CollectedGrows ==
    ASSUME TypeOK, [Next]_vars, NEW t \in Trace
    PROVE  /\ Collected(t) \subseteq Collected(t)'
           /\ NoTop(t)' => NoTop(t)
           /\ Crowded(t) => Crowded(t)'
<1>1. Collected(t) \subseteq Collected(t)'
  BY Stable
<1>2. \A s \in Collected(t) : at'[s] = at[s]
  BY Grows DEF Collected
<1> QED
  BY <1>1, <1>2 DEF NoTop, Crowded

LEMMA TimeStep == TypeOK /\ TimeInv /\ [Next]_vars => TimeInv'
<1> SUFFICES ASSUME TypeOK, TimeInv, [Next]_vars, NEW s \in Span, InCall(s)'
             PROVE  now' <= collectedAt'[s] + CallTime
  BY DEF TimeInv
<1>1. CASE Clock
  BY <1>1, TraceTriggerAssumption DEF Clock, InCall, callVars, TypeOK
<1>2. CASE now' = now /\ pc[s] /= "new"
  <2>1. collectedAt'[s] = collectedAt[s] /\ pc[s] /= "done"
    BY <1>2, Grows, DoneStays DEF InCall
  <2> QED
    BY <1>2, <2>1 DEF TimeInv, InCall
<1>3. CASE now' = now /\ pc[s] = "new"
  <2>1. CASE \E r \in Running : Collect(s, r)
    <3>1. collectedAt'[s] = now
      BY <2>1 DEF Collect, TypeOK
    <3> QED
      BY <1>3, <3>1, TraceTriggerAssumption DEF TypeOK
  <2>2. ~CacheTrace(s)
    BY <1>3 DEF CacheTrace, MarkTop, StoreWait, StoreMiss, ReadFlag, Race, Step
  <2>3. pc'[s] /= pc[s]
    BY <1>3 DEF InCall
  <2> QED
    BY <2>1, <2>2, <2>3, CallMoves
<1>4. now' = now \/ Clock
  BY DEF Next, vars, Collect, CacheTrace, MarkTop, StoreWait, StoreMiss, ReadFlag, Race,
       CheckTask, Tick, RangeWaitMap, RangeCheckMissMap, EndRange, NotifyReportTraceId,
       DeleteWait, Compare, Promote, DeleteMiss, VisitWait, VisitMiss, Visit
<1> QED
  BY <1>1, <1>2, <1>3, <1>4

LEMMA FlagStep == IInv /\ FlagInv /\ [Next]_vars => FlagInv'
<1> SUFFICES ASSUME IInv, FlagInv, [Next]_vars, NEW t \in Trace
             PROVE  /\ flag'[t] = Top => ~NoTop(t)'
                    /\ flag'[t] \in Span => flag'[t] \in Collected(t)' \ TopSpan
  BY DEF FlagInv
<1>a. TypeOK /\ CallInv
  BY DEF IInv
<1>b. Collected(t) \subseteq Collected(t)' /\ (NoTop(t)' => NoTop(t))
  BY <1>a, CollectedGrows
<1>1. CASE flag'[t] = flag[t]
  BY <1>1, <1>b DEF FlagInv
<1>2. ASSUME NEW s \in Span, MarkTop(s), flag'[t] /= flag[t]
      PROVE  flag'[t] = Top /\ ~NoTop(t)
  <2>1. TraceOf[s] = t /\ flag'[t] = Top
    BY <1>2, <1>a, <1>1, FlagSteps DEF MarkTop, RecordTraceTime, Recorded, TypeOK
  <2>2. s \in Collected(t) \cap TopSpan
    BY <1>2, <1>a, <2>1 DEF MarkTop, Step, CallInv, Collected
  <2> QED
    BY <2>1, <2>2 DEF NoTop
<1>3. ASSUME NEW s \in Span, Race(s), TraceOf[s] = t PROVE s \in Collected(t) \ TopSpan
  BY <1>3, <1>a DEF Race, Step, CallInv, Collected
<1> QED
  BY <1>a, <1>b, <1>1, <1>2, <1>3, FlagSteps, ReceiverFacts

\* The loop of a receiver moves on only by its own steps.
LEMMA LoopMoves ==
    ASSUME TypeOK, [Next]_vars, NEW r \in Receiver
    PROVE  \/ phase'[r] = phase[r] /\ visiting'[r] = visiting[r]
           \/ r \in Running /\ CheckTask(r) /\ UNCHANGED <<callVars, now, pc>>
<1>1. ASSUME NEW q \in Running, CheckTask(q), q /= r
      PROVE  phase'[r] = phase[r] /\ visiting'[r] = visiting[r]
  BY <1>1, OneLoop, ReceiverFacts
<1>2. CASE UNCHANGED rangeVars
  BY <1>2 DEF rangeVars
<1> QED
  BY <1>1, <1>2, LoopStepsOnly

\* An entry of checkMissMap is due only when the call that stored it has returned.
LEMMA DueReturned ==
    ASSUME IInv, OwnerInv, TimeInv, CallTime <= MissTopTime, NEW r \in Receiver, NEW t \in Trace,
           t \in Keys(checkMissMap[r]), checkMissMap[r][t].expireTime < checkTime[r]
    PROVE  LET s == checkMissMap[r][t].stamp
           IN  Returned(s, t, r)
<1>1. PICK s \in Span, expire \in Nat :
         s = checkMissMap[r][t].stamp /\ expire = checkMissMap[r][t].expireTime
  <2>1. checkMissMap[r][t] \in [stamp : Span, expireTime : Nat]
    BY DEF IInv, TypeOK, Keys
  <2> QED
    BY <2>1
<1>2. s \in Collected(t) \ TopSpan /\ collectedAt[s] + MissTopTime <= expire
  BY <1>1 DEF IInv, MapInv, Keys, Missed
<1>3. at[s] = r
  BY <1>1 DEF OwnerInv, Keys
<1>4. expire < now
  BY <1>1 DEF IInv, LoopInv, LoopOk, TypeOK
<1>5. ~(now <= collectedAt[s] + CallTime)
  BY <1>2, <1>4, TraceTriggerAssumption DEF IInv, TypeOK
<1>6. pc[s] = "done"
  BY <1>2, <1>5 DEF TimeInv, InCall, Collected
<1> QED
  BY <1>1, <1>2, <1>3, <1>6 DEF Returned, Collected

LEMMA VisitStep ==
    ASSUME CallTime <= MissTopTime
    PROVE  IInv /\ OwnerInv /\ TimeInv /\ VisitInv /\ [Next]_vars => VisitInv'
<1> DEFINE VisitOk(r) ==
             /\ phase[r] = "deleteWait" => notified[visiting[r].trace] > 0
             /\ phase[r] \in {"compare", "promote", "deleteMiss"} =>
                   Returned(visiting[r].stamp, visiting[r].trace, r)
<1>0. SUFFICES ASSUME IInv, OwnerInv, TimeInv, VisitInv, [Next]_vars, NEW r \in Receiver
               PROVE  VisitOk(r)'
  BY DEF VisitInv
<1>a. TypeOK /\ TypeOK' /\ LoopOk(r)
  BY <1>0, TypeStep DEF IInv, LoopInv
<1> DEFINE Looking == phase[r] \in {"compare", "promote", "deleteMiss"}
           x == visiting[r].trace
           y == visiting[r].stamp
<1>b. ASSUME Looking
      PROVE  y \in Span \ TopSpan /\ TraceOf[y] = x /\ at'[y] = r /\ pc'[y] = "done"
  <2>1. y \in Span \ TopSpan /\ TraceOf[y] = x /\ at[y] = r /\ pc[y] = "done"
    BY <1>0, <1>b DEF VisitInv, Returned
  <2> QED
    BY <1>0, <1>a, <2>1, Grows, DoneStays
<1>c. ASSUME phase[r] = "deleteWait" PROVE notified'[x] > 0
  <2>1. x \in Trace
    BY <1>a, <1>c DEF LoopOk, Visited
  <2>2. notified[x] > 0
    BY <1>0, <1>c DEF VisitInv
  <2> QED
    BY <1>0, <1>a, <2>1, <2>2, NotifiedStays DEF TypeOK
<1>1. CASE phase'[r] = phase[r] /\ visiting'[r] = visiting[r]
  BY <1>1, <1>b, <1>c DEF Returned
<1>2. ASSUME CheckTask(r), UNCHANGED <<callVars, now, pc>> PROVE VisitOk(r)'
  <2>1. CASE Tick(r) \/ RangeWaitMap(r) \/ RangeCheckMissMap(r) \/ EndRange(r)
             \/ DeleteWait(r) \/ DeleteMiss(r)
    <3>1. phase'[r] \notin {"deleteWait", "compare", "promote", "deleteMiss"}
      BY <1>a, <2>1 DEF Tick, RangeWaitMap, RangeCheckMissMap, EndRange, DeleteWait, DeleteMiss,
           Goto, TypeOK
    <3> QED
      BY <3>1
  <2>2. CASE NotifyReportTraceId(r)
    <3>1. x \in Trace
      BY <1>a, <2>2 DEF NotifyReportTraceId, Goto, LoopOk, Visited
    <3>2. notified'[x] > 0 /\ phase'[r] = "deleteWait" /\ visiting' = visiting
      BY <1>a, <2>2, <3>1 DEF NotifyReportTraceId, Goto, TypeOK
    <3> QED
      BY <3>2
  <2>3. CASE Compare(r) \/ Promote(r)
    <3>1. Looking /\ visiting' = visiting /\ phase'[r] /= "deleteWait"
      BY <1>a, <2>3 DEF Compare, Promote, Goto, TypeOK
    <3> QED
      BY <3>1, <1>b DEF Returned
  <2>4. ASSUME NEW t \in Trace, VisitWait(r, t) PROVE VisitOk(r)'
    <3>1. phase'[r] \notin {"deleteWait", "compare", "promote", "deleteMiss"}
      BY <1>a, <2>4 DEF VisitWait, Visit, Goto, TypeOK
    <3> QED
      BY <3>1
  <2>5. ASSUME NEW t \in Trace, VisitMiss(r, t) PROVE VisitOk(r)'
    <3>1. CASE UNCHANGED <<phase, visiting>>
      BY <2>5, <3>1 DEF VisitMiss
    <3>2. CASE Expired(checkMissMap[r][t].expireTime, checkTime[r])
      <4> DEFINE s == checkMissMap[r][t].stamp
      <4>1. t \in Keys(checkMissMap[r]) /\ checkMissMap[r][t].expireTime < checkTime[r]
        BY <1>a, <2>5, <3>2 DEF VisitMiss, LoopOk, Expired
      <4>2. Returned(s, t, r)
        BY <1>0, <4>1, DueReturned
      <4>3. phase'[r] = "compare" /\ visiting'[r] = [trace |-> t, stamp |-> s]
        BY <1>a, <2>5, <3>2 DEF VisitMiss, Visit, Goto, TypeOK
      <4>4. visiting'[r].trace = t /\ visiting'[r].stamp = s
        BY <4>3
      <4>5. at'[s] = r /\ pc'[s] = "done"
        BY <1>2, <4>2 DEF callVars, Returned
      <4> HIDE DEF s
      <4> QED
        BY <4>2, <4>3, <4>4, <4>5 DEF Returned
    <3> QED
      BY <2>5, <3>1, <3>2 DEF VisitMiss, Visit
  <2> HIDE DEF VisitOk
  <2> QED
    BY <1>2, <2>1, <2>2, <2>3, <2>4, <2>5 DEF CheckTask
<1> QED
  BY <1>0, <1>1, <1>2, <1>a, LoopMoves

\* In a trace that is not crowded, each receiver has one span without top.
LEMMA OnlyOne ==
    ASSUME NEW t \in Trace, ~Crowded(t), NEW s, NEW o,
           s \in Collected(t) \ TopSpan, o \in Collected(t) \ TopSpan, at[s] = at[o]
    PROVE  s = o
BY DEF Crowded

\* The receiver keeps the entry of s until it has compared it.
LEMMA KeptStays ==
    ASSUME IInv, VisitInv, [Next]_vars, NEW s \in Span, pc[s] /= "new", s \notin TopSpan,
           ~Crowded(TraceOf[s]), Kept(s)
    PROVE  LET r == at[s]
               t == TraceOf[s]
           IN  \/ Kept(s)'
               \/ /\ visiting[r].trace = t /\ visiting[r].stamp = s
                  /\ Promote(r) \/ (Compare(r) /\ flag[t] /= s)
<1> DEFINE t == TraceOf[s]
<1>a. TypeOK /\ CallInv /\ t \in Trace
  BY ReceiverFacts DEF IInv
<1>b. PICK r \in Receiver : r = at[s]
  BY <1>a DEF CallInv
<1>c. s \in Collected(t) \ TopSpan /\ at'[s] = r
  BY <1>a, <1>b, Grows DEF Collected
<1>d. checkMissMap[r][t] /= Unset /\ ~(phase[r] = "deleteMiss" /\ visiting[r].trace = t)
  BY <1>b DEF Kept
<1>e. checkMissMap'[r][t] /= Unset
  <2>1. ~(DeleteMiss(r) /\ visiting[r].trace = t)
    BY <1>d DEF DeleteMiss, Goto
  <2>2. ASSUME NEW o \in Span, StoreMiss(o), at[o] = r, TraceOf[o] = t
        PROVE  checkMissMap'[r][t] /= Unset
    <3>1. [stamp |-> o, expireTime |-> now + MissTopTime] \in [stamp : Span, expireTime : Nat]
      BY <1>a, TraceTriggerAssumption DEF TypeOK
    <3>2. checkMissMap'[r][t] = [stamp |-> o, expireTime |-> now + MissTopTime]
      BY <1>a, <2>2 DEF StoreMiss, TypeOK
    <3> QED
      BY <3>1, <3>2, TraceTriggerAssumption
  <2> QED
    BY <1>a, <1>d, <2>1, <2>2, EntrySteps
<1>1. CASE ~(phase'[r] = "deleteMiss" /\ visiting'[r].trace = t)
  BY <1>c, <1>e, <1>1 DEF Kept
<1>2. CASE phase'[r] = "deleteMiss" /\ visiting'[r].trace = t
  <2>1. ~(phase'[r] = phase[r] /\ visiting'[r] = visiting[r])
    BY <1>d, <1>2
  <2>2. CheckTask(r)
    BY <1>a, <2>1, LoopMoves
  <2>3. Compare(r) \/ Promote(r)
    <3>1. ASSUME Tick(r) \/ RangeWaitMap(r) \/ RangeCheckMissMap(r) \/ EndRange(r)
                 \/ NotifyReportTraceId(r) \/ DeleteWait(r) \/ DeleteMiss(r)
          PROVE  phase'[r] /= "deleteMiss"
      BY <1>a, <3>1 DEF Tick, RangeWaitMap, RangeCheckMissMap, EndRange, NotifyReportTraceId,
           DeleteWait, DeleteMiss, Goto, TypeOK
    <3>2. ASSUME NEW k \in Trace, VisitWait(r, k) \/ VisitMiss(r, k)
          PROVE  phase'[r] /= "deleteMiss"
      BY <1>a, <3>2 DEF VisitWait, VisitMiss, Visit, Goto, TypeOK
    <3> QED
      BY <1>2, <2>2, <3>1, <3>2 DEF CheckTask
  <2>4. /\ phase[r] \in {"compare", "promote", "deleteMiss"} /\ visiting[r].trace = t
        /\ Compare(r) => flag[t] /= visiting[r].stamp
    BY <1>a, <1>2, <2>3 DEF Compare, Promote, Goto, TypeOK
  <2>5. visiting[r].stamp \in Collected(t) \ TopSpan /\ at[visiting[r].stamp] = r
    BY <2>4 DEF VisitInv, Returned, Collected
  <2>6. visiting[r].stamp = s
    BY <1>a, <1>b, <1>c, <2>5, OnlyOne
  <2> QED
    BY <1>b, <2>3, <2>4, <2>6
<1> QED
  BY <1>1, <1>2

\* A top span.
LEMMA TopCallerStep ==
    ASSUME IInv, VisitInv, CallerInv, [Next]_vars, MissTopTime > 0,
           NEW s \in TopSpan, pc'[s] = "done"
    PROVE  OnItsWay(TraceOf[s], at[s])'
<1> DEFINE t == TraceOf[s]
<1>a. TypeOK /\ TypeOK' /\ CallInv /\ s \in Span /\ t \in Trace
  BY TypeStep, TraceTriggerAssumption DEF IInv
<1>1. CASE pc[s] = "done"
  <2>1. OnItsWay(t, at[s]) /\ at[s] \in Receiver /\ at'[s] = at[s]
    BY <1>a, <1>1, Grows DEF CallerInv, CallerOk, CallInv
  <2>2. PICK r \in Receiver : r = at[s]
    BY <2>1
  <2>3. OnItsWay(t, r)'
    BY <1>a, <2>1, <2>2, OnItsWayStays
  <2> QED
    BY <2>1, <2>2, <2>3 DEF OnItsWay
<1>2. CASE pc[s] /= "done"
  <2>1. ASSUME NEW r \in Running, Collect(s, r) PROVE FALSE
    BY <1>a, <2>1 DEF Collect, Step, AfterStore, TypeOK
  <2>2. CASE CacheTrace(s)
    <3>1. StoreWait(s)
      BY <1>a, <2>2 DEF CacheTrace, MarkTop, StoreMiss, ReadFlag, Race, Step, CallInv, TypeOK
    <3>2. now + WaitTime(s) /= Unset /\ at'[s] = at[s] /\ at[s] \in Receiver
      BY <1>a, <3>1, ReceiverFacts DEF StoreWait, callVars, Step, CallInv, TypeOK
    <3>3. t \in Keys(waitMap'[at[s]])
      BY <1>a, <3>1, <3>2 DEF StoreWait, Keys, TypeOK
    <3> QED
      BY <3>2, <3>3 DEF OnItsWay, Keys
  <2> QED
    BY <1>a, <1>2, <2>1, <2>2, CallMoves
<1> QED
  BY <1>1, <1>2

\* Who has returned has left a flag.
LEMMA ReturnedCallerStep ==
    ASSUME IInv, FlagInv, FlagInv', CallerInv, [Next]_vars, MissTopTime > 0,
           NEW s \in Span, pc'[s] = "done", NoTop(TraceOf[s])'
    PROVE  flag'[TraceOf[s]] \in Span
<1> DEFINE t == TraceOf[s]
<1>a. TypeOK /\ TypeOK' /\ CallInv /\ t \in Trace /\ NoTop(t)
  BY TypeStep, CollectedGrows, ReceiverFacts DEF IInv
<1>1. CASE pc[s] = "done"
  <2>1. flag[t] \in Span
    BY <1>a, <1>1 DEF CallerInv, CallerOk
  <2>2. flag'[t] = flag[t] \/ flag'[t] = Top \/ flag'[t] \in Span
    BY <1>a, FlagSteps
  <2>3. flag'[t] /= Top
    BY <1>a DEF FlagInv
  <2> QED
    BY <2>1, <2>2, <2>3
<1>2. CASE pc[s] /= "done"
  <2>1. ASSUME NEW r \in Running, Collect(s, r) PROVE FALSE
    BY <1>a, <2>1 DEF Collect, Step, AfterStore, TypeOK
  <2>2. CASE CacheTrace(s)
    <3>1. ~StoreWait(s)
      <4>1. ASSUME StoreWait(s) PROVE s \in Collected(t) \cap TopSpan
        BY <1>a, <4>1 DEF StoreWait, Step, CallInv, Collected
      <4> QED
        BY <1>a, <4>1 DEF NoTop
    <3>2. ~ReadFlag(s)
      BY <1>a DEF ReadFlag, Step, MayRace, FlagInv, TypeOK
    <3>3. Race(s)
      BY <1>a, <2>2, <3>1, <3>2 DEF CacheTrace, MarkTop, StoreMiss, Step, TypeOK
    <3>4. flag'[t] \in {s, flag[t]} /\ (flag[t] = Unset => flag'[t] = s)
      BY <1>a, <3>3 DEF Race, RecordTraceTime, Recorded, TypeOK
    <3>5. flag'[t] /= Top /\ flag[t] \in Span \cup {Unset, Top}
      BY <1>a DEF FlagInv, TypeOK
    <3>6. flag[t] /= Top
      BY <1>a DEF FlagInv
    <3> QED
      BY <3>4, <3>5, <3>6
  <2> QED
    BY <1>a, <1>2, <2>1, <2>2, CallMoves
<1> QED
  BY <1>1, <1>2

\* A call that is not over has its entry kept.
LEMMA EnteredCallerStep ==
    ASSUME IInv, VisitInv, CallerInv, [Next]_vars,
           NEW s \in Span, pc'[s] \in {"read", "race"}, ~Crowded(TraceOf[s])'
    PROVE  Kept(s)'
<1> DEFINE t == TraceOf[s]
<1>a. TypeOK /\ TypeOK' /\ CallInv /\ t \in Trace /\ ~Crowded(t)
  BY TypeStep, CollectedGrows, ReceiverFacts DEF IInv
<1>1. CASE pc[s] \in {"read", "race"}
  <2>1. Kept(s) /\ s \notin TopSpan
    BY <1>a, <1>1 DEF CallerInv, CallerOk, CallInv
  <2>2. ~(visiting[at[s]].stamp = s /\ (Promote(at[s]) \/ Compare(at[s])))
    BY <1>a, <1>1 DEF Promote, Compare, Goto, VisitInv, Returned, CallInv
  <2> QED
    BY <1>a, <1>1, <2>1, <2>2, KeptStays
<1>2. CASE pc[s] \notin {"read", "race"}
  <2>1. ASSUME NEW r \in Running, Collect(s, r) PROVE FALSE
    BY <1>a, <2>1 DEF Collect, Step, AfterStore, TypeOK
  <2>2. CASE CacheTrace(s)
    <3>1. StoreMiss(s) /\ pc[s] = "stamp"
      BY <1>a, <1>2, <2>2 DEF CacheTrace, MarkTop, StoreWait, StoreMiss, ReadFlag, Race, Step,
           TypeOK
    <3>2. PICK r \in Receiver : r = at[s]
      BY <1>a, <3>1 DEF CallInv
    <3>3. s \in Collected(t) \ TopSpan
      BY <1>a, <3>1 DEF Collected, CallInv
    <3>4. ~(phase[r] = "deleteMiss" /\ visiting[r].trace = t)
      <4>1. SUFFICES ASSUME phase[r] = "deleteMiss", visiting[r].trace = t PROVE FALSE
        OBVIOUS
      <4>2. /\ visiting[r].stamp \in Collected(t) \ TopSpan /\ at[visiting[r].stamp] = r
            /\ pc[visiting[r].stamp] = "done"
        BY <4>1 DEF VisitInv, Returned, Collected
      <4> QED
        BY <1>a, <3>1, <3>2, <3>3, <4>2, OnlyOne
    <3>5. checkMissMap'[r][t] /= Unset
      <4>1. [stamp |-> s, expireTime |-> now + MissTopTime] \in [stamp : Span, expireTime : Nat]
        BY <1>a, TraceTriggerAssumption DEF TypeOK
      <4>2. checkMissMap'[r][t] = [stamp |-> s, expireTime |-> now + MissTopTime]
        BY <1>a, <3>1, <3>2 DEF StoreMiss, TypeOK
      <4> QED
        BY <4>1, <4>2, TraceTriggerAssumption
    <3>6. UNCHANGED <<at, phase, visiting>>
      BY <3>1 DEF StoreMiss, callVars, rangeVars
    <3> QED
      BY <3>2, <3>4, <3>5, <3>6 DEF Kept
  <2> QED
    BY <1>a, <1>2, <2>1, <2>2, CallMoves
<1> QED
  BY <1>1, <1>2

\* The flag's span.
LEMMA WinnerCallerStep ==
    ASSUME IInv, VisitInv, FlagInv, CallerInv, [Next]_vars, NEW s \in Span,
           NoTop(TraceOf[s])', ~Crowded(TraceOf[s])', flag'[TraceOf[s]] = s
    PROVE  OnItsWay(TraceOf[s], at[s])' \/ Kept(s)'
<1> DEFINE t == TraceOf[s]
<1>a. TypeOK /\ TypeOK' /\ CallInv /\ t \in Trace /\ NoTop(t) /\ ~Crowded(t)
  BY TypeStep, CollectedGrows, ReceiverFacts DEF IInv
<1>1. CASE flag[t] = s
  <2>1. s \in Collected(t) \ TopSpan
    BY <1>a, <1>1 DEF FlagInv
  <2>2. PICK r \in Receiver : r = at[s] /\ at'[s] = r
    BY <1>a, <2>1, Grows DEF Collected, CallInv
  <2>3. CASE OnItsWay(t, at[s])
    <3>1. OnItsWay(t, r)'
      BY <1>a, <2>2, <2>3, OnItsWayStays
    <3> QED
      BY <2>2, <3>1 DEF OnItsWay
  <2>4. CASE Kept(s)
    <3>1. Kept(s)' \/ (visiting[r].trace = t /\ visiting[r].stamp = s /\ Promote(r))
      BY <1>a, <1>1, <2>1, <2>2, <2>4, KeptStays DEF Collected
    <3>2. CASE visiting[r].trace = t /\ Promote(r)
      <4>1. \A stamp : WaitTime(stamp) \in Nat
        BY TraceTriggerAssumption DEF WaitTime
      <4>2. checkTime[r] + WaitTime(visiting[r].stamp) /= Unset
        BY <1>a, <4>1, TraceTriggerAssumption DEF TypeOK
      <4>3. t \in Keys(waitMap'[r])
        BY <1>a, <3>2, <4>2 DEF Promote, Keys, TypeOK
      <4> QED
        BY <2>2, <4>3 DEF OnItsWay, Keys
    <3> QED
      BY <3>1, <3>2
  <2> QED
    BY <1>a, <1>1, <2>3, <2>4 DEF CallerInv, CallerOk
<1>2. CASE flag[t] /= s
  <2>1. PICK o \in Span : Race(o) /\ TraceOf[o] = t /\ flag'[t] = o
    BY <1>a, <1>2, FlagSteps, ReceiverFacts
  <2>2. o = s /\ pc[s] = "race"
    BY <2>1 DEF Race, Step
  <2>3. Kept(s)
    BY <1>a, <2>2 DEF CallerInv, CallerOk
  <2>4. UNCHANGED <<at, phase, visiting, checkMissMap>>
    BY <2>1 DEF Race, callVars, rangeVars
  <2> QED
    BY <2>3, <2>4 DEF Kept
<1> QED
  BY <1>1, <1>2

LEMMA SpecPursuit ==
    ASSUME MissTopTime > 0, CallTime <= MissTopTime
    PROVE  Spec => [](IInv /\ PursuitInv)
<1> DEFINE Inv == IInv /\ OwnerInv /\ PursuitInv
<1>1. Init => Inv
  BY InitInv, OwnerInit, PursuitInit
<1>2. Inv /\ [Next]_vars => Inv'
  <2> SUFFICES ASSUME Inv, [Next]_vars PROVE Inv'
    OBVIOUS
  <2>1. IInv /\ OwnerInv /\ TimeInv /\ VisitInv /\ FlagInv /\ CallerInv /\ TypeOK
    BY DEF PursuitInv, IInv
  <2>2. IInv'
    BY <2>1, TypeStep, CallStep, MapStep, LoopStep DEF IInv
  <2>3. OwnerInv'
    BY <2>1, OwnerStep
  <2>4. TimeInv' /\ VisitInv' /\ FlagInv'
    BY <2>1, TimeStep, VisitStep, FlagStep
  <2>5. CallerInv'
    <3> SUFFICES ASSUME NEW s \in Span PROVE CallerOk(s)'
      BY DEF CallerInv
    <3>1. s \in TopSpan /\ pc'[s] = "done" => OnItsWay(TraceOf[s], at[s])'
      BY <2>1, TopCallerStep
    <3>2. pc'[s] = "done" /\ NoTop(TraceOf[s])' => flag'[TraceOf[s]] \in Span
      BY <2>1, <2>4, ReturnedCallerStep
    <3>3. pc'[s] \in {"read", "race"} /\ ~Crowded(TraceOf[s])' => Kept(s)'
      BY <2>1, EnteredCallerStep
    <3>4. NoTop(TraceOf[s])' /\ ~Crowded(TraceOf[s])' /\ flag'[TraceOf[s]] = s =>
            OnItsWay(TraceOf[s], at[s])' \/ Kept(s)'
      BY <2>1, WinnerCallerStep
    <3> QED
      BY <3>1, <3>2, <3>3, <3>4 DEF CallerOk
  <2> QED
    BY <2>2, <2>3, <2>4, <2>5 DEF PursuitInv
<1>3. Inv => IInv /\ PursuitInv
  OBVIOUS
<1> HIDE DEF Inv
<1> QED
  BY <1>1, <1>2, <1>3, PTL DEF Spec

\* However calls, ticks and loops of any number of receivers interleave, with Redis or
\* a local cache: when nothing is left to do for a collected trace, it was notified,
\* unless it is crowded.  The time to miss a top span is configured, and longer than
\* any call takes.
THEOREM NothingForgottenUncrowded ==
    ASSUME MissTopTime > 0, CallTime <= MissTopTime
    PROVE  Spec => []ForgottenOnlyIfCrowded
<1>1. ASSUME IInv, PursuitInv PROVE ForgottenOnlyIfCrowded
  <2> SUFFICES ASSUME NEW t \in Trace, Collected(t) /= {}, Settled(t), ~Crowded(t)
               PROVE  notified[t] > 0
    BY DEF ForgottenOnlyIfCrowded
  <2>a. TypeOK /\ CallInv /\ FlagInv /\ CallerInv
    BY <1>1 DEF IInv, PursuitInv
  <2>1. \A s \in Collected(t) : s \in Span /\ TraceOf[s] = t /\ pc[s] = "done" /\ at[s] \in Receiver
    BY <2>a DEF Settled, InCall, Collected, CallInv
  <2>2. \A r \in Receiver : OnItsWay(t, r) => notified[t] > 0
    BY DEF Settled, OnItsWay
  <2>3. CASE ~NoTop(t)
    <3>1. PICK s \in Collected(t) : s \in TopSpan
      BY <2>3 DEF NoTop
    <3>2. OnItsWay(t, at[s])
      BY <2>a, <2>1, <3>1 DEF CallerInv, CallerOk
    <3> QED
      BY <2>1, <2>2, <3>2
  <2>4. CASE NoTop(t)
    <3>1. PICK s \in Collected(t) : TRUE
      OBVIOUS
    <3>2. flag[t] \in Span
      BY <2>a, <2>1, <2>4, <3>1 DEF CallerInv, CallerOk
    <3>3. PICK o \in Collected(t) : flag[t] = o
      BY <2>a, <3>2 DEF FlagInv
    <3>4. o \in Span /\ TraceOf[o] = t /\ at[o] \in Receiver
      BY <2>1
    <3>5. OnItsWay(t, at[o]) \/ Kept(o)
      BY <2>a, <2>4, <3>3, <3>4 DEF CallerInv, CallerOk
    <3>6. ~Kept(o)
      BY <3>4 DEF Kept, Settled, Keys
    <3> QED
      BY <2>2, <3>4, <3>5, <3>6
  <2> QED
    BY <2>3, <2>4
<1>2. IInv /\ PursuitInv => ForgottenOnlyIfCrowded
  BY <1>1
<1> QED
  BY <1>2, SpecPursuit, PTL
=============================================================================
