---------------------------- MODULE TraceTrigger ----------------------------
(***************************************************************************)
(* When a trace is notified for analysis (pkg/analyzer/analyzer.go).       *)
(*                                                                         *)
(* Every receiver runs one CacheTrace call per collected span, many at a   *)
(* time, and one checkTask goroutine.  A top (entry) span makes its        *)
(* receiver wait for the rest of the trace and then notify it.  For a      *)
(* trace whose top span never arrives, the receivers that hold its other   *)
(* spans race: through a flag in the cache one of them is to notify it,    *)
(* MissTopTime seconds later.  The flag is shared (Redis) or in the memory *)
(* of the only receiver (local).                                           *)
(*                                                                         *)
(* A span stands for the time stamp (UnixNano) its CacheTrace call takes:  *)
(* stamps are compared for equality only and are taken to be distinct.     *)
(***************************************************************************)
EXTENDS Naturals, FiniteSets

CONSTANTS
    Receiver,     \* the apo-receiver instances
    Trace,        \* trace ids
    Span,         \* the collected spans, each handled by one CacheTrace call
    TopSpan,      \* those with TopSpan set
    SlowSpan,     \* those of an apmType that is sent once a minute (nbs3, cw)
    TraceOf,      \* the trace id of each span
    Modes,        \* the values of global.CACHE.IsLocal() to consider
    DelayPeriod,  \* cfg.DelayDuration, in seconds
    MinuteDelay,  \* the 60 seconds of getWaitTime
    MissTopTime,  \* cfg.MissTopTime, in seconds
    CallTime,     \* bound: no CacheTrace call takes longer, in seconds
    ArriveUntil,  \* bound: no span is collected later
    MaxTime,      \* bound: the clock stops here
    Unset,        \* no value: of the flag, of a map entry
    Top           \* the flag -1

ASSUME TraceTriggerAssumption ==
    /\ Receiver /= {} /\ IsFiniteSet(Receiver) /\ IsFiniteSet(Span)
    /\ TopSpan \subseteq Span /\ SlowSpan \subseteq Span
    /\ TraceOf \in [Span -> Trace]
    /\ Modes \subseteq BOOLEAN
    /\ DelayPeriod \in Nat /\ MinuteDelay \in Nat /\ MissTopTime \in Nat
    /\ CallTime \in Nat /\ ArriveUntil \in Nat /\ MaxTime \in Nat
    /\ Unset \notin Nat \cup Span \cup [stamp : Span, expireTime : Nat]
    /\ Top \notin Span /\ Top /= Unset

VARIABLES
    local,         \* global.CACHE.IsLocal()
    now,           \* time.Now().Unix()
    pc,            \* how far the CacheTrace call of each span has come
    at,            \* the receiver that collected each span
    collectedAt,   \* when
    flag,          \* the cache: GetTraceTime of each trace
    waitMap,       \* waitMap of each receiver: expire times
    checkMissMap,  \* checkMissMap of each receiver: spans and expire times
    phase,         \* how far checkTask of each receiver has come
    checkTime,     \* checkTask's local checkTime
    unvisited,     \* the keys its Range has yet to visit
    visiting,      \* the entry its Range is visiting
    notified       \* how often each trace was notified

callVars == <<local, at, collectedAt>>
rangeVars == <<phase, checkTime, unvisited, visiting>>
vars == <<callVars, now, pc, flag, waitMap, checkMissMap, rangeVars, notified>>

\* The receivers to follow: with a local cache each is on its own, so only the one
\* that has collected the first span (any, until then).
Running == IF local THEN {r \in Receiver : \A s \in Span : at[s] \in {r, Unset}} ELSE Receiver

WaitTime(s) == IF s \in SlowSpan THEN MinuteDelay ELSE DelayPeriod

Keys(map) == {t \in Trace : map[t] /= Unset}

-----------------------------------------------------------------------------
(* Small parts of the actions, each beside the slip it could contain: the  *)
(* variants named ...Slip are used by no action.                           *)

\* RecordTraceTime: Redis keeps the first value (SETNX), a local cache the last.
RecordedSlip(old, new) == new
Recorded(old, new) == IF local \/ old = Unset THEN new ELSE old

\* May a CacheTrace call that has read flag f join the race?
MayRaceSlip(f) == f \notin {Unset, Top}
MayRace(f) == f /= Top

\* checkTask: is an entry of one of the two maps due?
ExpiredSlip(expire, time) == expire <= time
Expired(expire, time) == expire < time

\* The CacheTrace step that follows StoreTrace.  (The slip: the early return of
\* a span without top comes too soon.)
AfterStoreSlip(s) == IF s \in TopSpan THEN "mark" ELSE "done"
AfterStore(s) ==
    IF s \in TopSpan THEN (IF MissTopTime > 0 THEN "mark" ELSE "wait")
                     ELSE (IF MissTopTime > 0 THEN "stamp" ELSE "done")

\* sync.Map.Delete.  (The slip: the entry is marked instead.)
WithoutSlip(map, t) == [map EXCEPT ![t] = Top]
Without(map, t) == [map EXCEPT ![t] = Unset]

-----------------------------------------------------------------------------
Init ==
    /\ local \in Modes
    /\ now = 0
    /\ pc = [s \in Span |-> "new"]
    /\ at = [s \in Span |-> Unset]
    /\ collectedAt = [s \in Span |-> 0]
    /\ flag = [t \in Trace |-> Unset]
    /\ waitMap = [r \in Receiver |-> [t \in Trace |-> Unset]]
    /\ checkMissMap = [r \in Receiver |-> [t \in Trace |-> Unset]]
    /\ phase = [r \in Receiver |-> "ticker"]
    /\ checkTime = [r \in Receiver |-> 0]
    /\ unvisited = [r \in Receiver |-> {}]
    /\ visiting = [r \in Receiver |-> Unset]
    /\ notified = [t \in Trace |-> 0]

InCall(s) == pc[s] \notin {"new", "done"}

\* Time passes. (Bounds: not beyond MaxTime, and no CacheTrace call stalls for
\* more than CallTime.)
Clock ==
    /\ now < MaxTime
    /\ \A s \in Span : InCall(s) => now < collectedAt[s] + CallTime
    /\ now' = now + 1
    /\ UNCHANGED <<callVars, pc, flag, waitMap, checkMissMap, rangeVars, notified>>

-----------------------------------------------------------------------------
(* CacheTrace of span s, one action per access to shared state.            *)

Step(s, from, to) == pc[s] = from /\ pc' = [pc EXCEPT ![s] = to]

\* The span reaches receiver r, which stores it in the cache (StoreTrace).
Collect(s, r) ==
    /\ now <= ArriveUntil
    /\ Step(s, "new", AfterStore(s))
    /\ at' = [at EXCEPT ![s] = r]
    /\ collectedAt' = [collectedAt EXCEPT ![s] = now]
    /\ UNCHANGED <<local, now, flag, waitMap, checkMissMap, rangeVars, notified>>

RecordTraceTime(s, value) ==
    flag' = [flag EXCEPT ![TraceOf[s]] = Recorded(@, value)]

MarkTop(s) ==
    /\ Step(s, "mark", "wait")
    /\ RecordTraceTime(s, Top)
    /\ UNCHANGED <<callVars, now, waitMap, checkMissMap, rangeVars, notified>>

StoreWait(s) ==
    /\ Step(s, "wait", "done")
    /\ waitMap' = [waitMap EXCEPT ![at[s]][TraceOf[s]] = now + WaitTime(s)]
    /\ UNCHANGED <<callVars, now, flag, checkMissMap, rangeVars, notified>>

StoreMiss(s) ==
    /\ Step(s, "stamp", "read")
    /\ checkMissMap' = [checkMissMap EXCEPT ![at[s]][TraceOf[s]] =
                           [stamp |-> s, expireTime |-> now + MissTopTime]]
    /\ UNCHANGED <<callVars, now, flag, waitMap, rangeVars, notified>>

ReadFlag(s) ==
    /\ Step(s, "read", IF MayRace(flag[TraceOf[s]]) THEN "race" ELSE "done")
    /\ UNCHANGED <<callVars, now, flag, waitMap, checkMissMap, rangeVars, notified>>

Race(s) ==
    /\ Step(s, "race", "done")
    /\ RecordTraceTime(s, s)
    /\ UNCHANGED <<callVars, now, waitMap, checkMissMap, rangeVars, notified>>

CacheTrace(s) == MarkTop(s) \/ StoreWait(s) \/ StoreMiss(s) \/ ReadFlag(s) \/ Race(s)

-----------------------------------------------------------------------------
(* checkTask of receiver r.  Between the tick and the two Ranges it sends  *)
(* the tasks (module TaskPool), which may take any time.  A Range visits   *)
(* the keys present when it starts; whether it also visits keys stored     *)
(* meanwhile makes no difference, as those are not yet due.                *)

Goto(r, from, to) == phase[r] = from /\ phase' = [phase EXCEPT ![r] = to]

Tick(r) ==
    /\ Goto(r, "ticker", "send")
    /\ checkTime' = [checkTime EXCEPT ![r] = now]
    /\ UNCHANGED <<callVars, now, pc, flag, waitMap, checkMissMap, unvisited, visiting,
                   notified>>

RangeWaitMap(r) ==
    /\ Goto(r, "send", "wait")
    /\ unvisited' = [unvisited EXCEPT ![r] = Keys(waitMap[r])]
    /\ UNCHANGED <<callVars, now, pc, flag, waitMap, checkMissMap, checkTime, visiting,
                   notified>>

RangeCheckMissMap(r) ==
    /\ unvisited[r] = {}
    /\ Goto(r, "wait", "miss")
    /\ unvisited' = [unvisited EXCEPT ![r] = Keys(checkMissMap[r])]
    /\ UNCHANGED <<callVars, now, pc, flag, waitMap, checkMissMap, checkTime, visiting,
                   notified>>

EndRange(r) ==
    /\ unvisited[r] = {}
    /\ Goto(r, "miss", "ticker")
    /\ checkTime' = [checkTime EXCEPT ![r] = 0]  \* out of scope
    /\ UNCHANGED <<callVars, now, pc, flag, waitMap, checkMissMap, unvisited, visiting,
                   notified>>

\* The callback loads the entry of trace t: go on with it if it is due.
Visit(r, t, expire, stamp, from, to) ==
    /\ unvisited' = [unvisited EXCEPT ![r] = @ \ {t}]
    /\ IF Expired(expire, checkTime[r])
          THEN /\ Goto(r, from, to)
               /\ visiting' = [visiting EXCEPT ![r] = [trace |-> t, stamp |-> stamp]]
          ELSE UNCHANGED <<phase, visiting>>
    /\ UNCHANGED <<callVars, now, pc, flag, waitMap, checkMissMap, checkTime, notified>>

VisitWait(r, t) ==
    /\ phase[r] = "wait" /\ t \in unvisited[r]
    /\ Visit(r, t, waitMap[r][t], Unset, "wait", "notify")

NotifyReportTraceId(r) ==
    /\ Goto(r, "notify", "deleteWait")
    /\ notified' = [notified EXCEPT ![visiting[r].trace] = @ + 1]
    /\ UNCHANGED <<callVars, now, pc, flag, waitMap, checkMissMap, checkTime, unvisited,
                   visiting>>

DeleteWait(r) ==
    /\ Goto(r, "deleteWait", "wait")
    /\ waitMap' = [waitMap EXCEPT ![r] = Without(@, visiting[r].trace)]
    /\ visiting' = [visiting EXCEPT ![r] = Unset]
    /\ UNCHANGED <<callVars, now, pc, flag, checkMissMap, checkTime, unvisited, notified>>

VisitMiss(r, t) ==
    LET entry == checkMissMap[r][t] IN
    /\ phase[r] = "miss" /\ t \in unvisited[r]
    /\ Visit(r, t, entry.expireTime, entry.stamp, "miss", "compare")

\* Has this receiver won the race for the trace?
Compare(r) ==
    /\ Goto(r, "compare",
            IF flag[visiting[r].trace] = visiting[r].stamp THEN "promote" ELSE "deleteMiss")
    /\ UNCHANGED <<callVars, now, pc, flag, waitMap, checkMissMap, checkTime, unvisited,
                   visiting, notified>>

Promote(r) ==
    /\ Goto(r, "promote", "deleteMiss")
    /\ waitMap' = [waitMap EXCEPT ![r][visiting[r].trace] =
                      checkTime[r] + WaitTime(visiting[r].stamp)]
    /\ UNCHANGED <<callVars, now, pc, flag, checkMissMap, checkTime, unvisited, visiting,
                   notified>>

DeleteMiss(r) ==
    /\ Goto(r, "deleteMiss", "miss")
    /\ checkMissMap' = [checkMissMap EXCEPT ![r] = Without(@, visiting[r].trace)]
    /\ visiting' = [visiting EXCEPT ![r] = Unset]
    /\ UNCHANGED <<callVars, now, pc, flag, waitMap, checkTime, unvisited, notified>>

CheckTask(r) ==
    \/ Tick(r) \/ RangeWaitMap(r) \/ RangeCheckMissMap(r) \/ EndRange(r)
    \/ NotifyReportTraceId(r) \/ DeleteWait(r)
    \/ Compare(r) \/ Promote(r) \/ DeleteMiss(r)
    \/ \E t \in Trace : VisitWait(r, t) \/ VisitMiss(r, t)

-----------------------------------------------------------------------------
Next ==
    \/ Clock
    \/ \E s \in Span, r \in Running : Collect(s, r)
    \/ \E s \in Span : CacheTrace(s)
    \/ \E r \in Running : CheckTask(r)

Spec == Init /\ [][Next]_vars

\* Every started call returns and every checkTask goroutine keeps running;
\* nothing makes a span arrive.
Fairness ==
    /\ WF_vars(Clock)
    /\ \A s \in Span : WF_vars(CacheTrace(s))
    /\ \A r \in Receiver : WF_vars(r \in Running /\ CheckTask(r))

FairSpec == Spec /\ Fairness

-----------------------------------------------------------------------------
(* Properties *)

Visited == [trace : Trace, stamp : Span \cup {Unset}]

\* Every variable of the calls, the cache and the goroutines has its type.
TypeOK ==
    /\ local \in BOOLEAN
    /\ now \in Nat
    /\ pc \in [Span -> {"new", "mark", "wait", "stamp", "read", "race", "done"}]
    /\ at \in [Span -> Receiver \cup {Unset}]
    /\ collectedAt \in [Span -> Nat]
    /\ flag \in [Trace -> Span \cup {Unset, Top}]
    /\ waitMap \in [Receiver -> [Trace -> Nat \cup {Unset}]]
    /\ checkMissMap \in
          [Receiver -> [Trace -> [stamp : Span, expireTime : Nat] \cup {Unset}]]
    /\ phase \in [Receiver -> {"ticker", "send", "wait", "notify", "deleteWait",
                                "miss", "compare", "promote", "deleteMiss"}]
    /\ checkTime \in [Receiver -> Nat]
    /\ unvisited \in [Receiver -> SUBSET Trace]
    /\ visiting \in [Receiver -> Visited \cup {Unset}]
    /\ notified \in [Trace -> Nat]

Collected(t) == {s \in Span : TraceOf[s] = t /\ pc[s] /= "new"}

\* With Redis, all the receivers that hold a trace notify it at most once for
\* each top span and once more if a span without top won the race; not at all
\* for the latter if the top span's -1 came first.  (A local cache gives no
\* such bound: Race overwrites the -1 set since ReadFlag.)
NotifyBound ==
    \A t \in Trace :
        ~local => notified[t] <= Cardinality(Collected(t) \cap TopSpan)
                                 + (IF flag[t] \in Span THEN 1 ELSE 0)

\* A trace is notified only when a top span of it has waited its delay, or
\* another span MissTopTime and then its delay: neither the overwriting of
\* map entries nor a stale checkTime shortens the wait (analyzer.go:171, 693-707).
WaitRespected ==
    [][\A t \in Trace : notified'[t] /= notified[t] =>
          \E s \in Collected(t) :
              now > collectedAt[s] + WaitTime(s) + (IF s \in TopSpan THEN 0 ELSE MissTopTime)]_vars

\* Two spans without top of one trace at one receiver.
Crowded(t) ==
    \E s, o \in Collected(t) \ TopSpan : s /= o /\ at[s] = at[o]

\* Notified, or due to be after the clock's bound.
Handled(t) ==
    \/ notified[t] > 0
    \/ \E r \in Receiver : t \in Keys(waitMap[r]) /\ waitMap[r][t] >= MaxTime

\* No call, no entry of a map and no loop has anything left to do for t.
Settled(t) ==
    /\ \A s \in Span : TraceOf[s] = t => ~InCall(s)
    /\ \A r \in Receiver : phase[r] = "ticker"
    /\ \A r \in Receiver : t \notin Keys(waitMap[r]) \cup Keys(checkMissMap[r])

\* When nothing is left to do for a collected trace, it was notified, by the
\* race if its top span never came; unless some receiver got two of its spans
\* without top (NothingForgotten shows what happens then).  This needs
\* MissTopTime > 0, and MissTopTime >= CallTime.
ForgottenOnlyIfCrowded ==
    \A t \in Trace : Collected(t) /= {} /\ Settled(t) => notified[t] > 0 \/ Crowded(t)

\* ... and every collected trace is in the end notified.
EveryTraceNotified ==
    \A t \in Trace : Collected(t) /= {} ~> Handled(t) \/ Crowded(t)

-----------------------------------------------------------------------------
(* What the comments of CacheTrace say, and the code does not do.          *)

\* "When top is collected by one collector, mark the flag to -1."
\* (analyzer.go:149): after the call for a top span has returned, the trace's
\* flag is -1.
TopMarked ==
    \A s \in TopSpan : pc[s] = "done" => flag[TraceOf[s]] = Top

\* "If the top is not collected, all collectors will raced for the trace."
\* (analyzer.go:160): one of them wins, so a collected trace is notified
\* before everything is settled.
NothingForgotten ==
    \A t \in Trace : Collected(t) /= {} /\ Settled(t) => notified[t] > 0
=============================================================================
