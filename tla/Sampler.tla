------------------------------ MODULE Sampler ------------------------------
(***************************************************************************)
(* The sample value of all agents: pkg/componment/trace/memory_sampler.go, *)
(* with the sample keys of pkg/componment/redis.                           *)
(*                                                                         *)
(* Every two seconds each receiver takes over the shared value or, if its  *)
(* nodes are short of memory, raises it; the first to find that the value  *)
(* has not been set for a while lowers it.  The shared value and the marks *)
(* beside it are read and written by single commands, in Redis with an     *)
(* expiry, while other receivers do the same.  A command may take any time *)
(* and may fail: the lock and the marks run out meanwhile.                 *)
(*                                                                         *)
(* The memory readings of a node are abstracted to what SetNewSampleValue  *)
(* makes of them.  Time passes in ticks of a second.                       *)
(***************************************************************************)
EXTENDS Naturals, FiniteSets

CONSTANTS
    Receiver,
    Node,          \* the nodes whose agents report memory
    HomeOf,        \* the receiver each node reports to
    MinSample, InitSample, MaxSample, ResetPeriod,  \* the sample configuration
    FastLimit,     \* fast growths that raise the value (5 in the code)
    Caches,        \* the values of global.CACHE.IsLocal() to consider
    RedisFails     \* may a Redis command fail?

ASSUME SamplerAssumption ==
    /\ IsFiniteSet(Receiver)
    /\ HomeOf \in [Node -> Receiver]
    /\ MinSample \in Nat /\ InitSample \in Nat /\ MaxSample \in Nat
    /\ MinSample <= InitSample /\ InitSample <= MaxSample
    /\ ResetPeriod \in Nat \ {0} /\ FastLimit \in Nat \ {0}
    /\ Caches \subseteq BOOLEAN /\ RedisFails \in BOOLEAN

LockPeriod == 2   \* expiry of the lock key

VARIABLES
    local,        \* global.CACHE.IsLocal(): then there is one receiver
    value,        \* the shared value; 0 if the key is missing
    valueTtl, timeTtl, lockTtl,  \* seconds until the keys expire
    SampleValue,  \* sampler.SampleValue of each receiver
    SampleCount,  \* of each node's memories
    pc, sampleValue, sampleChanged,  \* a receiver's CheckSampleValue
    calm,         \* from now on no node is short of memory, no receiver starts or stops and
                  \* no command fails
    rest,         \* history: seconds until the value may be lowered again
    lost,         \* history: a receiver has read the value in vain, its key missing or GET failing
    torn,         \* history: since the value fell, its mark was not written, or was asked for in vain
    outlived      \* history: the lock ran out under its holder, and it or a later one is still there

sharedVars == <<value, valueTtl, timeTtl, lockTtl>>
checkVars == <<pc, sampleValue, sampleChanged>>
historyVars == <<rest, lost, torn, outlived>>
vars == <<local, sharedVars, SampleValue, SampleCount, checkVars, calm, historyVars>>

\* Seconds until a mark of ResetPeriod is over: the local cache waits until
\* the clock is beyond it.
ResetTtl == IF local THEN ResetPeriod + 1 ELSE ResetPeriod

\* Between LockAndCheckSampleTime's SETNX and the writes that the lock is for.
Locked == {"has", "lowerValue", "lowerTime"}

Checking == {"initTime", "raiseValue", "raiseTime", "lock", "has", "lowerValue", "lowerTime", "reset"}

-----------------------------------------------------------------------------
(* Small parts of the actions, each beside the slip it could contain: the  *)
(* variants named ...Slip are used by no action.                           *)

\* CheckSampleValue: may the value be raised?
MayRaiseSlip(v) == v <= MaxSample
MayRaise(v) == v < MaxSample

\* CheckSampleValue: may it be lowered?
MayLowerSlip(v) == v - 1 > MinSample
MayLower(v) == v > MinSample

\* LockAndCheckSampleTime: is the lock free?
LockFreeSlip == TRUE
LockFree == local \/ lockTtl = 0

\* SetNewSampleValue: is the growth after this many the one that counts?
IsEnough(count) == count >= FastLimit

-----------------------------------------------------------------------------
Init ==
    /\ local \in Caches
    /\ value = 0 /\ valueTtl = 0 /\ timeTtl = 0 /\ lockTtl = 0
    /\ SampleValue = [r \in Receiver |-> MinSample]
    /\ SampleCount = [n \in Node |-> 0]
    /\ pc = [r \in Receiver |-> "down"]
    /\ sampleValue = [r \in Receiver |-> 0]
    /\ sampleChanged = [r \in Receiver |-> FALSE]
    /\ calm = FALSE
    /\ rest = 0 /\ lost = FALSE /\ torn = FALSE /\ outlived = FALSE

-----------------------------------------------------------------------------
At(r, here) == pc[r] = here
Goto(r, there) == pc' = [pc EXCEPT ![r] = there]
CountsOf(r, count) ==
    SampleCount' = [n \in Node |-> IF HomeOf[n] = r THEN count ELSE SampleCount[n]]

\* A command to Redis fails; one whose answer alone is lost is like one that works,
\* except for SETNX.
Fails == RedisFails /\ ~local /\ ~calm

\* The two writes of SetSampleValue; the value outlives its mark.
WriteValue(v) == value' = v /\ valueTtl' = 2 * ResetPeriod
WriteTime == timeTtl' = ResetTtl

SetValue(v) == WriteValue(v) \/ (Fails /\ UNCHANGED <<value, valueTtl>>)
SetTime == WriteTime \/ (Fails /\ UNCHANGED timeTtl)

\* The receiver is no longer within the lock.
Leave(r) == outlived' = (outlived /\ \E s \in Receiver \ {r} : pc[s] \in Locked)

\* NewMemorySampler: InitSampleValue sets the value if there is none (a local
\* cache is new); if it is not told so, it leaves it at that.
Start(r) ==
    /\ At(r, "down") /\ ~calm
    /\ local => \A s \in Receiver : At(s, "down")
    /\ \/ (local \/ valueTtl = 0) /\ WriteValue(MinSample) /\ Goto(r, "initTime")
       \/ ~local /\ valueTtl > 0 /\ Goto(r, "idle") /\ UNCHANGED <<value, valueTtl>>
       \/ /\ Fails /\ Goto(r, "idle")
          /\ UNCHANGED <<value, valueTtl>> \/ (valueTtl = 0 /\ WriteValue(MinSample))
    /\ UNCHANGED <<local, timeTtl, lockTtl, SampleValue, SampleCount, sampleValue,
                   sampleChanged, calm, historyVars>>

\* Having set the value, it sets its mark.
InitTime(r) ==
    /\ At(r, "initTime")
    /\ SetTime /\ Goto(r, "idle")
    /\ UNCHANGED <<local, value, valueTtl, lockTtl, SampleValue, SampleCount,
                   sampleValue, sampleChanged, calm, historyVars>>

\* The process ends, wherever it is, and its memory is gone.
Stop(r) ==
    /\ ~At(r, "down") /\ ~calm
    /\ torn' = (torn \/ At(r, "lowerTime")) /\ Leave(r)
    /\ Goto(r, "down") /\ CountsOf(r, 0)
    /\ SampleValue' = [SampleValue EXCEPT ![r] = MinSample]
    /\ sampleValue' = [sampleValue EXCEPT ![r] = 0]
    /\ sampleChanged' = [sampleChanged EXCEPT ![r] = FALSE]
    /\ UNCHANGED <<local, sharedVars, calm, rest, lost>>

-----------------------------------------------------------------------------
(* CheckSampleValue.                                                       *)

\* Of the nodes that count a fast growth, those that reach the limit with it.
Reaching(fast) == {n \in fast : IsEnough(SampleCount[n] + 1)}

\* The value v is read.  One that differs is taken over; ...
TakeOver(r, v) ==
    /\ v /= SampleValue[r]
    /\ SampleValue' = [SampleValue EXCEPT ![r] = v]
    /\ sampleValue' = [sampleValue EXCEPT ![r] = v]
    /\ sampleChanged' = [sampleChanged EXCEPT ![r] = TRUE]
    /\ Goto(r, "lock")
    /\ UNCHANGED SampleCount

\* ... one that is the maximum is left alone; ...
KeepMax(r, v) ==
    /\ v = SampleValue[r] /\ ~MayRaise(v)
    /\ sampleValue' = [sampleValue EXCEPT ![r] = v]
    /\ sampleChanged' = [sampleChanged EXCEPT ![r] = FALSE]
    /\ Goto(r, "lock")
    /\ UNCHANGED <<SampleValue, SampleCount>>

\* ... and otherwise the nodes that exceed 80% of their memory limit decide: some
\* of them grow fast as well.
Decide(r, v, exceeding, fast) ==
    LET sampled == Reaching(fast) /= {}
        start == exceeding /= {} /\ ~sampled /\ v < InitSample
        new == IF start THEN InitSample ELSE IF sampled THEN v + 1 ELSE v IN
    /\ SampleCount' = [n \in Node |->
          IF n \in Reaching(fast) THEN 0
          ELSE SampleCount[n] + (IF n \in fast THEN 1 ELSE 0)]
    /\ SampleValue' = [SampleValue EXCEPT ![r] = new]
    /\ sampleValue' = [sampleValue EXCEPT ![r] = new]
    /\ sampleChanged' = [sampleChanged EXCEPT ![r] = start \/ sampled]
    /\ Goto(r, IF start \/ sampled THEN "raiseValue" ELSE "lock")

CheckNodes(r, v) ==
    /\ v = SampleValue[r] /\ MayRaise(v)
    /\ \E exceeding \in SUBSET {n \in Node : HomeOf[n] = r} :
          /\ calm => exceeding = {}
          /\ \E fast \in SUBSET exceeding : Decide(r, v, exceeding, fast)

\* The ticker fires: two seconds after the last time, but at once after a check that took
\* longer, so the time between two checks is left open.  A GET that fails reads 0, like a
\* missing key.
CheckSampleValue(r) ==
    /\ At(r, "idle")
    /\ \E v \in {value} \cup (IF Fails THEN {0} ELSE {}) :
          /\ TakeOver(r, v) \/ KeepMax(r, v) \/ CheckNodes(r, v)
          /\ lost' = (lost \/ valueTtl = 0 \/ v /= value)
    /\ UNCHANGED <<local, sharedVars, calm, rest, torn, outlived>>

\* SetSampleValue of a raised value.
RaiseValue(r) ==
    /\ At(r, "raiseValue")
    /\ SetValue(sampleValue[r]) /\ Goto(r, "raiseTime")
    /\ UNCHANGED <<local, timeTtl, lockTtl, SampleValue, SampleCount, sampleValue,
                   sampleChanged, calm, historyVars>>

RaiseTime(r) ==
    /\ At(r, "raiseTime")
    /\ SetTime /\ Goto(r, "lock")
    /\ UNCHANGED <<local, value, valueTtl, lockTtl, SampleValue, SampleCount,
                   sampleValue, sampleChanged, calm, historyVars>>

\* LockAndCheckSampleTime: take the lock (there is none in a local cache), unless
\* another has it or the answer is lost, ...
Lock(r) ==
    /\ At(r, "lock")
    /\ \/ LockFree /\ Goto(r, "has") /\ lockTtl' = IF local THEN 0 ELSE LockPeriod
       \/ ~LockFree /\ Goto(r, "reset") /\ UNCHANGED lockTtl
       \/ Fails /\ LockFree /\ Goto(r, "reset") /\ lockTtl' \in {lockTtl, LockPeriod}
    /\ UNCHANGED <<local, value, valueTtl, timeTtl, SampleValue, SampleCount,
                   sampleValue, sampleChanged, calm, historyVars>>

\* ... and see whether the mark is over, as it seems when EXISTS fails: then the value is
\* lowered, or only set again.
Has(r) ==
    LET lower == MayLower(sampleValue[r])
        new == IF lower THEN sampleValue[r] - 1 ELSE sampleValue[r] IN
    /\ At(r, "has")
    /\ \/ /\ (timeTtl = 0 /\ UNCHANGED torn) \/ (Fails /\ torn' = TRUE)
          /\ SampleValue' = [SampleValue EXCEPT ![r] = new]
          /\ sampleValue' = [sampleValue EXCEPT ![r] = new]
          /\ sampleChanged' = [sampleChanged EXCEPT ![r] = @ \/ lower]
          /\ Goto(r, "lowerValue") /\ UNCHANGED outlived
       \/ /\ timeTtl > 0
          /\ Goto(r, "reset") /\ Leave(r)
          /\ UNCHANGED <<SampleValue, sampleValue, sampleChanged, torn>>
    /\ UNCHANGED <<local, sharedVars, SampleCount, calm, rest, lost>>

LowerValue(r) ==
    /\ At(r, "lowerValue")
    /\ SetValue(sampleValue[r]) /\ Goto(r, "lowerTime")
    /\ IF value' < value THEN rest' = ResetPeriod /\ torn' = FALSE
                         ELSE UNCHANGED <<rest, torn>>
    /\ UNCHANGED <<local, timeTtl, lockTtl, SampleValue, SampleCount, sampleValue,
                   sampleChanged, calm, lost, outlived>>

LowerTime(r) ==
    /\ At(r, "lowerTime")
    /\ \/ WriteTime /\ UNCHANGED torn
       \/ Fails /\ UNCHANGED timeTtl /\ torn' = TRUE
    /\ Goto(r, "reset") /\ Leave(r)
    /\ UNCHANGED <<local, value, valueTtl, lockTtl, SampleValue, SampleCount,
                   sampleValue, sampleChanged, calm, rest, lost>>

\* ResetCheckCount of the nodes, if the value changed.
Reset(r) ==
    /\ At(r, "reset")
    /\ IF sampleChanged[r] THEN CountsOf(r, 0) ELSE UNCHANGED SampleCount
    /\ sampleValue' = [sampleValue EXCEPT ![r] = 0]
    /\ sampleChanged' = [sampleChanged EXCEPT ![r] = FALSE]
    /\ Goto(r, "idle")
    /\ UNCHANGED <<local, sharedVars, SampleValue, calm, historyVars>>

-----------------------------------------------------------------------------
(* The surroundings.                                                       *)

\* Peace: some receivers run, the nodes have enough memory and Redis answers.
BecomeCalm ==
    /\ ~calm /\ \E r \in Receiver : ~At(r, "down")
    /\ calm' = TRUE
    /\ UNCHANGED <<local, sharedVars, SampleValue, SampleCount, checkVars, historyVars>>

Sooner(s) == IF s = 0 THEN 0 ELSE s - 1

\* A second passes, wherever the receivers are.
Tick ==
    /\ valueTtl' = IF local THEN valueTtl ELSE Sooner(valueTtl)
    /\ value' = IF valueTtl = 1 /\ ~local THEN 0 ELSE value
    /\ timeTtl' = Sooner(timeTtl) /\ lockTtl' = Sooner(lockTtl)
    /\ rest' = Sooner(rest)
    /\ outlived' = (outlived \/ (lockTtl = 1 /\ \E r \in Receiver : pc[r] \in Locked))
    /\ UNCHANGED <<local, SampleValue, SampleCount, checkVars, calm, lost, torn>>

Check(r) ==
    \/ InitTime(r) \/ CheckSampleValue(r)
    \/ RaiseValue(r) \/ RaiseTime(r) \/ Lock(r) \/ Has(r)
    \/ LowerValue(r) \/ LowerTime(r) \/ Reset(r)

Next ==
    \/ \E r \in Receiver : Start(r) \/ Stop(r) \/ Check(r)
    \/ BecomeCalm \/ Tick

Spec == Init /\ [][Next]_vars

\* A ticker's firing is taken up, a Redis command returns sometime (it has a timeout), and
\* time passes.
Fairness == WF_vars(Tick) /\ \A r \in Receiver : WF_vars(Check(r))
FairSpec == Spec /\ Fairness

-----------------------------------------------------------------------------
(* Properties *)

\* Every variable has its type; a node's count stays below the limit.
TypeOK ==
    /\ local \in BOOLEAN
    /\ value \in Nat /\ valueTtl \in Nat /\ timeTtl \in Nat /\ lockTtl \in 0..LockPeriod
    /\ SampleValue \in [Receiver -> Nat]
    /\ SampleCount \in [Node -> 0..(FastLimit - 1)]
    /\ pc \in [Receiver -> Checking \cup {"down", "idle"}]
    /\ sampleValue \in [Receiver -> Nat] /\ sampleChanged \in [Receiver -> BOOLEAN]
    /\ calm \in BOOLEAN /\ rest \in Nat
    /\ lost \in BOOLEAN /\ torn \in BOOLEAN /\ outlived \in BOOLEAN

\* The value that agents are given never exceeds MaxSample, and is below MinSample
\* only if the shared value was once read in vain, its key missing or the GET failing,
\* however the reads, computations and writes of the receivers interleave and fail
\* (memory_sampler.go:61-108).
InBounds ==
    \A v \in {SampleValue[r] : r \in Receiver} \cup (IF valueTtl > 0 THEN {value} ELSE {}) :
        v <= MaxSample /\ (v >= MinSample \/ lost)

\* The shared value falls, by recovery, at most once in ResetPeriod, whoever notices
\* that its mark is over (memory_sampler.go:99-108), with three exceptions only: the mark
\* of the last fall was not written, the receiver having stopped or the SET failed; it was
\* asked for in vain; or a receiver is at it whose lock ran out, or that came in then.
LoweredOncePerPeriod ==
    [][\A r \in Receiver :
          LowerValue(r) /\ value' < value => rest = 0 \/ torn \/ outlived]_vars

\* When no node is short of memory, the value returns to its minimum.
Recovers ==
    <>calm => <>[](value <= MinSample
                   /\ \A r \in Receiver : At(r, "idle") => SampleValue[r] <= MinSample)

\* "Set Min SampleRate - 1 / (2^N)" (receiver-config.yml:83): agents are never given a
\* value below the configured minimum.
MinRespected == \A r \in Receiver : SampleValue[r] >= MinSample
=============================================================================
