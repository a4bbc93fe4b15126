--------------------------- MODULE SamplerProofs ---------------------------
(***************************************************************************)
(* Sampler keeps its types and its bounds, for any number of receivers and *)
(* nodes and any configuration of the sample values.                       *)
(***************************************************************************)
EXTENDS Sampler, TLAPS

\* The types of the variables that the actions of a check change.
Types ==
    /\ pc \in [Receiver -> Checking \cup {"down", "idle"}]
    /\ sampleValue \in [Receiver -> Nat]
    /\ sampleChanged \in [Receiver -> BOOLEAN]
    /\ SampleValue \in [Receiver -> Nat]
    /\ SampleCount \in [Node -> 0..(FastLimit - 1)]

-----------------------------------------------------------------------------
(* Type correctness.                                                       *)

\* A count that does not reach the limit stays below it, one that does is reset.
LEMMA CountsStay ==
    ASSUME TypeOK, NEW fast \in SUBSET Node
    PROVE  [n \in Node |-> IF n \in Reaching(fast) THEN 0
                           ELSE SampleCount[n] + (IF n \in fast THEN 1 ELSE 0)]
           \in [Node -> 0..(FastLimit - 1)]
<1> SUFFICES ASSUME NEW n \in Node
             PROVE  (IF n \in Reaching(fast) THEN 0
                     ELSE SampleCount[n] + (IF n \in fast THEN 1 ELSE 0))
                    \in 0..(FastLimit - 1)
    OBVIOUS
<1>1. FastLimit \in Nat \ {0} BY SamplerAssumption
<1>2. SampleCount[n] \in 0..(FastLimit - 1) BY DEF TypeOK
<1>3. CASE n \in Reaching(fast) BY <1>1, <1>3
<1>4. CASE n \notin Reaching(fast) /\ n \in fast
  <2>1. ~(SampleCount[n] + 1 >= FastLimit) BY <1>4 DEF Reaching, IsEnough
  <2> QED BY <2>1, <1>1, <1>2, <1>4
<1>5. CASE n \notin fast BY <1>1, <1>2, <1>5 DEF Reaching
<1> QED BY <1>3, <1>4, <1>5

\* CheckNodes keeps the value or raises it to one within the configured bounds.
LEMMA NodesChecked ==
    ASSUME TypeOK, NEW r \in Receiver, NEW v \in Nat, CheckNodes(r, v)
    PROVE  /\ SampleCount' \in [Node -> 0..(FastLimit - 1)]
           /\ \E new \in Nat, changed \in BOOLEAN, there \in {"raiseValue", "lock"} :
                 /\ new <= MaxSample /\ (new >= v \/ new >= MinSample)
                 /\ SampleValue' = [SampleValue EXCEPT ![r] = new]
                 /\ sampleValue' = [sampleValue EXCEPT ![r] = new]
                 /\ sampleChanged' = [sampleChanged EXCEPT ![r] = changed]
                 /\ pc' = [pc EXCEPT ![r] = there]
<1>1. /\ MinSample \in Nat /\ InitSample \in Nat /\ MaxSample \in Nat
      /\ MinSample <= InitSample /\ InitSample <= MaxSample
    BY SamplerAssumption
<1>2. v \in Nat /\ v < MaxSample BY DEF CheckNodes, MayRaise
<1>3. PICK exceeding \in SUBSET {n \in Node : HomeOf[n] = r}, fast \in SUBSET Node :
         Decide(r, v, exceeding, fast)
    BY DEF CheckNodes
<1> DEFINE sampled == Reaching(fast) /= {}
           start == exceeding /= {} /\ ~sampled /\ v < InitSample
           new == IF start THEN InitSample ELSE IF sampled THEN v + 1 ELSE v
<1>4. new \in Nat /\ new <= MaxSample /\ (new >= v \/ new >= MinSample)
    BY <1>1, <1>2
<1>5. /\ SampleValue' = [SampleValue EXCEPT ![r] = new]
      /\ sampleValue' = [sampleValue EXCEPT ![r] = new]
      /\ sampleChanged' = [sampleChanged EXCEPT ![r] = (start \/ sampled)]
      /\ pc' = [pc EXCEPT ![r] = IF start \/ sampled THEN "raiseValue" ELSE "lock"]
    BY <1>3 DEF Decide, Goto
<1>6. SampleCount' \in [Node -> 0..(FastLimit - 1)] BY <1>3, CountsStay DEF Decide
<1> HIDE DEF new, start, sampled
<1> DEFINE changed == start \/ sampled
           there == IF changed THEN "raiseValue" ELSE "lock"
<1>7. changed \in BOOLEAN /\ there \in {"raiseValue", "lock"} OBVIOUS
<1> QED BY <1>4, <1>5, <1>6, <1>7

LEMMA InitType == Init => TypeOK
<1> SUFFICES ASSUME Init PROVE TypeOK OBVIOUS
<1>1. /\ MinSample \in Nat /\ FastLimit \in Nat \ {0} /\ Caches \subseteq BOOLEAN
    BY SamplerAssumption
<1>2. local \in BOOLEAN BY <1>1, Zenon DEF Init
<1>3. Types BY <1>1 DEF Init, Types, Checking
<1>4. /\ value \in Nat /\ valueTtl \in Nat /\ timeTtl \in Nat
      /\ lockTtl \in 0..LockPeriod /\ rest \in Nat
    BY DEF Init, LockPeriod
<1>5. calm \in BOOLEAN /\ lost \in BOOLEAN /\ torn \in BOOLEAN /\ outlived \in BOOLEAN
    BY DEF Init
<1> QED BY <1>2, <1>3, <1>4, <1>5 DEF TypeOK, Types

LEMMA CheckType ==
    ASSUME TypeOK, NEW r \in Receiver, CheckSampleValue(r)
    PROVE  TypeOK'
<1>1. PICK v \in Nat : /\ TakeOver(r, v) \/ KeepMax(r, v) \/ CheckNodes(r, v)
                       /\ lost' = (lost \/ valueTtl = 0 \/ v /= value)
    BY DEF CheckSampleValue, TypeOK
<1>2. Types'
  <2>1. CASE TakeOver(r, v) BY <2>1 DEF TakeOver, Goto, TypeOK, Types, Checking
  <2>2. CASE KeepMax(r, v) BY <2>2 DEF KeepMax, Goto, TypeOK, Types, Checking
  <2>3. CASE CheckNodes(r, v) BY <2>3, NodesChecked DEF TypeOK, Types, Checking
  <2> QED BY <1>1, <2>1, <2>2, <2>3
<1>3. lost' \in BOOLEAN BY <1>1
<1> QED BY <1>2, <1>3 DEF CheckSampleValue, TypeOK, Types, sharedVars

LEMMA StepType == TypeOK /\ [Next]_vars => TypeOK'
<1> SUFFICES ASSUME TypeOK, [Next]_vars PROVE TypeOK' OBVIOUS
<1>0. MinSample \in Nat /\ ResetPeriod \in Nat /\ FastLimit \in Nat \ {0}
    BY SamplerAssumption
<1> USE DEF TypeOK, Checking, Goto, sharedVars, checkVars, historyVars
<1>1. ASSUME NEW r \in Receiver, Start(r) PROVE TypeOK'
    BY <1>0, <1>1 DEF Start, WriteValue
<1>2. ASSUME NEW r \in Receiver, Stop(r) PROVE TypeOK'
  <2>1. SampleCount' \in [Node -> 0..(FastLimit - 1)]
      BY <1>0, <1>2 DEF Stop, CountsOf
  <2>2. torn' \in BOOLEAN /\ outlived' \in BOOLEAN BY <1>2 DEF Stop, Leave
  <2> QED BY <1>0, <1>2, <2>1, <2>2 DEF Stop
<1>3. ASSUME NEW r \in Receiver, InitTime(r) PROVE TypeOK'
    BY <1>0, <1>3 DEF InitTime, SetTime, WriteTime, ResetTtl
<1>4. ASSUME NEW r \in Receiver, CheckSampleValue(r) PROVE TypeOK'
    BY <1>4, CheckType
<1>5. ASSUME NEW r \in Receiver, RaiseValue(r) PROVE TypeOK'
    BY <1>0, <1>5 DEF RaiseValue, SetValue, WriteValue
<1>6. ASSUME NEW r \in Receiver, RaiseTime(r) PROVE TypeOK'
    BY <1>0, <1>6 DEF RaiseTime, SetTime, WriteTime, ResetTtl
<1>7. ASSUME NEW r \in Receiver, Lock(r) PROVE TypeOK'
  <2>1. lockTtl' \in 0..LockPeriod BY <1>7 DEF Lock, LockPeriod
  <2> QED BY <1>7, <2>1 DEF Lock
<1>8. ASSUME NEW r \in Receiver, Has(r) PROVE TypeOK'
  <2>1. sampleValue[r] > MinSample => sampleValue[r] - 1 \in Nat BY <1>0
  <2>2. SampleValue' \in [Receiver -> Nat] /\ sampleValue' \in [Receiver -> Nat]
      BY <1>8, <2>1 DEF Has, MayLower
  <2>3. PICK lower \in BOOLEAN :
           sampleChanged' \in {sampleChanged, [sampleChanged EXCEPT ![r] = (@ \/ lower)]}
      BY <1>8 DEF Has, MayLower
  <2>4. sampleChanged' \in [Receiver -> BOOLEAN] BY <2>3, Zenon
  <2>5. torn' \in BOOLEAN /\ outlived' \in BOOLEAN BY <1>8 DEF Has, Leave
  <2> QED BY <1>8, <2>2, <2>4, <2>5 DEF Has
<1>9. ASSUME NEW r \in Receiver, LowerValue(r) PROVE TypeOK'
  <2>1. /\ value' \in Nat /\ valueTtl' \in Nat
        /\ rest' \in Nat
      BY <1>0, <1>9 DEF LowerValue, SetValue, WriteValue
  <2>2. torn' \in BOOLEAN BY <1>9 DEF LowerValue
  <2> QED BY <1>9, <2>1, <2>2 DEF LowerValue
<1>10. ASSUME NEW r \in Receiver, LowerTime(r) PROVE TypeOK'
  <2>1. timeTtl' \in Nat BY <1>0, <1>10 DEF LowerTime, WriteTime, ResetTtl
  <2>2. torn' \in BOOLEAN /\ outlived' \in BOOLEAN BY <1>10 DEF LowerTime, Leave
  <2> QED BY <1>10, <2>1, <2>2 DEF LowerTime
<1>11. ASSUME NEW r \in Receiver, Reset(r) PROVE TypeOK'
  <2>1. SampleCount' \in [Node -> 0..(FastLimit - 1)]
      BY <1>0, <1>11 DEF Reset, CountsOf
  <2> QED BY <1>11, <2>1 DEF Reset
<1>12. ASSUME BecomeCalm PROVE TypeOK'
    BY <1>12 DEF BecomeCalm
<1>13. ASSUME Tick PROVE TypeOK'
  <2>1. /\ value' \in Nat /\ valueTtl' \in Nat /\ timeTtl' \in Nat /\ rest' \in Nat
        /\ lockTtl' \in 0..LockPeriod
      BY <1>13 DEF Tick, Sooner, LockPeriod
  <2>2. outlived' \in BOOLEAN BY <1>13 DEF Tick
  <2> QED BY <1>13, <2>1, <2>2 DEF Tick
<1>14. CASE UNCHANGED vars BY <1>14 DEF vars
<1> QED BY <1>1, <1>2, <1>3, <1>4, <1>5, <1>6, <1>7, <1>8, <1>9, <1>10, <1>11, <1>12,
           <1>13, <1>14 DEF Next, Check

\* Every variable keeps its type and no node's count of fast growths reaches the limit,
\* whichever receivers run and however their checks interleave.
THEOREM TypeCorrect == Spec => []TypeOK
BY InitType, StepType, PTL DEF Spec

-----------------------------------------------------------------------------
(* The bounds.                                                             *)

\* A value that agents may be given.
Allowed(v) == v <= MaxSample /\ (v >= MinSample \/ lost)

\* The receiver is between its read of the shared value and the end of its check.
Working(r) == pc[r] \in Checking \ {"initTime"}

\* The inductive invariant: a value is allowed wherever it is kept, and a value that a
\* receiver still has to write is as well.  The key that is missing reads as 0.
BoundsInv ==
    /\ \A r \in Receiver : Allowed(SampleValue[r])
    /\ \A r \in Receiver : Working(r) => Allowed(sampleValue[r])
    /\ valueTtl > 0 => Allowed(value)
    /\ valueTtl = 0 => value = 0

LEMMA BoundsImplied == TypeOK /\ BoundsInv => InBounds
BY DEF BoundsInv, Allowed, InBounds

LEMMA InitBounds == Init => BoundsInv
BY SamplerAssumption DEF Init, BoundsInv, Allowed, Working, Checking

\* What a check makes of the shared value it reads is allowed.
LEMMA CheckBounds ==
    ASSUME TypeOK, BoundsInv, NEW r \in Receiver, CheckSampleValue(r)
    PROVE  BoundsInv'
<1> USE DEF Allowed, Working, Checking
<1>1. MinSample \in Nat /\ MaxSample \in Nat BY SamplerAssumption
<1>2. PICK v \in Nat : /\ v = value \/ v = 0
                       /\ TakeOver(r, v) \/ KeepMax(r, v) \/ CheckNodes(r, v)
                       /\ lost' = (lost \/ valueTtl = 0 \/ v /= value)
    BY DEF CheckSampleValue, TypeOK
<1>3. (lost => lost') /\ (valueTtl = 0 => lost') /\ (v /= value => lost')
    BY <1>2
<1>4. v <= MaxSample /\ (v >= MinSample \/ lost')
  <2>1. CASE v /= value
    <3>1. v <= MaxSample BY <1>1, <1>2, <2>1
    <3> QED BY ONLY <3>1, <2>1, <1>3, Zenon
  <2>2. CASE v = value /\ valueTtl = 0
    <3>1. v <= MaxSample BY <1>1, <2>2 DEF BoundsInv
    <3> QED BY ONLY <3>1, <2>2, <1>3, Zenon
  <2>3. CASE v = value /\ valueTtl > 0
    <3>1. v <= MaxSample /\ (v >= MinSample \/ lost) BY <1>1, <2>3 DEF BoundsInv
    <3> QED BY ONLY <3>1, <1>3, Zenon
  <2> QED BY <2>1, <2>2, <2>3 DEF TypeOK
<1>5. PICK new \in Nat, here \in Checking :
         /\ new <= MaxSample /\ (new >= MinSample \/ lost')
         /\ SampleValue' = [SampleValue EXCEPT ![r] = new]
         /\ sampleValue' = [sampleValue EXCEPT ![r] = new]
         /\ pc' = [pc EXCEPT ![r] = here]
  <2>1. CASE TakeOver(r, v) BY <1>4, <2>1 DEF TakeOver, Goto
  <2>2. CASE KeepMax(r, v)
    <3>1. SampleValue' = [SampleValue EXCEPT ![r] = v]
        BY <2>2 DEF KeepMax, TypeOK
    <3> QED BY <1>4, <2>2, <3>1 DEF KeepMax, Goto
  <2>3. CASE CheckNodes(r, v) BY <1>1, <1>4, <2>3, NodesChecked
  <2> QED BY <1>2, <2>1, <2>2, <2>3
<1> QED BY <1>1, <1>3, <1>5 DEF BoundsInv, TypeOK, CheckSampleValue, sharedVars

LEMMA StepBounds == TypeOK /\ BoundsInv /\ [Next]_vars => BoundsInv'
<1> SUFFICES ASSUME TypeOK, BoundsInv, [Next]_vars PROVE BoundsInv' OBVIOUS
<1>0. /\ MinSample \in Nat /\ MaxSample \in Nat /\ MinSample <= MaxSample
      /\ ResetPeriod \in Nat \ {0}
    BY SamplerAssumption
<1> USE DEF TypeOK, BoundsInv, Allowed, Working, Checking, At, Goto, sharedVars,
            checkVars, historyVars
<1>1. ASSUME NEW r \in Receiver, Start(r) PROVE BoundsInv'
    BY <1>0, <1>1 DEF Start, WriteValue
<1>2. ASSUME NEW r \in Receiver, Stop(r) PROVE BoundsInv'
    BY <1>0, <1>2 DEF Stop
<1>3. ASSUME NEW r \in Receiver, InitTime(r) PROVE BoundsInv'
    BY <1>0, <1>3 DEF InitTime
<1>4. ASSUME NEW r \in Receiver, CheckSampleValue(r) PROVE BoundsInv'
    BY <1>4, CheckBounds
<1>5. ASSUME NEW r \in Receiver, RaiseValue(r) PROVE BoundsInv'
    BY <1>0, <1>5 DEF RaiseValue, SetValue, WriteValue
<1>6. ASSUME NEW r \in Receiver, RaiseTime(r) PROVE BoundsInv'
    BY <1>0, <1>6 DEF RaiseTime
<1>7. ASSUME NEW r \in Receiver, Lock(r) PROVE BoundsInv'
    BY <1>0, <1>7 DEF Lock
<1>8. ASSUME NEW r \in Receiver, Has(r) PROVE BoundsInv'
    BY <1>0, <1>8 DEF Has, MayLower
<1>9. ASSUME NEW r \in Receiver, LowerValue(r) PROVE BoundsInv'
    BY <1>0, <1>9 DEF LowerValue, SetValue, WriteValue
<1>10. ASSUME NEW r \in Receiver, LowerTime(r) PROVE BoundsInv'
    BY <1>0, <1>10 DEF LowerTime
<1>11. ASSUME NEW r \in Receiver, Reset(r) PROVE BoundsInv'
    BY <1>0, <1>11 DEF Reset
<1>12. ASSUME BecomeCalm PROVE BoundsInv'
    BY <1>12 DEF BecomeCalm
<1>13. ASSUME Tick PROVE BoundsInv'
    BY <1>0, <1>13 DEF Tick, Sooner
<1>14. CASE UNCHANGED vars BY <1>14 DEF vars
<1> QED BY <1>1, <1>2, <1>3, <1>4, <1>5, <1>6, <1>7, <1>8, <1>9, <1>10, <1>11, <1>12,
           <1>13, <1>14 DEF Next, Check

\* Agents are never given a value above MaxSample, and one below MinSample only after a
\* receiver has read the value in vain, for any number of receivers.
THEOREM BoundsKept == Spec => []InBounds
<1>1. Spec => [](TypeOK /\ BoundsInv)
    BY InitType, StepType, InitBounds, StepBounds, PTL DEF Spec
<1> QED BY <1>1, BoundsImplied, PTL

-----------------------------------------------------------------------------
(* The recovery, once in a period.                                         *)

\* A lock that has not run out under its holder has one holder.  A local cache has no
\* lock, but one receiver.
LockInv ==
    /\ local => \A r, s \in Receiver : pc[r] /= "down" /\ pc[s] /= "down" => r = s
    /\ ~outlived => \A r, s \in Receiver : pc[r] \in Locked /\ pc[s] \in Locked => r = s
    /\ ~outlived /\ ~local => \A r \in Receiver : pc[r] \in Locked => lockTtl >= 1

\* The mark covers the time in which the value must not be lowered again, but while a
\* receiver is between its two writes; and one about to lower it does so in time.
RestInv ==
    /\ rest <= ResetPeriod
    /\ rest <= timeTtl \/ torn \/ \E r \in Receiver : pc[r] = "lowerTime"
    /\ \A r \in Receiver : pc[r] = "lowerValue" => rest = 0 \/ torn \/ outlived

LEMMA InitLowered == Init => LockInv /\ RestInv
BY SamplerAssumption DEF Init, LockInv, RestInv, Locked

LEMMA StepLock == TypeOK /\ LockInv /\ [Next]_vars => LockInv'
<1> SUFFICES ASSUME TypeOK, LockInv, [Next]_vars PROVE LockInv' OBVIOUS
<1> USE DEF TypeOK, LockInv, Locked, Checking, At, Goto, sharedVars, checkVars,
            historyVars
<1>1. ASSUME NEW r \in Receiver, Start(r) PROVE LockInv' BY <1>1 DEF Start
<1>2. ASSUME NEW r \in Receiver, Stop(r) PROVE LockInv' BY <1>2 DEF Stop, Leave
<1>3. ASSUME NEW r \in Receiver, InitTime(r) PROVE LockInv' BY <1>3 DEF InitTime
<1>4. ASSUME NEW r \in Receiver, CheckSampleValue(r) PROVE LockInv'
  <2>1. PICK here \in {"raiseValue", "lock"} : pc' = [pc EXCEPT ![r] = here]
      BY <1>4 DEF CheckSampleValue, TakeOver, KeepMax, CheckNodes, Decide
  <2> QED BY <1>4, <2>1 DEF CheckSampleValue
<1>5. ASSUME NEW r \in Receiver, RaiseValue(r) PROVE LockInv' BY <1>5 DEF RaiseValue
<1>6. ASSUME NEW r \in Receiver, RaiseTime(r) PROVE LockInv' BY <1>6 DEF RaiseTime
<1>7. ASSUME NEW r \in Receiver, Lock(r) PROVE LockInv'
  <2>1. CASE local BY <1>7, <2>1 DEF Lock
  <2>2. CASE ~local BY <1>7, <2>2 DEF Lock, LockFree, LockPeriod
  <2> QED BY <2>1, <2>2
<1>8. ASSUME NEW r \in Receiver, Has(r) PROVE LockInv'
  <2>1. PICK there \in {"lowerValue", "reset"} :
           /\ pc' = [pc EXCEPT ![r] = there]
           /\ \/ there = "lowerValue" /\ outlived' = outlived
              \/ there = "reset" /\ Leave(r)
      BY <1>8 DEF Has
  <2> QED BY <1>8, <2>1 DEF Has, Leave
<1>9. ASSUME NEW r \in Receiver, LowerValue(r) PROVE LockInv' BY <1>9 DEF LowerValue
<1>10. ASSUME NEW r \in Receiver, LowerTime(r) PROVE LockInv'
    BY <1>10 DEF LowerTime, Leave
<1>11. ASSUME NEW r \in Receiver, Reset(r) PROVE LockInv' BY <1>11 DEF Reset
<1>12. ASSUME BecomeCalm PROVE LockInv' BY <1>12 DEF BecomeCalm
<1>13. ASSUME Tick PROVE LockInv'
  <2>1. pc' = pc /\ local' = local BY <1>13 DEF Tick
  <2>2. ~outlived' => ~outlived /\ (lockTtl = 1 => \A r \in Receiver : pc[r] \notin Locked)
      BY <1>13 DEF Tick
  <2>3. lockTtl >= 2 => lockTtl' >= 1 BY <1>13 DEF Tick, Sooner, LockPeriod
  <2>4. lockTtl >= 1 /\ lockTtl /= 1 => lockTtl >= 2 BY DEF LockPeriod
  <2> QED BY <2>1, <2>2, <2>3, <2>4
<1>14. CASE UNCHANGED vars BY <1>14 DEF vars
<1> QED BY <1>1, <1>2, <1>3, <1>4, <1>5, <1>6, <1>7, <1>8, <1>9, <1>10, <1>11, <1>12,
           <1>13, <1>14 DEF Next, Check

LEMMA StepRest == TypeOK /\ LockInv /\ RestInv /\ [Next]_vars => RestInv'
<1> SUFFICES ASSUME TypeOK, LockInv, RestInv, [Next]_vars PROVE RestInv' OBVIOUS
<1>0. ResetPeriod \in Nat \ {0} /\ ResetTtl \in Nat /\ ResetTtl >= ResetPeriod
    BY SamplerAssumption DEF ResetTtl
<1> USE DEF TypeOK, RestInv, Checking, At, Goto, sharedVars, checkVars,
            historyVars
<1>1. ASSUME NEW r \in Receiver, Start(r) PROVE RestInv' BY <1>1 DEF Start
<1>2. ASSUME NEW r \in Receiver, Stop(r) PROVE RestInv'
  <2>1. /\ pc' = [pc EXCEPT ![r] = "down"] /\ rest' = rest /\ timeTtl' = timeTtl
        /\ torn' = (torn \/ pc[r] = "lowerTime")
        /\ outlived' \/ ~outlived \/ \A s \in Receiver \ {r} : pc[s] \notin Locked
      BY <1>2 DEF Stop, Leave
  <2> QED BY <2>1 DEF Locked
<1>3. ASSUME NEW r \in Receiver, InitTime(r) PROVE RestInv'
    BY <1>0, <1>3 DEF InitTime, SetTime, WriteTime
<1>4. ASSUME NEW r \in Receiver, CheckSampleValue(r) PROVE RestInv'
  <2>1. PICK here \in {"raiseValue", "lock"} : pc' = [pc EXCEPT ![r] = here]
      BY <1>4 DEF CheckSampleValue, TakeOver, KeepMax, CheckNodes, Decide
  <2> QED BY <1>4, <2>1 DEF CheckSampleValue
<1>5. ASSUME NEW r \in Receiver, RaiseValue(r) PROVE RestInv' BY <1>5 DEF RaiseValue
<1>6. ASSUME NEW r \in Receiver, RaiseTime(r) PROVE RestInv'
    BY <1>0, <1>6 DEF RaiseTime, SetTime, WriteTime
<1>7. ASSUME NEW r \in Receiver, Lock(r) PROVE RestInv' BY <1>7 DEF Lock
<1>8. ASSUME NEW r \in Receiver, Has(r) PROVE RestInv'
  <2>1. CASE pc'[r] = "lowerValue"
    <3>1. /\ pc' = [pc EXCEPT ![r] = "lowerValue"] /\ outlived' = outlived
          /\ pc[r] = "has" /\ rest' = rest /\ timeTtl' = timeTtl
          /\ torn' \/ (timeTtl = 0 /\ torn' = torn)
        BY <1>8, <2>1 DEF Has
    <3>2. ~outlived => \A s \in Receiver : pc[s] = "lowerTime" => s = r
        BY <3>1 DEF LockInv, Locked
    <3>3. torn => torn' BY <3>1
    <3>4. rest = 0 \/ torn' \/ outlived
      <4>1. CASE timeTtl = 0 /\ torn' = torn BY <3>1, <3>2, <4>1
      <4> QED BY <3>1, <4>1
    <3> QED BY <3>1, <3>3, <3>4
  <2>2. CASE pc'[r] /= "lowerValue"
    <3>1. /\ pc' = [pc EXCEPT ![r] = "reset"] /\ torn' = torn
          /\ pc[r] = "has" /\ rest' = rest /\ timeTtl' = timeTtl
          /\ outlived' \/ ~outlived \/ \A s \in Receiver \ {r} : pc[s] \notin Locked
        BY <1>8, <2>2 DEF Has, Leave
    <3> QED BY <3>1 DEF Locked
  <2> QED BY <2>1, <2>2
<1>9. ASSUME NEW r \in Receiver, LowerValue(r) PROVE RestInv'
  <2>1. /\ pc' = [pc EXCEPT ![r] = "lowerTime"] /\ outlived' = outlived
        /\ pc[r] = "lowerValue" /\ timeTtl' = timeTtl
        /\ \/ rest' = ResetPeriod /\ torn' = FALSE
           \/ rest' = rest /\ torn' = torn
      BY <1>9 DEF LowerValue
  <2>2. \A s \in Receiver : s /= r /\ pc[s] = "lowerValue" => outlived
      BY <2>1 DEF LockInv, Locked
  <2> QED BY <1>0, <2>1, <2>2
<1>10. ASSUME NEW r \in Receiver, LowerTime(r) PROVE RestInv'
  <2>1. /\ pc' = [pc EXCEPT ![r] = "reset"] /\ rest' = rest
        /\ torn' \/ (timeTtl' = ResetTtl /\ torn' = torn)
        /\ outlived' \/ ~outlived \/ \A s \in Receiver \ {r} : pc[s] \notin Locked
      BY <1>10 DEF LowerTime, WriteTime, Leave
  <2>2. torn => torn' BY <2>1
  <2>3. rest <= timeTtl' \/ torn' BY <1>0, <2>1
  <2> QED BY <2>1, <2>2, <2>3 DEF Locked
<1>11. ASSUME NEW r \in Receiver, Reset(r) PROVE RestInv' BY <1>11 DEF Reset
<1>12. ASSUME BecomeCalm PROVE RestInv' BY <1>12 DEF BecomeCalm
<1>13. ASSUME Tick PROVE RestInv' BY <1>0, <1>13 DEF Tick, Sooner
<1>14. CASE UNCHANGED vars BY <1>14 DEF vars
<1> QED BY <1>1, <1>2, <1>3, <1>4, <1>5, <1>6, <1>7, <1>8, <1>9, <1>10, <1>11, <1>12,
           <1>13, <1>14 DEF Next, Check

\* However many receivers find that the mark is over, whatever their commands take and
\* whichever fail, the shared value falls by recovery at most once in ResetPeriod, unless
\* its mark was lost or the lock ran out under its holder.
THEOREM LoweredOnce == Spec => LoweredOncePerPeriod
<1>1. Spec => [](TypeOK /\ LockInv /\ RestInv)
    BY InitType, StepType, InitLowered, StepLock, StepRest, PTL DEF Spec
<1>2. RestInv /\ [Next]_vars =>
         [\A r \in Receiver : LowerValue(r) /\ value' < value => rest = 0 \/ torn \/ outlived]_vars
    BY DEF RestInv, LowerValue, At
<1> QED BY <1>1, <1>2, PTL DEF Spec, LoweredOncePerPeriod
=============================================================================
