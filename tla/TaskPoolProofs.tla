--------------------------- MODULE TaskPoolProofs ---------------------------
(***************************************************************************)
(* Proofs about TaskPool, for every set of traces, every number of workers *)
(* and retries, every check period and every bound on the clock.           *)
(***************************************************************************)
EXTENDS TaskPool, SequenceFacts, TLAPS

USE TaskPoolAssumption

(* The tasks Consume adds for a trace, as a sequence.                      *)
LEMMA PlanFacts ==
    ASSUME NEW tr \in Traces, NEW plan \in ReportPlans
    PROVE  LET new == [i \in DOMAIN plan |-> <<tr, plan[i]>>]
           IN  /\ new \in Seq(Task)
               /\ IsInjective(new)
               /\ \A t \in Range(new) : t \in Task /\ t[1] = tr
<1> DEFINE new == [i \in DOMAIN plan |-> <<tr, plan[i]>>]
<1>1. plan \in Seq(ReportType) /\ DOMAIN plan = 1 .. Len(plan)
  <2>1. /\ <<>> \in Seq(ReportType)
        /\ <<"slow">> \in Seq(ReportType)
        /\ <<"error">> \in Seq(ReportType)
        /\ <<"slow", "error">> \in Seq(ReportType)
        /\ <<"normal">> \in Seq(ReportType)
    BY DEF ReportType
  <2>2. plan \in Seq(ReportType)
    BY <2>1 DEF ReportPlans
  <2> QED
    BY <2>2
<1>2. \A i, j \in 1 .. Len(plan) : plan[i] = plan[j] => i = j
  BY DEF ReportPlans
<1>3. \A i \in 1 .. Len(plan) : <<tr, plan[i]>> \in Task
  BY <1>1 DEF Task
<1>4. new \in [1 .. Len(plan) -> Task]
  BY <1>1, <1>3
<1>5. new \in Seq(Task)
  BY <1>1, <1>4
<1>6. IsInjective(new)
  BY <1>1, <1>2 DEF IsInjective
<1>7. \A t \in Range(new) : t \in Task /\ t[1] = tr
  BY <1>1, <1>3 DEF Range
<1> QED
  BY <1>5, <1>6, <1>7

-----------------------------------------------------------------------------
(* Type correctness *)

LEMMA TypeInit == Init => TypeOK
<1> SUFFICES ASSUME Init PROVE TypeOK
  OBVIOUS
<1>1. <<>> \in Seq(Task) /\ 0 \in Worker
  BY DEF Worker
<1> QED
  BY <1>1 DEF Init, TypeOK, Outcome

LEMMA TypeStep == TypeOK /\ [Next]_vars => TypeOK'
<1> SUFFICES ASSUME TypeOK, [Next]_vars
             PROVE  TypeOK'
  OBVIOUS
<1> USE DEF poolVars, dispatchVars, historyVars
<1>1. CASE Clock
  BY <1>1 DEF TypeOK, Clock
<1>2. ASSUME NEW tr \in Traces, Consume(tr)
      PROVE  TypeOK'
  <2>1. pending' \in Seq(Task)
    BY <1>2, PlanFacts DEF Consume
  <2>2. outcome' \in [Task -> Outcome]
    BY <1>2 DEF Consume, TypeOK, Outcome
  <2> QED
    BY <1>2, <2>1, <2>2 DEF Consume, TypeOK
<1>3. CASE AddTask
  <2>1. Head(pending) \in Task /\ Tail(pending) \in Seq(Task)
    BY <1>3, TailFacts DEF AddTask, TypeOK
  <2>2. todoTasks' \in Seq(Task) /\ arrivals' \in Seq(Task)
    BY <1>3, <2>1, AppendFacts DEF AddTask, Enqueue, TypeOK
  <2> QED
    BY <1>3, <2>1, <2>2 DEF AddTask, TypeOK
<1>4. CASE Tick
  BY <1>4 DEF Tick, TypeOK
<1>5. CASE GetToProcessTasks
  <2>1. PICK n \in 0 .. Len(retryTasks) :
           /\ tasks' = todoTasks \o SubSeq(retryTasks, 1, n)
           /\ retryTasks' = SubSeq(retryTasks, n + 1, Len(retryTasks))
    BY <1>5 DEF GetToProcessTasks, Remaining
  <2>2. tasks' \in Seq(Task) /\ retryTasks' \in Seq(Task)
    BY <2>1, SplitFacts, ConcatFacts DEF TypeOK
  <2>3. todoTasks' \in Seq(Task) /\ phase' = "send"
    BY <1>5 DEF GetToProcessTasks
  <2> QED
    BY <1>5, <2>2, <2>3 DEF GetToProcessTasks, TypeOK
<1>6. CASE Send
  <2>1. Head(tasks) \in Task /\ Tail(tasks) \in Seq(Task)
    BY <1>6, TailFacts DEF Send, TypeOK
  <2>2. taskIndex' \in Worker
    BY <1>6 DEF Send, NextIndex, Worker, TypeOK
  <2>3. running' \in [Worker -> Task \cup {NoTask}]
    BY <1>6, <2>1 DEF Send, TypeOK
  <2>4. attempts' \in [Task -> Nat]
    <3> DEFINE h == Head(tasks)
    <3>1. h \in Task /\ attempts' = [attempts EXCEPT ![h] = @ + 1]
      BY <1>6, <2>1 DEF Send
    <3>2. attempts \in [Task -> Nat]
      BY DEF TypeOK
    <3> HIDE DEF h
    <3> QED
      BY <3>1, <3>2
  <2> QED
    BY <1>6, <2>1, <2>2, <2>3, <2>4 DEF Send, TypeOK
<1>7. CASE EndSend
  BY <1>7 DEF EndSend, TypeOK
<1>8. ASSUME NEW w \in Worker, NEW r \in Outcome, End(w, r)
      PROVE  TypeOK'
  <2>1. running[w] \in Task
    BY <1>8 DEF End, TypeOK
  <2> QED
    BY <1>8, <2>1 DEF End, TypeOK
<1>9. ASSUME NEW w \in Worker, RetryTask(w)
      PROVE  TypeOK'
  <2>1. running[w] \in Task
    BY <1>9 DEF RetryTask, TypeOK
  <2>2. retryTasks' \in Seq(Task)
    BY <1>9, <2>1, AppendFacts DEF RetryTask, TypeOK
  <2>3. retryTimes' \in [Task -> Nat] /\ failedAt' \in [Task -> Nat]
    BY <1>9, <2>1 DEF RetryTask, TypeOK
  <2>4. checkTime' \in [Task -> Nat]
    BY <1>9, <2>1 DEF RetryTask, NextCheckTime, TypeOK
  <2>5. running' \in [Worker -> Task \cup {NoTask}]
    BY <1>9 DEF RetryTask, TypeOK
  <2> QED
    BY <1>9, <2>2, <2>3, <2>4, <2>5 DEF RetryTask, TypeOK
<1>10. CASE UNCHANGED vars
  BY <1>10 DEF vars, TypeOK
<1>11. ASSUME NEW w \in Worker, ProcessTask(w)
       PROVE  TypeOK'
  BY <1>8, <1>9, <1>11 DEF ProcessTask, Report, DropExhausted, DropFatal, Outcome
<1> QED
  BY <1>1, <1>2, <1>3, <1>4, <1>5, <1>6, <1>7, <1>10, <1>11 DEF Next

(* Every variable keeps its type; in particular taskIndex always names a   *)
(* worker, so the dispatcher's send never indexes out of taskChans.        *)
THEOREM TypeCorrect == Spec => []TypeOK
BY TypeInit, TypeStep, PTL DEF Spec

-----------------------------------------------------------------------------
(* Conservation of tasks.  TaskConserved is inductive together with two    *)
(* facts: a trace not consumed yet has no task, and checkTask fetches only *)
(* once it has sent all of the previous batch.                             *)

BatchSent == phase /= "send" => tasks = <<>>

FreshTraces == \A t \in Task : t[1] \notin consumed => outcome[t] = "absent"

ConservedInv == TypeOK /\ TaskConserved /\ FreshTraces /\ BatchSent

(* NoTaskTwice and Held spelled out for the four queues.                   *)
Queued == Range(pending) \cup Range(todoTasks) \cup Range(retryTasks) \cup Range(tasks)

Distinct ==
    /\ IsInjective(pending) /\ IsInjective(todoTasks)
    /\ IsInjective(retryTasks) /\ IsInjective(tasks)
    /\ Range(pending) \cap Range(todoTasks) = {}
    /\ Range(pending) \cap Range(retryTasks) = {}
    /\ Range(pending) \cap Range(tasks) = {}
    /\ Range(todoTasks) \cap Range(retryTasks) = {}
    /\ Range(todoTasks) \cap Range(tasks) = {}
    /\ Range(retryTasks) \cap Range(tasks) = {}
    /\ \A w, v \in Worker : running[w] = running[v] /\ running[w] /= NoTask => w = v
    /\ \A w \in Worker : running[w] \notin Queued

LEMMA QueueFacts ==
    /\ Queue["pending"] = pending /\ Queue["todo"] = todoTasks
    /\ Queue["retry"] = retryTasks /\ Queue["batch"] = tasks
BY DEF Queue

LEMMA NoTaskTwiceForm == NoTaskTwice <=> Distinct
<1> HIDE DEF Queue
<1>1. NoTaskTwice => Distinct
  BY QueueFacts DEF NoTaskTwice, Distinct, Queued, QueueName
<1>2. Distinct => NoTaskTwice
  BY QueueFacts DEF NoTaskTwice, Distinct, Queued, QueueName
<1> QED
  BY <1>1, <1>2

Busy(t) == \E w \in Worker : running[w] = t

OpenIsHeld == \A t \in Task : outcome[t] = "open" <=> t \in Queued \/ Busy(t)

LEMMA NoTaskLostForm == NoTaskLost <=> OpenIsHeld
BY QueueFacts DEF NoTaskLost, OpenIsHeld, Held, Busy, Queued, QueueName

LEMMA ConservedForm ==
    /\ TaskConserved <=> Distinct /\ OpenIsHeld
    /\ TaskConserved' <=> Distinct' /\ OpenIsHeld'
<1>1. TaskConserved <=> Distinct /\ OpenIsHeld
  BY NoTaskTwiceForm, NoTaskLostForm DEF TaskConserved
<1>2. TaskConserved' <=> Distinct' /\ OpenIsHeld'
  BY <1>1, PTL
<1> QED
  BY <1>1, <1>2

LEMMA BatchSentStep == BatchSent /\ [Next]_vars => BatchSent'
BY DEF BatchSent, Next, vars, poolVars, dispatchVars, historyVars, Clock, Consume, AddTask,
       Tick, GetToProcessTasks, Send, EndSend, ProcessTask, Report, DropExhausted, DropFatal,
       End, RetryTask

(* What a worker that receives or lets go of a task does to Busy.          *)
LEMMA WorkerFacts ==
    ConservedInv =>
        /\ running \in [Worker -> Task \cup {NoTask}] /\ NoTask \notin Task
        /\ \A x, v \in Worker : running[x] = running[v] /\ running[x] /= NoTask => x = v
BY ConservedForm DEF ConservedInv, TypeOK, TaskPoolAssumption, Distinct

LEMMA BusyAfterReceive ==
    ASSUME ConservedInv, NEW w \in Worker, NEW t \in Task, running[w] = NoTask,
           running' = [running EXCEPT ![w] = t]
    PROVE  \A u \in Task : Busy(u)' <=> Busy(u) \/ u = t
<1>1. \A v \in Worker : running'[v] = IF v = w THEN t ELSE running[v]
  BY WorkerFacts
<1> QED
  BY <1>1, WorkerFacts DEF Busy

LEMMA BusyAfterEnd ==
    ASSUME ConservedInv, NEW w \in Worker, running[w] /= NoTask,
           running' = [running EXCEPT ![w] = NoTask]
    PROVE  \A u \in Task : Busy(u)' <=> Busy(u) /\ u /= running[w]
<1>1. \A v \in Worker : running'[v] = IF v = w THEN NoTask ELSE running[v]
  BY WorkerFacts
<1>2. ASSUME NEW u \in Task, Busy(u)'
      PROVE  Busy(u) /\ u /= running[w]
  BY <1>1, <1>2, WorkerFacts DEF Busy
<1>3. ASSUME NEW u \in Task, Busy(u), u /= running[w]
      PROVE  Busy(u)'
  BY <1>1, <1>3 DEF Busy
<1> QED
  BY <1>2, <1>3

LEMMA ConservedInit == Init => ConservedInv
<1> SUFFICES ASSUME Init PROVE ConservedInv
  OBVIOUS
<1>1. TypeOK
  BY TypeInit
<1>2. Range(<<>>) = {} /\ IsInjective(<<>>)
  BY DEF Range, IsInjective
<1>3. Queued = {}
  BY <1>2 DEF Init, Queued
<1>4. Distinct
  BY <1>2, <1>3 DEF Init, Distinct
<1>5. \A t \in Task : ~Busy(t)
  BY DEF Init, Busy, TaskPoolAssumption
<1>6. OpenIsHeld
  BY <1>3, <1>5 DEF Init, OpenIsHeld
<1>7. FreshTraces
  BY DEF Init, FreshTraces
<1>8. BatchSent
  BY DEF Init, BatchSent
<1> QED
  BY <1>1, <1>4, <1>6, <1>7, <1>8, ConservedForm DEF ConservedInv

LEMMA ConservedStep == ConservedInv /\ [Next]_vars => ConservedInv'
<1> SUFFICES ASSUME ConservedInv, [Next]_vars
             PROVE  Distinct' /\ OpenIsHeld' /\ FreshTraces'
  BY TypeStep, BatchSentStep, ConservedForm DEF ConservedInv
<1> USE DEF poolVars, dispatchVars, historyVars
<1>0. TypeOK /\ Distinct /\ OpenIsHeld /\ FreshTraces /\ BatchSent
  BY ConservedForm DEF ConservedInv
<1>a. /\ pending \in Seq(Task) /\ todoTasks \in Seq(Task)
      /\ retryTasks \in Seq(Task) /\ tasks \in Seq(Task)
      /\ running \in [Worker -> Task \cup {NoTask}]
      /\ outcome \in [Task -> Outcome]
      /\ NoTask \notin Task
  BY <1>0 DEF TypeOK, TaskPoolAssumption
<1>b. ASSUME UNCHANGED <<pending, todoTasks, retryTasks, tasks, running, outcome, consumed>>
      PROVE  Distinct' /\ OpenIsHeld' /\ FreshTraces'
  BY <1>0, <1>b DEF Distinct, OpenIsHeld, Busy, Queued, FreshTraces
<1>1. CASE Clock
  BY <1>1, <1>b DEF Clock
<1>2. ASSUME NEW tr \in Traces, Consume(tr)
      PROVE  Distinct' /\ OpenIsHeld' /\ FreshTraces'
  <2>1. /\ IsInjective(pending')
        /\ \A t \in Range(pending') : t \in Task /\ t[1] = tr
    BY <1>2, PlanFacts DEF Consume
  <2>2. /\ tr \notin consumed /\ consumed' = consumed \cup {tr}
        /\ outcome' = [t \in Task |-> IF t \in Range(pending') THEN "open" ELSE outcome[t]]
        /\ UNCHANGED <<todoTasks, retryTasks, tasks, running>>
    BY <1>2 DEF Consume
  <2>3. Range(pending) = {}
    BY <1>2 DEF Consume, Range
  <2>4. \A t \in Range(pending') : t \notin Queued /\ ~Busy(t)
    BY <2>1, <2>2, <1>0 DEF FreshTraces, OpenIsHeld
  <2>5. Queued' = Queued \cup Range(pending')
    BY <2>2, <2>3 DEF Queued
  <2>6. Distinct'
    BY <1>0, <2>1, <2>2, <2>3, <2>4, <2>5 DEF Distinct, Queued, Busy
  <2>7. OpenIsHeld'
    BY <1>0, <2>1, <2>2, <2>4, <2>5 DEF OpenIsHeld, Busy
  <2>8. FreshTraces'
    BY <1>0, <2>1, <2>2 DEF FreshTraces
  <2> QED
    BY <2>6, <2>7, <2>8
<1>3. CASE AddTask
  <2> DEFINE h == Head(pending)
  <2>1. /\ h \in Task /\ h \in Range(pending)
        /\ Range(pending) = {h} \cup Range(pending')
        /\ IsInjective(pending') /\ h \notin Range(pending')
    BY <1>0, <1>3, <1>a, TailFacts DEF AddTask, Distinct
  <2>2. h \notin Range(todoTasks)
    BY <1>0, <2>1 DEF Distinct
  <2>3. Range(todoTasks') = Range(todoTasks) \cup {h} /\ IsInjective(todoTasks')
    BY <1>0, <1>3, <1>a, <2>1, <2>2, AppendFacts DEF AddTask, Enqueue, Distinct
  <2>4. UNCHANGED <<retryTasks, tasks, running, outcome, consumed>>
    BY <1>3 DEF AddTask
  <2> HIDE DEF h
  <2>5. Queued' = Queued
    BY <2>1, <2>3, <2>4 DEF Queued
  <2>6. Distinct'
    BY <1>0, <2>1, <2>3, <2>4, <2>5 DEF Distinct
  <2> QED
    BY <1>0, <2>4, <2>5, <2>6 DEF OpenIsHeld, Busy, FreshTraces
<1>4. CASE Tick
  BY <1>4, <1>b DEF Tick
<1>5. CASE GetToProcessTasks
  <2>1. PICK n \in 0 .. Len(retryTasks) :
           /\ tasks' = todoTasks \o SubSeq(retryTasks, 1, n)
           /\ retryTasks' = SubSeq(retryTasks, n + 1, Len(retryTasks))
    BY <1>5 DEF GetToProcessTasks, Remaining
  <2> DEFINE due == SubSeq(retryTasks, 1, n)
  <2>2. /\ due \in Seq(Task)
        /\ Range(retryTasks) = Range(due) \cup Range(retryTasks')
        /\ IsInjective(due) /\ IsInjective(retryTasks')
        /\ Range(due) \cap Range(retryTasks') = {}
    BY <1>0, <1>a, <2>1, SplitFacts DEF Distinct
  <2>3. /\ todoTasks' = <<>> /\ Range(todoTasks') = {} /\ IsInjective(todoTasks')
        /\ UNCHANGED <<pending, running, outcome, consumed>>
    BY <1>5 DEF GetToProcessTasks, Range, IsInjective
  <2>4. tasks' = todoTasks \o due
    BY <2>1
  <2> HIDE DEF due
  <2>5. Range(todoTasks) \cap Range(due) = {}
    BY <1>0, <2>2 DEF Distinct
  <2>6. Range(tasks') = Range(todoTasks) \cup Range(due) /\ IsInjective(tasks')
    BY <1>0, <1>a, <2>2, <2>4, <2>5, ConcatFacts DEF Distinct
  <2>7. Range(tasks) = {}
    BY <1>5, <1>0 DEF GetToProcessTasks, BatchSent, Range
  <2>8. Queued' = Queued
    BY <2>2, <2>3, <2>6, <2>7 DEF Queued
  <2>9. Distinct'
    BY <1>0, <2>2, <2>3, <2>6, <2>8 DEF Distinct
  <2> QED
    BY <1>0, <2>3, <2>8, <2>9 DEF OpenIsHeld, Busy, FreshTraces
<1>6. CASE Send
  <2> DEFINE h == Head(tasks)
  <2>1. /\ h \in Task /\ h \in Range(tasks)
        /\ Range(tasks) = {h} \cup Range(tasks')
        /\ IsInjective(tasks') /\ h \notin Range(tasks')
    BY <1>0, <1>6, <1>a, TailFacts DEF Send, Distinct
  <2>2. /\ taskIndex \in Worker /\ running[taskIndex] = NoTask
        /\ running' = [running EXCEPT ![taskIndex] = h]
        /\ UNCHANGED <<pending, todoTasks, retryTasks, outcome, consumed>>
    BY <1>0, <1>6 DEF Send, TypeOK
  <2>7. \A t \in Task : Busy(t)' <=> t = h \/ Busy(t)
    BY <2>1, <2>2, BusyAfterReceive
  <2> HIDE DEF h
  <2>3. h \in Queued /\ Queued' = Queued \ {h}
    BY <1>0, <2>1, <2>2 DEF Queued, Distinct
  <2>4. \A w \in Worker : running'[w] = IF w = taskIndex THEN h ELSE running[w]
    BY <1>a, <2>2
  <2>5. \A w \in Worker : running[w] /= h
    BY <1>0, <2>3 DEF Distinct
  <2>6. Distinct'
    BY <1>0, <2>1, <2>2, <2>3, <2>4, <2>5 DEF Distinct
  <2> QED
    BY <1>0, <2>2, <2>3, <2>6, <2>7 DEF OpenIsHeld, FreshTraces
<1>7. CASE EndSend
  BY <1>7, <1>b DEF EndSend
<1>8. ASSUME NEW w \in Worker, NEW r \in {"reported", "exhausted", "fatal"}, End(w, r)
      PROVE  Distinct' /\ OpenIsHeld' /\ FreshTraces'
  <2> DEFINE t == running[w]
  <2>1. /\ t \in Task /\ t /= NoTask
        /\ running' = [running EXCEPT ![w] = NoTask]
        /\ outcome' = [outcome EXCEPT ![t] = r]
        /\ UNCHANGED <<pending, todoTasks, retryTasks, tasks, consumed>>
    BY <1>8, <1>a DEF End
  <2>2. Busy(t) /\ t \notin Queued
    BY <1>0 DEF Busy, Distinct
  <2>3. \A v \in Worker : v /= w => running[v] /= t
    BY <1>0, <2>1 DEF Distinct
  <2> HIDE DEF t
  <2>4. Queued' = Queued
    BY <2>1 DEF Queued
  <2>5. \A v \in Worker : running'[v] = IF v = w THEN NoTask ELSE running[v]
    BY <1>a, <2>1
  <2>6. \A u \in Task : Busy(u)' <=> Busy(u) /\ u /= t
    BY <1>8, <2>1, BusyAfterEnd DEF t
  <2>7. NoTask \notin Queued
    <3>1. \A s \in Seq(Task) : Range(s) \subseteq Task
      BY DEF Range
    <3> QED
      BY <3>1, <1>a DEF Queued
  <2>8. Distinct'
    BY <1>0, <2>1, <2>4, <2>5, <2>7 DEF Distinct
  <2>9. OpenIsHeld'
    <3>1. \A u \in Task : outcome'[u] = IF u = t THEN r ELSE outcome[u]
      BY <1>a, <2>1
    <3>2. r /= "open"
      OBVIOUS
    <3> QED
      BY <1>0, <2>2, <2>4, <2>6, <3>1, <3>2 DEF OpenIsHeld
  <2>10. FreshTraces'
    <3>1. outcome[t] = "open"
      BY <1>0, <2>1, <2>2 DEF OpenIsHeld
    <3>2. t[1] \in consumed
      BY <1>0, <2>1, <3>1 DEF FreshTraces
    <3> QED
      BY <1>0, <1>a, <2>1, <3>2 DEF FreshTraces
  <2> QED
    BY <2>8, <2>9, <2>10
<1>9. ASSUME NEW w \in Worker, RetryTask(w)
      PROVE  Distinct' /\ OpenIsHeld' /\ FreshTraces'
  <2> DEFINE t == running[w]
  <2>1. /\ t \in Task /\ t /= NoTask
        /\ running' = [running EXCEPT ![w] = NoTask]
        /\ retryTasks' = Append(retryTasks, t)
        /\ UNCHANGED <<pending, todoTasks, tasks, outcome, consumed>>
    BY <1>9, <1>a DEF RetryTask
  <2>2. Busy(t) /\ t \notin Queued
    BY <1>0 DEF Busy, Distinct
  <2>3. \A v \in Worker : v /= w => running[v] /= t
    BY <1>0, <2>1 DEF Distinct
  <2> HIDE DEF t
  <2>4. Range(retryTasks') = Range(retryTasks) \cup {t} /\ IsInjective(retryTasks')
    BY <1>0, <1>a, <2>1, <2>2, AppendFacts DEF Distinct, Queued
  <2>5. Queued' = Queued \cup {t}
    BY <2>1, <2>4 DEF Queued
  <2>6. \A v \in Worker : running'[v] = IF v = w THEN NoTask ELSE running[v]
    BY <1>a, <2>1
  <2>7. NoTask \notin Queued
    <3>1. \A s \in Seq(Task) : Range(s) \subseteq Task
      BY DEF Range
    <3> QED
      BY <3>1, <1>a DEF Queued
  <2>8. Distinct'
    <3>1. \A v \in Worker : running'[v] \notin Queued'
      BY <1>0, <1>a, <2>1, <2>3, <2>5, <2>6, <2>7 DEF Distinct
    <3>2. \A v, u \in Worker : running'[v] = running'[u] /\ running'[v] /= NoTask => v = u
      BY <1>0, <2>6 DEF Distinct
    <3> QED
      BY <1>0, <2>1, <2>2, <2>4, <3>1, <3>2 DEF Distinct, Queued
  <2>9. \A u \in Task : Busy(u)' <=> Busy(u) /\ u /= t
    BY <1>9, <2>1, BusyAfterEnd DEF t
  <2>10. \A u \in Task : u \in Queued' \/ Busy(u)' <=> u \in Queued \/ Busy(u)
    BY <2>2, <2>5, <2>9
  <2> QED
    BY <1>0, <2>1, <2>8, <2>10 DEF OpenIsHeld, FreshTraces
<1>10. CASE UNCHANGED vars
  BY <1>10, <1>b DEF vars
<1>11. ASSUME NEW w \in Worker, ProcessTask(w)
       PROVE  Distinct' /\ OpenIsHeld' /\ FreshTraces'
  BY <1>8, <1>9, <1>11 DEF ProcessTask, Report, DropExhausted, DropFatal
<1> QED
  BY <1>1, <1>2, <1>3, <1>4, <1>5, <1>6, <1>7, <1>10, <1>11 DEF Next

LEMMA ConservedAlways == Spec => []ConservedInv
BY ConservedInit, ConservedStep, PTL DEF Spec

(* No task is ever lost or duplicated, whatever the interleaving of the    *)
(* subscriber, the dispatcher and the workers.                             *)
THEOREM TasksConserved == Spec => []TaskConserved
<1>1. ConservedInv => TaskConserved
  BY DEF ConservedInv
<1> QED
  BY <1>1, ConservedAlways, PTL

-----------------------------------------------------------------------------
(* Attempts.  While a task is alive it has been handed out once for every  *)
(* time it failed, and once more if a worker has it.                       *)

AttemptsMatch ==
    \A t \in Task :
        /\ retryTimes[t] < MaxAttempts(t)
        /\ outcome[t] = "absent" => retryTimes[t] = 0
        /\ outcome[t] \in {"absent", "open"} /\ ~Busy(t) => attempts[t] = retryTimes[t]
        /\ Busy(t) \/ outcome[t] \notin {"absent", "open"} => attempts[t] = retryTimes[t] + 1
        /\ outcome[t] = "exhausted" => attempts[t] = MaxAttempts(t)

LEMMA AttemptsInit == Init => AttemptsMatch
<1> SUFFICES ASSUME Init, NEW t \in Task
             PROVE  /\ 0 < MaxAttempts(t) /\ ~Busy(t)
                    /\ outcome[t] = "absent" /\ attempts[t] = 0 /\ retryTimes[t] = 0
  BY DEF AttemptsMatch, Init
<1>1. 0 < MaxAttempts(t)
  BY DEF MaxAttempts, TaskPoolAssumption
<1>2. ~Busy(t)
  BY DEF Init, Busy, TaskPoolAssumption
<1> QED
  BY <1>1, <1>2 DEF Init

LEMMA AttemptsStep == ConservedInv /\ AttemptsMatch /\ [Next]_vars => AttemptsMatch'
<1> SUFFICES ASSUME ConservedInv, AttemptsMatch, [Next]_vars
             PROVE  AttemptsMatch'
  OBVIOUS
<1> USE DEF poolVars, dispatchVars, historyVars
<1>0. /\ Distinct /\ OpenIsHeld /\ FreshTraces
      /\ retryTimes \in [Task -> Nat] /\ attempts \in [Task -> Nat]
      /\ outcome \in [Task -> Outcome] /\ RetryTimes \in Nat
      /\ running \in [Worker -> Task \cup {NoTask}]
  BY ConservedForm DEF ConservedInv, TypeOK, TaskPoolAssumption
<1>1. ASSUME UNCHANGED <<retryTimes, attempts, outcome, running>>
      PROVE  AttemptsMatch'
  BY <1>1 DEF AttemptsMatch, Busy, MaxAttempts
<1>2. ASSUME NEW tr \in Traces, Consume(tr)
      PROVE  AttemptsMatch'
  <2>1. \A t \in Range(pending') : t \in Task /\ t[1] = tr
    BY <1>2, PlanFacts DEF Consume
  <2>2. /\ \A t \in Task : outcome'[t] = IF t \in Range(pending') THEN "open" ELSE outcome[t]
        /\ UNCHANGED <<retryTimes, attempts, running>>
    BY <1>2, <1>0 DEF Consume
  <2>3. \A t \in Range(pending') : outcome[t] = "absent" /\ ~Busy(t)
    BY <2>1, <1>2, <1>0 DEF Consume, FreshTraces, OpenIsHeld
  <2>4. \A t \in Task : Busy(t)' <=> Busy(t)
    BY <2>2 DEF Busy
  <2> QED
    BY <2>2, <2>3, <2>4 DEF AttemptsMatch, MaxAttempts
<1>3. CASE Send
  <2> DEFINE h == Head(tasks)
  <2>1. h \in Task /\ h \in Queued
    BY <1>3, TailFacts DEF Send, ConservedInv, TypeOK, Queued
  <2>2. outcome[h] = "open" /\ ~Busy(h)
    BY <2>1, <1>0 DEF OpenIsHeld, Distinct, Busy
  <2>3. /\ taskIndex \in Worker /\ running[taskIndex] = NoTask
        /\ running' = [running EXCEPT ![taskIndex] = h]
        /\ attempts' = [attempts EXCEPT ![h] = @ + 1]
        /\ UNCHANGED <<retryTimes, outcome>>
    BY <1>3 DEF Send, ConservedInv, TypeOK
  <2> HIDE DEF h
  <2>4. \A u \in Task : Busy(u)' <=> Busy(u) \/ u = h
    BY <2>1, <2>3, BusyAfterReceive
  <2> QED
    BY <1>0, <2>1, <2>2, <2>3, <2>4 DEF AttemptsMatch, MaxAttempts
<1>4. ASSUME NEW w \in Worker, NEW r \in {"reported", "exhausted", "fatal"}, End(w, r),
             r = "exhausted" => ~MayRetry(running[w])
      PROVE  AttemptsMatch'
  <2> DEFINE t == running[w]
  <2>1. /\ t \in Task /\ t /= NoTask /\ Busy(t)
        /\ running' = [running EXCEPT ![w] = NoTask]
        /\ outcome' = [outcome EXCEPT ![t] = r]
        /\ UNCHANGED <<retryTimes, attempts>>
    BY <1>4, <1>0 DEF End, Busy
  <2>2. \A u \in Task : Busy(u)' <=> Busy(u) /\ u /= t
    BY <2>1, BusyAfterEnd
  <2>3. r = "exhausted" => ~MayRetry(t)
    BY <1>4
  <2> HIDE DEF t
  <2>4. attempts[t] = retryTimes[t] + 1 /\ retryTimes[t] < MaxAttempts(t)
    BY <2>1 DEF AttemptsMatch
  <2>5. r = "exhausted" => attempts[t] = MaxAttempts(t)
    BY <1>0, <2>1, <2>3, <2>4 DEF MayRetry, MaxAttempts
  <2> QED
    BY <1>0, <2>1, <2>2, <2>4, <2>5 DEF AttemptsMatch, MaxAttempts
<1>5. ASSUME NEW w \in Worker, RetryTask(w)
      PROVE  AttemptsMatch'
  <2> DEFINE t == running[w]
  <2>1. /\ t \in Task /\ t /= NoTask /\ Busy(t)
        /\ running' = [running EXCEPT ![w] = NoTask]
        /\ retryTimes' = [retryTimes EXCEPT ![t] = @ + 1]
        /\ ~IgnoreRetry(t) /\ retryTimes[t] < RetryTimes
        /\ UNCHANGED <<outcome, attempts>>
    BY <1>5, <1>0 DEF RetryTask, MayRetry, Busy
  <2>2. \A u \in Task : Busy(u)' <=> Busy(u) /\ u /= t
    BY <2>1, BusyAfterEnd
  <2> HIDE DEF t
  <2>3. attempts[t] = retryTimes[t] + 1 /\ outcome[t] = "open"
    BY <1>0, <2>1 DEF AttemptsMatch, OpenIsHeld
  <2>4. retryTimes[t] + 1 < MaxAttempts(t)
    BY <1>0, <2>1 DEF MaxAttempts
  <2> QED
    BY <1>0, <2>1, <2>2, <2>3, <2>4 DEF AttemptsMatch, MaxAttempts
<1>6. ASSUME NEW w \in Worker, ProcessTask(w)
      PROVE  AttemptsMatch'
  BY <1>4, <1>5, <1>6 DEF ProcessTask, Report, DropExhausted, DropFatal
<1> QED
  BY <1>1, <1>2, <1>3, <1>6
  DEF Next, vars, Clock, AddTask, Tick, GetToProcessTasks, EndSend

(* No task is handed to a worker more than RetryTimes + 1 times, and one   *)
(* dropped for a failure worth a retry has had all of its attempts.        *)
THEOREM DropsJustified == Spec => []DropOnlyExhausted
<1>1. ConservedInv /\ AttemptsMatch => DropOnlyExhausted
  <2> SUFFICES ASSUME ConservedInv, AttemptsMatch, NEW t \in Task
               PROVE  /\ attempts[t] <= MaxAttempts(t)
                      /\ outcome[t] = "exhausted" => attempts[t] = MaxAttempts(t)
    BY DEF DropOnlyExhausted
  <2>1. retryTimes[t] \in Nat /\ attempts[t] \in Nat /\ MaxAttempts(t) \in Nat
    BY DEF ConservedInv, TypeOK, MaxAttempts, TaskPoolAssumption
  <2>2. attempts[t] = retryTimes[t] \/ attempts[t] = retryTimes[t] + 1
    BY DEF AttemptsMatch
  <2> QED
    BY <2>1, <2>2 DEF AttemptsMatch
<1> QED
  BY <1>1, ConservedAlways, AttemptsInit, AttemptsStep, PTL DEF Spec

-----------------------------------------------------------------------------
(* Schedule.  retryTasks is sorted by checkTime, because every worker puts *)
(* a task at its end with the same period added to a clock that only goes  *)
(* forward.                                                                *)

RetrySorted ==
    \A i, j \in 1 .. Len(retryTasks) :
        i < j => checkTime[retryTasks[i]] <= checkTime[retryTasks[j]]

Schedule ==
    /\ fetchTime <= now
    /\ RetrySorted
    /\ \A t \in Range(retryTasks) :
          /\ checkTime[t] = failedAt[t] + CheckPeriod
          /\ checkTime[t] <= now + CheckPeriod
          /\ attempts[t] > 0
    /\ \A t \in Range(tasks) : attempts[t] > 0 => failedAt[t] + CheckPeriod <= now
    /\ \A t \in Range(pending) \cup Range(todoTasks) : attempts[t] = 0

LEMMA ScheduleInit == Init => Schedule
<1> SUFFICES ASSUME Init PROVE Schedule
  OBVIOUS
<1>1. Range(<<>>) = {} /\ 1 .. Len(<<>>) = {}
  BY DEF Range
<1> QED
  BY <1>1 DEF Init, Schedule, RetrySorted

LEMMA ScheduleStep ==
    ConservedInv /\ AttemptsMatch /\ Schedule /\ [Next]_vars => Schedule'
<1> SUFFICES ASSUME ConservedInv, AttemptsMatch, Schedule, [Next]_vars
             PROVE  Schedule'
  OBVIOUS
<1> USE DEF poolVars, dispatchVars, historyVars
<1>0. /\ Distinct /\ OpenIsHeld /\ FreshTraces /\ TypeOK
      /\ CheckPeriod \in Nat \ {0}
  BY ConservedForm DEF ConservedInv, TaskPoolAssumption
<1>a. /\ now \in Nat /\ fetchTime \in Nat
      /\ checkTime \in [Task -> Nat] /\ failedAt \in [Task -> Nat]
      /\ attempts \in [Task -> Nat]
      /\ retryTasks \in Seq(Task) /\ tasks \in Seq(Task)
      /\ pending \in Seq(Task) /\ todoTasks \in Seq(Task)
  BY <1>0 DEF TypeOK
<1>b. \A s \in Seq(Task) : Range(s) \subseteq Task
  BY DEF Range
<1>1. CASE Clock
  <2>1. /\ now' = now + 1
        /\ UNCHANGED <<fetchTime, retryTasks, checkTime, failedAt, tasks, attempts, pending,
                       todoTasks>>
    BY <1>1 DEF Clock
  <2>2. Range(retryTasks) \subseteq Task /\ Range(tasks) \subseteq Task
    BY <1>a, <1>b
  <2> QED
    BY <1>0, <1>a, <2>1, <2>2 DEF Schedule, RetrySorted
<1>2. ASSUME NEW tr \in Traces, Consume(tr)
      PROVE  Schedule'
  <2>1. \A t \in Range(pending') : t \in Task /\ t[1] = tr
    BY <1>2, PlanFacts DEF Consume
  <2>2. /\ tr \notin consumed
        /\ UNCHANGED <<now, fetchTime, retryTasks, checkTime, failedAt, tasks, attempts, todoTasks>>
    BY <1>2 DEF Consume
  <2>3. \A t \in Range(pending') : outcome[t] = "absent" /\ ~Busy(t)
    BY <2>1, <2>2, <1>0 DEF FreshTraces, OpenIsHeld
  <2>4. \A t \in Range(pending') : attempts[t] = 0
    BY <2>1, <2>3 DEF AttemptsMatch
  <2> QED
    BY <2>2, <2>4 DEF Schedule, RetrySorted
<1>3. CASE AddTask
  <2>1. Head(pending) \in Task /\ Range(pending) = {Head(pending)} \cup Range(pending')
    BY <1>3, <1>a, TailFacts DEF AddTask
  <2>2. Range(todoTasks') = Range(todoTasks) \cup {Head(pending)}
    BY <1>3, <1>a, <2>1, AppendFacts DEF AddTask, Enqueue
  <2>3. UNCHANGED <<now, fetchTime, retryTasks, checkTime, failedAt, tasks, attempts>>
    BY <1>3 DEF AddTask
  <2> QED
    BY <2>1, <2>2, <2>3 DEF Schedule, RetrySorted
<1>4. CASE Tick
  BY <1>4, <1>a DEF Tick, Schedule, RetrySorted
<1>5. CASE GetToProcessTasks
  <2>1. PICK n \in 0 .. Len(retryTasks) :
           /\ DuePrefix(n)
           /\ tasks' = todoTasks \o SubSeq(retryTasks, 1, n)
           /\ retryTasks' = SubSeq(retryTasks, n + 1, Len(retryTasks))
    BY <1>5 DEF GetToProcessTasks, Remaining
  <2> DEFINE due == SubSeq(retryTasks, 1, n)
  <2>2. /\ due \in Seq(Task) /\ tasks' = todoTasks \o due
        /\ Range(retryTasks) = Range(due) \cup Range(retryTasks')
        /\ Len(retryTasks') = Len(retryTasks) - n
        /\ \A i \in 1 .. Len(retryTasks') : retryTasks'[i] = retryTasks[i + n]
    <3> DEFINE rest == SubSeq(retryTasks, n + 1, Len(retryTasks))
    <3>1. /\ due \in Seq(Task) /\ Range(retryTasks) = Range(due) \cup Range(rest)
          /\ Len(rest) = Len(retryTasks) - n
          /\ \A i \in 1 .. Len(rest) : rest[i] = retryTasks[i + n]
      <4>1. retryTasks \in Seq(Task) /\ n \in 0 .. Len(retryTasks)
        BY <1>a
      <4>2. due \in Seq(Task)
        BY <4>1, SplitFacts
      <4>3. Range(retryTasks) = Range(due) \cup Range(rest)
        BY <4>1, SplitFacts, Zenon
      <4>4. Len(rest) = Len(retryTasks) - n
        BY <4>1, SplitFacts
      <4>5. \A i \in 1 .. Len(rest) : rest[i] = retryTasks[i + n]
        BY <4>1, SplitFacts
      <4> QED
        BY <4>2, <4>3, <4>4, <4>5
    <3>2. retryTasks' = rest /\ tasks' = todoTasks \o due
      BY <2>1
    <3> HIDE DEF rest, due
    <3> QED
      BY <3>1, <3>2
  <2>3. \A t \in Range(due) : checkTime[t] <= fetchTime
    <3>1. Len(due) = n /\ \A i \in 1 .. n : due[i] = retryTasks[i]
      <4>1. retryTasks \in Seq(Task) /\ n \in 0 .. Len(retryTasks)
        BY <1>a
      <4>2. Len(due) = n
        BY <4>1, SplitFacts
      <4>3. \A i \in 1 .. n : due[i] = retryTasks[i]
        BY <4>1, SplitFacts
      <4> QED
        BY <4>2, <4>3
    <3>2. \A i \in 1 .. n : checkTime[retryTasks[i]] <= fetchTime
      BY <2>1 DEF DuePrefix, Due
    <3> QED
      BY <2>2, <3>1, <3>2 DEF Range
  <2> HIDE DEF due
  <2>4. Range(tasks') = Range(todoTasks) \cup Range(due)
    BY <1>a, <2>2, ConcatFacts
  <2>5. /\ Range(todoTasks') = {}
        /\ UNCHANGED <<now, fetchTime, checkTime, failedAt, attempts, pending>>
    BY <1>5 DEF GetToProcessTasks, Range
  <2>6. RetrySorted'
    <3> SUFFICES ASSUME NEW i \in 1 .. Len(retryTasks'), NEW j \in 1 .. Len(retryTasks'), i < j
                 PROVE  checkTime[retryTasks'[i]] <= checkTime[retryTasks'[j]]
      BY <2>5 DEF RetrySorted
    <3>1. i + n \in 1 .. Len(retryTasks) /\ j + n \in 1 .. Len(retryTasks) /\ i + n < j + n
      BY <1>a, <2>2
    <3> QED
      BY <3>1, <2>2 DEF Schedule, RetrySorted
  <2>7. ASSUME NEW t \in Range(tasks'), attempts[t] > 0
        PROVE  failedAt[t] + CheckPeriod <= now
    <3>1. t \in Range(due)
      BY <2>4, <2>7 DEF Schedule
    <3>2. t \in Task /\ t \in Range(retryTasks)
      BY <3>1, <2>2, <1>b
    <3> QED
      BY <3>1, <3>2, <2>3, <1>0, <1>a DEF Schedule
  <2> QED
    BY <2>2, <2>5, <2>6, <2>7 DEF Schedule
<1>6. CASE Send
  <2> DEFINE h == Head(tasks)
  <2>1. /\ h \in Task /\ h \in Range(tasks)
        /\ Range(tasks) = {h} \cup Range(tasks') /\ h \notin Range(tasks')
    BY <1>0, <1>6, <1>a, TailFacts DEF Send, Distinct
  <2>2. h \notin Range(pending) \cup Range(todoTasks)
    BY <1>0, <2>1 DEF Distinct
  <2>3. /\ attempts' = [attempts EXCEPT ![h] = @ + 1]
        /\ UNCHANGED <<now, fetchTime, retryTasks, checkTime, failedAt, pending, todoTasks>>
    BY <1>6 DEF Send
  <2> HIDE DEF h
  <2>4. \A t \in Task : t /= h => attempts'[t] = attempts[t]
    BY <1>a, <2>1, <2>3
  <2>5. /\ Range(tasks') \subseteq Task /\ Range(pending) \subseteq Task
        /\ Range(todoTasks) \subseteq Task
    BY <1>a, <1>b, <2>1
  <2>6. \A t \in Range(retryTasks) : attempts'[t] > 0
    <3> SUFFICES ASSUME NEW t \in Range(retryTasks) PROVE attempts'[t] > 0
      OBVIOUS
    <3>1. t \in Task /\ t /= h
      BY <1>0, <1>a, <1>b, <2>1 DEF Distinct
    <3> QED
      BY <3>1, <2>4 DEF Schedule
  <2> QED
    BY <2>1, <2>2, <2>3, <2>4, <2>5, <2>6 DEF Schedule, RetrySorted
<1>7. ASSUME UNCHANGED <<now, fetchTime, retryTasks, checkTime, failedAt, tasks, attempts,
                         pending, todoTasks>>
      PROVE  Schedule'
  BY <1>7 DEF Schedule, RetrySorted
<1>8. ASSUME NEW w \in Worker, RetryTask(w)
      PROVE  Schedule'
  <2> DEFINE t == running[w]
  <2>1. /\ t \in Task /\ t \notin Queued /\ Busy(t)
        /\ retryTasks' = Append(retryTasks, t)
        /\ checkTime' = [checkTime EXCEPT ![t] = now + CheckPeriod]
        /\ failedAt' = [failedAt EXCEPT ![t] = now]
        /\ UNCHANGED <<now, fetchTime, tasks, attempts, pending, todoTasks>>
    BY <1>8, <1>0 DEF RetryTask, NextCheckTime, TypeOK, Distinct, Busy
  <2> HIDE DEF t
  <2>2. /\ checkTime'[t] = now + CheckPeriod /\ failedAt'[t] = now
        /\ \A u \in Task : u /= t => checkTime'[u] = checkTime[u] /\ failedAt'[u] = failedAt[u]
    BY <1>a, <2>1
  <2>3. /\ Range(retryTasks) \subseteq Task /\ t \notin Range(retryTasks)
        /\ Range(tasks) \subseteq Task /\ t \notin Range(tasks)
    BY <1>a, <1>b, <2>1 DEF Queued
  <2>4. Range(retryTasks') = Range(retryTasks) \cup {t}
    BY <1>a, <2>1, AppendFacts
  <2>5. RetrySorted'
    <3>1. /\ Len(retryTasks') = Len(retryTasks) + 1
          /\ \A i \in 1 .. Len(retryTasks) : retryTasks'[i] = retryTasks[i]
          /\ retryTasks'[Len(retryTasks) + 1] = t
      BY <1>a, <2>1
    <3>2. \A i \in 1 .. Len(retryTasks) : retryTasks[i] \in Range(retryTasks)
      BY <1>a DEF Range
    <3>3. \A i \in 1 .. Len(retryTasks) :
             /\ checkTime'[retryTasks[i]] = checkTime[retryTasks[i]]
             /\ checkTime[retryTasks[i]] <= now + CheckPeriod
      BY <2>2, <2>3, <3>2 DEF Schedule
    <3> SUFFICES ASSUME NEW i \in 1 .. Len(retryTasks) + 1, NEW j \in 1 .. Len(retryTasks) + 1,
                        i < j
                 PROVE  checkTime'[retryTasks'[i]] <= checkTime'[retryTasks'[j]]
      BY <3>1 DEF RetrySorted
    <3>4. i \in 1 .. Len(retryTasks)
      BY <1>a
    <3>5. CASE j \in 1 .. Len(retryTasks)
      BY <3>1, <3>3, <3>4, <3>5 DEF Schedule, RetrySorted
    <3>6. CASE j = Len(retryTasks) + 1
      BY <3>1, <3>3, <3>4, <3>6, <2>2
    <3> QED
      BY <3>5, <3>6
  <2>6. \A u \in Range(retryTasks') :
           /\ checkTime'[u] = failedAt'[u] + CheckPeriod
           /\ checkTime'[u] <= now + CheckPeriod
           /\ attempts[u] > 0
    <3> SUFFICES ASSUME NEW u \in Range(retryTasks')
                 PROVE  /\ checkTime'[u] = failedAt'[u] + CheckPeriod
                        /\ checkTime'[u] <= now + CheckPeriod
                        /\ attempts[u] > 0
      OBVIOUS
    <3>1. CASE u = t
      <4>1. attempts[t] = retryTimes[t] + 1 /\ retryTimes[t] \in Nat
        BY <1>0, <2>1 DEF AttemptsMatch, TypeOK
      <4> QED
        BY <3>1, <4>1, <2>2, <1>a, <1>0
    <3>2. CASE u /= t
      BY <3>2, <2>2, <2>3, <2>4 DEF Schedule
    <3> QED
      BY <3>1, <3>2
  <2> QED
    BY <2>1, <2>2, <2>3, <2>5, <2>6 DEF Schedule
<1>9. ASSUME NEW w \in Worker, ProcessTask(w)
      PROVE  Schedule'
  BY <1>7, <1>8, <1>9 DEF ProcessTask, Report, DropExhausted, DropFatal, End
<1> QED
  BY <1>1, <1>2, <1>3, <1>4, <1>5, <1>6, <1>7, <1>9 DEF Next, vars, EndSend

IInv == ConservedInv /\ AttemptsMatch /\ Schedule

LEMMA IInvAlways == Spec => []IInv
<1>1. Init => IInv
  BY ConservedInit, AttemptsInit, ScheduleInit DEF IInv
<1>2. IInv /\ [Next]_vars => IInv'
  BY ConservedStep, AttemptsStep, ScheduleStep DEF IInv
<1> QED
  BY <1>1, <1>2, PTL DEF Spec

(* A failed task waits its full CheckPeriod before any worker gets it      *)
(* again.                                                                  *)
THEOREM RetriesWait == Spec => RetryAfterPeriod
<1>1. IInv /\ [Next]_vars =>
        [\A t \in Task :
           attempts'[t] > attempts[t] /\ attempts[t] > 0 => now >= failedAt[t] + CheckPeriod]_vars
  <2> SUFFICES ASSUME IInv, [Next]_vars, NEW t \in Task,
                      attempts'[t] > attempts[t], attempts[t] > 0
               PROVE  now >= failedAt[t] + CheckPeriod
    OBVIOUS
  <2> USE DEF poolVars, dispatchVars, historyVars
  <2>1. /\ TypeOK /\ now \in Nat /\ failedAt[t] \in Nat /\ CheckPeriod \in Nat
        /\ attempts \in [Task -> Nat]
    BY DEF IInv, ConservedInv, TypeOK, TaskPoolAssumption
  <2>2. CASE Send
    <3>1. Head(tasks) \in Range(tasks) /\ Head(tasks) \in Task
      BY <2>1, <2>2, TailFacts DEF Send, TypeOK
    <3>2. t = Head(tasks)
      BY <2>1, <2>2, <3>1 DEF Send
    <3> QED
      BY <3>1, <3>2, <2>1 DEF IInv, Schedule
  <2>3. CASE UNCHANGED attempts
    BY <2>1, <2>3
  <2> QED
    BY <2>2, <2>3
    DEF Next, vars, Clock, Consume, AddTask, Tick, GetToProcessTasks, EndSend, ProcessTask,
        Report, RetryTask, DropExhausted, DropFatal, End
<1> QED
  BY <1>1, IInvAlways, PTL DEF Spec, RetryAfterPeriod

(* Looking at the prefix of retryTasks that is due finds every due task.   *)
THEOREM FetchTakesAllDue == Spec => NoDueTaskLeft
<1>1. IInv /\ [Next]_vars =>
        [phase = "fetch" /\ phase' = "send" =>
           \A t \in Range(retryTasks') : checkTime[t] > fetchTime]_vars
  <2> SUFFICES ASSUME IInv, [Next]_vars, phase = "fetch", phase' = "send",
                      NEW t \in Range(retryTasks')
               PROVE  checkTime[t] > fetchTime
    OBVIOUS
  <2> USE DEF poolVars, dispatchVars, historyVars
  <2>1. /\ retryTasks \in Seq(Task) /\ checkTime \in [Task -> Nat] /\ fetchTime \in Nat
    BY DEF IInv, ConservedInv, TypeOK
  <2>2. GetToProcessTasks
    BY DEF Next, vars, Clock, Consume, AddTask, Tick, Send, EndSend, ProcessTask,
           Report, RetryTask, DropExhausted, DropFatal, End
  <2>3. PICK n \in 0 .. Len(retryTasks) :
           DuePrefix(n) /\ retryTasks' = SubSeq(retryTasks, n + 1, Len(retryTasks))
    BY <2>2 DEF GetToProcessTasks, Remaining
  <2>4. /\ Len(retryTasks') = Len(retryTasks) - n
        /\ retryTasks' \in Seq(Task)
        /\ \A i \in 1 .. Len(retryTasks') : retryTasks'[i] = retryTasks[i + n]
    BY <2>1, <2>3, SplitFacts
  <2>5. PICK i \in 1 .. Len(retryTasks') : t = retryTasks[i + n]
    BY <2>4 DEF Range
  <2>6. /\ n < Len(retryTasks) /\ i + n \in 1 .. Len(retryTasks) /\ n + 1 \in 1 .. Len(retryTasks)
        /\ retryTasks[n + 1] \in Task /\ retryTasks[i + n] \in Task
        /\ n + 1 <= i + n
    BY <2>1, <2>4
  <2>7. checkTime[retryTasks[n + 1]] > fetchTime
    BY <2>1, <2>3, <2>6 DEF DuePrefix, Due
  <2>8. checkTime[retryTasks[n + 1]] <= checkTime[retryTasks[i + n]]
    BY <2>1, <2>6 DEF IInv, Schedule, RetrySorted
  <2> QED
    BY <2>1, <2>5, <2>6, <2>7, <2>8
<1> QED
  BY <1>1, IInvAlways, PTL DEF Spec, NoDueTaskLeft

-----------------------------------------------------------------------------
(* Refinement.  status stands for the life-cycle state of every task.      *)

status == [t \in Task |-> LifeStatus(t)]

LEMMA StatusType == IInv => status \in [Task -> Life!Status]
BY DEF status, LifeStatus, IInv, ConservedInv, TypeOK, Outcome, Life!Status

(* A worker ends its task with outcome r.                                  *)
LEMMA StatusAfterEnd ==
    ASSUME IInv, NEW w \in Worker, NEW r \in Outcome \ {"open"}, End(w, r)
    PROVE  /\ running[w] \in Task
           /\ status[running[w]] = "running"
           /\ status' = [status EXCEPT ![running[w]] = r]
           /\ attempts' = attempts
<1> DEFINE t == running[w]
<1>1. /\ t \in Task /\ t /= NoTask /\ Busy(t) /\ running[w] = t
      /\ running' = [running EXCEPT ![w] = NoTask]
      /\ outcome' = [outcome EXCEPT ![t] = r] /\ outcome \in [Task -> Outcome]
      /\ attempts' = attempts
  BY WorkerFacts DEF IInv, ConservedInv, TypeOK, End, Busy
<1>2. outcome[t] = "open"
  BY <1>1, ConservedForm DEF IInv, ConservedInv, OpenIsHeld
<1>3. \A u \in Task : Busy(u)' <=> Busy(u) /\ u /= t
  BY <1>1, BusyAfterEnd DEF IInv
<1> HIDE DEF t
<1>4. status[t] = "running"
  BY <1>1, <1>2 DEF status, LifeStatus, Busy
<1>5. \A u \in Task : LifeStatus(u)' = IF u = t THEN r ELSE LifeStatus(u)
  BY <1>1, <1>3 DEF LifeStatus, Busy
<1>6. status' = [status EXCEPT ![t] = r]
  BY <1>5 DEF status
<1> QED
  BY <1>1, <1>4, <1>6

LEMMA LifeStep == IInv /\ [Next]_vars => [Life!LifeNext]_(Life!lifeVars)
<1> SUFFICES ASSUME IInv, [Next]_vars
             PROVE  Life!LifeNext \/ (status' = status /\ attempts' = attempts)
  BY DEF Life!lifeVars, status
<1> USE DEF poolVars, dispatchVars, historyVars
<1>0. /\ TypeOK /\ ConservedInv /\ OpenIsHeld /\ Distinct /\ FreshTraces
      /\ attempts \in [Task -> Nat] /\ retryTimes \in [Task -> Nat]
      /\ outcome \in [Task -> Outcome] /\ RetryTimes \in Nat
  BY ConservedForm DEF IInv, ConservedInv, TypeOK, TaskPoolAssumption
<1>1. ASSUME UNCHANGED <<outcome, running, attempts>>
      PROVE  status' = status /\ attempts' = attempts
  BY <1>1 DEF status, LifeStatus
<1>2. ASSUME NEW tr \in Traces, Consume(tr)
      PROVE  Life!LifeNext
  <2>1. \A t \in Range(pending') : t \in Task /\ t[1] = tr
    BY <1>2, PlanFacts DEF Consume
  <2>2. /\ \A t \in Task : outcome'[t] = IF t \in Range(pending') THEN "open" ELSE outcome[t]
        /\ tr \notin consumed /\ UNCHANGED <<running, attempts>>
    BY <1>2, <1>0 DEF Consume
  <2>3. \A t \in Range(pending') : outcome[t] = "absent" /\ ~Busy(t)
    BY <2>1, <2>2, <1>0 DEF FreshTraces, OpenIsHeld
  <2>4. \A t \in Task :
           LifeStatus(t)' = IF t \in Range(pending') THEN "queued" ELSE LifeStatus(t)
    BY <2>2, <2>3 DEF LifeStatus, Busy
  <2>5. \A t \in Range(pending') : LifeStatus(t) = "absent"
    BY <2>3 DEF LifeStatus
  <2>6. status' \in [Task -> Life!Status]
    BY <2>4, StatusType DEF status, Life!Status
  <2>7. Life!Submit
    BY <2>2, <2>4, <2>5, <2>6 DEF Life!Submit, status
  <2> QED
    BY <2>7 DEF Life!LifeNext
<1>3. CASE Send
  <2> DEFINE h == Head(tasks)
  <2>1. h \in Task /\ h \in Queued
    BY <1>0, <1>3, TailFacts DEF Send, TypeOK, Queued
  <2>2. outcome[h] = "open" /\ ~Busy(h)
    BY <2>1, <1>0 DEF OpenIsHeld, Distinct, Busy
  <2>3. /\ taskIndex \in Worker /\ running[taskIndex] = NoTask
        /\ running' = [running EXCEPT ![taskIndex] = h]
        /\ attempts' = [attempts EXCEPT ![h] = @ + 1]
        /\ outcome' = outcome
    BY <1>0, <1>3 DEF Send, TypeOK
  <2> HIDE DEF h
  <2>4. \A u \in Task : Busy(u)' <=> Busy(u) \/ u = h
    BY <1>0, <2>1, <2>3, BusyAfterReceive
  <2>5. \A u \in Task : LifeStatus(u)' = IF u = h THEN "running" ELSE LifeStatus(u)
    BY <2>2, <2>3, <2>4 DEF LifeStatus, Busy
  <2>6. status' = [status EXCEPT ![h] = "running"]
    BY <2>5 DEF status
  <2>7. status[h] = "queued"
    BY <2>1, <2>2 DEF status, LifeStatus, Busy
  <2>8. attempts[h] < MaxAttempts(h)
    BY <2>1, <2>2 DEF IInv, AttemptsMatch
  <2>9. Life!Begin(h)
    BY <2>1, <2>3, <2>6, <2>7, <2>8 DEF Life!Begin, status
  <2> QED
    BY <2>1, <2>9 DEF Life!LifeNext
<1>4. ASSUME NEW w \in Worker, Report(w)
      PROVE  Life!LifeNext
  <2>1. Life!Finish(running[w]) /\ running[w] \in Task
    BY <1>4, StatusAfterEnd DEF Report, Life!Finish, status, Outcome
  <2> QED
    BY <2>1 DEF Life!LifeNext
<1>5. ASSUME NEW w \in Worker, DropFatal(w)
      PROVE  Life!LifeNext
  <2>1. Life!GiveUp(running[w]) /\ running[w] \in Task
    BY <1>5, StatusAfterEnd DEF DropFatal, Life!GiveUp, status, Outcome
  <2> QED
    BY <2>1 DEF Life!LifeNext
<1>6. ASSUME NEW w \in Worker, DropExhausted(w)
      PROVE  Life!LifeNext
  <2> DEFINE t == running[w]
  <2>1. /\ t \in Task /\ status[t] = "running" /\ attempts' = attempts
        /\ status' = [status EXCEPT ![t] = "exhausted"] /\ ~MayRetry(t)
    BY <1>6, StatusAfterEnd DEF DropExhausted, Outcome
  <2>2. Busy(t)
    BY <1>6 DEF Busy
  <2> HIDE DEF t
  <2>3. attempts[t] = retryTimes[t] + 1 /\ retryTimes[t] < MaxAttempts(t)
    BY <2>1, <2>2 DEF IInv, AttemptsMatch
  <2>4. attempts[t] = MaxAttempts(t)
    BY <1>0, <2>1, <2>3 DEF MayRetry, MaxAttempts
  <2>5. Life!GiveUp(t)
    BY <2>1, <2>4 DEF Life!GiveUp, status
  <2> QED
    BY <2>1, <2>5 DEF Life!LifeNext
<1>7. ASSUME NEW w \in Worker, RetryTask(w)
      PROVE  Life!LifeNext
  <2> DEFINE t == running[w]
  <2>1. /\ t \in Task /\ t /= NoTask /\ Busy(t)
        /\ running' = [running EXCEPT ![w] = NoTask]
        /\ ~IgnoreRetry(t) /\ retryTimes[t] < RetryTimes
        /\ UNCHANGED <<outcome, attempts>>
    BY <1>7, <1>0, WorkerFacts DEF RetryTask, MayRetry, Busy
  <2>2. \A u \in Task : Busy(u)' <=> Busy(u) /\ u /= t
    BY <1>0, <2>1, BusyAfterEnd
  <2> HIDE DEF t
  <2>3. outcome[t] = "open" /\ attempts[t] = retryTimes[t] + 1
    BY <1>0, <2>1 DEF OpenIsHeld, IInv, AttemptsMatch
  <2>4. \A u \in Task : LifeStatus(u)' = IF u = t THEN "queued" ELSE LifeStatus(u)
    BY <2>1, <2>2, <2>3 DEF LifeStatus, Busy
  <2>5. status' = [status EXCEPT ![t] = "queued"]
    BY <2>4 DEF status
  <2>6. status[t] = "running"
    BY <2>1, <2>3 DEF status, LifeStatus, Busy
  <2>7. attempts[t] < MaxAttempts(t)
    BY <1>0, <2>1, <2>3 DEF MaxAttempts
  <2>8. Life!Requeue(t)
    BY <2>1, <2>5, <2>6, <2>7 DEF Life!Requeue, status
  <2> QED
    BY <2>1, <2>8 DEF Life!LifeNext
<1> QED
  BY <1>1, <1>2, <1>3, <1>4, <1>5, <1>6, <1>7
  DEF Next, vars, Clock, AddTask, Tick, GetToProcessTasks, EndSend, ProcessTask

(* The queues, the dispatcher and the workers together implement the life  *)
(* cycle that TaskLife promises for each task.                             *)
THEOREM PoolImplementsLife == Spec => ImplementsLife
<1>1. Init => Life!LifeInit
  <2> SUFFICES ASSUME Init PROVE Life!LifeInit
    OBVIOUS
  <2> QED
    BY DEF Init, Life!LifeInit, LifeStatus
<1> QED
  BY <1>1, LifeStep, IInvAlways, PTL DEF Spec, ImplementsLife, Life!LifeSpec

-----------------------------------------------------------------------------
(* First attempts.  The tasks added but not handed out yet are the last    *)
(* ones of arrivals: first the new tasks of the batch, which precede its   *)
(* retried ones, then todoTasks.                                           *)

HandedOut(m) == Len(arrivals) - Len(todoTasks) - m

NewInBatch(m) ==
    LET b == HandedOut(m) IN
    /\ b \in Nat
    /\ \A i \in 1 .. b : attempts[arrivals[i]] > 0
    /\ \A i \in b + 1 .. Len(arrivals) : attempts[arrivals[i]] = 0
    /\ \A i \in 1 .. m : tasks[i] = arrivals[b + i]
    /\ \A i \in m + 1 .. Len(tasks) : attempts[tasks[i]] > 0
    /\ \A i \in 1 .. Len(todoTasks) : todoTasks[i] = arrivals[b + m + i]

ArrivalOrder ==
    /\ IsInjective(arrivals)
    /\ \A t \in Range(arrivals) : outcome[t] /= "absent" /\ t \notin Range(pending)
    /\ \E m \in 0 .. Len(tasks) : NewInBatch(m)

LEMMA ArrivalInit == Init => ArrivalOrder
<1> SUFFICES ASSUME Init PROVE ArrivalOrder
  OBVIOUS
<1>1. IsInjective(arrivals) /\ Range(arrivals) = {}
  BY DEF Init, IsInjective, Range
<1>2. 0 \in 0 .. Len(tasks) /\ NewInBatch(0)
  BY DEF Init, NewInBatch, HandedOut
<1> QED
  BY <1>1, <1>2 DEF ArrivalOrder

LEMMA ArrivalStep == IInv /\ ArrivalOrder /\ [Next]_vars => ArrivalOrder'
<1> SUFFICES ASSUME IInv, ArrivalOrder, [Next]_vars
             PROVE  ArrivalOrder'
  OBVIOUS
<1> USE DEF poolVars, dispatchVars, historyVars
<1>0. /\ TypeOK /\ Distinct /\ OpenIsHeld /\ FreshTraces /\ BatchSent
      /\ AttemptsMatch /\ Schedule
  BY ConservedForm DEF IInv, ConservedInv
<1>a. /\ arrivals \in Seq(Task) /\ tasks \in Seq(Task) /\ todoTasks \in Seq(Task)
      /\ pending \in Seq(Task) /\ retryTasks \in Seq(Task)
      /\ attempts \in [Task -> Nat] /\ outcome \in [Task -> Outcome]
  BY <1>0 DEF TypeOK
<1>b. PICK m \in 0 .. Len(tasks) : NewInBatch(m)
  BY DEF ArrivalOrder
<1>h. PICK b \in Nat : b = HandedOut(m)
  BY <1>b DEF NewInBatch
<1>d. /\ \A i \in 1 .. b : attempts[arrivals[i]] > 0
      /\ \A i \in b + 1 .. Len(arrivals) : attempts[arrivals[i]] = 0
      /\ \A i \in 1 .. m : tasks[i] = arrivals[b + i]
      /\ \A i \in m + 1 .. Len(tasks) : attempts[tasks[i]] > 0
      /\ \A i \in 1 .. Len(todoTasks) : todoTasks[i] = arrivals[b + m + i]
  BY <1>b, <1>h DEF NewInBatch
<1>s. /\ b \in Nat /\ m \in Nat /\ m <= Len(tasks)
      /\ Len(arrivals) \in Nat /\ Len(tasks) \in Nat /\ Len(todoTasks) \in Nat
      /\ b + m + Len(todoTasks) = Len(arrivals)
  BY <1>a, <1>h DEF HandedOut
<1>c. \A i \in 1 .. Len(arrivals) : arrivals[i] \in Task /\ arrivals[i] \in Range(arrivals)
  BY <1>a DEF Range
<1>1. ASSUME UNCHANGED <<arrivals, tasks, todoTasks, attempts, pending>>,
             \A t \in Task : outcome[t] /= "absent" => outcome'[t] /= "absent"
      PROVE  ArrivalOrder'
  <2>1. NewInBatch(m)'
    BY <1>1, <1>b DEF NewInBatch, HandedOut
  <2>2. Range(arrivals) \subseteq Task
    BY <1>a DEF Range
  <2> QED
    BY <1>1, <2>1, <2>2 DEF ArrivalOrder
<1>2. ASSUME NEW tr \in Traces, Consume(tr)
      PROVE  ArrivalOrder'
  <2>1. \A t \in Range(pending') : t \in Task /\ t[1] = tr
    BY <1>2, PlanFacts DEF Consume
  <2>2. /\ \A t \in Task : outcome'[t] = IF t \in Range(pending') THEN "open" ELSE outcome[t]
        /\ tr \notin consumed
        /\ UNCHANGED <<arrivals, tasks, todoTasks, attempts>>
    BY <1>2, <1>a DEF Consume
  <2>3. \A t \in Range(pending') : outcome[t] = "absent"
    BY <2>1, <2>2, <1>0 DEF FreshTraces
  <2>4. NewInBatch(m)'
    BY <2>2, <1>b DEF NewInBatch, HandedOut
  <2>5. Range(arrivals) \subseteq Task
    BY <1>a DEF Range
  <2> QED
    BY <2>2, <2>3, <2>4, <2>5 DEF ArrivalOrder
<1>3. CASE AddTask
  <2> DEFINE h == Head(pending)
  <2>1. /\ h \in Task /\ h \in Range(pending)
        /\ Range(pending) = {h} \cup Range(pending') /\ h \notin Range(pending')
    BY <1>0, <1>3, <1>a, TailFacts DEF AddTask, Distinct
  <2>2. /\ todoTasks' = Append(todoTasks, h) /\ arrivals' = Append(arrivals, h)
        /\ UNCHANGED <<tasks, attempts, outcome>>
    BY <1>3 DEF AddTask, Enqueue
  <2> HIDE DEF h
  <2>3. h \notin Range(arrivals)
    BY <2>1 DEF ArrivalOrder
  <2>4. IsInjective(arrivals') /\ Range(arrivals') = Range(arrivals) \cup {h}
    BY <1>a, <2>1, <2>2, <2>3, AppendFacts DEF ArrivalOrder
  <2>5. attempts[h] = 0 /\ outcome[h] /= "absent"
    BY <1>0, <2>1 DEF Schedule, OpenIsHeld, Queued
  <2>6. /\ Len(arrivals') = Len(arrivals) + 1 /\ arrivals'[Len(arrivals) + 1] = h
        /\ \A i \in 1 .. Len(arrivals) : arrivals'[i] = arrivals[i]
        /\ Len(todoTasks') = Len(todoTasks) + 1 /\ todoTasks'[Len(todoTasks) + 1] = h
        /\ \A i \in 1 .. Len(todoTasks) : todoTasks'[i] = todoTasks[i]
    BY <1>a, <2>1, <2>2
  <2>7. NewInBatch(m)'
    <3>1. HandedOut(m)' = b
      BY <1>s, <2>6 DEF HandedOut
    <3>2. \A i \in 1 .. b : attempts[arrivals'[i]] > 0
      <4>1. \A i \in 1 .. b : i \in 1 .. Len(arrivals)
        BY <1>s
      <4> QED
        BY <4>1, <1>d, <2>6
    <3>3. \A i \in b + 1 .. Len(arrivals') : attempts[arrivals'[i]] = 0
      <4>1. \A i \in b + 1 .. Len(arrivals') :
               \/ i \in b + 1 .. Len(arrivals) /\ i \in 1 .. Len(arrivals)
               \/ i = Len(arrivals) + 1
        BY <1>s, <2>6
      <4> QED
        BY <4>1, <1>d, <2>5, <2>6
    <3>4. \A i \in 1 .. m : tasks[i] = arrivals'[b + i]
      <4>1. \A i \in 1 .. m : b + i \in 1 .. Len(arrivals)
        BY <1>s
      <4> QED
        BY <4>1, <1>d, <2>6
    <3>5. \A i \in 1 .. Len(todoTasks') : todoTasks'[i] = arrivals'[b + m + i]
      <4>1. \A i \in 1 .. Len(todoTasks) : b + m + i \in 1 .. Len(arrivals)
        BY <1>s
      <4>2. b + m + (Len(todoTasks) + 1) = Len(arrivals) + 1
        BY <1>s
      <4>3. ASSUME NEW i \in 1 .. Len(todoTasks')
            PROVE  todoTasks'[i] = arrivals'[b + m + i]
        <5>1. CASE i \in 1 .. Len(todoTasks)
          BY <5>1, <4>1, <1>d, <2>6
        <5>2. CASE i = Len(todoTasks) + 1
          BY <5>2, <4>2, <2>6
        <5> QED
          BY <5>1, <5>2, <2>6
      <4> QED
        BY <4>3
    <3> QED
      BY <1>d, <2>2, <3>1, <3>2, <3>3, <3>4, <3>5 DEF NewInBatch
  <2> QED
    BY <2>1, <2>2, <2>4, <2>5, <2>7 DEF ArrivalOrder
<1>4. CASE GetToProcessTasks
  <2>1. PICK n \in 0 .. Len(retryTasks) : tasks' = todoTasks \o SubSeq(retryTasks, 1, n)
    BY <1>4 DEF GetToProcessTasks
  <2> DEFINE due == SubSeq(retryTasks, 1, n)
  <2>2. /\ due \in Seq(Task) /\ Len(due) = n
        /\ \A i \in 1 .. n : due[i] = retryTasks[i]
    BY <1>a, SplitFacts
  <2>3. \A i \in 1 .. n : attempts[due[i]] > 0
    <3> SUFFICES ASSUME NEW i \in 1 .. n PROVE attempts[due[i]] > 0
      OBVIOUS
    <3>1. retryTasks[i] \in Range(retryTasks)
      BY <1>a DEF Range
    <3> QED
      BY <3>1, <2>2, <1>0 DEF Schedule
  <2>4. tasks' = todoTasks \o due /\ todoTasks' = <<>> /\ tasks = <<>>
    BY <2>1, <1>0, <1>4 DEF GetToProcessTasks, BatchSent
  <2> HIDE DEF due
  <2>5. UNCHANGED <<arrivals, attempts, outcome, pending>>
    BY <1>4 DEF GetToProcessTasks
  <2>6. m = 0
    BY <2>4
  <2>7. /\ Len(tasks') = Len(todoTasks) + n
        /\ \A i \in 1 .. Len(todoTasks) : tasks'[i] = todoTasks[i]
        /\ \A i \in Len(todoTasks) + 1 .. Len(tasks') : tasks'[i] = due[i - Len(todoTasks)]
    <3>1. /\ Len(todoTasks \o due) = Len(todoTasks) + Len(due)
          /\ \A i \in 1 .. Len(todoTasks) : (todoTasks \o due)[i] = todoTasks[i]
          /\ \A i \in Len(todoTasks) + 1 .. Len(todoTasks) + Len(due) :
                (todoTasks \o due)[i] = due[i - Len(todoTasks)]
      <4>1. todoTasks \in Seq(Task) /\ due \in Seq(Task)
        BY <1>a, <2>2
      <4> QED
        BY <4>1, ConcatIndex, Zenon
    <3>2. Len(due) = n /\ tasks' = todoTasks \o due
      BY <2>2, <2>4
    <3> QED
      BY <3>1, <3>2, Zenon
  <2>8. \A i \in Len(todoTasks) + 1 .. Len(tasks') : attempts[tasks'[i]] > 0
    <3> SUFFICES ASSUME NEW i \in Len(todoTasks) + 1 .. Len(tasks')
                 PROVE  attempts[tasks'[i]] > 0
      OBVIOUS
    <3>1. i - Len(todoTasks) \in 1 .. n
      BY <1>a, <2>7
    <3> QED
      BY <3>1, <2>3, <2>7
  <2>9. PICK k \in Nat : k = Len(todoTasks)
    BY <1>s
  <2>10. k \in 0 .. Len(tasks') /\ Len(todoTasks') = 0 /\ b + k = Len(arrivals)
    BY <1>s, <2>4, <2>6, <2>7, <2>9
  <2>11. NewInBatch(k)'
    <3>1. HandedOut(k)' = b
      BY <1>s, <2>5, <2>9, <2>10 DEF HandedOut
    <3>2. \A i \in 1 .. k : tasks'[i] = arrivals[b + i]
      <4> SUFFICES ASSUME NEW i \in 1 .. k PROVE tasks'[i] = arrivals[b + i]
        OBVIOUS
      <4>1. todoTasks[i] = arrivals[b + m + i] /\ b + m + i = b + i
        BY <1>s, <1>d, <2>6, <2>9
      <4> QED
        BY <4>1, <2>7, <2>9
    <3>3. \A i \in k + 1 .. Len(tasks') : attempts[tasks'[i]] > 0
      BY <2>8, <2>9
    <3>4. \A i \in 1 .. Len(todoTasks') : todoTasks'[i] = arrivals[b + k + i]
      BY <2>10
    <3> QED
      BY <1>s, <1>d, <2>5, <3>1, <3>2, <3>3, <3>4 DEF NewInBatch
  <2>12. \E l \in 0 .. Len(tasks') : NewInBatch(l)'
    BY <2>10, <2>11
  <2> QED
    BY <2>5, <2>12 DEF ArrivalOrder
<1>5. CASE Send
  <2> DEFINE h == Head(tasks)
  <2>1. /\ h \in Task /\ h = tasks[1] /\ tasks' = Tail(tasks)
        /\ attempts' = [attempts EXCEPT ![h] = @ + 1]
        /\ UNCHANGED <<arrivals, todoTasks, outcome, pending>>
    BY <1>a, <1>5, TailFacts DEF Send
  <2>2. /\ Len(tasks) > 0 /\ Len(tasks') = Len(tasks) - 1
        /\ \A i \in 1 .. Len(tasks') : tasks'[i] = tasks[i + 1]
    BY <1>a, <1>5 DEF Send
  <2> HIDE DEF h
  <2>3. /\ attempts'[h] = attempts[h] + 1
        /\ \A t \in Task : t /= h => attempts'[t] = attempts[t]
        /\ \A t \in Task : attempts[t] > 0 => attempts'[t] > 0
    BY <1>a, <2>1
  <2>4. \A i \in 1 .. Len(tasks) : tasks[i] \in Task
    BY <1>a
  <2>5. CASE m = 0
    <3>1. attempts[h] > 0
      BY <2>1, <2>2, <2>5, <1>d
    <3>2. \A i \in b + 1 .. Len(arrivals) : attempts'[arrivals[i]] = 0
      <4> SUFFICES ASSUME NEW i \in b + 1 .. Len(arrivals)
                   PROVE  attempts'[arrivals[i]] = 0
        OBVIOUS
      <4>1. i \in 1 .. Len(arrivals) /\ attempts[arrivals[i]] = 0
        BY <1>s, <1>d
      <4> QED
        BY <4>1, <3>1, <2>3, <1>c
    <3>3. \A i \in 1 .. b : attempts'[arrivals[i]] > 0
      <4>1. \A i \in 1 .. b : i \in 1 .. Len(arrivals)
        BY <1>s
      <4> QED
        BY <4>1, <1>d, <1>c, <2>3
    <3>4. \A i \in 1 .. Len(tasks') : attempts'[tasks'[i]] > 0
      <4> SUFFICES ASSUME NEW i \in 1 .. Len(tasks')
                   PROVE  attempts'[tasks'[i]] > 0
        OBVIOUS
      <4>1. i + 1 \in m + 1 .. Len(tasks) /\ i + 1 \in 1 .. Len(tasks)
        BY <1>a, <2>2, <2>5
      <4> QED
        BY <4>1, <1>d, <2>2, <2>3, <2>4
    <3>5. NewInBatch(0)'
      <4>1. HandedOut(0)' = b
        BY <1>s, <2>1, <2>5 DEF HandedOut
      <4> QED
        BY <1>d, <2>1, <2>5, <3>2, <3>3, <3>4, <4>1 DEF NewInBatch
    <3>6. 0 \in 0 .. Len(tasks')
      BY <1>a, <2>2
    <3>7. \E k \in 0 .. Len(tasks') : NewInBatch(k)'
      BY <3>5, <3>6
    <3> QED
      BY <2>1, <3>7 DEF ArrivalOrder
  <2>6. CASE m > 0
    <3>1. /\ b \in Nat /\ b + 1 \in 1 .. Len(arrivals) /\ h = arrivals[b + 1]
      <4>1. b + 1 \in 1 .. Len(arrivals) /\ 1 \in 1 .. m
        BY <1>s, <2>6
      <4> QED
        BY <4>1, <1>s, <1>d, <2>1
    <3>2. \A i \in b + 2 .. Len(arrivals) : attempts'[arrivals[i]] = 0
      <4> SUFFICES ASSUME NEW i \in b + 2 .. Len(arrivals)
                   PROVE  attempts'[arrivals[i]] = 0
        OBVIOUS
      <4>1. i \in 1 .. Len(arrivals) /\ i \in b + 1 .. Len(arrivals) /\ i /= b + 1
        BY <1>a, <3>1, <1>d
      <4>2. arrivals[i] /= h
        <5>1. DOMAIN arrivals = 1 .. Len(arrivals)
          BY <1>a
        <5> QED
          BY <5>1, <3>1, <4>1 DEF ArrivalOrder, IsInjective
      <4> QED
        BY <4>1, <4>2, <2>3, <1>d, <1>c
    <3>3. \A i \in 1 .. b + 1 : attempts'[arrivals[i]] > 0
      <4> SUFFICES ASSUME NEW i \in 1 .. b + 1
                   PROVE  attempts'[arrivals[i]] > 0
        OBVIOUS
      <4>1. CASE i = b + 1
        BY <4>1, <3>1, <2>1, <2>3, <1>a
      <4>2. CASE i \in 1 .. b
        BY <4>2, <3>1, <2>3, <1>a, <1>d, <1>c
      <4> QED
        BY <4>1, <4>2, <3>1
    <3>4. \A i \in m .. Len(tasks') : attempts'[tasks'[i]] > 0
      <4> SUFFICES ASSUME NEW i \in m .. Len(tasks')
                   PROVE  attempts'[tasks'[i]] > 0
        OBVIOUS
      <4>1. /\ i + 1 \in m + 1 .. Len(tasks) /\ i + 1 \in 1 .. Len(tasks)
            /\ i \in 1 .. Len(tasks')
        BY <1>a, <2>2, <2>6
      <4> QED
        BY <4>1, <1>d, <2>2, <2>3, <2>4
    <3>5. \A i \in 1 .. m - 1 : tasks'[i] = arrivals[b + 1 + i]
      <4> SUFFICES ASSUME NEW i \in 1 .. m - 1
                   PROVE  tasks'[i] = arrivals[b + 1 + i]
        OBVIOUS
      <4>1. i + 1 \in 1 .. m /\ i \in 1 .. Len(tasks') /\ b + (i + 1) = b + 1 + i
        BY <1>a, <2>2, <2>6, <3>1
      <4>2. tasks[i + 1] = arrivals[b + (i + 1)]
        BY <4>1, <1>d
      <4> QED
        BY <4>1, <4>2, <2>2
    <3>6. \A i \in 1 .. Len(todoTasks) : todoTasks[i] = arrivals[b + m + i]
      BY <1>d
    <3>7. m - 1 \in 0 .. Len(tasks')
      BY <1>a, <2>2, <2>6
    <3>8. HandedOut(m - 1)' = b + 1
      BY <1>s, <2>1 DEF HandedOut
    <3>9. NewInBatch(m - 1)'
      <4>1. (b + 1) + 1 = b + 2 /\ (m - 1) + 1 = m /\ b + 1 \in Nat
        BY <3>1
      <4>2. \A i \in 1 .. Len(todoTasks) : (b + 1) + (m - 1) + i = b + m + i
        BY <3>1
      <4>3. \A i \in 1 .. Len(todoTasks) : todoTasks[i] = arrivals[(b + 1) + (m - 1) + i]
        BY <3>6, <4>2
      <4> QED
        BY <2>1, <3>2, <3>3, <3>4, <3>5, <3>8, <4>1, <4>3 DEF NewInBatch
    <3>10. \E k \in 0 .. Len(tasks') : NewInBatch(k)'
      BY <3>7, <3>9
    <3> QED
      BY <2>1, <3>10 DEF ArrivalOrder
  <2> QED
    BY <2>5, <2>6
<1>6. ASSUME NEW w \in Worker, ProcessTask(w)
      PROVE  ArrivalOrder'
  <2>1. running[w] \in Task \/ running[w] = NoTask
    BY <1>0 DEF TypeOK
  <2>2. \A t \in Task : outcome[t] /= "absent" => outcome'[t] /= "absent"
    BY <1>6, <2>1, <1>a
    DEF ProcessTask, Report, DropExhausted, DropFatal, End, RetryTask
  <2> QED
    BY <1>1, <1>6, <2>2 DEF ProcessTask, Report, DropExhausted, DropFatal, End, RetryTask
<1> QED
  BY <1>1, <1>2, <1>3, <1>4, <1>5, <1>6 DEF Next, vars, Clock, Tick, EndSend

(* Tasks are first handed to workers in the order addTask received them.   *)
THEOREM FirstAttemptsInOrder == Spec => []FirstAttemptFIFO
<1>1. TypeOK /\ ArrivalOrder => FirstAttemptFIFO
  <2> SUFFICES ASSUME TypeOK, ArrivalOrder,
                      NEW i \in 1 .. Len(arrivals), NEW j \in 1 .. Len(arrivals),
                      i < j, attempts[arrivals[j]] > 0
               PROVE  attempts[arrivals[i]] > 0
    BY DEF FirstAttemptFIFO
  <2>1. PICK m \in 0 .. Len(tasks) : NewInBatch(m)
    BY DEF ArrivalOrder
  <2>2. /\ arrivals \in Seq(Task) /\ todoTasks \in Seq(Task) /\ tasks \in Seq(Task)
    BY DEF TypeOK
  <2> DEFINE b == HandedOut(m)
  <2>3. b \in Int /\ \A k \in b + 1 .. Len(arrivals) : attempts[arrivals[k]] = 0
    BY <2>1, <2>2 DEF NewInBatch
  <2>4. j \notin b + 1 .. Len(arrivals)
    BY <2>3
  <2>5. i \in 1 .. b
    BY <2>3, <2>4
  <2> QED
    BY <2>1, <2>5 DEF NewInBatch
<1>2. Init => ArrivalOrder
  BY ArrivalInit
<1> QED
  BY <1>1, <1>2, ArrivalStep, IInvAlways, TypeCorrect, PTL DEF Spec
=============================================================================
