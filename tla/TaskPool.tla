------------------------------ MODULE TaskPool ------------------------------
(***************************************************************************)
(* The task pipeline of the report analyzer (pkg/analyzer/analyzer.go).    *)
(*                                                                         *)
(* Consume turns a notified trace into tasks and adds them, one addTask    *)
(* call after the other, to the pool.  The checkTask goroutine fetches     *)
(* what is due once a tick and hands the tasks, round robin, to            *)
(* ThreadCount workers over unbuffered channels.  A worker builds the      *)
(* report of its task; when that fails it puts the task back for           *)
(* CheckPeriod seconds later, or drops it.                                 *)
(***************************************************************************)
EXTENDS Naturals, Sequences, Functions

CONSTANTS
    Traces,       \* the model.Traces objects Consume builds, one per notified trace id
    CwTraces,     \* those whose apmType is "cw": their tasks ignore retry
    ThreadCount,  \* cfg.ThreadCount, the number of workers
    RetryTimes,   \* cfg.RetryTimes
    CheckPeriod,  \* taskPool.checkPeriod, in seconds
    MaxTime,      \* bound: the clock stops here
    NoTask        \* an idle worker

ReportType == {"slow", "error", "normal"}
Task == Traces \X ReportType
Worker == 0 .. ThreadCount - 1

ASSUME TaskPoolAssumption ==
    /\ CwTraces \subseteq Traces
    /\ ThreadCount \in Nat \ {0}
    /\ RetryTimes \in Nat
    /\ CheckPeriod \in Nat \ {0}
    /\ MaxTime \in Nat
    /\ NoTask \notin Task

VARIABLES
    now,          \* time.Now().Unix()
    consumed,     \* the traces the subscriber has consumed
    pending,      \* the addTask calls the running Consume still has to make
    todoTasks,    \* taskPool.todoTasks
    retryTasks,   \* taskPool.retryTasks
    retryTimes,   \* traceTask.retryTimes
    checkTime,    \* traceTask.checkTime
    phase,        \* where checkTask stands: "ticker", "fetch" or "send"
    fetchTime,    \* checkTask's local checkTime
    tasks,        \* checkTask's local tasks, those still to send
    taskIndex,    \* the worker the next task is sent to
    running,      \* the task each worker is processing
    outcome,      \* history: how each task ended
    attempts,     \* history: how many times each task was handed to a worker
    failedAt,     \* history: when a task last failed
    arrivals      \* history: the order of the addTask calls

poolVars == <<consumed, pending, todoTasks, retryTasks, retryTimes, checkTime>>
dispatchVars == <<phase, fetchTime, tasks, taskIndex>>
historyVars == <<outcome, attempts, failedAt, arrivals>>
vars == <<now, poolVars, dispatchVars, running, historyVars>>

IgnoreRetry(t) == t[1] \in CwTraces

MaxAttempts(t) == IF IgnoreRetry(t) THEN 1 ELSE RetryTimes + 1

\* The report types Consume may choose for a trace, in the order it adds them.
\* <<>>: single or changed-sample traces, or nothing (left) to send.
ReportPlans == {<<>>, <<"slow">>, <<"error">>, <<"slow", "error">>, <<"normal">>}

-----------------------------------------------------------------------------
(* Small parts of the actions, each beside the slip it could contain: the  *)
(* variants named ...Slip are used by no action.                           *)

\* processTask: is a failure worth a retry followed by one?
MayRetrySlip(t) == ~IgnoreRetry(t) /\ retryTimes[t] <= RetryTimes
MayRetry(t) == ~IgnoreRetry(t) /\ retryTimes[t] < RetryTimes

\* retryTask: the time from which the task may be fetched again.
StaleTimeSlip(t) == fetchTime + CheckPeriod
PerTypeSlip(t) == now + CheckPeriod * (IF t[2] = "slow" THEN 2 ELSE 1)
NextCheckTime(t) == now + CheckPeriod

\* addTask
EnqueueSlip(t) == <<t>> \o todoTasks
Enqueue(t) == Append(todoTasks, t)

\* getToProcessTasks takes the first n retry tasks: it stops at the first
\* that is not due.
Due(i) == checkTime[retryTasks[i]] <= fetchTime
DuePrefixSlip(n) ==
    /\ n < Len(retryTasks) => ~Due(n + 1) \/ n + 1 = Len(retryTasks)
    /\ \A i \in 1 .. n : Due(i)
DuePrefix(n) ==
    /\ n < Len(retryTasks) => ~Due(n + 1)
    /\ \A i \in 1 .. n : Due(i)

\* The retry tasks that remain.
RemainingSlip(n) == SubSeq(retryTasks, n + 2, Len(retryTasks))
Remaining(n) == SubSeq(retryTasks, n + 1, Len(retryTasks))

\* The worker after taskIndex.
NextIndexSlip == taskIndex + 1
NextIndex == IF taskIndex = ThreadCount - 1 THEN 0 ELSE taskIndex + 1

-----------------------------------------------------------------------------
Init ==
    /\ now = 0
    /\ consumed = {}
    /\ pending = <<>>
    /\ todoTasks = <<>>
    /\ retryTasks = <<>>
    /\ retryTimes = [t \in Task |-> 0]
    /\ checkTime = [t \in Task |-> 0]
    /\ phase = "ticker"
    /\ fetchTime = 0
    /\ tasks = <<>>
    /\ taskIndex = 0
    /\ running = [w \in Worker |-> NoTask]
    /\ outcome = [t \in Task |-> "absent"]
    /\ attempts = [t \in Task |-> 0]
    /\ failedAt = [t \in Task |-> 0]
    /\ arrivals = <<>>

\* Time passes. (Bound: not beyond MaxTime.)
Clock ==
    /\ now < MaxTime
    /\ now' = now + 1
    /\ UNCHANGED <<poolVars, dispatchVars, running, historyVars>>

-----------------------------------------------------------------------------
(* The subscriber.  It consumes one trace after the other, so no Consume   *)
(* begins before the addTask calls of the previous one are made.           *)

\* Consume(traceId): decide which tasks the trace needs.
Consume(tr) ==
    /\ pending = <<>>
    /\ tr \notin consumed
    /\ consumed' = consumed \cup {tr}
    /\ \E plan \in ReportPlans :
          /\ pending' = [i \in DOMAIN plan |-> <<tr, plan[i]>>]
          /\ outcome' = [t \in Task |->
                            IF t \in Range(pending') THEN "open" ELSE outcome[t]]
    /\ UNCHANGED <<now, todoTasks, retryTasks, retryTimes, checkTime, dispatchVars,
                   running, attempts, failedAt, arrivals>>

\* addTask(task)
AddTask ==
    /\ pending /= <<>>
    /\ todoTasks' = Enqueue(Head(pending))
    /\ pending' = Tail(pending)
    /\ arrivals' = Append(arrivals, Head(pending))
    /\ UNCHANGED <<now, consumed, retryTasks, retryTimes, checkTime, dispatchVars,
                   running, outcome, attempts, failedAt>>

-----------------------------------------------------------------------------
(* checkTask, up to the sends of one tick.  (What it then does to waitMap  *)
(* and checkMissMap is in module TraceTrigger.)                            *)

Tick ==
    /\ phase = "ticker"
    /\ phase' = "fetch"
    /\ fetchTime' = now
    /\ UNCHANGED <<now, poolVars, tasks, taskIndex, running, historyVars>>

GetToProcessTasks ==
    /\ phase = "fetch"
    /\ phase' = "send"
    /\ \E n \in 0 .. Len(retryTasks) :
          /\ DuePrefix(n)
          /\ tasks' = todoTasks \o SubSeq(retryTasks, 1, n)
          /\ retryTasks' = Remaining(n)
    /\ todoTasks' = <<>>
    /\ UNCHANGED <<now, consumed, pending, retryTimes, checkTime, fetchTime, taskIndex,
                   running, historyVars>>

\* taskChans[taskIndex] <- task: blocks until that worker is receiving.
Send ==
    /\ phase = "send"
    /\ tasks /= <<>>
    /\ running[taskIndex] = NoTask
    /\ running' = [running EXCEPT ![taskIndex] = Head(tasks)]
    /\ tasks' = Tail(tasks)
    /\ taskIndex' = NextIndex
    /\ attempts' = [attempts EXCEPT ![Head(tasks)] = @ + 1]
    /\ UNCHANGED <<now, poolVars, phase, fetchTime, outcome, failedAt, arrivals>>

EndSend ==
    /\ phase = "send"
    /\ tasks = <<>>
    /\ phase' = "ticker"
    /\ UNCHANGED <<now, poolVars, fetchTime, tasks, taskIndex, running, historyVars>>

-----------------------------------------------------------------------------
(* analyze and processTask of worker w.  buildReport succeeds, fails so    *)
(* that a retry makes sense, or fails for good.                            *)

EndSlip(w, result) ==
    /\ running[w] /= NoTask
    /\ outcome' = [outcome EXCEPT ![running[w]] = result]
    /\ UNCHANGED <<now, poolVars, dispatchVars, running, attempts, failedAt, arrivals>>
End(w, result) ==
    /\ running[w] /= NoTask
    /\ running' = [running EXCEPT ![w] = NoTask]
    /\ outcome' = [outcome EXCEPT ![running[w]] = result]
    /\ UNCHANGED <<now, poolVars, dispatchVars, attempts, failedAt, arrivals>>

Report(w) == End(w, "reported")

\* A failure worth a retry, of a task that may be retried.
\* (Bound: only while the retry falls within MaxTime.)
RetryTask(w) ==
    LET t == running[w] IN
    /\ t /= NoTask
    /\ MayRetry(t)
    /\ NextCheckTime(t) <= MaxTime
    /\ retryTimes' = [retryTimes EXCEPT ![t] = @ + 1]
    /\ checkTime' = [checkTime EXCEPT ![t] = NextCheckTime(t)]
    /\ retryTasks' = Append(retryTasks, t)
    /\ running' = [running EXCEPT ![w] = NoTask]
    /\ failedAt' = [failedAt EXCEPT ![t] = now]
    /\ UNCHANGED <<now, consumed, pending, todoTasks, dispatchVars, outcome, attempts,
                   arrivals>>

\* A failure worth a retry, of a task that may not be retried: recordDropReport.
DropExhausted(w) ==
    /\ running[w] /= NoTask
    /\ ~MayRetry(running[w])
    /\ End(w, "exhausted")

\* A failure that no retry can mend; building a normal report has none.
DropFatal(w) ==
    /\ running[w] /= NoTask
    /\ running[w][2] /= "normal"
    /\ End(w, "fatal")

ProcessTask(w) == Report(w) \/ RetryTask(w) \/ DropExhausted(w) \/ DropFatal(w)

-----------------------------------------------------------------------------
Next ==
    \/ Clock
    \/ \E tr \in Traces : Consume(tr)
    \/ AddTask
    \/ Tick
    \/ GetToProcessTasks
    \/ Send
    \/ EndSend
    \/ \E w \in Worker : ProcessTask(w)

Spec == Init /\ [][Next]_vars

\* Every goroutine keeps running and no call of the trace backend hangs
\* (the client has a timeout); nothing makes a trace be notified.
Fairness ==
    /\ WF_vars(Clock)
    /\ WF_vars(AddTask)
    /\ WF_vars(Tick)
    /\ WF_vars(GetToProcessTasks)
    /\ WF_vars(Send)
    /\ WF_vars(EndSend)
    /\ \A w \in Worker : WF_vars(ProcessTask(w))

FairSpec == Spec /\ Fairness

-----------------------------------------------------------------------------
(* Properties *)

Outcome == {"absent", "open", "reported", "exhausted", "fatal"}

\* Every variable of the pool, the dispatcher and the workers has its type;
\* in particular taskIndex always names a worker (analyzer.go:678).
TypeOK ==
    /\ now \in Nat
    /\ consumed \subseteq Traces
    /\ pending \in Seq(Task)
    /\ todoTasks \in Seq(Task)
    /\ retryTasks \in Seq(Task)
    /\ retryTimes \in [Task -> Nat]
    /\ checkTime \in [Task -> Nat]
    /\ phase \in {"ticker", "fetch", "send"}
    /\ fetchTime \in Nat
    /\ tasks \in Seq(Task)
    /\ taskIndex \in Worker
    /\ running \in [Worker -> Task \cup {NoTask}]
    /\ outcome \in [Task -> Outcome]
    /\ attempts \in [Task -> Nat]
    /\ failedAt \in [Task -> Nat]
    /\ arrivals \in Seq(Task)

\* The four sequences a task can be in.
QueueName == {"pending", "todo", "retry", "batch"}
Queue == [pending |-> pending, todo |-> todoTasks, retry |-> retryTasks, batch |-> tasks]

\* A task stands at most once in the queues and workers together: no step of
\* addTask, getToProcessTasks, retryTask and the sends duplicates it.
NoTaskTwice ==
    /\ \A p \in QueueName : IsInjective(Queue[p])
    /\ \A p, q \in QueueName : p /= q => Range(Queue[p]) \cap Range(Queue[q]) = {}
    /\ \A w, v \in Worker : running[w] = running[v] /\ running[w] /= NoTask => w = v
    /\ \A w \in Worker, p \in QueueName : running[w] \notin Range(Queue[p])

Held(t) ==
    \/ \E p \in QueueName : t \in Range(Queue[p])
    \/ \E w \in Worker : running[w] = t

\* A task is in a queue or a worker exactly from Consume until it is reported
\* or dropped: none is lost while the pool's slices are cut, reused and
\* appended to by three goroutines.
NoTaskLost == \A t \in Task : outcome[t] = "open" <=> Held(t)

TaskConserved == NoTaskTwice /\ NoTaskLost

\* A task is handed to a worker at most RetryTimes + 1 times (once if its
\* apmType is "cw"), and it is dropped for failures that a retry could have
\* mended only when all of these attempts were made (analyzer.go:278-282).
DropOnlyExhausted ==
    \A t \in Task :
        /\ attempts[t] <= MaxAttempts(t)
        /\ outcome[t] = "exhausted" => attempts[t] = MaxAttempts(t)

\* Tasks are first handed to workers in the order they were added: the tasks
\* to retry, the batches and the blocking sends never let a new task overtake
\* an older one.
FirstAttemptFIFO ==
    \A i, j \in 1 .. Len(arrivals) :
        i < j /\ attempts[arrivals[j]] > 0 => attempts[arrivals[i]] > 0

\* No task is handed out again before CheckPeriod seconds have passed since it
\* failed, although failure, fetch and send happen in different goroutines.
RetryAfterPeriod ==
    [][\A t \in Task :
         attempts'[t] > attempts[t] /\ attempts[t] > 0 => now >= failedAt[t] + CheckPeriod]_vars

\* getToProcessTasks leaves no due task in retryTasks.  It only looks at a
\* prefix: that this is enough rests on the order in which workers append
\* (analyzer.go:789-795).
NoDueTaskLeft ==
    [][phase = "fetch" /\ phase' = "send" =>
         \A t \in Range(retryTasks') : checkTime[t] > fetchTime]_vars

\* Every task Consume created is in the end reported or dropped.
EveryTaskEnds == \A t \in Task : outcome[t] = "open" ~> outcome[t] \notin {"absent", "open"}

-----------------------------------------------------------------------------
(* The pool implements the life cycle of TaskLife.                         *)

LifeStatus(t) ==
    IF outcome[t] /= "open" THEN outcome[t]
    ELSE IF \E w \in Worker : running[w] = t THEN "running" ELSE "queued"

Life == INSTANCE TaskLife WITH
            Task <- Task,
            MaxTries <- [t \in Task |-> MaxAttempts(t)],
            status <- [t \in Task |-> LifeStatus(t)],
            tries <- attempts

\* Every behaviour of the pool is one of TaskLife: a task goes from queued to
\* running to exactly one end, and is queued again only with tries left.
ImplementsLife == Life!LifeSpec
=============================================================================
