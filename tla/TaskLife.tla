------------------------------ MODULE TaskLife ------------------------------
(***************************************************************************)
(* What the analyzer promises for each trace task, with none of its queues *)
(* and threads: a task that Consume created is queued, run by one worker   *)
(* at a time, and ends in exactly one way; it is run again only while it   *)
(* has tries left, and given up as exhausted only when it has none.        *)
(***************************************************************************)
EXTENDS Naturals

CONSTANTS Task,      \* the trace tasks
          MaxTries   \* how many times each task may be run, a positive number

VARIABLES status,    \* where each task is in its life
          tries      \* how many times each task has been run

lifeVars == <<status, tries>>

Status == {"absent", "queued", "running", "reported", "exhausted", "fatal"}

LifeInit ==
    /\ status = [t \in Task |-> "absent"]
    /\ tries = [t \in Task |-> 0]

\* One notified trace gives rise to several tasks at once (slow and error).
Submit ==
    /\ status' \in [Task -> Status]
    /\ \A t \in Task : status'[t] /= status[t] => status[t] = "absent" /\ status'[t] = "queued"
    /\ UNCHANGED tries

Begin(t) ==
    /\ status[t] = "queued"
    /\ tries[t] < MaxTries[t]
    /\ status' = [status EXCEPT ![t] = "running"]
    /\ tries' = [tries EXCEPT ![t] = @ + 1]

Finish(t) ==
    /\ status[t] = "running"
    /\ status' = [status EXCEPT ![t] = "reported"]
    /\ UNCHANGED tries

Requeue(t) ==
    /\ status[t] = "running"
    /\ tries[t] < MaxTries[t]
    /\ status' = [status EXCEPT ![t] = "queued"]
    /\ UNCHANGED tries

GiveUp(t) ==
    /\ status[t] = "running"
    /\ \/ status' = [status EXCEPT ![t] = "fatal"]
       \/ /\ tries[t] = MaxTries[t]
          /\ status' = [status EXCEPT ![t] = "exhausted"]
    /\ UNCHANGED tries

LifeNext ==
    \/ Submit
    \/ \E t \in Task : Begin(t) \/ Finish(t) \/ Requeue(t) \/ GiveUp(t)

LifeSpec == LifeInit /\ [][LifeNext]_lifeVars
=============================================================================
