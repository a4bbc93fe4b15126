------------------------------- MODULE Signals -------------------------------
(***************************************************************************)
(* The profile signals kept for the agent of a node until its next report: *)
(* StoreSignal and GetAndCleanSignals, in the memory of the receiver       *)
(* (local_cache.go) or in Redis (redis_api.go, redis_client.go).  In       *)
(* memory a worker loads the list of the node, makes it if there is none,  *)
(* and then adds with the list locked; several may find none and each      *)
(* replaces what the others made.  Taking signals from Redis is LLEN,      *)
(* LRANGE and LTRIM, with an index that is the last one for the second and *)
(* the first one for the third.                                            *)
(*                                                                         *)
(* An agent has one report outstanding at a time; its workers and those of *)
(* other receivers store at any time.                                      *)
(***************************************************************************)
EXTENDS Naturals, Sequences, Functions

CONSTANTS MaxStores      \* bound on the signals; signal n is the n-th

VARIABLES local,         \* IsLocal()
          signals,       \* the node's signals, in memory or in Redis
          workers,       \* in memory: is there a list, how many workers found none and
                         \* have not stored theirs, hold the list, or one since replaced
          taking,        \* GetAndCleanSignals
          arrived,       \* history: how many signals were stored
          dropped,       \* history: signals refused, or gone with their key
          again,         \* history: signals read but not trimmed away
          given          \* history: how often the agent was given each, up to 2

vars == <<local, signals, workers, taking, arrived, dropped, again, given>>

Idle == [pc |-> "idle", size |-> 0, result |-> <<>>, intact |-> TRUE]

Init == /\ local \in BOOLEAN
        /\ signals = <<>> /\ taking = Idle
        /\ workers = [listed |-> FALSE, none |-> 0, current |-> 0, replaced |-> 0]
        /\ arrived = 0 /\ dropped = {} /\ again = {} /\ given = [n \in 1 .. MaxStores |-> 0]

UpTo(s, n) == SubSeq(s, 1, IF n < Len(s) THEN n ELSE Len(s))
Counted(answer) ==
  [n \in 1 .. MaxStores |-> IF n \in Range(answer) /\ given[n] < 2 THEN given[n] + 1 ELSE given[n]]

\* Redis may refuse a signal, which is logged.
StoreSignal ==
  /\ ~local /\ arrived < MaxStores
  /\ arrived' = arrived + 1
  /\ \/ /\ signals' = Append(signals, arrived')
        /\ UNCHANGED dropped
     \/ /\ dropped' = dropped \cup {arrived'}
        /\ UNCHANGED signals
  /\ UNCHANGED <<local, workers, taking, again, given>>

-----------------------------------------------------------------------------
(* StoreSignal in memory.  (SignalCache of a node is made the same way.)   *)

Load ==
  /\ local /\ arrived + workers.none + workers.current + workers.replaced < MaxStores
  /\ workers' = IF workers.listed THEN [workers EXCEPT !.current = @ + 1]
                                 ELSE [workers EXCEPT !.none = @ + 1]
  /\ UNCHANGED <<local, signals, taking, arrived, dropped, again, given>>

\* signalMap.Store, whatever list is there by now.
StoreList ==
  /\ workers.none > 0
  /\ workers' = [listed |-> TRUE, none |-> workers.none - 1, current |-> 1,
                 replaced |-> workers.replaced + workers.current]
  /\ dropped' = dropped \cup Range(signals)
  /\ signals' = <<>>
  /\ UNCHANGED <<local, taking, arrived, again, given>>

AddSignal ==
  /\ arrived' = arrived + 1
  /\ \/ /\ workers.current > 0
        /\ workers' = [workers EXCEPT !.current = @ - 1]
        /\ signals' = Append(signals, arrived')
        /\ UNCHANGED dropped
     \/ /\ workers.replaced > 0
        /\ workers' = [workers EXCEPT !.replaced = @ - 1]
        /\ dropped' = dropped \cup {arrived'}
        /\ UNCHANGED signals
  /\ UNCHANGED <<local, taking, again, given>>

-----------------------------------------------------------------------------
\* The key's time is over: no signal came for cacheTime, and the agent did not ask.
KeyExpires ==
  /\ ~local /\ signals # <<>>
  /\ dropped' = dropped \cup Range(signals)
  /\ signals' = <<>>
  /\ taking' = [taking EXCEPT !.intact = FALSE]
  /\ UNCHANGED <<local, workers, arrived, again, given>>

\* In memory, with the list locked.
TakeLocked ==
  /\ local /\ signals # <<>>
  /\ given' = Counted(signals)
  /\ signals' = <<>>
  /\ UNCHANGED <<local, workers, taking, arrived, dropped, again>>

-----------------------------------------------------------------------------
GetListSize ==
  /\ ~local /\ taking.pc = "idle" /\ signals # <<>>
  /\ taking' = [Idle EXCEPT !.pc = "range", !.size = Len(signals)]
  /\ UNCHANGED <<local, signals, workers, arrived, dropped, again, given>>

\* LRANGE 0 size, or nothing if it fails.
GetList ==
  /\ taking.pc = "range"
  /\ \E result \in {UpTo(signals, taking.size + 1), <<>>} :
       /\ taking' = [taking EXCEPT !.pc = "trim", !.result = result]
       /\ dropped' = IF result = <<>> THEN dropped \cup Range(UpTo(signals, taking.size)) ELSE dropped
       /\ again' = again \cup {result[i] : i \in DOMAIN result \ 1 .. taking.size}
  /\ UNCHANGED <<local, signals, workers, arrived, given>>

\* LTRIM size -1.  (slip: the end that was read is trimmed away)
TrimmedSlip(s, size) == SubSeq(s, size + 2, Len(s))
Trimmed(s, size) == SubSeq(s, size + 1, Len(s))

\* If it fails, which is logged, the signals stay.  If the key has expired, signals
\* that came after are trimmed.
LTrim ==
  /\ taking.pc = "trim"
  /\ given' = Counted(taking.result)
  /\ \/ /\ signals' = Trimmed(signals, taking.size)
        /\ dropped' = IF taking.intact THEN dropped
                      ELSE dropped \cup Range(UpTo(signals, taking.size))
        /\ UNCHANGED again
     \/ /\ again' = again \cup Range(taking.result)
        /\ UNCHANGED <<signals, dropped>>
  /\ taking' = Idle
  /\ UNCHANGED <<local, workers, arrived>>

Next == \/ StoreSignal \/ Load \/ StoreList \/ AddSignal \/ KeyExpires
        \/ TakeLocked \/ GetListSize \/ GetList \/ LTrim
Spec == Init /\ [][Next]_vars
-----------------------------------------------------------------------------
\* Whatever is stored, by any receiver, while an agent's report is answered: each
\* signal is kept until it is given to the agent, and given once; twice only if it
\* came, first of all, between LLEN and LRANGE, or LTRIM failed; lost only if Redis
\* failed, the key's time was over, or workers that found no list replaced each other's
\* (StoreSignal, GetAndCleanSignals).
SignalsGiven ==
  \A n \in 1 .. arrived :
     /\ n \in Range(signals) \cup Range(taking.result) \cup dropped \/ given[n] > 0
     /\ given[n] > 1 => n \in again
     /\ n \in Range(signals) /\ given[n] > 0 => n \in again
=============================================================================
