--------------------------- MODULE MCTraceTrigger ---------------------------
(***************************************************************************)
(* TraceTrigger on a small instance: two receivers and one trace, of a top *)
(* span and two others, one of them of a slow apmType.                     *)
(***************************************************************************)
EXTENDS TraceTrigger, TLC

CONSTANTS r1, r2, t1, top, a, b

MCReceiver == {r1, r2}
MCTrace == {t1}
MCSpan == {top, a, b}
MCTopSpan == {top}
MCSlowSpan == {b}
MCTraceOf == [s \in MCSpan |-> t1]
BothModes == BOOLEAN
RedisMode == {FALSE}

\* Receivers are interchangeable (used for the safety properties only).
ReceiverSymmetry == Permutations(MCReceiver)
=============================================================================
