----------------------------- MODULE MCTaskPool -----------------------------
(***************************************************************************)
(* TaskPool on a small instance: one ordinary trace and one of apmType     *)
(* "cw", two workers, one retry.                                           *)
(***************************************************************************)
EXTENDS TaskPool

CONSTANTS t1, c1

MCTraces == {t1, c1}
MCCwTraces == {c1}
=============================================================================
