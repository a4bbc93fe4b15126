----------------------------- MODULE MCSampler -----------------------------
(* Sampler with two receivers and a node that reports to one of them: the  *)
(* other takes over what that one raises, and both lower it.               *)
EXTENDS Sampler, TLC

CONSTANTS r1, r2, n1

MCReceiver == {r1, r2}
MCNode == {n1}
MCHomeOf == (n1 :> r1)
=============================================================================
