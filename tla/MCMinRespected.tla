--------------------------- MODULE MCMinRespected ---------------------------
(* Sampler with receivers that are always in time: every two seconds each  *)
(* checks the sample value, and the check takes no time.                   *)
EXTENDS MCSampler

CheckPeriod == 2  \* the period of a receiver's ticker

VARIABLE since    \* seconds since the receiver started or began its last check

PunctualInit == Init /\ since = [r \in Receiver |-> 0]

\* A ticker fires when its period is over; then its receiver checks before time passes.
PunctualTick ==
    /\ Tick
    /\ \A r \in Receiver : At(r, "down") \/ (At(r, "idle") /\ since[r] < CheckPeriod)
    /\ since' = [r \in Receiver |-> IF At(r, "down") THEN 0 ELSE since[r] + 1]

PunctualCheck(r) ==
    /\ At(r, "idle") => since[r] = CheckPeriod
    /\ Check(r)
    /\ since' = [since EXCEPT ![r] = 0]

PunctualNext ==
    \/ \E r \in Receiver : PunctualCheck(r)
    \/ \E r \in Receiver : (Start(r) \/ Stop(r)) /\ since' = [since EXCEPT ![r] = 0]
    \/ PunctualTick

PunctualSpec == PunctualInit /\ [][PunctualNext]_<<vars, since>>
=============================================================================
