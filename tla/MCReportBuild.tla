--------------------------- MODULE MCReportBuild ---------------------------
(***************************************************************************)
(* ReportBuild on a small instance: a trace that is slow and erroneous,    *)
(* with a late root span, and a normal trace of the same entry; or alone,  *)
(* with two late spans.                                                    *)
(***************************************************************************)
EXTENDS ReportBuild, TLC

CONSTANTS bad, good, x, y, z, w, p

MCTraces == {bad, good}
MCSpan == {x, y, z}
MCTraceOf == (x :> bad) @@ (y :> bad) @@ (z :> good)
MCCwTraces == {good}
MCTopSpan == {y, z}
MCSlowSpan == {x}
MCErrorSpan == {x}
MCProfiledSpan == {y}
MCPlace == {p}
MCRootPlace == [t \in Traces |-> p]
MCAnswers == {{[place |-> p, top |-> TRUE]}, {[place |-> p, top |-> FALSE]}}
MCModes == {<<TRUE, FALSE>>, <<FALSE, TRUE>>}

OneTrace == {bad}
LateSpans == {x, y, w}
LateTraceOf == [s \in LateSpans |-> bad]
LateTopSpan == {y}
NoTraces == {}
RedisMode == {<<FALSE, TRUE>>}
=============================================================================
