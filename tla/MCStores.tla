------------------------------ MODULE MCStores ------------------------------
(***************************************************************************)
(* Stores on small instances.  They share no state but the kind of cache,  *)
(* so nothing is lost when a behaviour exercises one of them only, named   *)
(* by on, while the others rest in an initial state.                       *)
(***************************************************************************)
EXTENDS Stores, TLC

VARIABLE on

-----------------------------------------------------------------------------
\* ClickHouseInit
Alter(t, lenient) == [op |-> "alter", table |-> t, lenient |-> lenient]
MCFiles == <<"alert_event", "originx_app_info", "span_trace">>
MCWithoutTTL == {"originx_app_info"}
Alters == <<Alter("originx_app_info", TRUE), Alter("originx_app_info", FALSE)>>
MCMigrations ==
  (FALSE :> Alters) @@
  (TRUE :> (Alters \o <<[op |-> "drop", table |-> "alert_event", lenient |-> FALSE],
                        [op |-> "distribute", table |-> "alert_event", hash |-> "ref", lenient |-> FALSE]>>))
MCConfigs ==
  UNION {{[cluster |-> c, ttlDays |-> 7, tableTTLs |-> <<>>, tableHash |-> <<>>],
          [cluster |-> c, ttlDays |-> 0, tableTTLs |-> "alert_event" :> 3,
           tableHash |-> "span_trace" :> "trace_id"]} : c \in BOOLEAN}

\* Histogram
MCBounds == {<<1, 3>>, <<2, 13>>}

\* SampledIds
MCHome == "a" :> "p"

\* SilentSwitches: two tuples of one url
MCPidUrl == <<"u", "u">>

-----------------------------------------------------------------------------
Cached == {"lists", "signals", "ids"}

MCInit == /\ on \in {"apps", "tables", "series", "histograms", "switches"} \cup Cached
          /\ Init
          /\ on \notin Cached => local
          /\ on # "tables" => config = [r \in Receivers |-> CHOOSE c \in Configs : TRUE]
          /\ on # "histograms" => bounds = <<1, 3>>

MCNext ==
  /\ UNCHANGED on
  /\ \/ on = "apps" /\ P!Next /\ UNCHANGED <<local, iVars, mVars, hVars, lVars, gVars, sVars, zVars>>
     \/ on = "tables" /\ I!Next /\ UNCHANGED <<local, pVars, mVars, hVars, lVars, gVars, sVars, zVars>>
     \/ on = "series" /\ M!Next /\ UNCHANGED <<local, pVars, iVars, hVars, lVars, gVars, sVars, zVars>>
     \/ on = "histograms" /\ H!Next /\ UNCHANGED <<local, pVars, iVars, mVars, lVars, gVars, sVars, zVars>>
     \/ on = "lists" /\ L!Next /\ UNCHANGED <<pVars, iVars, mVars, hVars, gVars, sVars, zVars>>
     \/ on = "signals" /\ G!Next /\ UNCHANGED <<pVars, iVars, mVars, hVars, lVars, sVars, zVars>>
     \/ on = "ids" /\ S!Next /\ UNCHANGED <<pVars, iVars, mVars, hVars, lVars, gVars, zVars>>
     \/ on = "switches" /\ Z!Next /\ UNCHANGED <<local, pVars, iVars, mVars, hVars, lVars, gVars, sVars>>

MCSpec == MCInit /\ [][MCNext]_<<on, vars>>
=============================================================================
