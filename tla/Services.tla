------------------------------ MODULE Services ------------------------------
(***************************************************************************)
(* The services of a receiver that share no state.  The receiver starts    *)
(* them all (Run, startGrpcServer); each then takes its own steps, and a   *)
(* step of one leaves the others alone.                                    *)
(***************************************************************************)
EXTENDS Naturals, Sequences

CONSTANTS Uris, Handlers, Configs, Defaults,             \* Thresholds
          Agents, MaxTotal, Width, Period,               \* AgentMonitor
          Contents, Services, LastType, MaxValue, Results,  \* OnOffBaseline
          Requests,                                      \* EbpfFile
          Trees,                                         \* ReportTrees
          Spans                                          \* External

VARIABLES current, target, handler, refresh, missed, overridden
tVars == <<current, target, handler, refresh, missed, overridden>>
T == INSTANCE Thresholds

VARIABLES total, report, monitorIds, statistic, summary, counted, first, fell
aVars == <<total, report, monitorIds, statistic, summary, counted, first, fell>>
A == INSTANCE AgentMonitor

VARIABLES yesterday, lastHour, task, midnight, behind, fresh, hours, former
oVars == <<yesterday, lastHour, task, midnight, behind, fresh, hours, former>>
O == INSTANCE OnOffBaseline

VARIABLES file, request, response, damaged
eVars == <<file, request, response, damaged>>
E == INSTANCE EbpfFile

VARIABLES tree, relationships, errorNodes
rVars == <<tree, relationships, errorNodes>>
R == INSTANCE ReportTrees

VARIABLES span, external
xVars == <<span, external>>
X == INSTANCE External

vars == <<tVars, aVars, oVars, eVars, rVars, xVars>>

-----------------------------------------------------------------------------
\* What the code guarantees about the bounds: no total reaches the width of the
\* unsigned differences, 2^64.
ASSUME ServicesAssumption == MaxTotal \in Nat /\ Width \in Nat /\ MaxTotal < Width

ASSUME TypesAssumption == LastType \in Nat /\ MaxValue \in Nat

\* A query returns a vector for some of the keys; a content has a key without a
\* service, too.
ASSUME ResultsAssumption ==
  /\ "" \in Services
  /\ \A result \in Results :
        DOMAIN result \subseteq O!Keys /\ \A k \in DOMAIN result : result[k] \in O!Vectors

\* The nodes of a tree are numbered as they are made, parents before their children;
\* each is added to the list of its parent, once (AddChild).
ASSUME TreesAssumption ==
  \A t \in Trees :
    LET n == Len(t.parent)
    IN  /\ t.parent \in Seq(Nat) /\ n > 0
        /\ \A c \in 2 .. n : t.parent[c] \in 1 .. c - 1
        /\ t.children \in [1 .. n -> Seq(2 .. n)]
        /\ \A p \in 1 .. n :
             /\ \A i, j \in DOMAIN t.children[p] : t.children[p][i] = t.children[p][j] => i = j
             /\ \A c \in 2 .. n : t.parent[c] = p <=> \E i \in DOMAIN t.children[p] : t.children[p][i] = c
        /\ t.exits \in [1 .. n -> Seq(Nat)]

Init == T!Init /\ A!Init /\ O!Init /\ E!Init /\ R!Init /\ X!Init

Next == \/ T!Next /\ UNCHANGED <<aVars, oVars, eVars, rVars, xVars>>
        \/ A!Next /\ UNCHANGED <<tVars, oVars, eVars, rVars, xVars>>
        \/ O!Next /\ UNCHANGED <<tVars, aVars, eVars, rVars, xVars>>
        \/ E!Next /\ UNCHANGED <<tVars, aVars, oVars, rVars, xVars>>
        \/ R!Next /\ UNCHANGED <<tVars, aVars, oVars, eVars, xVars>>
        \/ X!Next /\ UNCHANGED <<tVars, aVars, oVars, eVars, rVars>>

Spec == Init /\ [][Next]_vars

-----------------------------------------------------------------------------
(* What the services promise; each module says what its promise means.     *)

\* A configuration is lost only to a refresh or a request that crossed it
\* (storeAllSlowThreshold, setSLOConfig).
ConfigurationHonoured == T!ConfigurationHonoured

\* During a day only a configuration changes a threshold (storeAllSlowThreshold).
KeptForTheDay == T!KeptForTheDay

\* No event of an agent is counted twice (SendAgentMonitorMetric, doStatistic).
CountedOnce == A!CountedOnce

\* A metric is blamed against the calmest hour (GetMetricValue, CalcMutatedType).
BlamedAgainstCalmest == O!BlamedAgainstCalmest

\* A cut program is served only while it is written or after a failure (GetFile).
WholeUnlessWriting == E!WholeUnlessWriting

\* The rows of a trace have paths of their own, below the row of their parent
\* (collectRelationship, collectErrorNodes).
TreesPlaced == R!TreesPlaced

\* Exactly the spans that call or consume are described (buildExternal).
CallsDescribed == X!CallsDescribed
=============================================================================
