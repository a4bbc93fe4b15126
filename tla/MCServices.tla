----------------------------- MODULE MCServices -----------------------------
(***************************************************************************)
(* Services on small instances.  The services share no state, so nothing   *)
(* is lost when a behaviour exercises one of them only, named by on, while *)
(* the others rest in an initial state: the state space is the sum of      *)
(* theirs.                                                                 *)
(***************************************************************************)
EXTENDS Services

VARIABLE on

-----------------------------------------------------------------------------
MCUris == {"u1", "u2"}
MCHandlers == {1, 2}
MCConfigs == {<<[type |-> "P95", value |-> 7], [type |-> "P90", value |-> 9]>>,
              <<[type |-> "P99", value |-> 3]>>}
MCDefaults == {<<[type |-> "rate", value |-> 1]>>}

\* OnOffBaseline: what a query may return.
Own == <<"svc", "url">>
Any == <<"", "url">>
MCResults == {<<>>,
              [k \in {Own} |-> [t \in 0 .. 2 |-> 1]],
              [k \in {Any} |-> [t \in 0 .. 2 |-> t]],
              [k \in {Own, Any} |-> [t \in 0 .. 2 |-> IF t = 0 THEN 2 ELSE 0]],
              [k \in {Own, Any} |-> [t \in 0 .. 2 |-> 2 - t]]}

\* ReportTrees: every tree of up to three services whose services make up to two
\* calls each.
Called(parent, n) == {0} \cup {c \in DOMAIN parent : parent[c] = n}
ExitsOf(parent) ==
  {exits \in [DOMAIN parent -> UNION {[1 .. k -> 0 .. Len(parent)] : k \in 0 .. 2}] :
     \A n \in DOMAIN parent : \A i \in DOMAIN exits[n] : exits[n][i] \in Called(parent, n)}
ChildrenOf(parent) == [n \in DOMAIN parent |-> SelectSeq([c \in DOMAIN parent |-> c], LAMBDA c : parent[c] = n)]
TreesOf(parent) == [parent : {parent}, children : {ChildrenOf(parent)}, exits : ExitsOf(parent),
                    consumer : [DOMAIN parent -> BOOLEAN]]
Single == [parent |-> <<0>>, children |-> <<<<>>>>, exits |-> <<<<>>>>, consumer |-> <<FALSE>>]
MCTrees == UNION {TreesOf(p) : p \in {<<0>>, <<0, 1>>, <<0, 1, 1>>, <<0, 1, 2>>}}

\* External: spans by the attributes they have.
Url == {<<"http:", "", "host">>, <<"http:", "", "host", "">>, <<"http:", "", "host", "a", "b">>,
        <<"", "a">>, <<"", "a", "b">>, <<"a">>}
MCSpans == [kind : {"client", "server", "consumer", "producer"}, db : {"none", "redis", "mysql"},
            http : BOOLEAN, url : Url, rpc : BOOLEAN, mq : BOOLEAN,
            operation : BOOLEAN, statement : {"none", "sql", "other"}, dbName : BOOLEAN]

-----------------------------------------------------------------------------
MCInit ==
  /\ on \in {"thresholds", "agents", "baselines", "files", "trees", "spans"}
  /\ A!Init /\ O!Init /\ E!Init
  /\ T!Init /\ (on # "thresholds" => refresh.todo = {})
  /\ IF on = "trees" THEN R!Init ELSE tree = Single /\ relationships = <<>> /\ errorNodes = <<>>
  /\ IF on = "spans" THEN X!Init
     ELSE span = (CHOOSE s \in Spans : TRUE) /\ external = X!Unparsed

MCNext ==
  /\ UNCHANGED on
  /\ \/ on = "thresholds" /\ T!Next /\ UNCHANGED <<aVars, oVars, eVars, rVars, xVars>>
     \/ on = "agents" /\ A!Next /\ UNCHANGED <<tVars, oVars, eVars, rVars, xVars>>
     \/ on = "baselines" /\ O!Next /\ UNCHANGED <<tVars, aVars, eVars, rVars, xVars>>
     \/ on = "files" /\ E!Next /\ UNCHANGED <<tVars, aVars, oVars, rVars, xVars>>
     \/ on = "trees" /\ R!Next /\ UNCHANGED <<tVars, aVars, oVars, eVars, xVars>>
     \/ on = "spans" /\ X!Next /\ UNCHANGED <<tVars, aVars, oVars, eVars, rVars>>

MCSpec == MCInit /\ [][MCNext]_<<on, vars>>
=============================================================================
