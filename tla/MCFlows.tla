------------------------------- MODULE MCFlows -------------------------------
(***************************************************************************)
(* Instances of the two queues.  As they share no state, a behaviour       *)
(* exercises the one that on names: MCInit implies Init, MCNext Next.      *)
(***************************************************************************)
EXTENDS Flows

VARIABLE on

Shape(decoded, dropped, relationships, calls) ==
  [decoded |-> decoded, dropped |-> dropped, relationships |-> relationships, calls |-> calls]
MCOffered == {"event", "error", "relation"}
MCShapes == {Shape(TRUE, FALSE, 2, <<"unknown", "db">>), Shape(FALSE, TRUE, 1, <<>>),
             Shape(TRUE, TRUE, 1, <<"mq">>)}

MCInit == /\ on \in {"rows", "queue"}
          /\ Init
          /\ on = "rows" => local

MCNext == /\ UNCHANGED on
          /\ \/ on = "rows" /\ W!Next /\ UNCHANGED qVars
             \/ on = "queue" /\ Q!Next /\ UNCHANGED wVars

\* Fairness, for the queue that runs.
MCFairness == /\ WF_wVars(on = "rows" /\ W!BatchSendToServer)
              /\ \A r \in Receivers : /\ WF_qVars(on = "queue" /\ Q!Subscribe(r))
                                      /\ WF_qVars(on = "queue" /\ Q!Start(r))

MCSpec == MCInit /\ [][MCNext]_<<on, vars>> /\ MCFairness
=============================================================================
