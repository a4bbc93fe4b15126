---------------------------- MODULE ReportTrees -----------------------------
(***************************************************************************)
(* What the analyzer makes of a trace's tree of services (analyzer/report):*)
(* a topology of nodes, each knowing the exit span of its parent that      *)
(* called it; the relationships stored for it, one row per service and per *)
(* call that leaves the trace; and the rows of an error tree.  Rows name   *)
(* their place in the tree by a path of child indices.                     *)
(*                                                                         *)
(* A tree has nodes 1 .. n in the order they are made, node 1 its root,    *)
(* each with its parent and the list of its children; an exit span names   *)
(* the node it calls, or 0; consumer[n] says that the node was entered     *)
(* through a message queue, so that its own entry span describes the call. *)
(* Paths here are relative to the row they are collected for.              *)
(***************************************************************************)
EXTENDS Naturals, FiniteSets, SequencesExt

CONSTANT Trees   \* records [parent, children, exits, consumer], functions of the nodes

VARIABLES tree, relationships, errorNodes
vars == <<tree, relationships, errorNodes>>

Nodes == DOMAIN tree.parent

\* A row below the i-th child, seen from its parent.
Below(i, row) ==
  IF row.kind = "error" THEN [row EXCEPT !.path = <<i - 1>> \o @, !.depth = @ + 1]
  ELSE [row EXCEPT !.path = <<i - 1>> \o @]
RowsBelow(n, rows) ==
  LET children == tree.children[n]
  IN  FlattenSeq([i \in DOMAIN children |->
                    [j \in DOMAIN rows[children[i]] |-> Below(i, rows[children[i]][j])]])

\* getSideSpanId, GetParentSideExternal: an exit span of the parent calls n.
HasSide(n) == \E i \in DOMAIN tree.exits[tree.parent[n]] : tree.exits[tree.parent[n]][i] = n

\* Without a side to describe the call that led to it, a node and all below are left out.
Described(n) == n = 1 \/ tree.consumer[n] \/ HasSide(n)

\* Calls that leave the trace are numbered after the children.
\* (slip: they are numbered from 0)
ClientPathSlip(n, i) == <<i - 1>>
ClientPath(n, i) == <<Len(tree.children[n]) + i - 1>>
ClientSides(n) == Cardinality({i \in DOMAIN tree.exits[n] : tree.exits[n][i] = 0})

ServerRow(n) == [path |-> <<>>, kind |-> "server", node |-> n, parent |-> IF n = 1 THEN 0 ELSE tree.parent[n]]
ClientRow(n, i) == [path |-> ClientPath(n, i), kind |-> "client", node |-> 0, parent |-> n]
ErrorRow(n) == [path |-> <<>>, kind |-> "error", node |-> n, depth |-> 1]

\* Per node, what collectRelationship adds for it and all below.
Relationships ==
  LET rows[n \in Nodes] ==
        IF ~Described(n) THEN <<>>
        ELSE <<ServerRow(n)>> \o [i \in 1 .. ClientSides(n) |-> ClientRow(n, i)] \o RowsBelow(n, rows)
  IN  rows

\* Per node, what collectErrorNodes adds for it and all below.
ErrorNodes ==
  LET rows[n \in Nodes] == <<ErrorRow(n)>> \o RowsBelow(n, rows)
  IN  rows

Init == tree \in Trees /\ relationships = <<>> /\ errorNodes = <<>>

CollectRelationships ==
  /\ relationships' = IF relationships = <<>> THEN Relationships[1] ELSE relationships
  /\ UNCHANGED <<tree, errorNodes>>

NewErrorPropagation ==
  /\ errorNodes' = ErrorNodes[1]
  /\ UNCHANGED <<tree, relationships>>

Next == CollectRelationships \/ NewErrorPropagation
Spec == Init /\ [][Next]_vars

-----------------------------------------------------------------------------
\* No two rows share a path, and none a node (calls that leave the trace have none).
Apart(rows) == \A i, j \in DOMAIN rows :
                 \/ rows[i].path = rows[j].path
                 \/ rows[i].node = rows[j].node /\ rows[i].node # 0
                 => i = j

Listed(n) == \E i \in DOMAIN relationships : relationships[i].node = n

\* In every tree no two relationships of a trace share a path, every row but the
\* root's has the row of its parent service before it, and a service is listed, once,
\* exactly when the call to it is described and its parent is listed
\* (collectRelationship).
RelationshipsPlaced ==
  relationships # <<>> =>
    /\ Apart(relationships)
    /\ \A i \in DOMAIN relationships : relationships[i].path # <<>> =>
         \E j \in 1 .. i - 1 : /\ relationships[j].node = relationships[i].parent
                               /\ relationships[j].path = Front(relationships[i].path)
    /\ \A n \in Nodes : Listed(n) <=> Described(n) /\ (n = 1 \/ Listed(tree.parent[n]))

\* Every node of an error tree has one row, at a path of its own whose length is
\* its depth less one (collectErrorNodes).
ErrorNodesPlaced ==
  errorNodes # <<>> =>
    /\ Apart(errorNodes)
    /\ \A i \in DOMAIN errorNodes : errorNodes[i].depth = Len(errorNodes[i].path) + 1
    /\ {errorNodes[i].node : i \in DOMAIN errorNodes} = Nodes

TreesPlaced == RelationshipsPlaced /\ ErrorNodesPlaced
=============================================================================
