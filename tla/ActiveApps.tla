----------------------------- MODULE ActiveApps -----------------------------
(***************************************************************************)
(* The applications of a node in the table originx_app_info                *)
(* (tables/originx_app_info.go, monited_app_server.go).  The goroutine of  *)
(* each receiver that writes batches counts the rows of an application and *)
(* inserts it if there are none; requests of the node's agent mark         *)
(* applications alive or dead and ask which ones are not dead.             *)
(*                                                                         *)
(* ClickHouse is external: the count is not part of the transaction, rows  *)
(* become visible with the commit, and an ALTER ... UPDATE returns before  *)
(* it is applied, in order, to the rows that were there when it was sent.  *)
(***************************************************************************)
EXTENDS Naturals, Sequences, Functions

CONSTANTS Apps, Receivers, Requests,
          MaxRows, MaxMutations    \* bounds on rows of an application, updates under way

VARIABLES rows,        \* per application, the heart_flag of each of its rows
          mutations,   \* updates sent and not applied
          writer,      \* per receiver: WriteAppInfos, and how often it inserted each
          request,     \* per request: QueryActiveApps
          twice,       \* history: applications two uncommitted inserts of which met
          gone         \* history: applications marked dead, and neither alive nor inserted since

vars == <<rows, mutations, writer, request, twice, gone>>

Alive == 0
Dead == 2
Idle == [pc |-> "idle"]

\* queryActiveAppsSQL
ActiveRows == {a \in Apps : \E i \in DOMAIN rows[a] : rows[a][i] < 2}

Init == /\ rows = [a \in Apps |-> <<>>]
        /\ mutations = <<>>
        /\ writer = [w \in Receivers |-> Idle]
        /\ request = [r \in Requests |-> Idle]
        /\ twice = {} /\ gone = {}

-----------------------------------------------------------------------------
(* WriteAppInfos *)

\* (slip: only rows that are not dead are counted)
CountSlip(a) == Len(SelectSeq(rows[a], LAMBDA flag : flag < 2))
Count(a) == Len(rows[a])

WriteAppInfos(w, apps) ==
  /\ writer[w].pc = "idle" /\ apps # <<>>
  /\ writer' = [writer EXCEPT ![w] = [pc |-> "insert", todo |-> apps, tx |-> [a \in Apps |-> 0]]]
  /\ UNCHANGED <<rows, mutations, request, twice, gone>>

Uncommitted(a) == \E w \in Receivers : writer[w].pc = "insert" /\ writer[w].tx[a] > 0

InsertNew(w) ==
  /\ writer[w].pc = "insert" /\ writer[w].todo # <<>>
  /\ LET a == Head(writer[w].todo)
         isNew == Count(a) = 0
     IN  /\ writer' = [writer EXCEPT ![w].todo = Tail(@), ![w].tx[a] = IF isNew THEN @ + 1 ELSE @]
         /\ twice' = IF isNew /\ Uncommitted(a) THEN twice \cup {a} ELSE twice
  /\ UNCHANGED <<rows, mutations, request, gone>>

CommitApps(w) ==
  /\ writer[w].pc = "insert" /\ writer[w].todo = <<>>
  /\ LET tx == writer[w].tx
         Inserted(a) == [i \in 1 .. tx[a] |-> Alive]
     IN  /\ \A a \in Apps : Len(rows[a]) + tx[a] <= MaxRows
         /\ rows' = [a \in Apps |-> rows[a] \o Inserted(a)]
         /\ gone' = {a \in gone : tx[a] = 0}
  /\ writer' = [writer EXCEPT ![w] = Idle]
  /\ UNCHANGED <<mutations, request, twice>>

\* A count, an insert or the commit fails: the batch is rolled back and lost.
Rollback(w) ==
  /\ writer[w].pc = "insert"
  /\ writer' = [writer EXCEPT ![w] = Idle]
  /\ UNCHANGED <<rows, mutations, request, twice, gone>>

-----------------------------------------------------------------------------
(* QueryActiveApps: updates of the active, then of the dead, then the query *)

QueryActiveApps(r, active, dead) ==
  /\ request[r].pc = "idle"
  /\ request' = [request EXCEPT ![r] = [pc |-> "hearts", active |-> active, dead |-> dead, todo |-> active]]
  /\ UNCHANGED <<rows, mutations, writer, twice, gone>>

Update(a, flag) ==
  /\ Len(mutations) < MaxMutations
  /\ mutations' = Append(mutations, [app |-> a, flag |-> flag, upTo |-> Len(rows[a])])

UpdateAppHeartTimes(r, a) ==
  /\ request[r].pc = "hearts" /\ a \in request[r].todo
  /\ request' = [request EXCEPT ![r].todo = @ \ {a}]
  /\ Update(a, Alive)
  /\ UNCHANGED <<rows, writer, twice, gone>>

UpdateAppDeadFlags(r, a) ==
  /\ request[r].pc = "deads" /\ a \in request[r].todo
  /\ request' = [request EXCEPT ![r].todo = @ \ {a}]
  /\ Update(a, Dead)
  /\ UNCHANGED <<rows, writer, twice, gone>>

\* The list is done, or an update failed, which ends the list.
EndList(r) ==
  /\ \/ /\ request[r].pc = "hearts"
        /\ request' = [request EXCEPT ![r].pc = "deads", ![r].todo = request[r].dead]
     \/ /\ request[r].pc = "deads"
        /\ request' = [request EXCEPT ![r].pc = "query", ![r].todo = {}]
  /\ UNCHANGED <<rows, mutations, writer, twice, gone>>

\* The answer, or an error.  What the request reported dead is left out of it.
Answer(r) ==
  /\ request[r].pc = "query"
  /\ \E answer \in {{}, ActiveRows \ request[r].dead} :
       request' = [request EXCEPT ![r] = [pc |-> "answered", dead |-> request[r].dead, answer |-> answer]]
  /\ UNCHANGED <<rows, mutations, writer, twice, gone>>

Answered(r) ==
  /\ request[r].pc = "answered"
  /\ request' = [request EXCEPT ![r] = Idle]
  /\ UNCHANGED <<rows, mutations, writer, twice, gone>>

\* external: ClickHouse applies the oldest update
ApplyMutation ==
  /\ mutations # <<>>
  /\ LET m == Head(mutations)
         left == SubSeq(rows[m.app], m.upTo + 1, Len(rows[m.app]))
     IN  /\ rows' = [rows EXCEPT ![m.app] = [i \in 1 .. m.upTo |-> m.flag] \o left]
         /\ gone' = IF m.flag # Alive /\ left = <<>> THEN gone \cup {m.app} ELSE gone \ {m.app}
  /\ mutations' = Tail(mutations)
  /\ UNCHANGED <<writer, request, twice>>

Next ==
  \/ \E w \in Receivers :
       \/ \E n \in 1 .. 2 : \E apps \in [1 .. n -> Apps] : WriteAppInfos(w, apps)
       \/ InsertNew(w) \/ CommitApps(w) \/ Rollback(w)
  \/ \E r \in Requests :
       \/ \E active, dead \in SUBSET Apps : active \cap dead = {} /\ QueryActiveApps(r, active, dead)
       \/ \E a \in Apps : UpdateAppHeartTimes(r, a) \/ UpdateAppDeadFlags(r, a)
       \/ EndList(r) \/ Answer(r) \/ Answered(r)
  \/ ApplyMutation
Spec == Init /\ [][Next]_vars

-----------------------------------------------------------------------------
TypeOK == /\ \A a \in Apps : Len(rows[a]) <= MaxRows /\ Range(rows[a]) \subseteq 0 .. 2
          /\ Len(mutations) <= MaxMutations
          /\ twice \subseteq Apps /\ gone \subseteq Apps

\* An application has a second row only if it came twice in one batch or two
\* receivers wrote it at once, however often it is sent, dies and comes back
\* (WriteAppInfos); one marked dead is answered as active again only after it was
\* marked alive or inserted anew (UpdateAppDeadFlags, QueryActiveApps).
AppsTracked ==
  /\ \A a \in Apps : Len(rows[a]) > 1 => a \in twice
  /\ gone \cap ActiveRows = {}
  /\ \A r \in Requests : request[r].pc = "answered" => request[r].answer \cap request[r].dead = {}
=============================================================================
