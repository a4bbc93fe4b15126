--------------------------- MODULE ClickHouseInit ---------------------------
(***************************************************************************)
(* The tables the receivers create and migrate when they start             *)
(* (clickhouse/init.go, client.go, sqlscript/): the database, then the     *)
(* scripts of all tables in alphabetical order, then a script of           *)
(* migrations.  Statements are not transactional: any may fail, receivers  *)
(* run theirs in any order, and a receiver may stop between two of them    *)
(* and is started again, perhaps with another configuration.               *)
(*                                                                         *)
(* A configuration is a record [cluster, ttlDays, tableTTLs, tableHash].   *)
(* With a cluster each table is local and has a distributed table over it. *)
(***************************************************************************)
EXTENDS Naturals, SequencesExt

CONSTANTS Receivers,
          Files,        \* the tables of sqlscript/create_table, sorted
          WithoutTTL,   \* those whose script has no TTL clause: originx_app_info
          Migrations,   \* the statements of migrate.tmpl.sql as rendered without and
                        \* with a cluster: [op, table, lenient]
          Configs,
          MaxStarts     \* bound on starts, of all receivers

VARIABLES config,       \* per receiver: the configuration of this start
          pc,           \* per receiver: where Start is
          todo,         \* per receiver: statements still to run
          tables,       \* external: [ttl, since, config] per table there is
          distributed,  \* external: the hash per distributed table there is
          migrated,     \* history: per receiver, the migrations applied in this start
          broken,       \* history: distributed tables dropped and not created again
          starts        \* history

vars == <<config, pc, todo, tables, distributed, migrated, broken, starts>>

Tables == Range(Files)
NoTTL == "no ttl"
Create(t, ttl) == [op |-> "create", table |-> t, ttl |-> ttl]
Distribute(t, hash) == [op |-> "distribute", table |-> t, hash |-> hash]

\* A cluster has other tables than a single server has; nobody moves between the two.
Init == /\ config \in [Receivers -> Configs]
        /\ \A p, q \in Receivers : config[p].cluster = config[q].cluster
        /\ pc = [r \in Receivers |-> "stopped"] /\ todo = [r \in Receivers |-> <<>>]
        /\ tables = <<>> /\ distributed = <<>>
        /\ migrated = [r \in Receivers |-> {}] /\ broken = {} /\ starts = 0

-----------------------------------------------------------------------------
\* runInitScripts: the TTL and the hash of a table, if it has its own.
TTLFor(c, t) == IF t \in DOMAIN c.tableTTLs THEN c.tableTTLs[t] ELSE c.ttlDays
HashFor(c, t) == IF t \in DOMAIN c.tableHash THEN c.tableHash[t] ELSE "rand()"

Statements(c, t) ==
  <<Create(t, IF t \in WithoutTTL THEN NoTTL ELSE TTLFor(c, t))>>
  \o IF c.cluster THEN <<Distribute(t, HashFor(c, t))>> ELSE <<>>
InitStatements(c) == FlattenSeq([i \in DOMAIN Files |-> Statements(c, Files[i])])

\* Distributed tables are dropped and created again only in a cluster.
MigrateStatements(c) == Migrations[c.cluster]

-----------------------------------------------------------------------------
Start(r, c) ==
  /\ pc[r] = "stopped" /\ starts < MaxStarts
  /\ c.cluster = config[r].cluster
  /\ starts' = starts + 1
  /\ config' = [config EXCEPT ![r] = c]
  /\ pc' = [pc EXCEPT ![r] = "database"]
  /\ migrated' = [migrated EXCEPT ![r] = {}]
  /\ UNCHANGED <<todo, tables, distributed, broken>>

CreateDatabase(r) ==
  /\ pc[r] = "database"
  /\ pc' = [pc EXCEPT ![r] = "init"]
  /\ todo' = [todo EXCEPT ![r] = InitStatements(config[r])]
  /\ UNCHANGED <<config, tables, distributed, migrated, broken, starts>>

Put(f, k, v) == [x \in DOMAIN f \cup {k} |-> IF x = k THEN v ELSE f[x]]

\* external: what a statement does; CREATE ... IF NOT EXISTS leaves what is there.
Execute(r, s) ==
  /\ tables' = IF s.op = "create" /\ s.table \notin DOMAIN tables
               THEN Put(tables, s.table, [ttl |-> s.ttl, config |-> config[r]]) ELSE tables
  /\ distributed' = CASE s.op = "distribute" /\ s.table \notin DOMAIN distributed ->
                           Put(distributed, s.table, s.hash)
                      [] s.op = "drop" -> [t \in DOMAIN distributed \ {s.table} |-> distributed[t]]
                      [] OTHER -> distributed
  /\ broken' = CASE s.op = "drop" -> broken \cup {s.table}
                 [] s.op = "distribute" -> broken \ {s.table}
                 [] OTHER -> broken

\* A DROP of a table that is not there, or an ALTER of one, can only fail.
Possible(s) == /\ s.op = "drop" => s.table \in DOMAIN distributed
               /\ s.op \in {"alter", "distribute"} => s.table \in DOMAIN tables

RunStatement(r) ==
  /\ pc[r] \in {"init", "migrate"} /\ todo[r] # <<>> /\ Possible(Head(todo[r]))
  /\ Execute(r, Head(todo[r]))
  /\ todo' = [todo EXCEPT ![r] = Tail(todo[r])]
  /\ migrated' = IF pc[r] = "migrate"
                 THEN [migrated EXCEPT ![r] = migrated[r] \cup {Head(todo[r])}] ELSE migrated
  /\ UNCHANGED <<config, pc, starts>>

EndScript(r) ==
  /\ pc[r] \in {"init", "migrate"} /\ todo[r] = <<>>
  /\ \/ /\ pc[r] = "init"
        /\ pc' = [pc EXCEPT ![r] = "migrate"]
        /\ todo' = [todo EXCEPT ![r] = MigrateStatements(config[r])]
     \/ /\ pc[r] = "migrate"
        /\ pc' = [pc EXCEPT ![r] = "started"] /\ UNCHANGED todo
  /\ UNCHANGED <<config, tables, distributed, migrated, broken, starts>>

\* A failed migration ends the script but for REMOVE TTL, and is only logged.
\* (slip: the next statement is tried)
AfterFailureSlip(script) == Tail(script)
AfterFailure(script) == IF Head(script).lenient THEN Tail(script) ELSE <<>>

MigrationFails(r) ==
  /\ pc[r] = "migrate" /\ todo[r] # <<>>
  /\ todo' = [todo EXCEPT ![r] = AfterFailure(todo[r])]
  /\ UNCHANGED <<config, pc, tables, distributed, migrated, broken, starts>>

\* The database or a table cannot be created, or the process ends: main exits and
\* whoever runs the receiver starts it again.
Stop(r) ==
  /\ pc[r] # "stopped"
  /\ pc' = [pc EXCEPT ![r] = "stopped"] /\ todo' = [todo EXCEPT ![r] = <<>>]
  /\ UNCHANGED <<config, tables, distributed, migrated, broken, starts>>

Next == \E r \in Receivers :
          \/ \E c \in Configs : Start(r, c)
          \/ CreateDatabase(r) \/ RunStatement(r) \/ EndScript(r)
          \/ MigrationFails(r) \/ Stop(r)
Spec == Init /\ [][Next]_vars

-----------------------------------------------------------------------------
TypeOK == /\ pc \in [Receivers -> {"stopped", "database", "init", "migrate", "started"}]
          /\ DOMAIN tables \subseteq Tables /\ DOMAIN distributed \subseteq Tables

\* However often starting was cut short, and whatever other receivers run meanwhile:
\* a receiver that runs finds all tables, a distributed one over each in a cluster but
\* for those a migration dropped and did not (yet) create again; a table keeps its rows
\* as many days as the configuration of the receiver that created it says for that table
\* (runInitScripts); and the migrations a receiver applied are those before the first
\* that failed (executeMultiStatements).  Zero days are left out: they are documented
\* as no TTL (config.go:76, receiver-config.yml:42), while the scripts render a TTL of
\* 0 days, which loses each row with the next merge.
TablesReady ==
  \A r \in Receivers : pc[r] = "started" =>
    LET script == MigrateStatements(config[r])
    IN  /\ DOMAIN tables = Tables
        /\ config[r].cluster => Tables \ DOMAIN distributed \subseteq broken
        /\ \A t \in Tables \ WithoutTTL :
             LET days == TTLFor(tables[t].config, t)
             IN  days > 0 => tables[t].ttl = days
        /\ \E n \in 0 .. Len(script) :
             \A i \in DOMAIN script :
                (i > n => script[i] \notin migrated[r]) /\
                (i <= n => script[i] \in migrated[r] \/ script[i].lenient)
=============================================================================
