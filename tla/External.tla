------------------------------ MODULE External ------------------------------
(***************************************************************************)
(* How a span becomes the description of a call (analyzer/external): the   *)
(* factory tries one parser after the other.  Attributes are abstracted to *)
(* whether they are there; names and details to where they are taken from. *)
(***************************************************************************)
EXTENDS Naturals, Sequences

CONSTANT Spans   \* records [kind, db, http, url, rpc, mq, operation, statement, dbName]

VARIABLES span, external
vars == <<span, external>>

Nil == [group |-> "nil"]
Unparsed == [group |-> "unparsed"]
Called(group, type, name, detail) == [group |-> group, type |-> type, name |-> name, detail |-> detail]

\* external: the SQL parser of the APM library gives an operation for some statements
Parsed(s) == s.statement = "sql"

Table(s) == IF s.dbName THEN "operation db.table" ELSE "operation table"

\* Key-value stores are named by the span, others by operation and table, which
\* are attributes or parsed from the statement.
DbName(s) ==
  IF s.db = "redis" \/ (~s.operation /\ ~Parsed(s)) THEN "span" ELSE Table(s)

\* A statement that is parsed provides the operation, too, but is itself the detail.
DbDetail(s) == IF s.statement # "none" THEN "statement"
               ELSE IF s.operation THEN "operation" ELSE "none"

DbParser(s) ==
  IF s.kind # "client" \/ s.db = "none" THEN Nil ELSE Called("db", s.db, DbName(s), DbDetail(s))

\* GetTopUrl: of a URL split at its slashes, the first part of the path.
TopUrl(parts) ==
  IF Len(parts) = 1 THEN parts
  ELSE IF Len(parts) >= 3 /\ parts[1] = "http:" /\ parts[2] = ""
       THEN <<"", IF Len(parts) = 3 THEN "" ELSE parts[4]>>
  ELSE <<"", parts[2]>>

HttpParser(s) ==
  IF s.kind # "client" \/ ~s.http THEN Nil ELSE Called("external", "http", TopUrl(s.url), "url")

RpcParser(s) ==
  IF s.kind # "client" \/ ~s.rpc THEN Nil ELSE Called("external", "rpc", "span", "rpc")

\* (slip: a queue client needs the attribute whatever its kind)
NoSystemSlip(s) == ~s.mq
NoSystem(s) == s.kind = "client" /\ ~s.mq

MqParser(s) ==
  IF s.kind \notin {"client", "consumer", "producer"} \/ NoSystem(s) THEN Nil
  ELSE Called("mq", IF s.mq THEN "mq" ELSE "unknown",
              IF s.kind = "client" THEN "span" ELSE "destination",
              IF s.kind = "client" THEN "destination" ELSE "span")

UnknownParser(s) == Called("external", "unknown", "span", "none")

\* What a parser finds, or else what the rest of the factory finds.
Otherwise(found, rest) == IF found # Nil THEN found ELSE rest

BuildExternal(s) ==
  IF s.kind = "client"
  THEN Otherwise(DbParser(s), Otherwise(HttpParser(s), Otherwise(RpcParser(s),
         IF s.mq THEN MqParser(s) ELSE IF s.db = "none" THEN UnknownParser(s) ELSE Nil)))
  ELSE IF s.kind \in {"consumer", "producer"} THEN MqParser(s) ELSE Nil

Init == span \in Spans /\ external = Unparsed

BuildExternals ==
  /\ external' = BuildExternal(span)
  /\ span' = span

Next == BuildExternals
Spec == Init /\ [][Next]_vars

-----------------------------------------------------------------------------
\* A span that leaves or enters through another component is always described,
\* whichever attributes it lacks, and any other never; what is called a queue is
\* a queue, a database is never taken for anything else (buildExternal), and an
\* HTTP call named by the top of its path cannot be cut further (GetTopUrl).
CallsDescribed ==
  [][  /\ external' # Nil <=> span.kind \in {"client", "consumer", "producer"}
       /\ external'.group = "db" <=> span.kind = "client" /\ span.db # "none"
       /\ external'.group = "external" /\ external'.type = "http" =>
            TopUrl(external'.name) = external'.name
       /\ external'.group = "mq" => span.mq \/ span.kind # "client"
       /\ external'.group = "external" /\ external'.type = "unknown" =>
            ~span.http /\ ~span.rpc /\ ~span.mq]_vars
=============================================================================
