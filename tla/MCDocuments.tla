------------------------------ MODULE MCDocuments ------------------------------
(***************************************************************************)
(* Promises of the repository's documents, each with a statement, a        *)
(* parameter or an answer it is about.  A client tries them one after the  *)
(* other; broken collects those that are not kept.  The other runs name    *)
(* the same cases as departures and show that there are no more.           *)
(***************************************************************************)
EXTENDS SqlFragments

Parameter == INSTANCE PortalParameters
Response == INSTANCE Responses

VARIABLES next,    \* the promise the client tries next
          broken   \* the promises that were not kept

tried == <<next, broken>>

(***************************************************************************)
(* Statements: session-management/spec.md (S), read-write-statement-path/  *)
(* spec.md (R), docs/compatibility-matrix.md (M).                          *)
(***************************************************************************)

Sends(promise, request, layout) ==
  [promise |-> promise, by |-> "statement",
   input |-> [words |-> request.words, means |-> request.means, layout |-> layout, parts |-> << >>]]

Defines(promise, head) ==
  [promise |-> promise, by |-> "statement",
   input |-> Asked(Query(head, << "expr", "column" >>, "none", "table", "none"), "line")]

ReadX == << "SELECT", "x" >>

Statements ==
  << \* S:73 "SHALL reject", S:74 "SHALL NOT ... issue any OPEN SCHEMA"
     Sends("a list of schemas is refused",
           Request(<< "SET", "search_path", "TO", "s", ",", "t" >>, Refused("list")), "line"),
     \* S:48 "SHALL NOT silently downgrade to a different cursor behavior"
     Sends("NO SCROLL is kept", Declare("c", << "NO SCROLL" >>, << >>, ReadX), "lines"),
     Sends("WITH HOLD is kept", Declare("c", << >>, << "WITH", "HOLD" >>, ReadX), "lines"),
     \* S:39 "CLOSE SHALL release gateway cursor state"
     Sends("CLOSE releases the cursor",
           Request(<< "CLOSE", "\"my c\"" >>, [tag |-> "Close", name |-> "my c"]), "line"),
     \* R:35 "SHALL execute the translated statement against Exasol"
     Sends("a write is executed",
           Request(<< "DELETE", "x", "pg_settings" >>, execute(<< "DELETE" >>, "Include")), "line"),
     \* M:22 "Savepoints ... are unsupported", R:66 "SHALL NOT claim ... savepoint"
     Sends("savepoints are refused",
           Request(<< "ROLLBACK", "WORK", "TO", "p" >>, Refused("savepoint")), "line"),
     \* M:18 "CREATE TABLE AS", M:19 "view definitions are supported"
     Defines("CREATE TABLE AS is supported", "table"),
     Defines("CREATE VIEW is supported", "view") >>

(***************************************************************************)
(* Parameters.  S:56 "SHALL reject unsupported parameter modes or binary   *)
(* formats", M:11 "Binary parameters are not implemented".                 *)
(***************************************************************************)

\* The number 0.0: eight bytes 0, which are UTF-8.
Zero == [null |-> FALSE, binary |-> TRUE, type |-> "FLOAT8", utf8 |-> TRUE,
         bytes |-> [i \in 1 .. 8 |-> "0"], number |-> << >>]

BinaryValues == << [promise |-> "unsupported binary formats are refused", by |-> "parameter", parameter |-> Zero] >>

(***************************************************************************)
(* Answers.  _recorded/2026-05-28-change-dual-transport/plan.md:26         *)
(* "Identical user-visible behaviour is a requirement"; sql/               *)
(* postgres_catalog_compatibility.sql:1040 has ATTNOTNULL.                 *)
(***************************************************************************)

Column(data_type, arrow) ==
  [name |-> "ID", data_type |-> [type |-> data_type],
   field |-> [name |-> "ID", data_type |-> arrow, metadata |-> [none |-> TRUE]]]

AnswerOf(columns, row) ==
  [how |-> "query", columns |-> columns, chunks |-> << << row >> >>, schema |-> TRUE, count |-> 0]

Selecting(promise, data_type, arrow, kind) ==
  [promise |-> promise, by |-> "answer",
   answer |-> AnswerOf(<< Column(data_type, arrow) >>, << [kind |-> kind, v |-> 1] >>)]

\* The catalog's row of a NOT NULL column.
NotNull ==
  AnswerOf(<< Column("VARCHAR", [id |-> "Utf8"]), Column("BOOLEAN", [id |-> "Boolean"]) >>,
          << [kind |-> "text", v |-> [base |-> "DATE", args |-> << >>, tail |-> "none"]], [kind |-> "bool", v |-> 0] >>)

Selections ==
  << Selecting("a boolean is the same over either transport", "BOOLEAN", [id |-> "Boolean"], "bool"),
     Selecting("a timestamp is the same over either transport", "TIMESTAMP", [id |-> "Timestamp", zone |-> FALSE], "time"),
     Selecting("a geometry is the same over either transport", "GEOMETRY", [id |-> "Utf8"], "text"),
     [promise |-> "NOT NULL columns are reported over WebSocket", by |-> "columns", answer |-> NotNull] >>

(***************************************************************************)
(* The client.                                                             *)
(***************************************************************************)

Promises == Statements \o BinaryValues \o Selections

DocumentInputs == {Statements[i].input : i \in DOMAIN Statements}

DocumentInit == Init /\ enabled = TRUE /\ next = 1 /\ broken = {}

Case(by) == next <= Len(Promises) /\ Promises[next].by = by

Verdict(kept) ==
  /\ next' = next + 1
  /\ broken' = IF kept THEN broken ELSE broken \cup {Promises[next].promise}

Send == Case("statement") /\ Receive(Promises[next].input) /\ UNCHANGED tried

\* A query for the translator has to come out as it is meant.
Judge ==
  /\ Case("statement") /\ Ready
  /\ Verdict(/\ Kept(plan, input.means)
             /\ Translated => Settled(sent) = Meant(input))

Bind ==
  /\ Case("parameter")
  /\ Verdict(Parameter!render_portal_parameter(Promises[next].parameter) = Parameter!Error)
  /\ UNCHANGED vars

Sent(outcome) == Response!try_from(Response!map_exasol_result(outcome, FALSE, FALSE))

Select ==
  /\ Case("answer")
  /\ LET st == Promises[next].answer
     IN Verdict(Sent(Response!arrow_execute(st)) = Sent(Response!websocket_execute(st)))
  /\ UNCHANGED vars

AskForColumns ==
  /\ Case("columns")
  /\ LET told == Response!JdbcColumns(Response!websocket_execute(Promises[next].answer))
     IN Verdict(told.rows[1].attnotnull)
  /\ UNCHANGED vars

DocumentNext == Send \/ Judge \/ Bind \/ Select \/ AskForColumns

DocumentSpec == DocumentInit /\ [][DocumentNext]_<<vars, tried>>

\* The gateway keeps what the documents promise: when the client has tried every
\* promise above, none was broken.
DocumentsKept == next > Len(Promises) => broken = {}
=============================================================================
