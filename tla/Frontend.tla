------------------------------- MODULE Frontend -------------------------------
(***************************************************************************)
(* What becomes of a statement's text: execute_statement of                *)
(* src/pg_server.rs asks metadata::detect, then classify_statement, and    *)
(* what Exasol is to run goes through the translator.                      *)
(***************************************************************************)
EXTENDS Policy, Metadata, Translator

CONSTANT Inputs   \* records [words, means, layout, parts]: what the client means
                  \* and how it writes it down (see SqlRequests, SqlFragments)

VARIABLES enabled,  \* translation.enabled of the configuration
          input,    \* the statement last sent
          plan,     \* what the gateway makes of it
          sent,     \* the text given to Exasol for it, without its white space
          fold      \* whether the labels of the result are folded

vars == <<enabled, input, plan, sent, fold>>

\* How words are written down: on one line, one to a line, with comments
\* between them, or between a comment and semicolons.
Between(words, gap) == FlattenSeq([i \in DOMAIN words |-> IF i = 1 THEN << words[1] >>
                                                          ELSE << gap, words[i] >>])

Written(words, layout) ==
  CASE layout = "line"     -> words
    [] layout = "lines"    -> Between(words, NL)
    [] layout = "comments" -> Between(words, COMMENT)
    [] layout = "wrapped"  -> << COMMENT >> \o words \o << ";", ";", NL >>

Nothing == [words |-> << >>, means |-> Local("Empty"), layout |-> "line", parts |-> << >>]

Init == enabled \in BOOLEAN /\ input = Nothing /\ plan = Local("Empty") /\ sent = << >> /\ fold = FALSE

\* The plan for a text.
Planned(sql) ==
  IF detect(sql) # {} THEN CHOOSE p \in detect(sql) : TRUE
  ELSE LET p == classify_statement(sql) IN IF p.tag = "Declare" THEN declare_cursor(p) ELSE p

should_fold_labels(sql) == enabled /\ ~is_passthrough_query(sql)

translate_client_sql(sql) == IF enabled THEN translate_postgres_to_exasol(sql) ELSE Words(sql)

\* What of the text Exasol is given: a statement as it is, of a declaration the query.
ForExasol(sql, p) == CASE p.tag = "Execute" -> sql
                       [] p.tag = "Declare" -> p.query
                       [] OTHER             -> << >>

\* Mutant: apostrophes are not doubled.
Enclosed(value) == "'" \o value \o "'"

sql_string_literal(value) == IF value = "o'b" THEN "'o''b'" ELSE "'" \o value \o "'"

\* What Exasol is asked for a catalog query: the word for the relation, and the
\* filters.  The empty text stands for an answer the gateway makes up itself.
execute_metadata_query(p) ==
  LET is(column, op) == Filter(column, op, << sql_string_literal(p.values[column]) >>)
  IN CASE p.kind \in {"JdbcSchemas", "PgNamespace"} -> << "<schemas>" >>
       [] p.kind = "JdbcTables"  -> << "<tables and views>" >> \o is("schema", "LIKE") \o is("table", "LIKE")
       [] p.kind = "JdbcColumns" ->
            << "<columns>" >> \o is("schema", "LIKE") \o is("table", "LIKE") \o is("column", "LIKE")
       [] p.kind = "PgTables"    ->
            << "<tables>" >>
              \o Filter("schema", "!=", << sql_string_literal(IF p.values.exclude = "" THEN "pg_catalog" ELSE p.values.exclude) >>)
              \o (IF p.values.table = "" THEN << >> ELSE is("table", "="))
       [] p.kind = "InfoSchemaTableNames" /\ p.values.catalog = "exasol" ->
            << "<tables and views>" >> \o is("schema", "=")
       [] p.kind = "InfoSchemaColumnNames" /\ p.values.catalog = "exasol" ->
            << "<columns>" >> \o is("schema", "=") \o is("table", "=")
       [] OTHER -> << >>

\* polyglot_sql may be unable to parse the statement, which is then refused.
Untranslatable(sql) == enabled /\ TranslationPath(sql) = "transpiled"

execute_statement(sql) ==
  \E p \in {Planned(sql)} :
    \/ /\ plan' = p
       /\ fold' = (p.tag = "Execute" /\ should_fold_labels(sql))
       /\ sent' = IF p.tag = "Metadata" THEN execute_metadata_query(p) ELSE translate_client_sql(ForExasol(sql, p))
    \/ /\ p.tag \in {"Execute", "Declare"} /\ Untranslatable(ForExasol(sql, p))
       /\ plan' = Reject("translation") /\ fold' = FALSE /\ sent' = << >>

Receive(i) ==
  /\ input = Nothing
  /\ input' = i
  /\ \E sql \in {Written(i.words, i.layout)} : execute_statement(sql)
  /\ UNCHANGED enabled

\* The gateway is ready for the next statement; none of the above has memory.
Ready ==
  /\ input # Nothing
  /\ input' = Nothing /\ plan' = Local("Empty") /\ sent' = << >> /\ fold' = FALSE
  /\ UNCHANGED enabled

Next == (\E i \in Inputs : Receive(i)) \/ Ready

Spec == Init /\ [][Next]_vars

(***************************************************************************)
(* Properties.                                                             *)
(***************************************************************************)

Tags == {"Empty", "Execute", "Reject", "ClientSet", "SetSearchPath", "ShowSearchPath", "ClientShow",
         "ClientSelect", "BackendPid", "ClientTransactionStart", "ClientTransactionEnd", "Declare",
         "FETCH", "MOVE", "Close", "CloseAll", "Metadata"}

\* Every statement has a plan of a known kind, and the names in it are names:
\* a schema to open and the column of pg_backend_pid are never empty.  Exasol is
\* given a text for the plans it is to run, may be for a catalog query, and for
\* no other.
TypeOK ==
  /\ enabled \in BOOLEAN /\ fold \in BOOLEAN
  /\ input = Nothing => plan = Local("Empty")
  /\ plan.tag \in Tags
  /\ plan.tag = "SetSearchPath" => plan.schema # ""
  /\ plan.tag = "BackendPid" => plan.column # ""
  /\ plan.tag # "Metadata" => ((sent # << >>) <=> (plan.tag \in {"Execute", "Declare"}))

\* What is planned is what is meant: the same command on the same object, cursor,
\* schema or parameter, with the same options and direction; the white space of
\* a cursor's query does not matter.
Kept(p, means) ==
  CASE means.tag = "Refused"                          -> p.tag = "Reject"
    [] means.tag = "Metadata" /\ p.tag = "Metadata"   ->
         means.other = << >> /\ p.kind = means.kind /\ p.values = means.values
    [] means.tag = "Declare" /\ p.tag = "Declare"     -> [p EXCEPT !.query = Words(@)] = means
    [] OTHER                                          -> p = means

(***************************************************************************)
(* The ways in which the code departs from the meaning, each with the      *)
(* inputs it concerns and what becomes of them.                            *)
(* MCDocuments tries those that a document of the repository rules out.    *)
(***************************************************************************)

Spread(i) == i.layout \in {"lines", "comments"}
Says(i, word) == word \in ToSet(i.words)

\* Of a declaration, NO SCROLL and WITH HOLD are not recognised when spread (any
\* SCROLL counts, and the cursor does not outlive its transaction), and the query
\* loses what looks like a comment in a literal.
DeclarationMisread(i, p) ==
  /\ i.means.tag = "Declare"
  /\ Spread(i) \/ Says(i, "'/*x*/'")
  /\ Kept(p, [i.means EXCEPT !.scroll = IF Spread(i) THEN Says(i, "SCROLL") ELSE @,
                             !.hold = @ /\ ~Spread(i),
                             !.query = [j \in DOMAIN @ |-> Uncommented(@[j])]])

\* ROLLBACK WORK TO a savepoint ends the transaction.
SavepointMisread(i, p) ==
  /\ i.means.tag = "Refused" /\ Says(i, "TO")
  /\ Word(i.words, 2) \in {"WORK", "TRANSACTION"}
  /\ p = TransactionEnd("ROLLBACK")

\* Of several schemas the first is opened, or none if they are on several lines.
ListCut(i, p) ==
  /\ Says(i, ",")
  /\ p = IF i.layout = "lines" THEN Local("ClientSet")
         ELSE [tag |-> "SetSearchPath", schema |-> "s"]

\* A cursor with a space in its name can be declared, not used.
NameRefused(i, p) ==
  /\ Says(i, "\"my c\"") /\ i.means.tag \in {"FETCH", "MOVE", "Close"}
  /\ p = Reject("syntax")

\* A write or a declaration that names pg_settings is answered from the gateway.
SettingsAnswered(i, p) ==
  /\ i.means.tag \in {"Execute", "Declare"} /\ Says(i, "pg_settings")
  /\ p = Answer("pg_settings")

\* Spread out, a probe goes to Exasol and a parameter of several words is unknown.
ProbeMissed(i, p) ==
  /\ Spread(i)
  /\ \/ i.means.tag \in {"ClientSelect", "BackendPid"}
        /\ p \in {execute(<< "SELECT" >>, "Omit"), Reject("translation")}
     \/ i.means.tag = "ClientShow" /\ Len(i.words) > 2 /\ p = Reject("unsupported")

\* With a comment in it or before it a catalog query is not answered by the
\* gateway but given to Exasol, translated.
CatalogQueryMissed(i, p) ==
  i.means.tag = "Metadata" /\ i.layout \in {"comments", "wrapped"} /\ p = execute(<< "SELECT" >>, "Omit")

\* A condition detect does not know makes no difference to its answer.
ConditionIgnored(i, p) ==
  /\ i.means.tag = "Metadata" /\ p.tag = "Metadata" /\ i.means.other # << >>
  /\ p = [tag |-> "Metadata", kind |-> i.means.kind, values |-> i.means.values]

\* Whatever the client means, as PostgreSQL's grammar and the compatibility
\* matrix read its words, is what detect, classify_statement and declare_cursor
\* plan, and what is not supported is refused; but for the departures listed
\* above, which do what they are said to do and happen to no other statement.
OnlyKnownDepartures ==
  \/ Kept(plan, input.means)
  \/ DeclarationMisread(input, plan)
  \/ SavepointMisread(input, plan)
  \/ ListCut(input, plan)
  \/ NameRefused(input, plan)
  \/ SettingsAnswered(input, plan)
  \/ ProbeMissed(input, plan)
  \/ CatalogQueryMissed(input, plan)
  \/ ConditionIgnored(input, plan)
  \/ plan = Reject("translation") /\ input.means.tag \in {"Execute", "Declare", "Metadata"}

(***************************************************************************)
(* A small catalog, and what the conditions of a query select from it.     *)
(***************************************************************************)

CatalogRows == [catalog : {"exasol"}, schema : {"s", "t", "o'b"}, table : {"s", "t", "o'b"}, column : {"s", "t", "o'b"}]

\* The columns of CatalogRows by the names the queries have for them.
ColumnOf ==
  [w \in {"schema", "nspname", "n.nspname", "schemaname", "table_schema"} |-> "schema"]
    @@ [w \in {"table", "c.relname", "tablename", "table_name"} |-> "table"]
    @@ [w \in {"column", "attname"} |-> "column"] @@ [w \in {"table_catalog"} |-> "catalog"]

Selects(text, row) ==
  \A i \in 1 .. (Len(text) - 2) :
    text[i] \in DOMAIN ColumnOf =>
      LET same == text[i + 2] \in DOMAIN LiteralValue /\ LiteralValue[text[i + 2]] = row[ColumnOf[text[i]]]
      IN CASE text[i + 1] = "="    -> same
           [] text[i + 1] = "!="   -> ~same
           [] text[i + 1] = "LIKE" -> same \/ text[i + 2] = "'%'"
           [] OTHER                -> TRUE

Selected(text) == {row \in CatalogRows : Selects(text, row)}

\* What execute_metadata_query asks Exasol for is what the client's query selects:
\* all of it always, and no more unless the query has a condition detect does
\* not know.  information_schema without a schema has no rows.
CatalogQueriesSelectTheRows ==
  plan.tag = "Metadata" /\ plan.kind \notin {"PgUser", "PgGroup", "PgStatActivity", "PgLocks"} =>
    LET meant == Selected(input.words)
        asked == IF sent = << >> THEN {} ELSE Selected(sent)
    IN \/ asked = meant
       \/ meant \subseteq asked /\ input.means.other # << >>
       \/ asked = {} /\ "schema" \in DOMAIN plan.values /\ plan.values.schema = ""
=============================================================================
