-------------------------------- MODULE Policy --------------------------------
(***************************************************************************)
(* How the gateway reads a statement: classify_statement of src/policy.rs  *)
(* and the parsers it calls decide, from the text alone, whether Exasol    *)
(* runs the statement, the gateway answers it, or it is refused.           *)
(***************************************************************************)
EXTENDS SqlWords

CONSTANT IMax     \* the largest i64

Cursor == INSTANCE GatewayCursor

(***************************************************************************)
(* Plans.                                                                  *)
(***************************************************************************)

execute(command, row_count) == [tag |-> "Execute", command |-> command, row_count |-> row_count]
Reject(why) == [tag |-> "Reject", why |-> why]
Local(tag) == [tag |-> tag]
Answer(what) == [tag |-> "ClientSelect", what |-> what]
TransactionEnd(command) == [tag |-> "ClientTransactionEnd", command |-> command]

is_cursor_unsafe_query(p) == ~(p.tag = "Execute" /\ p.command = << "SELECT" >>)

(***************************************************************************)
(* Cursor commands.                                                        *)
(***************************************************************************)

CursorOptions == {"BINARY", "INSENSITIVE", "ASENSITIVE", "NO", "SCROLL"}

\* The parts DECLARE_CURSOR_RE captures; ok says whether it matches.
DeclareParts(text) ==
  LET name    == SelectInSubSeq(text, 2, Len(text), LAMBDA w : w \notin Gaps)
      cursor  == SelectInSeq(text, LAMBDA w : w = "CURSOR")
      for     == SelectInSubSeq(text, cursor + 1, Len(text), LAMBDA w : w = "FOR")
      options == SubSeq(text, name + 1, cursor - 1)
      written == Words(options)
      hold    == Trim(SubSeq(text, cursor + 1, for - 1), Gaps)
  IN [ok      |-> /\ name < cursor /\ cursor < for /\ Word(text, 2) # "\"\""
                  /\ ToSet(written) \subseteq CursorOptions
                  /\ \A i \in DOMAIN written :
                       written[i] = "NO" => i < Len(written) /\ written[i + 1] = "SCROLL"
                  /\ Words(hold) \in {<< >>, << "WITH", "HOLD" >>, << "WITHOUT", "HOLD" >>}
                  /\ Words(SubSeq(text, for + 1, Len(text))) # << >>,
      options |-> options,
      hold    |-> hold,
      query   |-> Trim(SubSeq(text, for + 1, Len(text)), Gaps)]

contains_positioned_cursor_write(query) ==
  \E part \in {<< "FOR", "UPDATE" >>, << "FOR", "SHARE" >>, << "FOR", "NO", "KEY", "UPDATE" >>,
               << "FOR", "KEY", "SHARE" >>, << "WHERE", "CURRENT", "OF" >>} :
    Occurs(part, Words(query))

\* The options and the holdability are looked for with one space between
\* their words, although the expression allows any white space there.
classify_declare_cursor(text) ==
  LET parts == DeclareParts(text)
  IN IF ~parts.ok THEN Reject("syntax")
     ELSE IF ToSet(parts.options) \cap {"BINARY", "INSENSITIVE", "ASENSITIVE"} # {}
     THEN Reject("policy")
     ELSE IF contains_positioned_cursor_write(parts.query) THEN Reject("policy")
     ELSE [tag    |-> "Declare",
           name   |-> unquote_identifier(Word(text, 2)),
           query  |-> parts.query,
           scroll |-> "SCROLL" \in ToSet(parts.options) /\ ~Occurs(<< "NO", "SCROLL" >>, parts.options),
           hold   |-> parts.hold = << "WITH", "HOLD" >>]

\* The words of a direction clause; "3" and "-3" are the integers of the model.
Integer == [w \in {"3", "-3"} |-> IF w = "3" THEN 3 ELSE -3]

ClauseWords(clause) ==
  LET n == CHOOSE w \in DOMAIN Integer : Integer[w] = clause.n
  IN CASE clause.text = ""             -> << >>
       [] clause.text = "n"            -> << n >>
       [] clause.text = "ABSOLUTE n"   -> << "ABSOLUTE", n >>
       [] clause.text = "RELATIVE n"   -> << "RELATIVE", n >>
       [] clause.text = "FORWARD n"    -> << "FORWARD", n >>
       [] clause.text = "BACKWARD n"   -> << "BACKWARD", n >>
       [] clause.text = "FORWARD ALL"  -> << "FORWARD", "ALL" >>
       [] clause.text = "BACKWARD ALL" -> << "BACKWARD", "ALL" >>
       [] OTHER                        -> << clause.text >>

Clauses == Cursor!Clause({3, -3})

HasFrom(tokens) == Len(tokens) >= 3 /\ tokens[Len(tokens) - 1] \in {"FROM", "IN"}

\* The last word is the name, an optional FROM or IN is before it, and the
\* words between the command and that are the direction.
parse_cursor_position(command, text) ==
  LET tokens    == split_whitespace(text)
      len       == Len(tokens)
      direction == SubSeq(tokens, 2, IF HasFrom(tokens) THEN len - 2 ELSE len - 1)
      readings  == {c \in Clauses : ClauseWords(c) = direction}
  IN IF len < 2 \/ readings = {} THEN Reject("syntax")
     ELSE [tag |-> command, name |-> unquote_identifier(tokens[len]),
           direction |-> Cursor!parse_cursor_direction(CHOOSE c \in readings : TRUE)]

classify_close_cursor(text) ==
  LET tokens == split_whitespace(text)
  IN IF Len(tokens) # 2 THEN Reject("syntax")
     ELSE IF tokens[2] = "ALL" THEN [tag |-> "CloseAll"]
     ELSE [tag |-> "Close", name |-> unquote_identifier(tokens[2])]

(***************************************************************************)
(* SET, RESET, SHOW and the queries answered without Exasol.               *)
(***************************************************************************)

\* The words behind SET and an optional SESSION.
Assignment(text) ==
  LET words == Words(text)
  IN SubSeq(words, IF Word(text, 2) = "SESSION" THEN 3 ELSE 2, Len(words))

IsAssignment(words) == Len(words) >= 3 /\ words[2] \in {"=", "TO"}

\* What is behind = or TO.
RightHandSide(text) ==
  LET op == SelectInSeq(text, LAMBDA w : w \in {"=", "TO"})
  IN Trim(SubSeq(text, op + 1, Len(text)), Gaps)

\* SET_SEARCH_PATH_RE: the value ends with the line.
SetsSearchPath(text) ==
  /\ first_keyword(text) = "SET"
  /\ IsAssignment(Assignment(text)) /\ Assignment(text)[1] = "search_path"
  /\ NL \notin ToSet(RightHandSide(text))

\* Mutant: a schema without a name is opened.
AnyName(schema) == TRUE

HasName(schema) == schema # ""

\* Only the first entry of a list counts.
parse_search_path_value(rhs) ==
  LET comma == SelectInSeq(rhs, LAMBDA w : w = ",")
      entry == Trim(IF comma = 0 THEN rhs ELSE SubSeq(rhs, 1, comma - 1), Gaps)
  IN IF entry = << >> THEN Reject("syntax")
     ELSE IF entry = << "DEFAULT" >> THEN Local("ClientSet")
     ELSE LET w      == entry[1]
              schema == IF w \in DOMAIN SingleQuoted THEN SingleQuoted[w] ELSE unquote_identifier(w)
          IN IF HasName(schema) THEN [tag |-> "SetSearchPath", schema |-> schema] ELSE Reject("syntax")

is_safe_set(text) ==
  LET words == Words(text)
  IN /\ first_keyword(text) = "SET"
     /\ \/ IsPrefix(<< "SESSION", "CHARACTERISTICS", "AS", "TRANSACTION" >>, Tail(words))
        \/ ~IsPrefix(<< "TRANSACTION" >>, Assignment(text)) /\ IsAssignment(Assignment(text))

IsReset(text) == first_keyword(text) = "RESET" /\ Len(Words(text)) = 2

LocalParameters == {<< "datestyle" >>, << "timezone" >>, << "time", "zone" >>,
  << "transaction_isolation" >>, << "transaction", "isolation", "level" >>,
  << "transaction_read_only" >>, << "standard_conforming_strings" >>,
  << "client_encoding" >>, << "server_version" >>, << "application_name" >>}

\* The parameter's name is compared with one space between its words.
Shown(text) == Trim(Tail(text), Gaps)

\* Some local query answers to: pg_settings anywhere in the text, whatever the
\* statement is, or the whole of a known probe.
MentionsSettings(text) ==
  \E i \in DOMAIN text :
    \/ text[i] = "pg_catalog.pg_settings"
    \/ text[i] = "pg_settings" /\ i > 1 /\ text[i - 1] # NL

Probes == {"version()", "current_database()", "current_catalog", "current_catalog()",
           "current_user", "user"}

local_select(text) ==
  CASE MentionsSettings(text)                           -> {Answer("pg_settings")}
    [] Len(text) = 2 /\ text[1] = "SELECT" /\ text[2] \in Probes -> {Answer(text[2])}
    [] text = << "SELECT", "pg_backend_pid()" >>        -> {[tag |-> "BackendPid", column |-> "pg_backend_pid"]}
    [] Len(text) = 4 /\ IsPrefix(<< "SELECT", "pg_backend_pid()", "AS" >>, text)
                                                        -> {[tag |-> "BackendPid", column |-> unquote_identifier(text[4])]}
    [] OTHER                                            -> {}

local_show(text) ==
  IF first_keyword(text) # "SHOW" THEN {}
  ELSE IF Shown(text) = << "search_path" >> THEN {Local("ShowSearchPath")}
  ELSE IF Shown(text) \in LocalParameters
  THEN {[tag |-> "ClientShow", name |-> Shown(text)]}
  ELSE {}

(***************************************************************************)
(* The dispatch on the first keyword.                                      *)
(***************************************************************************)

\* Objects with no Exasol equivalent under each of CREATE, ALTER and DROP ...
PostgresOnly == {"EXTENSION", "PUBLICATION", "SUBSCRIPTION", "POLICY", "RULE", "EVENT",
  "TRIGGER", "TABLESPACE", "SERVER", "FOREIGN", "ACCESS", "TEXT", "OPERATOR", "LANGUAGE",
  "COLLATION", "CONVERSION", "DOMAIN", "TYPE", "STATISTICS"}
\* ... and under one of them.
PostgresOnlyUnder(verb) ==
  PostgresOnly \cup CASE verb = "CREATE" -> {"INDEX", "CAST", "TRANSFORM"}
                      [] verb = "ALTER"  -> {"FUNCTION", "PROCEDURE", "ROUTINE"}
                      [] verb = "DROP"   -> {"INDEX", "CAST", "TRANSFORM", "OWNED"}

PolicyObjects(verb) ==
  {"ROLE", "USER"} \cup (IF verb = "ALTER" THEN {"SYSTEM"} ELSE {"FUNCTION", "PROCEDURE", "SCRIPT"})

\* classify_create, classify_alter and classify_drop
classify_ddl(verb, text) ==
  LET object == second_keyword(text)
  IN CASE object \in {"TABLE", "VIEW", "SCHEMA"}  -> execute(<< verb, object >>, "Omit")
       [] object \in PolicyObjects(verb)          -> Reject("policy")
       [] object \in PostgresOnlyUnder(verb)      -> Reject("no equivalent")
       [] OTHER                                   -> Reject("unsupported")

\* Mutant: PREPARED is not told from a plain COMMIT or ROLLBACK.
EndWhatever(text) ==
  TransactionEnd(IF first_keyword(text) \in {"COMMIT", "END"} THEN "COMMIT" ELSE "ROLLBACK")

classify_transaction_end(text) ==
  LET verb == first_keyword(text)
  IN IF \/ verb = "COMMIT" /\ second_keyword(text) = "PREPARED"
        \/ verb = "ROLLBACK" /\ second_keyword(text) \in {"TO", "PREPARED"}
     THEN Reject("no equivalent")
     ELSE TransactionEnd(IF verb \in {"COMMIT", "END"} THEN "COMMIT" ELSE "ROLLBACK")

classify_by_keyword(text) ==
  LET k == first_keyword(text)
  IN CASE k \in {"SELECT", "WITH", "VALUES"}              -> execute(<< "SELECT" >>, "Omit")
       [] k \in {"INSERT", "UPDATE", "DELETE", "MERGE"}   -> execute(<< k >>, "Include")
       [] k = "TRUNCATE"                                  -> execute(<< "TRUNCATE", "TABLE" >>, "Omit")
       [] k \in {"CREATE", "ALTER", "DROP"}               -> classify_ddl(k, text)
       [] k \in {"COMMENT", "GRANT", "REVOKE"}            -> execute(<< k >>, "Omit")
       [] k \in {"COPY", "IMPORT", "EXPORT",
                 "PREPARE", "EXECUTE", "DEALLOCATE"}      -> Reject("policy")
       [] k = "DECLARE"                                   -> classify_declare_cursor(text)
       [] k \in {"FETCH", "MOVE"}                         -> parse_cursor_position(k, text)
       [] k = "CLOSE"                                     -> classify_close_cursor(text)
       [] k \in {"BEGIN", "START"}                        -> Local("ClientTransactionStart")
       [] k \in {"COMMIT", "ROLLBACK", "ABORT", "END"}    -> classify_transaction_end(text)
       [] k \in {"SAVEPOINT", "RELEASE", "LISTEN", "NOTIFY", "UNLISTEN", "VACUUM", "REINDEX",
                 "CLUSTER", "CHECKPOINT", "ANALYZE"}      -> Reject("no equivalent")
       [] OTHER                                           -> Reject("unsupported")

classify_statement(sql) ==
  LET cleaned == normalize_sql(sql)
  IN IF cleaned = << >> THEN Local("Empty")
     ELSE IF SetsSearchPath(cleaned) THEN parse_search_path_value(RightHandSide(cleaned))
     ELSE IF is_safe_set(cleaned) \/ IsReset(cleaned) THEN Local("ClientSet")
     ELSE IF local_show(cleaned) # {} THEN CHOOSE p \in local_show(cleaned) : TRUE
     ELSE IF local_select(cleaned) # {} THEN CHOOSE p \in local_select(cleaned) : TRUE
     ELSE classify_by_keyword(cleaned)

\* declare_cursor refuses a query that is not one for Exasol to answer.
declare_cursor(p) ==
  IF is_cursor_unsafe_query(classify_statement(p.query)) THEN Reject("policy") ELSE p
=============================================================================
