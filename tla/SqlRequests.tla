----------------------------- MODULE SqlRequests ------------------------------
(***************************************************************************)
(* What a client can mean and the words it says it with: PostgreSQL's      *)
(* grammar for the statements the gateway treats itself, and a sample of   *)
(* the others.  Each request is a record of its words and of the plan that *)
(* its meaning, with the compatibility matrix of docs/, calls for; the     *)
(* meaning is built from the parts of the request, never from the words.   *)
(***************************************************************************)
EXTENDS Frontend

Request(words, means) == [words |-> words, means |-> means]
Refused(what) == [tag |-> "Refused", what |-> what]

\* The name written and the name meant.
Unquoted(name) == CASE name = "\"c\""    -> "c"
                    [] name = "\"my c\"" -> "my c"
                    [] OTHER             -> name

(***************************************************************************)
(* Cursors.                                                                *)
(***************************************************************************)

\* DECLARE with a list of options, a holdability and a query.
Declare(name, options, hold, query) ==
  LET spelled(o) == IF o = "NO SCROLL" THEN << "NO", "SCROLL" >> ELSE << o >>
      refused    == \/ ToSet(options) \cap {"BINARY", "INSENSITIVE", "ASENSITIVE"} # {}
                    \/ query[1] # "SELECT" \/ "UPDATE" \in ToSet(query)
  IN Request(<< "DECLARE", name >> \o FlattenSeq([i \in DOMAIN options |-> spelled(options[i])])
               \o << "CURSOR" >> \o hold \o << "FOR" >> \o query,
             IF refused THEN Refused("cursor")
             ELSE [tag |-> "Declare", name |-> Unquoted(name), query |-> query,
                   scroll |-> "SCROLL" \in ToSet(options), hold |-> hold = << "WITH", "HOLD" >>])

OptionLists == {<< >>} \cup {<< o >> : o \in {"BINARY", "INSENSITIVE", "ASENSITIVE", "SCROLL", "NO SCROLL"}}
               \cup {<< o, s >> : o \in {"BINARY", "ASENSITIVE"}, s \in {"SCROLL", "NO SCROLL"}}
Holds == {<< >>, << "WITH", "HOLD" >>, << "WITHOUT", "HOLD" >>}
Queries == {<< "SELECT", "x" >>, << "SELECT", "'/*x*/'" >>, << "SELECT", "x", "FOR", "UPDATE" >>, << "DELETE", "FROM", "t" >>,
            << "FETCH", "c" >>}

Declares(names) == {Declare(n, o, h, q) : n \in names, o \in OptionLists, h \in Holds, q \in Queries}

Positions(names) ==
  {Request(<< cmd >> \o ClauseWords(clause) \o from \o << name >>,
           [tag |-> cmd, name |-> Unquoted(name), direction |-> Cursor!parse_cursor_direction(clause)]) :
     cmd \in {"FETCH", "MOVE"}, clause \in Clauses, from \in {<< >>, << "FROM" >>, << "IN" >>},
     name \in names}

Closes(names) ==
  {Request(<< "CLOSE", "ALL" >>, [tag |-> "CloseAll"])}
    \cup {Request(<< "CLOSE", n >>, [tag |-> "Close", name |-> Unquoted(n)]) : n \in names}

(***************************************************************************)
(* Transactions.                                                           *)
(***************************************************************************)

Noise == {<< >>, << "WORK" >>, << "TRANSACTION" >>}

Transactions ==
  {Request(<< "BEGIN" >> \o n, Local("ClientTransactionStart")) : n \in Noise}
    \cup {Request(<< "START", "TRANSACTION" >>, Local("ClientTransactionStart"))}
    \cup {Request(<< verb >> \o n, TransactionEnd("COMMIT")) : verb \in {"COMMIT", "END"}, n \in Noise}
    \cup {Request(<< verb >> \o n, TransactionEnd("ROLLBACK")) : verb \in {"ROLLBACK", "ABORT"}, n \in Noise}
    \cup {Request(<< verb, "PREPARED", "x" >>, Refused("two-phase commit")) : verb \in {"COMMIT", "ROLLBACK"}}
    \cup {Request(<< "PREPARE", "TRANSACTION", "x" >>, Refused("two-phase commit"))}
    \cup {Request(<< "SAVEPOINT", "p" >>, Refused("savepoint")),
          Request(<< "RELEASE", "p" >>, Refused("savepoint")),
          Request(<< "RELEASE", "SAVEPOINT", "p" >>, Refused("savepoint"))}

SavepointRollbacks ==
  {Request(<< "ROLLBACK" >> \o n \o << "TO" >> \o s \o << "p" >>, Refused("savepoint")) :
     n \in Noise, s \in {<< >>, << "SAVEPOINT" >>}}

(***************************************************************************)
(* Session parameters and local queries.                                   *)
(***************************************************************************)

SetWords == {<< "SET" >> \o s : s \in {<< >>, << "SESSION" >>}}

SearchPaths ==
  {Request(set \o << "search_path", op, name >>,
           CASE name = "DEFAULT"            -> Local("ClientSet")
             [] name \in {"\"\"", "''"}     -> Refused("name")
             [] OTHER                       -> [tag |-> "SetSearchPath", schema |-> "s"]) :
     set \in SetWords, op \in {"=", "TO"}, name \in {"s", "\"s\"", "'s'", "DEFAULT", "\"\"", "''"}}

SearchPathLists ==
  {Request(set \o << "search_path", op, "s", ",", "t" >>, Refused("list")) :
     set \in SetWords, op \in {"=", "TO"}}

Parameters ==
  {Request(set \o << "datestyle", op, "v" >>, Local("ClientSet")) : set \in SetWords, op \in {"=", "TO"}}
    \cup {Request(set \o << "TRANSACTION", "READ", "ONLY" >>, Refused("isolation")) : set \in SetWords}
    \cup {Request(<< "SET", "SESSION", "CHARACTERISTICS", "AS", "TRANSACTION", "READ", "ONLY" >>, Local("ClientSet"))}
    \cup {Request(<< "RESET", p >>, Local("ClientSet")) : p \in {"ALL", "search_path", "datestyle"}}
    \cup {Request(<< "SHOW" >> \o p, [tag |-> "ClientShow", name |-> p]) : p \in LocalParameters}
    \cup {Request(<< "SHOW", "search_path" >>, Local("ShowSearchPath")),
          Request(<< "SHOW", "work_mem" >>, Refused("parameter"))}

LocalQueries ==
  {Request(<< "SELECT", p >>, Answer(p)) : p \in Probes}
    \cup {Request(<< "SELECT", "name", "FROM", t >>, Answer("pg_settings")) :
            t \in {"pg_settings", "pg_catalog.pg_settings"}}
    \cup {Request(<< "SELECT", "pg_backend_pid()" >>, [tag |-> "BackendPid", column |-> "pg_backend_pid"]),
          Request(<< "SELECT", "pg_backend_pid()", "AS", "pid" >>, [tag |-> "BackendPid", column |-> "pid"])}

(***************************************************************************)
(* Queries, writes and definitions.                                        *)
(***************************************************************************)

Reads == {Request(<< k, "x" >>, execute(<< "SELECT" >>, "Omit")) : k \in {"SELECT", "WITH", "VALUES"}}

\* Writes to, or from, the table named; x stands for the words between.
Writes(table) == {Request(<< k, "x", table >>, execute(<< k >>, "Include")) :
                    k \in {"INSERT", "UPDATE", "DELETE", "MERGE"}}

Supported == {"TABLE", "VIEW", "SCHEMA"}

Definitions ==
  LET means(verb, o) == IF o \in Supported THEN execute(<< verb, o >>, "Omit") ELSE Refused("object")
  IN {Request(<< verb, o, "t" >>, means(verb, o)) :
        verb \in {"CREATE", "ALTER", "DROP"}, o \in Supported \cup {"USER", "FUNCTION", "INDEX", "EXTENSION", "SYSTEM", "OWNED"}}
     \cup {Request(<< "CREATE", "OR", "REPLACE", o, "t" >>, means("CREATE", o)) :
             o \in {"TABLE", "VIEW", "FUNCTION"}}

Others ==
  {Request(<< k, "x" >>, execute(<< k >>, "Omit")) : k \in {"COMMENT", "GRANT", "REVOKE"}}
    \cup {Request(<< "TRUNCATE", "t" >>, execute(<< "TRUNCATE", "TABLE" >>, "Omit"))}
    \cup {Request(<< k, "x" >>, Refused("command")) :
            k \in {"COPY", "IMPORT", "EXECUTE", "DEALLOCATE", "LISTEN", "NOTIFY", "VACUUM", "ANALYZE", "EXPLAIN"}}

(***************************************************************************)
(* Catalog queries: a kind, conditions on its values, and another one.     *)
(***************************************************************************)

CatalogQuery(kind, values, conditions, other) ==
  LET later == Kinds[kind].later
      where == conditions \o other
  IN Request(Kinds[kind].starts \o (IF later = << >> THEN << >> ELSE << "," >> \o later)
               \o (IF where = << >> THEN << >> ELSE << "WHERE" >> \o Tail(where)),
             [tag |-> "Metadata", kind |-> kind, values |-> values, other |-> other])

And(column, op, literal) == << "AND", column, op, literal >>

Names2 == {"s", "o'b"}
LiteralOf(name) == IF name = "s" THEN "'s'" ELSE "'o''b'"

MetadataQueries ==
  {CatalogQuery(k, << >>, << >>, o) : k \in {"PgNamespace", "PgUser", "PgGroup", "PgStatActivity", "PgLocks", "JdbcSchemas"},
                                     o \in {<< >>, And("nspname", "=", "'s'")}}
    \cup {CatalogQuery("JdbcTables", [schema |-> n, table |-> "%"], And("n.nspname", "LIKE", LiteralOf(n)), << >>) : n \in Names2}
    \cup {CatalogQuery("JdbcTables", [schema |-> "%", table |-> n], And("c.relname", "LIKE", LiteralOf(n)), o) :
            n \in Names2, o \in {<< >>, And("n.nspname", "=", "'s'")}}
    \cup {CatalogQuery("JdbcColumns", [schema |-> n, table |-> "t", column |-> "%"],
                       And("n.nspname", "LIKE", LiteralOf(n)) \o And("c.relname", "LIKE", "'t'"), << >>) : n \in Names2}
    \cup {CatalogQuery("JdbcColumns", [schema |-> "%", table |-> "%", column |-> n], And("attname", "LIKE", LiteralOf(n)), << >>) :
            n \in Names2}
    \cup {CatalogQuery("PgTables", [exclude |-> "", table |-> n], And("tablename", "=", LiteralOf(n)), o) :
            n \in Names2, o \in {<< >>, And("schemaname", "=", "'s'")}}
    \cup {CatalogQuery("PgTables", [exclude |-> "s", table |-> ""], And("schemaname", "!=", "'s'"), << >>)}
    \cup {CatalogQuery("InfoSchemaTableNames", [catalog |-> c, schema |-> n],
                       And("table_schema", "=", LiteralOf(n)) \o (IF c = "exasol" THEN << >> ELSE And("table_catalog", "=", "'other'")), o) :
            c \in {"exasol", "other"}, n \in Names2, o \in {<< >>, And("table_type", "=", "'t'")}}
    \cup {CatalogQuery("InfoSchemaTableNames", [catalog |-> "exasol", schema |-> ""], << >>, << >>)}
    \cup {CatalogQuery("InfoSchemaColumnNames", [catalog |-> "exasol", schema |-> n, table |-> "t"],
                       And("table_schema", "=", LiteralOf(n)) \o And("table_name", "=", "'t'"), << >>) : n \in Names2}

InLayouts(requests, layouts) ==
  {[words |-> r.words, means |-> r.means, layout |-> l, parts |-> << >>] : r \in requests, l \in layouts}
=============================================================================
