------------------------------- MODULE Metadata -------------------------------
(***************************************************************************)
(* detect of src/metadata.rs: the catalog queries the gateway answers      *)
(* itself, before anything else looks at the statement.  A query is known  *)
(* by how it begins and by one phrase further on; what it asks for is read *)
(* off the conditions detect knows, and the rest of it is not looked at.   *)
(***************************************************************************)
EXTENDS SqlWords

\* A kind of query: how it starts, what comes later, and for every value it is
\* asked with the columns, the operator and the default.
Kind(starts, later, values) == [starts |-> starts, later |-> later, values |-> values]
Value(columns, op, default) == [columns |-> columns, op |-> op, default |-> default]

Star(table) == << "SELECT", "*", "FROM", table >>

\* NAMESPACE_LIKE_RE, RELNAME_LIKE_RE and ATTNAME_LIKE_RE; the other conditions.
SchemaPattern == Value({"n", "n.nspname"}, "LIKE", "%")
TablePattern == Value({"c", "c.relname"}, "LIKE", "%")
ColumnPattern == Value({"attname", "a.attname"}, "LIKE", "%")
CatalogIs == Value({"table_catalog"}, "=", "exasol")
SchemaIs == Value({"table_schema"}, "=", "")
TableIs == Value({"table_name"}, "=", "")

Kinds ==
  [JdbcColumns |-> Kind(<< "SELECT", "*", "FROM", "(SELECT", "current_database()", "AS", "current_database" >>,
                        << "JOIN", "pg_catalog.pg_attribute", "a" >>,
                        [schema |-> SchemaPattern, table |-> TablePattern, column |-> ColumnPattern]),
   JdbcTables  |-> Kind(<< "SELECT", "current_database()", "AS", "\"TABLE_CAT\"" >>,
                        << "FROM", "pg_catalog.pg_namespace", "n,", "pg_catalog.pg_class", "c" >>,
                        [schema |-> SchemaPattern, table |-> TablePattern]),
   JdbcSchemas |-> Kind(<< "SELECT", "nspname", "AS", "\"TABLE_SCHEM\"" >>,
                        << "FROM", "pg_catalog.pg_namespace" >>, << >>),
   PgNamespace |-> Kind(Star("pg_catalog.pg_namespace"), << >>, << >>),
   PgTables    |-> Kind(Star("pg_tables"), << >>,
                        [exclude |-> Value({"schemaname"}, "!=", ""), table |-> Value({"tablename"}, "=", "")]),
   InfoSchemaTableNames  |-> Kind(<< "SELECT", "table_name", "FROM", "information_schema.tables" >>, << >>,
                                  [catalog |-> CatalogIs, schema |-> SchemaIs]),
   InfoSchemaColumnNames |-> Kind(<< "SELECT", "column_name", "FROM", "information_schema.columns" >>, << >>,
                                  [catalog |-> CatalogIs, schema |-> SchemaIs, table |-> TableIs]),
   PgUser         |-> Kind(Star("pg_user"), << >>, << >>),
   PgGroup        |-> Kind(Star("pg_group"), << >>, << >>),
   PgStatActivity |-> Kind(Star("pg_stat_activity"), << >>, << >>),
   PgLocks        |-> Kind(Star("pg_locks"), << >>, << >>)]

\* The values of the literals of the model; a doubled apostrophe is one.
LiteralValue == ("'s'" :> "s") @@ ("'t'" :> "t") @@ ("'o''b'" :> "o'b") @@ ("'exasol'" :> "exasol") @@ ("'other'" :> "other")

\* The places where a condition on the value is.
Matches(text, v) ==
  {i \in 1 .. (Len(text) - 2) : /\ text[i] \in v.columns /\ text[i + 1] = v.op
                                /\ text[i + 2] \in DOMAIN LiteralValue}

capture_literal(text, v) ==
  IF Matches(text, v) = {} THEN v.default ELSE LiteralValue[text[Min(Matches(text, v)) + 2]]

\* The kinds exclude each other: no two start alike.
detect(sql) ==
  LET text  == Words(sql)
      found == {k \in DOMAIN Kinds : /\ IsPrefix(Kinds[k].starts, text)
                                     /\ Kinds[k].later = << >> \/ Occurs(Kinds[k].later, text)}
  IN {[tag |-> "Metadata", kind |-> k,
       values |-> [f \in DOMAIN Kinds[k].values |-> capture_literal(text, Kinds[k].values[f])]] : k \in found}
=============================================================================
