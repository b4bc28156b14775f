----------------------------- MODULE SqlFragments -----------------------------
(***************************************************************************)
(* Queries for the translator, put together from parts.  A part is what    *)
(* the client writes, what Exasol has to be given for it, why it makes the *)
(* statement one to translate (if it does), and, for the ways the          *)
(* translation can go on which the code does something else, what comes    *)
(* out.  Meanings are those of the two dialects, never computed with the   *)
(* translator.                                                             *)
(***************************************************************************)
EXTENDS SqlRequests

Part(words, means, reason, departs) ==
  [words |-> words, means |-> means, reason |-> reason, departs |-> departs]

Plain(words) == Part(words, words, "", << >>)
Dialect(words, means) == Part(words, means, "dialect", << >>)
Catalog(words, means) == Part(words, means, "catalog", << >>)

\* What becomes of the words however the statement goes.
Always(words) == [kept |-> words, transpiled |-> words]

(***************************************************************************)
(* How a statement begins.                                                 *)
(***************************************************************************)

Heads ==
  [select |-> Plain(<< "SELECT" >>),
   insert |-> Plain(<< "INSERT", "INTO", "u", "SELECT" >>),
   with   |-> Dialect(<< "WITH", "q", "AS", "(", "SELECT", "x", ")", "SELECT" >>,
                      << "WITH", "q", "AS", "(", "SELECT", "x", ")", "SELECT" >>),
   \* SELECT is a reserved word behind AS
   table  |-> Part(<< "CREATE", "TABLE", "u", "AS", "SELECT" >>, << "CREATE", "TABLE", "u", "AS", "SELECT" >>, "",
                   Always(<< "CREATE", "TABLE", "u", "AS", "\"SELECT\"" >>)),
   view   |-> Part(<< "CREATE", "VIEW", "u", "AS", "SELECT" >>, << "CREATE", "VIEW", "u", "AS", "SELECT" >>, "",
                   Always(<< "CREATE", "VIEW", "u", "AS", "\"SELECT\"" >>)),
   \* in brackets it is not
   bracketed |-> Plain(<< "CREATE", "VIEW", "u", "AS", "(", "SELECT", "x", ")", "UNION", "SELECT" >>)]

(***************************************************************************)
(* What it selects.                                                        *)
(***************************************************************************)

Literal(words) == << "'" >> \o words \o << "'" >>

Expressions ==
  [column   |-> Plain(<< "x" >>),
   cast     |-> Dialect(<< "x::int" >>, << "CAST(", "x", "AS", "INT", ")" >>),
   text     |-> Dialect(<< "x::varchar" >>, << "CAST(", "x", "AS", "VARCHAR(2000000)", ")" >>),
   date     |-> Plain(<< "CAST(", "x", "AS", "DATE", ")" >>),
   \* a type of several words is taken for an alias
   double   |-> Part(<< "CAST(", "x", "AS", "DOUBLE", "PRECISION", ")" >>, << "CAST(", "x", "AS", "DOUBLE", "PRECISION", ")" >>, "",
                     Always(<< "CAST(", "x", "AS", "\"DOUBLE\"", "PRECISION", ")" >>)),
   zoned    |-> Part(<< "CAST(", "x", "AS", "TIMESTAMP", "WITH", "LOCAL", "TIME", "ZONE", ")" >>,
                     << "CAST(", "x", "AS", "TIMESTAMP", "WITH", "LOCAL", "TIME", "ZONE", ")" >>, "",
                     Always(<< "CAST(", "x", "AS", "\"TIMESTAMP\"", "WITH", "LOCAL", "TIME", "ZONE", ")" >>)),
   schema   |-> Dialect(<< "current_schema()" >>, << "CURRENT_SCHEMA" >>),
   \* not behind white space
   glued    |-> Part(<< "x,current_schema()" >>, << "x,CURRENT_SCHEMA" >>, "", [kept |-> << "x,current_schema()" >>]),
   user     |-> Dialect(<< "session_user" >>, << "CURRENT_USER" >>),
   database |-> Dialect(<< "current_database()" >>, << "'exasol'" >>),
   comment  |-> Dialect(<< "col_description(format(x)::regclass,1)" >>, << "CAST(", "NULL", "AS", "VARCHAR(2000000)", ")" >>),
   viewdef  |-> Part(<< "pg_get_viewdef(x,true)" >>, << "PG_CATALOG.PG_GET_VIEWDEF(x)" >>, "", [kept |-> << "pg_get_viewdef(x,true)" >>]),
   ilike    |-> Dialect(<< "x", "ILIKE", "'s'" >>, << "UPPER(", "x", ")", "LIKE", "UPPER(", "'s'", ")" >>),
   castIlike |-> Dialect(<< "x::int", "ILIKE", "'s'" >>,
                         << "UPPER(", "CAST(", "x", "AS", "INT", ")", ")", "LIKE", "UPPER(", "'s'", ")" >>),
   \* the qualifier is left outside, and other operands are not recognised
   qualified |-> Part(<< "a.x", "ILIKE", "'s'" >>, << "UPPER(", "a.x", ")", "LIKE", "UPPER(", "'s'", ")" >>, "dialect",
                      [transpiled |-> << "a.UPPER(", "x", ")", "LIKE", "UPPER(", "'s'", ")" >>]),
   computed |-> Part(<< "lower(", "x", ")", "ILIKE", "'s'" >>,
                     << "UPPER(", "lower(", "x", ")", ")", "LIKE", "UPPER(", "'s'", ")" >>, "dialect",
                     [transpiled |-> << "lower(", "x", ")", "ILIKE", "'s'" >>]),
   match    |-> Dialect(<< "x", "~", "'s'" >>, << "REGEXP_INSTR(", "x", ",", "'s'", ")", ">", "0" >>),
   mismatch |-> Dialect(<< "x", "!~", "'s'" >>, << "REGEXP_INSTR(", "x", ",", "'s'", ")", "=", "0" >>),
   type     |-> Catalog(<< "format_type(x)" >>, << "PG_CATALOG.FORMAT_TYPE(x)" >>),
   equals   |-> Dialect(<< "x", "OPERATOR(pg_catalog.=)", "x" >>, << "x", "=", "x" >>)]

\* Literals, which nothing should touch.
Literals ==
  [plain   |-> Plain(Literal(<< "v" >>)),
   aliased |-> Part(Literal(<< "paid", "AS", "time" >>), Literal(<< "paid", "AS", "time" >>), "",
                    Always(Literal(<< "paid", "AS", "\"time\"" >>))),
   offset  |-> Part(Literal(<< "the", "OFFSET", "0" >>), Literal(<< "the", "OFFSET", "0" >>), "",
                    Always(Literal(<< "the" >>))),
   path    |-> Part(Literal(<< "exasol.s.t" >>), Literal(<< "exasol.s.t" >>), "", Always(Literal(<< "s.t" >>))),
   \* those that look like PostgreSQL make the statement one to translate
   colons  |-> Part(Literal(<< "x::int" >>), Literal(<< "x::int" >>), "literal", << >>),
   names   |-> Part(Literal(<< "pg_class" >>), Literal(<< "pg_class" >>), "literal", << >>),
   from    |-> Part(Literal(<< "FROM", "pg_class" >>), Literal(<< "FROM", "pg_class" >>), "literal",
                    [transpiled |-> Literal(<< "FROM", "PG_CATALOG.pg_class" >>)]),
   user    |-> Part(Literal(<< "session_user" >>), Literal(<< "session_user" >>), "literal",
                    [transpiled |-> Literal(<< "CURRENT_USER" >>)]),
   ilike   |-> Part(Literal(<< "x", "ILIKE", "y" >>), Literal(<< "x", "ILIKE", "y" >>), "literal",
                    [transpiled |-> Literal(<< "UPPER(", "x", ")", "LIKE", "UPPER(", "y", ")" >>)])]

Aliases ==
  [none     |-> Plain(<< >>),
   free     |-> Plain(<< "AS", "a" >>),
   reserved |-> Part(<< "AS", "time" >>, << "AS", "\"time\"" >>, "", << >>),
   quoted   |-> Plain(<< "AS", "\"time\"" >>)]

(***************************************************************************)
(* What it selects from, and how much of it.                               *)
(***************************************************************************)

Sources ==
  [table    |-> Plain(<< "FROM", "t" >>),
   prefixed |-> Part(<< "FROM", "exasol.s.t" >>, << "FROM", "s.t" >>, "", << >>),
   \* quotes are taken off, and with them the case of the names
   quoted   |-> Part(<< "FROM", "\"s\".\"t\"" >>, << "FROM", "\"s\".\"t\"" >>, "", [transpiled |-> << "FROM", "s.t" >>]),
   whole    |-> Part(<< "FROM", "\"exasol\".\"s\".\"t\"" >>, << "FROM", "\"s\".\"t\"" >>, "", [transpiled |-> << "FROM", "s.t" >>]),
   aliased  |-> Part(<< "FROM", "t", "\"a\"", "WHERE", "\"a\".x" >>, << "FROM", "t", "\"a\"", "WHERE", "\"a\".x" >>, "",
                     [transpiled |-> << "FROM", "t", "a", "WHERE", "\"a\".x" >>]),
   renamed  |-> Part(<< "FROM", "t", "AS", "\"a\"", "WHERE", "\"a\".\"x\"" >>, << "FROM", "t", "AS", "\"a\"", "WHERE", "\"a\".\"x\"" >>, "",
                     [transpiled |-> << "FROM", "t", "AS", "a", "WHERE", "a.x" >>]),
   catalog  |-> Catalog(<< "FROM", "pg_class" >>, << "FROM", "PG_CATALOG.pg_class" >>),
   quotedCatalog |-> Catalog(<< "FROM", "\"pg_class\"" >>, << "FROM", "PG_CATALOG.pg_class" >>),
   joined   |-> Catalog(<< "FROM", "t", "JOIN", "pg_class", "a" >>, << "FROM", "t", "JOIN", "PG_CATALOG.pg_class", "a" >>),
   qualified |-> Catalog(<< "FROM", "pg_catalog.pg_class" >>, << "FROM", "PG_CATALOG.pg_class" >>),
   server   |-> Catalog(<< "FROM", "pg_foreign_server", "AS", "fs", "WHERE", "fs.oid" >>,
                        << "FROM", "PG_CATALOG.\"PG_FOREIGN_SERVER\"", "AS", "srv", "WHERE", "srv.oid" >>),
   schema   |-> Catalog(<< "FROM", "information_schema.tables" >>, << "FROM", "INFORMATION_SCHEMA.tables" >>)]

Limits ==
  [none   |-> Plain(<< >>),
   zero   |-> Part(<< "LIMIT", "5", "OFFSET", "0" >>, << "LIMIT", "5" >>, "", << >>),
   null   |-> Part(<< "OFFSET", "NULL", "ROWS" >>, << >>, "", << >>),
   five   |-> Plain(<< "LIMIT", "5", "OFFSET", "5" >>)]

(***************************************************************************)
(* Catalog queries of Metabase, the JDBC and Qlik drivers and Beekeeper.   *)
(***************************************************************************)

Native(words, means) == Part(words, means, "known", << >>)

\* Recognised only when the text is nothing else; else Exasol is given the query.
Exactly(words, means, otherwise) == Part(words, means, "exactly", [transpiled |-> otherwise])

Clause(column, op, value) == << column, op, value >>

ColumnsOf(condition) ==
  << "SELECT", "col_description(x)", "FROM", "information_schema.columns", "c", "WHERE" >> \o condition
    \o << "UNION", "ALL", "SELECT", "x", "FROM", "pg_catalog.pg_class" >>

ForeignKeysOf(schemaColumn, tableColumn, table) ==
  << "SELECT", "c.conname", "FROM", "pg_constraint", "c", "JOIN", "generate_subscripts(c)", "pos",
     "WHERE", "c.contype", "=", "'f'", "AND", schemaColumn, "=", "'s'", "AND", tableColumn, "=", table >>

PrimaryKeyOf(relation) ==
  << "SELECT", "format_type(x)", "FROM", "pg_index", "i", "WHERE", "i.indrelid", "=", relation, "AND", "i.indisprimary" >>

CatalogQueries ==
  [collations |-> Exactly(<< "SELECT", "collation_schema", ",", "collation_name", "FROM", "information_schema.collations" >>,
                          << "<collations>" >>,
                          << "SELECT", "collation_schema", ",", "collation_name", "FROM", "INFORMATION_SCHEMA.collations" >>),
   servers    |-> Exactly(<< "SELECT", "l.oid", ",", "l.*", "FROM", "pg_catalog.pg_foreign_server", "l" >>,
                          << "<foreign servers>" >>,
                          << "SELECT", "l.oid", ",", "l.*", "FROM", "PG_CATALOG.pg_foreign_server", "l" >>),
   privileges |-> Exactly(<< "WITH", "table_privileges", "AS", "(", "SELECT", "has_any_column_privilege()", ",",
                             "has_table_privilege()", ")", "SELECT", "x", "FROM", "table_privileges" >>,
                          << "<privileges>" >>,
                          << "WITH", "table_privileges", "AS", "(", "SELECT", "has_any_column_privilege()", ",",
                             "has_table_privilege()", ")", "SELECT", "x", "FROM", "table_privileges" >>),
   columns    |-> Native(ColumnsOf(<< "c.table_schema", "IN", "(", "'s'", ",", "'t'", ")", "AND", "c.table_name", "IN", "(", "'t'", ")" >>),
                         << "<columns>", "schema", "IN", "'s'", ",", "'t'", "table", "IN", "'t'" >>),
   \* a condition written another way is lost, and all tables are listed
   columnsOfOne |-> Part(ColumnsOf(<< "c.table_schema", "=", "'s'" >>), << "<columns>", "schema", "=", "'s'" >>, "known",
                         [known |-> << "<columns>" >>]),
   foreignKeys |-> Native(<< "SELECT", "x", "AS", "\"fk-table-schema\"", ",", "x", "AS", "\"pk-table-schema\"", "FROM", "\"pg_constraint\"",
                             "WHERE", "any(c.conkey)", "AND", "\"fk_ns\".\"nspname\"", "IN", "(", "'s'", ")" >>,
                          << "<foreign keys>", "schema", "IN", "'s'" >>),
   keys       |-> Native(<< "SELECT", "key_seq", ",", "pk_name", "FROM", "information_schema._pg_expandarray", "JOIN", "pg_catalog.pg_index",
                            "WHERE", "i.indisprimary", "AND", "n.nspname", "=", "'s'", "AND", "ct.relname", "=", "'o''b'" >>,
                         << "<key columns>", "schema", "=", "'s'", "table", "=", "'o''b'" >>),
   indexes    |-> Native(<< "SELECT", "pg_get_indexdef(x)", "FROM", "information_schema._pg_expandarray", "JOIN", "pg_catalog.pg_index" >>,
                         << "<no indexes>" >>),
   constraints |-> Native(<< "SELECT", "array_agg(col.attname)", "FROM", "pg_constraint", "JOIN", "LATERAL", "unnest(k)",
                             "WHERE", "sch.nspname", "LIKE", "'s'", "AND", "tbl.relname", "LIKE", "'o''b'" >>,
                          << "<constraints>", "schema", "LIKE", "'s'", "table", "LIKE", "'o''b'" >>),
   triggers   |-> Native(<< "SELECT", "array_agg(e)", "FROM", "pg_catalog.pg_trigger", "JOIN", "information_schema.triggers" >>,
                         << "<no triggers>" >>),
   tables     |-> Native(<< "SELECT", "relkind", "FROM", "information_schema.tables", "JOIN", "pg_class", "ON",
                            "relnamespace::regnamespace", "JOIN", "pg_inherits" >>, << "<tables>" >>),
   primaryKey |-> Native(PrimaryKeyOf("'s.t'::regclass"), << "<primary keys>", "table", "=", "t", "schema", "=", "s" >>),
   \* without a schema every schema counts, and an apostrophe cuts the name
   unqualifiedKey |-> Part(PrimaryKeyOf("'t'::regclass"), << "<primary keys>", "table", "=", "t", "schema", "=", "CURRENT_SCHEMA" >>,
                           "known", [known |-> << "<primary keys>", "table", "=", "t" >>]),
   cutKey     |-> Part(PrimaryKeyOf("'o''b'::regclass"), << "<primary keys>", "table", "=", "o'b", "schema", "=", "CURRENT_SCHEMA" >>,
                       "known", [known |-> << "<primary keys>", "table", "=", "b" >>]),
   outgoing   |-> Native(ForeignKeysOf("n.nspname", "t.relname", "'t'"), << "<outgoing keys>", "schema", "=", "'s'", "table", "=", "'t'" >>),
   incoming   |-> Native(ForeignKeysOf("nf.nspname", "tf.relname", "'t'"), << "<incoming keys>", "schema", "=", "'s'", "table", "=", "'t'" >>),
   cutName    |-> Part(ForeignKeysOf("n.nspname", "t.relname", "'o''b'"), << "<outgoing keys>", "schema", "=", "'s'", "table", "=", "'o''b'" >>,
                       "known", [known |-> << "<outgoing keys>", "schema", "=", "'s'", "table", "=", "'o'" >>]),
   script     |-> Native(<< "SELECT", "array_agg(e)", "AS", "createtable", "FROM", "pg_class", "WHERE", "c.relname", "=", "'t'",
                            "AND", "n.nspname", "=", "'s'" >>,
                         << "<create script>", "schema", "=", "'s'", "table", "=", "'t'" >>)]

(***************************************************************************)
(* Statements.  The parts of an input are named by table and name.         *)
(***************************************************************************)

Named(ref) ==
  CASE ref[1] = "head"    -> Heads[ref[2]]
    [] ref[1] = "expr"    -> Expressions[ref[2]]
    [] ref[1] = "literal" -> Literals[ref[2]]
    [] ref[1] = "alias"   -> Aliases[ref[2]]
    [] ref[1] = "source"  -> Sources[ref[2]]
    [] ref[1] = "limit"   -> Limits[ref[2]]
    [] ref[1] = "query"   -> CatalogQueries[ref[2]]

Items == {<< "expr", e >> : e \in DOMAIN Expressions} \cup {<< "literal", l >> : l \in DOMAIN Literals}

Query(head, item, alias, source, limit) ==
  << << "head", head >>, item, << "alias", alias >>, << "source", source >>, << "limit", limit >> >>

TextOf(parts) == FlattenSeq([i \in DOMAIN parts |-> Named(parts[i]).words])

PlanFor(text) ==
  CASE text[1] = "CREATE" -> execute(<< "CREATE", text[2] >>, "Omit")
    [] text[1] = "INSERT" -> execute(<< "INSERT" >>, "Include")
    [] OTHER              -> execute(<< "SELECT" >>, "Omit")

Asked(parts, layout) ==
  [words |-> TextOf(parts), means |-> PlanFor(TextOf(parts)), layout |-> layout, parts |-> parts]

\* The same query read with a cursor.
AskedByCursor(parts) ==
  [words |-> << "DECLARE", "c", "CURSOR", "FOR" >> \o TextOf(parts),
   means |-> [tag |-> "Declare", name |-> "c", query |-> TextOf(parts), scroll |-> FALSE, hold |-> FALSE],
   layout |-> "line", parts |-> parts]

(***************************************************************************)
(* Properties.                                                             *)
(***************************************************************************)

Parts(i) == [k \in DOMAIN i.parts |-> Named(i.parts[k])]
Reasons(i) == {Parts(i)[k].reason : k \in DOMAIN i.parts} \ {""}

Way(i) ==
  IF Reasons(i) = {} THEN "kept"
  ELSE IF "known" \in Reasons(i) \/ ("exactly" \in Reasons(i) /\ i.layout # "wrapped") THEN "known"
  ELSE "transpiled"

Meant(i) == FlattenSeq([k \in DOMAIN i.parts |-> Parts(i)[k].means])

Given(i) ==
  FlattenSeq([k \in DOMAIN i.parts |->
                LET p == Parts(i)[k] IN IF Way(i) \in DOMAIN p.departs THEN p.departs[Way(i)] ELSE p.means])

Settled(text) == SelectSeq(text, LAMBDA w : w \notin {COMMENT, ";"})

Translated == input.parts # << >> /\ plan.tag \in {"Execute", "Declare"}

\* Exasol is given what translate_postgres_to_exasol has to make of the
\* statement, part by part, whatever the other parts and the layout are, but for
\* the departures of the tables above; without translation, the statement as it is.
ExasolGetsTheMeaning ==
  Translated => Settled(sent) = IF enabled THEN Given(input) ELSE TextOf(input.parts)

\* Labels are folded for queries of the catalog, and for no other but those
\* written with PostgreSQL's own syntax or with a literal that looks like it;
\* comments do not count, and without translation nothing is folded.
FoldedForAReason ==
  Translated /\ plan.tag = "Execute" => (fold <=> enabled /\ Reasons(input) # {})
=============================================================================
