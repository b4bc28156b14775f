------------------------------ MODULE Translator ------------------------------
(***************************************************************************)
(* src/translator.rs: from PostgreSQL's SQL to Exasol's.  The code is a    *)
(* chain of replacements by regular expressions around polyglot_sql; none  *)
(* but the detection knows what a literal is.                              *)
(*                                                                         *)
(* Every expression allows any white space where it allows one, so the     *)
(* operators below take a text without its white space (Words); the tables *)
(* have the words the model's statements are made of.                      *)
(***************************************************************************)
EXTENDS SqlWords

\* What is next to a word.
Before(text, i) == IF i > 1 THEN text[i - 1] ELSE ""
After(text, i) == IF i < Len(text) THEN text[i + 1] ELSE ""

\* replace_all: R(i) is what becomes of the i-th word.
ReplaceEach(text, R(_)) == FlattenSeq([i \in DOMAIN text |-> R(i)])

\* replace_all with an expression that matches a word by itself.
ReplaceWords(text, table) ==
  ReplaceEach(text, LAMBDA i : IF text[i] \in DOMAIN table THEN table[text[i]] ELSE << text[i] >>)

(***************************************************************************)
(* The words the expressions are about.                                    *)
(***************************************************************************)

FromWords == {"FROM", "JOIN"}

\* CATALOG_RELATIONS, and how they are written.
CatalogRelations == {"pg_class", "pg_constraint", "pg_index", "pg_foreign_server", "pg_inherits", "pg_settings"}
QuotedRelation == [w \in {"\"pg_class\"", "\"pg_constraint\""} |->
  IF w = "\"pg_class\"" THEN "pg_class" ELSE "pg_constraint"]
QualifiedNames == {"pg_catalog.format_type(x)", "pg_catalog.pg_class", "pg_catalog.pg_index", "pg_catalog.pg_foreign_server",
  "pg_catalog.pg_trigger", "information_schema.tables", "information_schema.columns",
  "information_schema.collations", "information_schema.triggers", "information_schema._pg_expandarray"}

\* Names of a table with the catalog exasol in front.
CatalogPrefixed == ("exasol.s.t" :> << "s.t" >>) @@ ("\"exasol\".\"s\".\"t\"" :> << "\"s\".\"t\"" >>)

QuotedQualified == ("\"fk_ns\".\"nspname\"" :> << "fk_ns.nspname" >>) @@ ("\"s\".\"t\"" :> << "s.t" >>) @@ ("\"a\".\"x\"" :> << "a.x" >>)
QuotedAlias == ("\"a\"" :> << "a" >>) @@ ("\"t\"" :> << "t" >>)

\* A value with ::, its parts, and what polyglot_sql writes for the type.
Casts == [w \in {"x::int", "x::varchar", "relnamespace::regnamespace", "'s.t'::regclass"} |->
  CASE w = "x::int"     -> << "CAST(", "x", "AS", "INT", ")" >>
    [] w = "x::varchar" -> << "CAST(", "x", "AS", "VARCHAR", ")" >>
    [] w = "'s.t'::regclass" -> << "CAST(", "'s.t'", "AS", "REGCLASS", ")" >>
    [] OTHER            -> << "CAST(", "relnamespace", "AS", "REGNAMESPACE", ")" >>]

\* '<name>'::regclass: the schema and the table REGCLASS_STRING_RE and the
\* splitting at dots see, and what rewrite_regclass_literals makes of it.
Regclass ==
  ("'pg_class'::regclass" :> [parts |-> << "pg_class" >>, oid |-> << "1259" >>])
    @@ ("'t'::regclass" :> [parts |-> << "t" >>, oid |-> << "0" >>])
    @@ ("'s.t'::regclass" :> [parts |-> << "s", "t" >>, oid |-> << "'s.t'::regclass" >>])
    @@ ("'o''b'::regclass" :> [parts |-> << "b" >>, oid |-> << "'o'0" >>])

\* Calls and operators with a replacement of their own.
rewrite_quote_ident == "quote_ident(x)" :> << "('\"' || REPLACE(x, '\"', '\"\"') || '\"')" >>
rewrite_qualified_operators == "OPERATOR(pg_catalog.=)" :> << "=" >>
rewrite_object_description == "obj_description(x,'pg_class')" :> << "(SELECT DESCRIPTION OF x IN 1259)" >>

PrettyCalls ==
  ("col_description(format(x)::regclass,1)" :> << "CAST(", "NULL", "AS", "VARCHAR(2000000)", ")" >>)
    @@ ("pg_get_viewdef(x,true)" :> << "PG_CATALOG.PG_GET_VIEWDEF(x)" >>)

\* What is a value of the session in PostgreSQL.
SessionValues ==
  ("current_database()" :> << "'exasol'" >>)
    @@ ("current_catalog" :> << "'exasol'" >>)
    @@ ("current_schema()" :> << "CURRENT_SCHEMA" >>)
    @@ ("x,current_schema()" :> << "x,CURRENT_SCHEMA" >>)
    @@ ("session_user" :> << "CURRENT_USER" >>)
    @@ ("(current_schemas(true))[1]" :> << "'pg_catalog'" >>)

qualify_schema_prefix ==
  ("pg_catalog.format_type(x)" :> << "PG_CATALOG.format_type(x)" >>)
    @@ ("pg_catalog.pg_class" :> << "PG_CATALOG.pg_class" >>)
    @@ ("pg_catalog.pg_foreign_server" :> << "PG_CATALOG.pg_foreign_server" >>)
    @@ ("information_schema.tables" :> << "INFORMATION_SCHEMA.tables" >>)
    @@ ("information_schema.columns" :> << "INFORMATION_SCHEMA.columns" >>)
    @@ ("information_schema.collations" :> << "INFORMATION_SCHEMA.collations" >>)

\* A function is qualified unless something qualifies it.
FUNCTION_REPLACEMENTS ==
  ("format_type(x)" :> << "PG_CATALOG.FORMAT_TYPE(x)" >>) @@ ("col_description(x)" :> << "PG_CATALOG.COL_DESCRIPTION(x)" >>)

\* What rewrite_pg_catalog replaces word by word.
CatalogWords ==
  PrettyCalls @@ rewrite_quote_ident @@ rewrite_qualified_operators @@ rewrite_object_description
    @@ SessionValues @@ qualify_schema_prefix @@ FUNCTION_REPLACEMENTS

\* The tokens that give a PostgreSQL statement away; each is looked for behind
\* white space, so a call right behind a comma or a parenthesis is missed.
PostgresTokens ==
  {"ILIKE", "RETURNING", "any(c.conkey)", "col_description(x)", "obj_description(x,'pg_class')",
   "quote_ident(x)", "format_type(x)", "OPERATOR(pg_catalog.=)", "current_database()",
   "current_catalog", "current_schema()", "session_user", "col_description(format(x)::regclass,1)"}

\* The Exasol keywords of RESERVED_ALIAS_WORDS.
RESERVED_ALIAS_WORDS == {"SELECT", "WITH", "VALUES", "DOUBLE", "TIMESTAMP", "DATE", "INT", "VARCHAR", "time", "schema"}

Quoted(w) == "\"" \o w \o "\""

(***************************************************************************)
(* Detection.                                                              *)
(***************************************************************************)

\* Mutant: comments are looked at too.
NothingStripped(text) == Words(text)

\* Outside quotes a comment becomes white space.
strip_sql_comments_for_detection(text) ==
  SelectSeq(Words(text), LAMBDA w : w # COMMENT)

\* x ~ 'p' or x !~ 'p'; i is the place of the operator.
IsRegexMatch(text, i) ==
  /\ text[i] \in {"~", "!~"} /\ i \in 2 .. (Len(text) - 1)
  /\ text[i - 1] \notin {")", "'"} /\ text[i + 1] \in DOMAIN SingleQuoted

is_exasol_passthrough_sql(text) ==
  LET detection_sql == strip_sql_comments_for_detection(text)
      words == ToSet(detection_sql)
  IN /\ detection_sql # << >> => Head(detection_sql) # "WITH"
     /\ words \cap (PostgresTokens \cup DOMAIN Casts \cup DOMAIN Regclass) = {}
     /\ words \cap ({COMMENT} \cup CatalogRelations \cup DOMAIN QuotedRelation \cup QualifiedNames) = {}
     /\ \A i \in DOMAIN Words(text) : ~IsRegexMatch(Words(text), i)

strip_exasol_catalog_prefix(text) == ReplaceWords(text, CatalogPrefixed)

is_passthrough_query(text) == is_exasol_passthrough_sql(strip_exasol_catalog_prefix(text))

(***************************************************************************)
(* The replacements.                                                       *)
(***************************************************************************)

\* FROM or JOIN, a relation, and perhaps AS before the i-th word.
IsRelationAlias(text, i) ==
  \/ i > 2 /\ text[i - 2] \in FromWords /\ text[i - 1] # "("
  \/ i > 3 /\ text[i - 3] \in FromWords /\ text[i - 2] # ")" /\ text[i - 1] = "AS"

\* Quotes are taken off a schema and a table, the alias of a relation and a
\* catalog relation.
normalize_ansi_quoted_postgres_identifiers(text) ==
  LET unqualified == ReplaceWords(text, QuotedQualified)
  IN ReplaceEach(unqualified, LAMBDA i :
       LET w == unqualified[i]
       IN IF w \in DOMAIN QuotedAlias /\ IsRelationAlias(unqualified, i) THEN QuotedAlias[w]
          ELSE IF w \in DOMAIN QuotedRelation /\ Before(unqualified, i) \in FromWords \cup {","}
          THEN << QuotedRelation[w] >> ELSE << w >>)

rewrite_catalog_relations(text) ==
  ReplaceEach(text, LAMBDA i :
    IF text[i] \in CatalogRelations /\ Before(text, i) \in FromWords \cup {","}
    THEN << IF text[i] = "pg_foreign_server" THEN "PG_CATALOG.\"PG_FOREIGN_SERVER\""
            ELSE "PG_CATALOG." \o text[i] >>
    ELSE << text[i] >>)

rewrite_regclass_literals(text) ==
  ReplaceWords(text, [w \in DOMAIN Regclass |-> Regclass[w].oid])

rewrite_regex_operators(text) ==
  ReplaceEach(text, LAMBDA i :
    CASE i < Len(text) /\ IsRegexMatch(text, i + 1)  -> << "REGEXP_INSTR(", text[i], "," >>
      [] IsRegexMatch(text, i)                       -> << >>
      [] i > 1 /\ IsRegexMatch(text, i - 1)          ->
           << text[i], ")", IF text[i - 1] = "~" THEN ">" ELSE "=", "0" >>
      [] OTHER                                       -> << text[i] >>)

rewrite_pg_catalog(text) ==
  rewrite_regex_operators(rewrite_regclass_literals(rewrite_catalog_relations(
    ReplaceWords(normalize_ansi_quoted_postgres_identifiers(text), CatalogWords))))

InLiteral(text, i) == Cardinality({k \in 1 .. i : text[k] = "'"}) % 2 = 1

\* polyglot_sql, which parses: it writes casts out, but not inside a literal, and
\* drops comments and the final semicolons.
transpile_by_name(text) ==
  LET sql == SelectSeq(text, LAMBDA w : w \notin {COMMENT, ";"})
  IN ReplaceEach(sql, LAMBDA i : IF sql[i] \in DOMAIN Casts /\ ~InLiteral(sql, i)
                                THEN Casts[sql[i]] ELSE << sql[i] >>)

\* A bare VARCHAR gets a length, and a foreign server an alias that is not reserved.
rewrite_sqlglot_edge_cases(text) ==
  LET renamed == Occurs(<< "PG_CATALOG.\"PG_FOREIGN_SERVER\"", "AS", "fs" >>, text)
  IN ReplaceEach(text, LAMBDA i :
       CASE text[i] = "VARCHAR" /\ Before(text, i) = "AS" /\ After(text, i) = ")" -> << "VARCHAR(2000000)" >>
         [] renamed /\ text[i] = "fs" /\ Before(text, i) = "AS"                 -> << "srv" >>
         [] renamed /\ text[i] = "fs.oid"                                       -> << "srv.oid" >>
         [] OTHER                                                               -> << text[i] >>)

\* The first word of what is before ILIKE at i: a literal, CAST( .. ) or a name.
LeftOperand(text, i) ==
  CASE text[i - 1] = "'" -> Max({0} \cup {k \in 1 .. (i - 2) : text[k] = "'"})
    [] text[i - 1] = ")" -> Max({0} \cup {k \in 1 .. (i - 2) : text[k] = "CAST(" /\ \A j \in k .. (i - 2) : text[j] # ")"})
    [] OTHER             -> i - 1

RightOperand(text, i) ==
  IF text[i + 1] = "'" THEN Min({k \in (i + 2) .. Len(text) : text[k] = "'"}) ELSE i + 1

\* Of a qualified name only the last part is taken for the operand.
rewrite_ilike(text) ==
  LET is(i) == text[i] = "ILIKE" /\ LeftOperand(text, i) > 0
      ops   == {i \in 2 .. (Len(text) - 1) : is(i)}
      opens(k)  == \E i \in ops : k \in {LeftOperand(text, i), i + 1}
      closes(k) == \E i \in ops : k \in {i - 1, RightOperand(text, i)}
      opened(k) == CASE ~opens(k)        -> << text[k] >>
                     [] text[k] = "a.x"  -> << "a.UPPER(", "x" >>
                     [] OTHER            -> << "UPPER(", text[k] >>
  IN ReplaceEach(text, LAMBDA k : IF k \in ops THEN << "LIKE" >>
                                 ELSE opened(k) \o (IF closes(k) THEN << ")" >> ELSE << >>))

\* Mutant: what follows the word is not looked at.
QuoteAll(text) ==
  ReplaceEach(text, LAMBDA i : << IF text[i] \in RESERVED_ALIAS_WORDS /\ Before(text, i) = "AS"
                                 THEN Quoted(text[i]) ELSE text[i] >>)

\* A reserved word behind AS is quoted, unless a bracket follows.
quote_reserved_aliases(text) ==
  ReplaceEach(text, LAMBDA i :
    << IF text[i] \in RESERVED_ALIAS_WORDS /\ Before(text, i) = "AS" /\ After(text, i) \notin {"(", ")"}
       THEN Quoted(text[i]) ELSE text[i] >>)

strip_redundant_offset(text) ==
  LET zero(i) == i \in DOMAIN text /\ text[i] \in {"0", "NULL"} /\ Before(text, i) = "OFFSET"
  IN ReplaceEach(text, LAMBDA i :
       IF zero(i) \/ zero(i + 1) \/ (text[i] = "ROWS" /\ zero(i - 1)) THEN << >> ELSE << text[i] >>)

(***************************************************************************)
(* Catalog queries of known clients, answered from Exasol's own catalog.   *)
(* A native query is the word for its text and the filters put into it.    *)
(***************************************************************************)

HasAll(text, phrases) == \A p \in phrases : Occurs(p, text)

Filter(column, op, values) == << column, op >> \o values

\* The place of the first column with the operator behind it.
FirstFilter(text, column, op) ==
  SelectInSeq([i \in DOMAIN text |-> << text[i], After(text, i) >>], LAMBDA p : p = << column, op >>)

extract_in_filter(text, column, target) ==
  LET i   == FirstFilter(text, column, "IN")
      end == SelectInSubSeq(text, i + 3, Len(text), LAMBDA w : w = ")")
  IN IF i = 0 THEN << >> ELSE Filter(target, "IN", SubSeq(text, i + 3, end - 1))

extract_eq_filter(text, column, target) ==
  LET i == FirstFilter(text, column, "=")
  IN IF i = 0 THEN << >> ELSE Filter(target, "=", << text[i + 2] >>)

extract_in_or_eq_filter(text, column, target) ==
  LET filter == extract_in_filter(text, column, target)
  IN IF filter = << >> THEN extract_eq_filter(text, column, target) ELSE filter

extract_like_filter(text, column, target) ==
  LET i == FirstFilter(text, column, "LIKE")
  IN IF i = 0 THEN << >> ELSE Filter(target, "LIKE", << text[i + 2] >>)

\* The literal behind column =, up to its first apostrophe.
Captured(text, column) ==
  LET i == FirstFilter(text, column, "=")
  IN CASE i = 0                     -> {}
       [] text[i + 2] = "'o''b'"    -> {"'o'"}
       [] OTHER                     -> {text[i + 2]}

Only(set) == CHOOSE e \in set : TRUE

primary_key_query(parts) ==
  << "<primary keys>" >> \o Filter("table", "=", << Last(parts) >>)
    \o (IF Len(parts) > 1 THEN Filter("schema", "=", << parts[Len(parts) - 1] >>) ELSE << >>)

foreign_key_query(schema, table, incoming) ==
  << IF incoming THEN "<incoming keys>" ELSE "<outgoing keys>" >>
    \o Filter("schema", "=", << schema >>) \o Filter("table", "=", << table >>)

create_table_script_query(schema, table) ==
  << "<create script>" >> \o Filter("schema", "=", << schema >>) \o Filter("table", "=", << table >>)

\* The queries recognised by their whole text or its beginning.
KnownByText(text) ==
  CASE text = << "SELECT", "collation_schema", ",", "collation_name", "FROM", "information_schema.collations" >>
         -> << "<collations>" >>
    [] text = << "SELECT", "l.oid", ",", "l.*", "FROM", "pg_catalog.pg_foreign_server", "l" >>
         -> << "<foreign servers>" >>
    [] IsPrefix(<< "WITH", "table_privileges", "AS", "(" >>, text)
         /\ HasAll(text, {<< "has_any_column_privilege()" >>, << "has_table_privilege()" >>, << "FROM", "table_privileges" >>})
         -> << "<privileges>" >>
    [] OTHER -> text

\* ... those of Metabase and the JDBC driver, by the phrases they contain.
KnownByPhrases(text) ==
  CASE HasAll(text, {<< "FROM", "information_schema.columns" >>, << "col_description(x)" >>,
                       << "UNION", "ALL" >>, << "FROM", "pg_catalog.pg_class" >>})
         -> << "<columns>" >> \o extract_in_filter(text, "c.table_schema", "schema")
                              \o extract_in_filter(text, "c.table_name", "table")
    [] HasAll(text, {<< "FROM", "pg_constraint" >>, << "\"fk-table-schema\"" >>,
                       << "\"pk-table-schema\"" >>, << "any(c.conkey)" >>})
         -> << "<foreign keys>" >> \o extract_in_filter(text, "fk_ns.nspname", "schema")
                                   \o extract_in_filter(text, "fk_table.relname", "table")
    [] HasAll(text, {<< "information_schema._pg_expandarray" >>, << "i.indisprimary" >>, << "key_seq" >>, << "pk_name" >>})
         /\ ToSet(text) \cap {"pg_index", "pg_catalog.pg_index"} # {}
         -> << "<key columns>" >> \o extract_in_or_eq_filter(text, "n.nspname", "schema")
                                  \o extract_in_or_eq_filter(text, "ct.relname", "table")
    [] HasAll(text, {<< "information_schema._pg_expandarray" >>, << "pg_get_indexdef(x)" >>, << "pg_catalog.pg_index" >>})
         -> << "<no indexes>" >>
    [] OTHER -> text

\* ... those of SQL editors about constraints, triggers and tables.
KnownOfEditors(text) ==
  CASE HasAll(text, {<< "FROM", "pg_constraint" >>, << "LATERAL", "unnest(k)" >>, << "array_agg(col.attname)" >>})
         -> << "<constraints>" >> \o extract_like_filter(text, "sch.nspname", "schema")
                                  \o extract_like_filter(text, "tbl.relname", "table")
    [] HasAll(text, {<< "FROM", "pg_catalog.pg_trigger" >>, << "information_schema.triggers" >>, << "array_agg(e)" >>})
         -> << "<no triggers>" >>
    [] HasAll(text, {<< "information_schema.tables" >>, << "pg_inherits" >>, << "relkind" >>})
         -> << "<tables>" >>
    [] OTHER -> text

\* ... and those of Beekeeper, with the table they are about.
KnownByTable(text) ==
  LET names   == ToSet(text) \cap DOMAIN Regclass
      column(c) == Captured(text, c)
      fk      == HasAll(text, {<< "pg_constraint" >>, << "generate_subscripts(c)" >>, << "c.contype", "=", "'f'" >>})
  IN CASE HasAll(text, {<< "pg_index" >>, << "i.indisprimary" >>}) /\ names # {}
            -> primary_key_query(Regclass[Only(names)].parts)
       [] fk /\ column("n.nspname") # {} /\ column("t.relname") # {}
            -> foreign_key_query(Only(column("n.nspname")), Only(column("t.relname")), FALSE)
       [] fk /\ column("nf.nspname") # {} /\ column("tf.relname") # {}
            -> foreign_key_query(Only(column("nf.nspname")), Only(column("tf.relname")), TRUE)
       [] HasAll(text, {<< "AS", "createtable" >>, << "array_agg(e)" >>})
            /\ column("c.relname") # {} /\ column("n.nspname") # {}
            -> create_table_script_query(Only(column("n.nspname")), Only(column("c.relname")))
       [] OTHER -> text

rewrite_known_metadata_query(text) ==
  LET byText == KnownByText(text)
      byPhrases == KnownByPhrases(text)
      ofEditors == KnownOfEditors(text)
  IN CASE byText # text    -> byText
       [] byPhrases # text -> byPhrases
       [] ofEditors # text -> ofEditors
       [] OTHER            -> KnownByTable(text)

(***************************************************************************)
(* The whole translation.  Words(sql) is all of a text it depends on.      *)
(***************************************************************************)

\* Which of the three ways the statement goes.
TranslationPath(sql) ==
  LET text       == strip_exasol_catalog_prefix(Words(sql))
      normalized == normalize_ansi_quoted_postgres_identifiers(text)
  IN IF is_exasol_passthrough_sql(text) THEN "kept"
     ELSE IF rewrite_known_metadata_query(normalized) # normalized THEN "known" ELSE "transpiled"

translate_postgres_to_exasol(sql) ==
  LET text       == strip_exasol_catalog_prefix(Words(sql))
      normalized == normalize_ansi_quoted_postgres_identifiers(text)
      path       == TranslationPath(sql)
      translated ==
        CASE path = "kept"       -> text
          [] path = "known"      -> rewrite_ilike(rewrite_known_metadata_query(normalized))
          [] path = "transpiled" ->
               rewrite_ilike(rewrite_sqlglot_edge_cases(transpile_by_name(rewrite_pg_catalog(normalized))))
  IN strip_redundant_offset(quote_reserved_aliases(translated))
=============================================================================
