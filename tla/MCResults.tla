------------------------------ MODULE MCResults ------------------------------
(***************************************************************************)
(* Ranges of every list of up to three chunks of up to two rows, and every *)
(* type of column with and without values, described in full or in part.   *)
(***************************************************************************)
EXTENDS Results

MaxChunks == 3
MaxRows == 2

Json(name) == [type |-> name]
Decimal(p, s) == [type |-> "DECIMAL", precision |-> p, scale |-> s]
Text(base, args, tail) == [base |-> base, args |-> args, tail |-> tail]
Arrow(id) == [id |-> id]
ArrowDecimal(p, s) == [id |-> "Decimal128", precision |-> p, scale |-> s]
Timestamp(zone) == [id |-> "Timestamp", zone |-> zone]

\* A type as Exasol writes it in JSON and in COLUMN_TYPE, the Arrow type the
\* driver gives it, and the kind of its cells.
Type(data_type, text, arrow, kind) == [data_type |-> data_type, text |-> text, arrow |-> arrow, kind |-> kind]

Types ==
  {Type(Json("BOOLEAN"), Text("BOOLEAN", << >>, "none"), Arrow("Boolean"), "bool"),
   Type(Json("DOUBLE"), Text("DOUBLE", << >>, "none"), Arrow("Float64"), "number"),
   Type(Json("DATE"), Text("DATE", << >>, "none"), Arrow("Date32"), "text"),
   Type(Json("TIMESTAMP"), Text("TIMESTAMP", << 3 >>, "none"), Timestamp(FALSE), "time"),
   Type(Json("TIMESTAMP_WITH_LOCAL_TIME_ZONE"), Text("TIMESTAMP", << 3 >>, "WITH_LOCAL_TIME_ZONE"),
        Timestamp(TRUE), "time"),
   Type(Json("CHAR"), Text("CHAR", << 3 >>, "ASCII"), Arrow("Utf8"), "text"),
   Type(Json("VARCHAR"), Text("VARCHAR", << 9 >>, "UTF8"), Arrow("Utf8"), "text"),
   Type(Json("HASHTYPE"), Text("HASHTYPE", << 16 >>, "none"), Arrow("Utf8"), "text"),
   Type(Json("GEOMETRY"), Text("GEOMETRY", << >>, "none"), Arrow("Utf8"), "text"),
   Type(Json("INTERVAL_DAY_TO_SECOND"), Text("INTERVAL_DAY", << 2 >>, "TO_SECOND"), Arrow("Utf8"), "text"),
   Type(Json("INTERVAL_YEAR_TO_MONTH"), Text("INTERVAL_YEAR", << 2 >>, "TO_MONTH"), Arrow("Utf8"), "text")}
  \cup {Type(Decimal(p, s), Text("DECIMAL", << p, s >>, "none"), ArrowDecimal(p, s), "number") :
          p \in {9, 10, 18}, s \in {0, 2}}

\* What the driver says of the Exasol type: all of it or nothing.
Metadata(type) == {type.data_type, [none |-> TRUE]}

Column(name, type, metadata, not_null) ==
  [name |-> name, data_type |-> type.data_type, text |-> type.text, not_null |-> not_null,
   field |-> [name |-> name, data_type |-> type.arrow, metadata |-> metadata]]

Cell(kind, v) == [kind |-> kind, v |-> v]

Statement == [how |-> "query", columns |-> << >>, chunks |-> << >>, table |-> << >>, schema |-> TRUE,
              fold |-> FALSE, from |-> 0, to |-> 0, backward |-> FALSE, count |-> 0]

\* The chunks of sizes s[1], s[2], ..., their rows numbered through.
Numbered(s) ==
  LET before(i) == FoldLeft(LAMBDA sum, n : sum + n, 0, SubSeq(s, 1, i - 1))
  IN [i \in DOMAIN s |-> [r \in 1 .. s[i] |-> << Cell("number", before(i) + r) >>]]

Double == CHOOSE t \in Types : t.data_type = Json("DOUBLE")

Fetches ==
  {[Statement EXCEPT !.how = "cursor", !.columns = << Column("ID", Double, Json("DOUBLE"), FALSE) >>,
                     !.chunks = Numbered(s), !.from = from, !.to = to, !.backward = b] :
     s \in UNION {[1 .. n -> 0 .. MaxRows] : n \in 0 .. MaxChunks},
     from \in 0 .. Bound, to \in 0 .. Bound, b \in BOOLEAN}

\* A column of each type, with its metadata or without.
TypedColumns(names) ==
  UNION {{Column(name, type, m, FALSE) : m \in Metadata(type)} : name \in names, type \in Types}

KindOf(column) == (CHOOSE t \in Types : t.data_type = column.data_type).kind

\* A column of booleans beside one of each type; no rows, a null, a value.
Queries ==
  UNION {
    LET boolean == Column("name", CHOOSE t \in Types : t.kind = "bool", [none |-> TRUE], FALSE)
        rows    == {<< Cell("bool", b), x >> : b \in {0, 1}, x \in {NullCell, Cell(KindOf(column), 1)}}
    IN {[Statement EXCEPT !.columns = << boolean, column >>, !.chunks = chunks, !.fold = fold,
                          !.schema = schema] :
          chunks \in {<< >>, << << >> >>} \cup {<< << r >> >> : r \in rows}
                     \cup {<< << r >>, << s >> >> : r, s \in rows},
          fold \in BOOLEAN, schema \in BOOLEAN}
    : column \in TypedColumns({"ID", "userId"})}

\* The catalog's rows for a table: the type and whether it may be null.
Catalog == << Column("name", CHOOSE t \in Types : t.data_type = Json("VARCHAR"), [none |-> TRUE], FALSE),
              Column("name", CHOOSE t \in Types : t.kind = "bool", [none |-> TRUE], FALSE) >>

CatalogRow(column) ==
  << Cell("text", column.text), Cell("bool", IF column.not_null THEN 0 ELSE 1) >>

TableColumns ==
  {[Statement EXCEPT !.how = "columns", !.columns = Catalog, !.table = << a, b >>,
                     !.chunks = << << CatalogRow(a), CatalogRow(b) >> >>] :
     a \in {Column("ID", Double, Json("DOUBLE"), n) : n \in BOOLEAN},
     b \in {[c EXCEPT !.not_null = n] : c \in TypedColumns({"ID"}), n \in BOOLEAN}}

\* A count of rows, the unknown one (-1) among them.
Writes == {[Statement EXCEPT !.how = "write", !.count = n] : n \in {-1, 0, 2}}

MCStatements == Fetches \cup Queries \cup TableColumns \cup Writes
=============================================================================
