----------------------------- MODULE ResultTypes -----------------------------
(***************************************************************************)
(* The type a column has for the client.  The gateway works it out in      *)
(* three places: from the JSON of the WebSocket protocol, from the field   *)
(* of an Arrow schema and, when a driver asks for the columns of a table,  *)
(* from the text of COLUMN_TYPE in EXA_ALL_COLUMNS.                        *)
(*                                                                         *)
(* A JSON object is a function on the keys it has; the JSON string "X" is  *)
(* [str |-> "X"] and a missing dataType [null |-> TRUE].  A COLUMN_TYPE is *)
(* [base, args, tail]: its first words, the numbers between parentheses    *)
(* behind them and the rest.  The blanks of a name are written _, and      *)
(* "none" is an empty text.                                                *)
(***************************************************************************)
EXTENDS Integers, Sequences

Get(object, key, default) == IF key \in DOMAIN object THEN object[key] ELSE default

(***************************************************************************)
(* COLUMN_TYPE.                                                            *)
(***************************************************************************)

PgTypeInfo(oid, typmod, typlen) == [oid |-> oid, typmod |-> typmod, typlen |-> typlen]

TimeZones == {"WITH_LOCAL_TIME_ZONE", "WITH_TIME_ZONE"}

map_exasol_column_type(text) ==
  LET sized == Len(text.args) = 1
  IN CASE text.base = "DECIMAL" /\ Len(text.args) = 2 /\ text.tail = "none" ->
            PgTypeInfo(1700, text.args[1] * 2^16 + text.args[2] + 4, -1)
       [] text.base = "VARCHAR" /\ sized -> PgTypeInfo(1043, text.args[1] + 4, -1)
       [] text.base = "CHAR" /\ sized    -> PgTypeInfo(1042, text.args[1] + 4, -1)
       [] text.base = "TIMESTAMP"        ->
            PgTypeInfo(IF text.tail \in TimeZones THEN 1184 ELSE 1114,
                       (IF sized THEN text.args[1] ELSE 6) + 4, 8)
       [] text.args = << >> /\ text.base = "BOOLEAN" -> PgTypeInfo(16, -1, 1)
       [] text.args = << >> /\ text.base = "DATE"    -> PgTypeInfo(1082, -1, 4)
       [] text.args = << >> /\ text.base \in {"DOUBLE", "DOUBLE_PRECISION"} -> PgTypeInfo(701, -1, 8)
       [] text.args = << >> /\ text.base = "REAL"    -> PgTypeInfo(700, -1, 4)
       [] text.args = << >> /\ text.base \in {"INTERVAL_DAY_TO_SECOND", "INTERVAL_YEAR_TO_MONTH", "INTERVAL"} ->
            PgTypeInfo(1186, -1, 16)
       [] OTHER -> PgTypeInfo(25, -1, -1)

(***************************************************************************)
(* Results.                                                                *)
(***************************************************************************)

\* Mutant: the boundary of INT4 is one digit further.
DecimalByTen(precision, scale) == IF scale = 0 /\ precision <= 10 THEN "INT4" ELSE "NUMERIC"

decimal_pg_type(precision, scale) == IF scale = 0 /\ precision <= 9 THEN "INT4" ELSE "NUMERIC"

\* What a JSON type that is not in the list is rendered as: a string as itself,
\* an object as its JSON text, which is no type's name.
Rendered(data_type) ==
  [base |-> Get(data_type, "str", "json_text"), args |-> << >>, tail |-> "none"]

pg_type_for_exasol_data_type(data_type) ==
  LET name == Get(data_type, "str", Get(data_type, "type", Get(data_type, "name", "VARCHAR")))
  IN CASE name \in {"BOOLEAN", "BOOL"}                     -> "BOOL"
       [] name \in {"DECIMAL", "NUMERIC"}                  ->
            IF Get(data_type, "scale", 0) = 0 /\ Get(data_type, "precision", 36) <= 9 THEN "INT4" ELSE "NUMERIC"
       [] name \in {"DOUBLE", "DOUBLE_PRECISION"}          -> "FLOAT8"
       [] name = "DATE"                                    -> "DATE"
       [] name = "TIMESTAMP"                               -> "TIMESTAMP"
       [] name \in {"TIMESTAMP_WITH_LOCAL_TIME_ZONE", "TIMESTAMP_WITH_TIME_ZONE"} -> "TIMESTAMPTZ"
       [] name \in {"CHAR", "VARCHAR", "HASHTYPE"}         -> "VARCHAR"
       [] OTHER ->
            LET oid == map_exasol_column_type(Rendered(data_type)).oid
            IN CASE oid = 16             -> "BOOL"
                 [] oid = 1082           -> "DATE"
                 [] oid = 1114           -> "TIMESTAMP"
                 [] oid = 1184           -> "TIMESTAMPTZ"
                 [] oid = 1700           -> "NUMERIC"
                 [] oid \in {700, 701}   -> "FLOAT8"
                 [] oid \in {1042, 1043} -> "VARCHAR"
                 [] OTHER                -> "TEXT"

\* The type of an Arrow field by its Arrow type alone ...
pg_type_for_arrow_data_type(dt) ==
  CASE dt.id = "Boolean"                        -> "BOOL"
    [] dt.id \in {"Int8", "Int16", "Int32", "UInt8", "UInt16", "UInt32"} -> "INT4"
    [] dt.id \in {"Int64", "UInt64"}            -> "NUMERIC"
    [] dt.id \in {"Float32", "Float64"}         -> "FLOAT8"
    [] dt.id \in {"Decimal128", "Decimal256"}   -> decimal_pg_type(dt.precision, dt.scale)
    [] dt.id \in {"Date32", "Date64"}           -> "DATE"
    [] dt.id = "Timestamp"                      -> IF dt.zone THEN "TIMESTAMPTZ" ELSE "TIMESTAMP"
    [] dt.id \in {"Utf8", "LargeUtf8"}          -> "VARCHAR"
    [] OTHER                                    -> "TEXT"

\* ... or by what the driver says of the Exasol type; the set is empty if that
\* does not tell.
pg_type_from_exasol_metadata(metadata, dt) ==
  LET name == Get(metadata, "type", "none")
  IN CASE name = "BOOLEAN"                        -> {"BOOL"}
       [] name = "DECIMAL"                        ->
            {decimal_pg_type(Get(metadata, "precision", 36), Get(metadata, "scale", 0))}
       [] name = "DOUBLE"                         -> {"FLOAT8"}
       [] name = "DATE"                           -> {"DATE"}
       [] name = "TIMESTAMP"                      -> {IF dt.id = "Timestamp" /\ dt.zone THEN "TIMESTAMPTZ" ELSE "TIMESTAMP"}
       [] name \in {"CHAR", "VARCHAR", "HASHTYPE"} -> {"VARCHAR"}
       [] OTHER                                   -> {}

pg_type_for_arrow_field(field) ==
  LET told == pg_type_from_exasol_metadata(field.metadata, field.data_type)
  IN IF told # {} THEN CHOOSE t \in told : TRUE ELSE pg_type_for_arrow_data_type(field.data_type)

(***************************************************************************)
(* The types of Exasol (external): how each is written in the JSON of the  *)
(* WebSocket protocol and in COLUMN_TYPE, and the Arrow type it arrives as.*)
(* The driver tells all of the Exasol type or nothing of it.               *)
(***************************************************************************)

Named(column, json, base, sized, id) ==
  /\ column.data_type = [type |-> json]
  /\ column.text.base = base
  /\ IF sized THEN Len(column.text.args) = 1 ELSE column.text.args = << >>
  /\ column.field.data_type = [id |-> id]

ExasolType(column) ==
  LET json == column.data_type
      text == column.text
      arrow == column.field.data_type
  IN /\ column.field.metadata \in {json, [none |-> TRUE]}
     /\ \/ Named(column, "BOOLEAN", "BOOLEAN", FALSE, "Boolean")
        \/ Named(column, "DOUBLE", "DOUBLE", FALSE, "Float64")
        \/ Named(column, "DATE", "DATE", FALSE, "Date32")
        \/ Named(column, "CHAR", "CHAR", TRUE, "Utf8")
        \/ Named(column, "VARCHAR", "VARCHAR", TRUE, "Utf8")
        \/ Named(column, "HASHTYPE", "HASHTYPE", TRUE, "Utf8")
        \/ Named(column, "GEOMETRY", "GEOMETRY", FALSE, "Utf8")
        \/ Named(column, "INTERVAL_DAY_TO_SECOND", "INTERVAL_DAY", TRUE, "Utf8")
        \/ Named(column, "INTERVAL_YEAR_TO_MONTH", "INTERVAL_YEAR", TRUE, "Utf8")
        \/ \E zone \in BOOLEAN :
             /\ json = [type |-> IF zone THEN "TIMESTAMP_WITH_LOCAL_TIME_ZONE" ELSE "TIMESTAMP"]
             /\ text.base = "TIMESTAMP" /\ text.tail = IF zone THEN "WITH_LOCAL_TIME_ZONE" ELSE "none"
             /\ arrow = [id |-> "Timestamp", zone |-> zone]
        \/ /\ text.base = "DECIMAL" /\ Len(text.args) = 2 /\ text.tail = "none"
           /\ json = [type |-> "DECIMAL", precision |-> text.args[1], scale |-> text.args[2]]
           /\ arrow = [id |-> "Decimal128", precision |-> text.args[1], scale |-> text.args[2]]
=============================================================================
