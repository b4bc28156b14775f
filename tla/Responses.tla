------------------------------ MODULE Responses ------------------------------
(***************************************************************************)
(* What the gateway makes of Exasol's answer: the outcome of each          *)
(* transport, the response built from it, and the description and the rows *)
(* that response is sent as.                                               *)
(*                                                                         *)
(* Exasol's answer is a list of columns and a list of chunks of rows.  A   *)
(* chunk is one message of the WebSocket protocol and one record batch of  *)
(* Arrow.  A cell is [kind, v]; its text for the client is [form, v], the  *)
(* same value in the spelling of the transport.                            *)
(***************************************************************************)
EXTENDS ResultTypes, FiniteSetsExt, SequencesExt

Transports == {"arrow", "websocket"}
None == [tag |-> "None"]

NullCell == [kind |-> "null", v |-> 0]
NoText == [form |-> "null", v |-> 0]

(***************************************************************************)
(* The transports.                                                         *)
(***************************************************************************)

\* Mutant: an empty result stays without a batch.
NoBackfill(bs, schema) == bs

\* An empty batch that carries the schema stands for no batch at all; schema
\* is a set: the driver may not know it.
backfill_schema_when_empty(bs, schema) ==
  IF bs # << >> \/ schema = {} THEN bs
  ELSE << [schema |-> CHOOSE s \in schema : TRUE, rows |-> << >>] >>

\* ArrowTransport::execute: the schema is taken before the rows are.
arrow_execute(st) ==
  IF st.how = "write" THEN [tag |-> "RowCount", count |-> st.count]
  ELSE LET fields == [i \in DOMAIN st.columns |-> st.columns[i].field]
           bs     == [i \in DOMAIN st.chunks |-> [schema |-> fields, rows |-> st.chunks[i]]]
       IN [tag |-> "ArrowRows",
           batches |-> backfill_schema_when_empty(bs, IF st.schema THEN {fields} ELSE {})]

value_to_text(cell) ==
  CASE cell.kind = "null" -> NoText
    [] cell.kind = "bool" -> [form |-> "t_or_f", v |-> cell.v]
    [] OTHER              -> [form |-> "plain", v |-> cell.v]

\* A message has its data column by column, each as long as there are rows.
ByColumn(chunk, width) == [c \in 1 .. width |-> [r \in DOMAIN chunk |-> chunk[r][c]]]

transpose_data(data) ==
  LET row_count == Max({0} \cup {Len(data[c]) : c \in DOMAIN data})
  IN [r \in 1 .. row_count |->
       [c \in DOMAIN data |-> IF r \in DOMAIN data[c] THEN value_to_text(data[c][r]) ELSE NoText]]

parse_columns(columns) ==
  [i \in DOMAIN columns |-> [name |-> columns[i].name, data_type |-> columns[i].data_type]]

\* WebSocketTransport::execute; WebSocketTransport models the fetches.
websocket_execute(st) ==
  IF st.how = "write" THEN [tag |-> "RowCount", count |-> st.count]
  ELSE [tag     |-> "TypedRows",
        columns |-> parse_columns(st.columns),
        rows    |-> FlattenSeq([i \in DOMAIN st.chunks |->
                                  transpose_data(ByColumn(st.chunks[i], Len(st.columns)))])]

(***************************************************************************)
(* Responses.                                                              *)
(***************************************************************************)

\* Exasol's names are upper case unless the client quoted them.
LowerCase == [ID |-> "id", userId |-> "userid", name |-> "name"]
HasLowerCase == {"userId", "name"}

fold_exasol_column_name(name) == IF name \in HasLowerCase THEN name ELSE LowerCase[name]

maybe_fold_label(name, fold) == IF fold THEN fold_exasol_column_name(name) ELSE name

cursor_schema_for(bs) == IF bs = << >> THEN << >> ELSE bs[1].schema

map_exasol_result(oc, fold, include) ==
  CASE oc.tag = "ArrowRows" -> [tag |-> "ArrowQuery", schema |-> cursor_schema_for(oc.batches),
                                batches |-> oc.batches, fold |-> fold]
    [] oc.tag = "TypedRows" -> [tag |-> "TypedQuery", columns |-> oc.columns, rows |-> oc.rows, fold |-> fold]
    [] oc.tag = "RowCount"  -> [tag |-> "Execution",
                                rows |-> IF include THEN {Max({0, oc.count})} ELSE {}]

\* Arrow's text of a cell (external): the default format of its type.
ArrowText(cell) ==
  CASE cell.kind = "null" -> NoText
    [] cell.kind = "bool" -> [form |-> "true_or_false", v |-> cell.v]
    [] cell.kind = "time" -> [form |-> "T_between_date_and_time", v |-> cell.v]
    [] OTHER              -> [form |-> "plain", v |-> cell.v]

\* Every cell has a text; arrow_batches_to_text_rows, which logs the error of one
\* that has none and goes on without rows, is left out.
render_arrow_batches_as_strings(bs) ==
  FlattenSeq([i \in DOMAIN bs |->
                [r \in DOMAIN bs[i].rows |-> [c \in DOMAIN bs[i].rows[r] |-> ArrowText(bs[i].rows[r][c])]]])

fetch_query_rows(oc) ==
  IF oc.tag = "ArrowRows" THEN render_arrow_batches_as_strings(oc.batches) ELSE oc.rows

\* Mutant: a column that may be null is reported NOT NULL.
IsTrue(text) == text = [form |-> "true_or_false", v |-> 1]

\* Is a text the word "false"?
IsFalse(text) == text = [form |-> "true_or_false", v |-> 0]

DefaultType == [base |-> "VARCHAR", args |-> << 2000 >>, tail |-> "UTF8"]

\* The row for a column of a table: COLUMN_TYPE and COLUMN_IS_NULLABLE are its
\* first and second value here.
jdbc_column(row) ==
  LET type_info == map_exasol_column_type(IF row[1].form = "null" THEN DefaultType ELSE row[1].v)
  IN [atttypid |-> type_info.oid, atttypmod |-> type_info.typmod, attlen |-> type_info.typlen,
      attnotnull |-> IsFalse(row[2])]

JdbcColumns(oc) ==
  LET rows == fetch_query_rows(oc)
  IN [tag |-> "Query", rows |-> [r \in DOMAIN rows |-> jdbc_column(rows[r])]]

\* What is sent for a response.
map_exasol_columns(schema, fold) ==
  [i \in DOMAIN schema |-> [name |-> maybe_fold_label(schema[i].name, fold),
                            type |-> pg_type_for_arrow_field(schema[i])]]

typed_columns(columns, fold) ==
  [i \in DOMAIN columns |-> [name |-> maybe_fold_label(columns[i].name, fold),
                             type |-> pg_type_for_exasol_data_type(columns[i].data_type)]]

encode_one_row(row) == [c \in DOMAIN row |-> ArrowText(row[c])]

query_response_arrow(schema, bs, fold) ==
  [fields |-> map_exasol_columns(schema, fold),
   rows   |-> FlattenSeq([i \in DOMAIN bs |->
                            [r \in DOMAIN bs[i].rows |-> encode_one_row(bs[i].rows[r])]])]

query_response_typed(columns, rows, fold) ==
  LET fields == typed_columns(columns, fold)
  IN [fields |-> fields,
      rows   |-> [r \in DOMAIN rows |->
                    [c \in DOMAIN fields |-> IF c \in DOMAIN rows[r] THEN rows[r][c] ELSE NoText]]]

try_from(r) ==
  CASE r.tag = "ArrowQuery" -> query_response_arrow(r.schema, r.batches, r.fold)
    [] r.tag = "TypedQuery" -> query_response_typed(r.columns, r.rows, r.fold)
    [] OTHER                -> r
=============================================================================
