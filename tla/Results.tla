------------------------------- MODULE Results -------------------------------
(***************************************************************************)
(* The way of a result from Exasol to the client, over each transport side *)
(* by side: what the transport makes of Exasol's answer, the response the  *)
(* gateway builds from it (for FETCH through the slices of RecordBatches), *)
(* and the description and the rows that response is sent as.  The         *)
(* functions these steps call are those of Responses.                      *)
(***************************************************************************)
EXTENDS RecordBatches, Responses

\* Statements are records.  how: "query", "cursor" (a FETCH), "columns" (a driver
\* asks for those of table) or "write".  columns and chunks: Exasol's answer;
\* schema: does the Arrow driver know it without rows.  fold: are the labels to be
\* folded.  from, to, backward: the range of the FETCH.  count: the rows written.
CONSTANT Statements

RowsOf(st) == UNION {ToSet(st.chunks[i]) : i \in DOMAIN st.chunks}

\* An answer is a list of chunks of rows, each as wide as the list of columns; a
\* null has no value.  The catalog's rows are those of the table asked for, with
\* the type and whether it may be null first and second.  A cursor asks for a
\* range.
ASSUME StatementsAssumption ==
  \A st \in Statements :
    /\ st.how \in {"query", "cursor", "columns", "write"}
    /\ st.columns \in Seq(ToSet(st.columns)) /\ st.table \in Seq(ToSet(st.table))
    /\ \A i \in DOMAIN st.columns : st.columns[i].field.name = st.columns[i].name
    /\ \A column \in ToSet(st.columns) \cup ToSet(st.table) : ExasolType(column)
    /\ st.chunks \in Seq(Seq(RowsOf(st)))
    /\ \A row \in RowsOf(st) :
         /\ row \in Seq(ToSet(row)) /\ row # << >> /\ Len(row) = Len(st.columns)
         /\ \A cell \in ToSet(row) : cell.kind = "null" => cell.v = 0
    /\ st.from \in 0 .. Bound /\ st.to \in 0 .. Bound
    /\ st.backward \in BOOLEAN /\ st.fold \in BOOLEAN
    /\ st.how = "columns" =>
         LET rows == FlattenSeq(st.chunks)
         IN /\ Len(st.columns) >= 2 /\ Len(rows) = Len(st.table)
            /\ \A i \in DOMAIN st.table :
                 /\ rows[i][1] = [kind |-> "text", v |-> st.table[i].text]
                 /\ rows[i][2] = [kind |-> "bool", v |-> IF st.table[i].not_null THEN 0 ELSE 1]

VARIABLES stmt,      \* the statement
          outcome,   \* ExasolOutcome of each transport
          response,  \* GatewayResponse of each transport
          sent       \* what the client gets

resultVars == <<stmt, outcome, response, sent>>
vars == <<sliceVars, pc, resultVars>>

(***************************************************************************)
(* A statement over both transports.                                       *)
(***************************************************************************)

\* The batches that slice_batches or reverse_slice_batches has found.
Slices == IF backward THEN reversed ELSE out

\* FETCH: the slices under the description of the whole; labels are not folded.
fetch_cursor(oc) ==
  IF oc.tag = "ArrowRows"
  THEN LET schema == cursor_schema_for(oc.batches)
       IN [tag |-> "ArrowQuery", schema |-> schema, fold |-> FALSE,
           batches |-> [i \in DOMAIN Slices |-> [schema |-> schema, rows |-> Slices[i]]]]
  ELSE [tag |-> "TypedQuery", columns |-> oc.columns, fold |-> FALSE,
        rows |-> IF backward THEN typed_reverse_slice(oc.rows, start, end)
                 ELSE typed_slice(oc.rows, start, end)]

Init ==
  /\ stmt \in Statements
  /\ start = stmt.from /\ end = stmt.to /\ backward = stmt.backward
  /\ batches = << >> /\ InitSlice
  /\ outcome = [t \in Transports |-> None] /\ response = outcome /\ sent = outcome
  /\ pc = "execute"

execute ==
  /\ pc = "execute"
  /\ outcome' = [arrow |-> arrow_execute(stmt), websocket |-> websocket_execute(stmt)]
  /\ IF stmt.how = "cursor"
     THEN /\ batches' = [i \in DOMAIN outcome'["arrow"].batches |-> outcome'["arrow"].batches[i].rows]
          /\ pc' = "slice"
     ELSE batches' = batches /\ pc' = "done"
  /\ UNCHANGED <<start, end, backward, next, offset, out, reversed, stmt, response, sent>>

slice == (slice_batches \/ reverse_slice_batches) /\ UNCHANGED resultVars

respond ==
  /\ pc = "done"
  /\ response' = [t \in Transports |->
       CASE stmt.how = "cursor"  -> fetch_cursor(outcome[t])
         [] stmt.how = "columns" -> JdbcColumns(outcome[t])
         [] OTHER                -> map_exasol_result(outcome[t], stmt.fold, stmt.how = "write")]
  /\ pc' = "send"
  /\ UNCHANGED <<sliceVars, stmt, outcome, sent>>

send ==
  /\ pc = "send"
  /\ sent' = [t \in Transports |-> try_from(response[t])]
  /\ pc' = "sent"
  /\ UNCHANGED <<sliceVars, stmt, outcome, response>>

Sent == pc = "sent" /\ UNCHANGED vars

Next == execute \/ slice \/ respond \/ send \/ Sent

Spec == Init /\ [][Next]_vars

(***************************************************************************)
(* Properties.                                                             *)
(***************************************************************************)

\* Type invariant: the loop's variables, and a response for each transport.
TypeOK ==
  /\ SliceTypeOK
  /\ pc \in {"execute", "slice", "reverse", "done", "send", "sent"}
  /\ \A t \in Transports :
       /\ outcome[t].tag \in {"None", "ArrowRows", "TypedRows", "RowCount"}
       /\ response[t].tag \in {"None", "ArrowQuery", "TypedQuery", "Query", "Execution"}
       /\ pc = "sent" <=> sent[t] # None

Answered(hows) == pc = "sent" /\ stmt.how \in hows

\* The rows of Exasol's answer that the client has asked for, in their order.
Wanted ==
  LET rows == FlattenSeq(stmt.chunks)
  IN IF stmt.how # "cursor" THEN rows
     ELSE IF stmt.backward THEN typed_reverse_slice(rows, stmt.from, stmt.to)
     ELSE typed_slice(rows, stmt.from, stmt.to)

\* The label of a column: folded if the query is a translated one.  FETCH never
\* folds, so the labels of a catalog query change when it is read by a cursor.
LabelKept(field, column) ==
  field.name = IF stmt.how = "cursor" THEN column.name ELSE maybe_fold_label(column.name, stmt.fold)

\* Without a row and without the driver's schema the columns are unknown.
ColumnsUnknown(t) == t = "arrow" /\ stmt.chunks = << >> /\ ~stmt.schema

\* What is described is what is sent and what Exasol has answered: a result
\* without rows and a FETCH past the end keep their columns; every row of the
\* range is there, as wide as its description, each value at its place, and a
\* value is null exactly if Exasol's is.
DescribedAsAnswered ==
  Answered({"query", "cursor"}) =>
    \A t \in Transports :
      LET fields == sent[t].fields
          rows   == sent[t].rows
      IN /\ IF ColumnsUnknown(t) THEN fields = << >>
            ELSE /\ Len(fields) = Len(stmt.columns)
                 /\ \A i \in DOMAIN fields : LabelKept(fields[i], stmt.columns[i])
         /\ Len(rows) = Len(Wanted)
         /\ \A r \in DOMAIN rows :
              /\ Len(rows[r]) = Len(fields)
              /\ \A c \in DOMAIN fields :
                   /\ rows[r][c].form = "null" <=> Wanted[r][c].kind = "null"
                   /\ rows[r][c].v = Wanted[r][c].v

\* The spellings that differ between the transports.
Respelled == {<< "true_or_false", "t_or_f" >>, << "T_between_date_and_time", "plain" >>}

SameText(arrow, ws) ==
  arrow.v = ws.v /\ (arrow.form = ws.form \/ << arrow.form, ws.form >> \in Respelled)

\* Types with no PostgreSQL counterpart are VARCHAR over Arrow, TEXT over WebSocket.
SameField(arrow, ws, column) ==
  /\ arrow.name = ws.name
  /\ \/ arrow.type = ws.type
     \/ column.text.base \in {"GEOMETRY", "INTERVAL_DAY", "INTERVAL_YEAR"}
        /\ arrow.type = "VARCHAR" /\ ws.type = "TEXT"

\* The client gets the same answer over either transport: the same command with
\* the same count, the same columns with the same types and the same rows, but
\* for the spellings and the types listed above.  Only an Arrow result that has
\* neither a batch nor the driver's schema is without its columns.
SameOverEitherTransport ==
  /\ Answered({"write"}) => sent["arrow"] = sent["websocket"]
  /\ Answered({"query", "cursor"}) =>
       LET arrow == sent["arrow"]
           ws    == sent["websocket"]
       IN /\ \/ Len(arrow.fields) = Len(ws.fields)
             \/ ColumnsUnknown("arrow") /\ arrow.fields = << >>
          /\ \A i \in DOMAIN arrow.fields : SameField(arrow.fields[i], ws.fields[i], stmt.columns[i])
          /\ Len(arrow.rows) = Len(ws.rows)
          /\ \A r \in DOMAIN ws.rows : \A c \in DOMAIN ws.rows[r] :
               SameText(arrow.rows[r][c], ws.rows[r][c])

Oid == [BOOL |-> 16, INT4 |-> 23, TEXT |-> 25, FLOAT8 |-> 701, VARCHAR |-> 1043, DATE |-> 1082,
        TIMESTAMP |-> 1114, TIMESTAMPTZ |-> 1184, NUMERIC |-> 1700]

\* The type a column has in a result.
ResultType(t, column) ==
  IF t = "arrow" THEN pg_type_for_arrow_field(column.field)
  ELSE pg_type_for_exasol_data_type(column.data_type)

\* The columns whose type a driver is told differently by the catalog and by a
\* result: << the type's oid in the catalog, the type in a result >>.
TwoTypes(t, column) ==
  CASE column.text.base = "DECIMAL"  -> {<< 1700, "INT4" >>}
    [] column.text.base = "CHAR"     -> {<< 1042, "VARCHAR" >>}
    [] column.text.base = "HASHTYPE" -> {<< 25, "VARCHAR" >>}
    [] column.text.base \in {"GEOMETRY", "INTERVAL_DAY", "INTERVAL_YEAR"} /\ t = "arrow"
                                     -> {<< 25, "VARCHAR" >>}
    [] OTHER                         -> {}

\* A driver that asks for the columns of a table is told the type its results
\* have, but for the columns above; and which columns are NOT NULL: exactly those
\* over Arrow, and none but those over WebSocket, where the gateway may miss one
\* (DocumentsKept of MCDocuments).
CatalogMatchesResults ==
  Answered({"columns"}) =>
    \A t \in Transports :
      /\ Len(sent[t].rows) = Len(stmt.table)
      /\ \A i \in DOMAIN stmt.table :
           LET column == stmt.table[i]
               told   == sent[t].rows[i]
           IN /\ \/ told.atttypid = Oid[ResultType(t, column)]
                 \/ << told.atttypid, ResultType(t, column) >> \in TwoTypes(t, column)
              /\ told.attnotnull => column.not_null
              /\ t = "arrow" => (column.not_null => told.attnotnull)
=============================================================================
