------------------------------- MODULE Session -------------------------------
(***************************************************************************)
(* One client connection of the gateway: the PostgreSQL message handlers   *)
(* of src/pg_server.rs (startup, simple query, extended query), the        *)
(* statement executor behind them and the SessionState they share, against *)
(* one Exasol session.  Connections share nothing but read-only            *)
(* configuration, so one is the whole story.                               *)
(*                                                                         *)
(* SQL text is abstracted to the plan the gateway makes of it.  What a     *)
(* cursor does with its rows is module CursorRegistry; here a cursor is    *)
(* its WITH HOLD option.  The message loop and the portal store belong to  *)
(* the pgwire library.                                                     *)
(***************************************************************************)
EXTENDS Naturals, Sequences

CONSTANTS Schemas,         \* schema names
          CursorNames,     \* names of SQL cursors
          StatementNames,  \* names of prepared statements
          PortalNames,     \* names of portals
          DEFAULT_NAME,    \* the unnamed portal
          None,            \* no schema
          Texts            \* query texts: the statement sequences clients send

(***************************************************************************)
(* Statements, by StatementPlan.  ClientShow also stands for ClientSelect, *)
(* BackendPid and the catalog queries answered by an empty table, which    *)
(* are local too; Metadata is any other query that detect_metadata         *)
(* recognises.                                                             *)
(***************************************************************************)
Statement(plan, arg, hold) == [plan |-> plan, arg |-> arg, hold |-> hold]

PlainPlans == {"Empty", "ClientSet", "ClientTransactionStart", "ClientTransactionEnd",
               "ClientShow", "ShowSearchPath", "Reject", "Metadata", "Execute", "CloseAll"}

Statements ==
  [plan : PlainPlans, arg : {None}, hold : {FALSE}]
  \cup [plan : {"SetSearchPath"}, arg : Schemas, hold : {FALSE}]
  \cup [plan : {"Declare"}, arg : CursorNames, hold : BOOLEAN]
  \cup [plan : {"Fetch", "Move", "Close"}, arg : CursorNames, hold : {FALSE}]

ASSUME TextsAssumption == Texts \subseteq Seq(Statements)

\* What execute_statement yields: a GatewayResponse ("RowCount" is the
\* Execution that answers a write), or "Err", an error raised with ?.
Kinds == {"Empty", "Query", "Execution", "RowCount",
          "TransactionStart", "TransactionEnd", "Error"}

VARIABLES
  conn,              \* PgWireConnectionState
  txStatus,          \* the transaction status of ReadyForQuery
  exasol,            \* the Exasol session: is it up, which schema did the
                     \* last OPEN SCHEMA open
  session,           \* has on_startup stored a SessionState
  current_schema,    \* SessionState.current_schema
  cursors,           \* SessionState.cursors: open name -> hold
  extended_results,  \* SessionState.extended_results: portal -> response
  prepared,          \* prepared statements
  portals,           \* bound portals
  batch,             \* statements of the simple query not yet run
  responses          \* its responses not yet sent

state == <<exasol, current_schema, cursors>>
simple == <<batch, responses>>

(***************************************************************************)
(* History variables, read by no action.                                   *)
(***************************************************************************)
VARIABLES
  told,        \* the transaction state the acknowledgements told the client
  stale,       \* portals bound again since their response was cached
  answered,    \* portals whose cached response has been delivered
  reply,       \* the answer to the Execute message just handled
  unreported   \* a write took effect and its answer was thrown away

vars == <<conn, txStatus, exasol, session, current_schema, cursors, extended_results,
          prepared, portals, batch, responses, told, stale, answered, reply, unreported>>

NoReply == [kind |-> "none", stale |-> FALSE]
NoExasol == [up |-> FALSE, schema |-> None]
EmptyMap == [x \in {} |-> None]

Insert(f, k, v) == [x \in DOMAIN f \cup {k} |-> IF x = k THEN v ELSE f[x]]
Remove(f, k) == [x \in DOMAIN f \ {k} |-> f[x]]

Init ==
  /\ conn = "AwaitingStartup" /\ txStatus = "I"
  /\ exasol = NoExasol /\ session = FALSE
  /\ current_schema = None /\ cursors = EmptyMap /\ extended_results = EmptyMap
  /\ prepared = EmptyMap /\ portals = EmptyMap
  /\ batch = << >> /\ responses = << >>
  /\ told = "I" /\ stale = {} /\ answered = {} /\ reply = NoReply /\ unreported = FALSE

(***************************************************************************)
(* Transaction status, as pgwire keeps it.                                 *)
(***************************************************************************)
to_in_transaction_state(tx) == IF tx = "E" THEN "E" ELSE "T"
to_error_state(tx) == IF tx = "I" THEN "I" ELSE "E"

\* Mutant: the end of a transaction does not make the session idle.
StatusKeptAtEnd(tx, kind) ==
  CASE kind = "TransactionStart" -> to_in_transaction_state(tx)
    [] kind = "Error"            -> to_error_state(tx)
    [] OTHER                     -> tx

\* A response that is sent moves the status and tells the client.
StatusAfter(tx, kind) ==
  CASE kind = "TransactionStart" -> to_in_transaction_state(tx)
    [] kind = "TransactionEnd"   -> "I"
    [] kind = "Error"            -> to_error_state(tx)
    [] OTHER                     -> tx

ToldAfter(kind) ==
  CASE kind = "TransactionStart" -> "T"
    [] kind = "TransactionEnd"   -> "I"
    [] OTHER                     -> told

(***************************************************************************)
(* The Exasol session.  A statement succeeds, is refused without effect,   *)
(* or the session is lost before or after it took effect; a lost session   *)
(* is never opened again.                                                  *)
(***************************************************************************)
ExasolExecute(ok, schema) ==
  \/ /\ ok /\ exasol.up
     /\ exasol' = [exasol EXCEPT !.schema = schema]
  \/ /\ ~ok
     /\ exasol' \in {exasol, [exasol EXCEPT !.up = FALSE],
                     [up |-> FALSE, schema |-> schema]}

\* The same for a statement that opens no schema.
ExasolAnswers(ok) == ExasolExecute(ok, exasol.schema)

(***************************************************************************)
(* execute_statement: run one statement, with the result res.              *)
(***************************************************************************)
NotConnected(res) == /\ ~session /\ res = "Err"
                     /\ UNCHANGED state

LocalResponse(plan) ==
  CASE plan = "Empty"                  -> "Empty"
    [] plan = "ClientSet"              -> "Execution"
    [] plan = "ClientTransactionStart" -> "TransactionStart"
    [] plan = "ClientShow"             -> "Query"
    [] plan = "Reject"                 -> "Error"

local_statement(s, res) ==
  /\ s.plan \in {"Empty", "ClientSet", "ClientTransactionStart", "ClientShow", "Reject"}
  /\ res = LocalResponse(s.plan)
  /\ UNCHANGED state

\* COMMIT and ROLLBACK only drop cursors, and need no session for it.
end_transaction(s, res) ==
  /\ s.plan = "ClientTransactionEnd"
  /\ res = "TransactionEnd"
  /\ cursors' = [n \in {m \in DOMAIN cursors : cursors[m]} |-> TRUE]
  /\ UNCHANGED <<exasol, current_schema>>

\* Mutant: the schema is recorded before OPEN SCHEMA is known to succeed.
RecordSchemaFirst(s, res) ==
  /\ s.plan = "SetSearchPath"
  /\ \/ NotConnected(res)
     \/ /\ session
        /\ \/ ExasolExecute(TRUE, s.arg) /\ res = "Execution"
           \/ ExasolExecute(FALSE, s.arg) /\ res = "Err"
        /\ current_schema' = s.arg
        /\ UNCHANGED cursors

set_search_path(s, res) ==
  /\ s.plan = "SetSearchPath"
  /\ \/ NotConnected(res)
     \/ /\ session
        /\ \/ /\ ExasolExecute(TRUE, s.arg)
              /\ current_schema' = s.arg
              /\ res = "Execution"
           \/ /\ ExasolExecute(FALSE, s.arg)
              /\ res = "Err"
              /\ UNCHANGED current_schema
        /\ UNCHANGED cursors

show_search_path(s, res) ==
  /\ s.plan = "ShowSearchPath"
  /\ NotConnected(res) \/ (session /\ res = "Query" /\ UNCHANGED state)

execute_metadata_query(s, res) ==
  /\ s.plan = "Metadata"
  /\ \/ NotConnected(res)
     \/ /\ session
        /\ \/ ExasolAnswers(TRUE) /\ res = "Query"
           \/ ExasolAnswers(FALSE) /\ res = "Err"
        /\ UNCHANGED <<current_schema, cursors>>

\* Any other statement is translated and sent; it answers with rows or a count.
execute_exasol(s, res) ==
  /\ s.plan = "Execute"
  /\ \/ NotConnected(res)
     \/ /\ session
        /\ \/ ExasolAnswers(TRUE) /\ res \in {"Query", "RowCount"}
           \/ ExasolAnswers(FALSE) /\ res = "Err"
        /\ UNCHANGED <<current_schema, cursors>>

declare_cursor(s, res) ==
  /\ s.plan = "Declare"
  /\ \/ res = "Error" /\ UNCHANGED state        \* the query is not a plain SELECT
     \/ NotConnected(res)
     \/ /\ session /\ s.arg \in DOMAIN cursors
        /\ res = "Error" /\ UNCHANGED state
     \/ /\ session /\ s.arg \notin DOMAIN cursors
        /\ \/ /\ ExasolAnswers(TRUE) /\ res = "Execution"
              /\ cursors' = Insert(cursors, s.arg, s.hold)
           \/ /\ ExasolAnswers(TRUE) /\ res = "Error"  \* it returned no rows
              /\ UNCHANGED cursors
           \/ /\ ExasolAnswers(FALSE) /\ res = "Err"
              /\ UNCHANGED cursors
        /\ UNCHANGED current_schema

\* A direction the cursor does not support is an Err, a missing cursor an Error.
fetch_or_move_cursor(s, res) ==
  /\ s.plan \in {"Fetch", "Move"}
  /\ \/ ~session /\ res = "Err"
     \/ session /\ s.arg \notin DOMAIN cursors /\ res = "Error"
     \/ /\ session /\ s.arg \in DOMAIN cursors
        /\ res \in {"Err", IF s.plan = "Fetch" THEN "Query" ELSE "Execution"}
  /\ UNCHANGED state

close_cursor(s, res) ==
  /\ s.plan \in {"Close", "CloseAll"}
  /\ \/ NotConnected(res)
     \/ /\ session /\ s.plan = "CloseAll" /\ res = "Execution"
        /\ cursors' = EmptyMap /\ UNCHANGED <<exasol, current_schema>>
     \/ /\ session /\ s.plan = "Close" /\ s.arg \in DOMAIN cursors /\ res = "Execution"
        /\ cursors' = Remove(cursors, s.arg) /\ UNCHANGED <<exasol, current_schema>>
     \/ /\ session /\ s.plan = "Close" /\ s.arg \notin DOMAIN cursors /\ res = "Error"
        /\ UNCHANGED state

execute_statement(s, res) ==
  \/ local_statement(s, res)
  \/ end_transaction(s, res)
  \/ set_search_path(s, res)
  \/ show_search_path(s, res)
  \/ execute_metadata_query(s, res)
  \/ execute_exasol(s, res)
  \/ declare_cursor(s, res)
  \/ fetch_or_move_cursor(s, res)
  \/ close_cursor(s, res)

\* Response::try_from: encoding the rows of a query may fail.
try_from(kind, res) == res = kind \/ (kind = "Query" /\ res = "Err")

(***************************************************************************)
(* Startup.  The password is used to open and initialise the Exasol        *)
(* session; only then is a SessionState stored.  A failure is an ERROR,    *)
(* after which pgwire may keep the connection, without a session.          *)
(***************************************************************************)
startup ==
  /\ conn = "AwaitingStartup"
  /\ conn' = "AuthenticationInProgress"
  /\ UNCHANGED <<txStatus, exasol, session, current_schema, cursors, extended_results,
                 prepared, portals, batch, responses, told, stale, answered, reply,
                 unreported>>

password ==
  /\ conn = "AuthenticationInProgress"
  /\ \/ /\ session' = TRUE
        /\ exasol' = [up |-> TRUE, schema |-> None]
     \/ UNCHANGED <<session, exasol>>
  /\ conn' = "ReadyForQuery"
  /\ UNCHANGED <<txStatus, current_schema, cursors, extended_results, prepared, portals,
                 batch, responses, told, stale, answered, reply, unreported>>

\* The client goes away: its task ends and drops the SessionState.  The next
\* client starts from nothing.
disconnect ==
  /\ conn \in {"AuthenticationInProgress", "ReadyForQuery", "AwaitingSync"}
  /\ conn' = "AwaitingStartup" /\ txStatus' = "I"
  /\ exasol' = NoExasol /\ session' = FALSE
  /\ current_schema' = None /\ cursors' = EmptyMap /\ extended_results' = EmptyMap
  /\ prepared' = EmptyMap /\ portals' = EmptyMap
  /\ told' = "I" /\ stale' = {} /\ answered' = {} /\ reply' = NoReply
  /\ unreported' = FALSE
  /\ UNCHANGED simple

exasol_lost ==
  /\ exasol.up
  /\ exasol' = [exasol EXCEPT !.up = FALSE]
  /\ UNCHANGED <<conn, txStatus, session, current_schema, cursors, extended_results,
                 prepared, portals, batch, responses, told, stale, answered, reply,
                 unreported>>

(***************************************************************************)
(* Simple query: the statements run one after the other, the responses are *)
(* sent when all have run.  An Error response stops the batch; an Err      *)
(* stops it and throws the responses of the earlier statements away.       *)
(***************************************************************************)
extended == <<prepared, portals, extended_results, stale, answered>>

query(text) ==
  /\ conn = "ReadyForQuery"
  /\ conn' = "QueryInProgress"
  /\ batch' = text
  /\ responses' = IF text = << >> THEN <<"Empty">> ELSE << >>
  /\ reply' = NoReply
  /\ UNCHANGED <<txStatus, session, state, extended, told, unreported>>

\* Mutant: the rest of the batch is kept for the next query.
KeepBatch ==
  /\ conn' = "ReadyForQuery"
  /\ txStatus' = to_error_state(txStatus)
  /\ responses' = << >>
  /\ UNCHANGED <<batch, unreported>>

\* Mutant: the statement is tried again.
RetryStatement == UNCHANGED <<conn, txStatus, batch, responses, unreported>>

\* An Err: the query fails as a whole.
AbandonBatch ==
  /\ conn' = "ReadyForQuery"
  /\ txStatus' = to_error_state(txStatus)
  /\ batch' = << >> /\ responses' = << >>
  /\ unreported' = (unreported \/ \E i \in DOMAIN responses : responses[i] = "RowCount")

\* Mutant: an Error does not stop the batch.
RunOn(res) ==
  /\ batch' = Tail(batch)
  /\ responses' = Append(responses, res)
  /\ UNCHANGED <<conn, txStatus, unreported>>

\* A response: on to the next statement, unless it is an Error.
AdvanceBatch(res) ==
  /\ batch' = IF res = "Error" THEN << >> ELSE Tail(batch)
  /\ responses' = Append(responses, res)
  /\ UNCHANGED <<conn, txStatus, unreported>>

execute_simple_query ==
  /\ conn = "QueryInProgress" /\ batch # << >>
  /\ \E kind \in Kinds \cup {"Err"}, res \in Kinds \cup {"Err"} :
       /\ execute_statement(Head(batch), kind)
       /\ try_from(kind, res)
       /\ \/ res = "Err" /\ AbandonBatch
          \/ res # "Err" /\ AdvanceBatch(res)
  /\ UNCHANGED <<session, extended, told, reply>>

\* pgwire sends the responses in order ...
send_response ==
  /\ conn = "QueryInProgress" /\ batch = << >> /\ responses # << >>
  /\ responses' = Tail(responses)
  /\ txStatus' = StatusAfter(txStatus, Head(responses))
  /\ told' = ToldAfter(Head(responses))
  /\ UNCHANGED <<conn, session, state, extended, batch, reply, unreported>>

\* ... and then ReadyForQuery.
ready_for_query ==
  /\ conn = "QueryInProgress" /\ batch = << >> /\ responses = << >>
  /\ conn' = "ReadyForQuery"
  /\ UNCHANGED <<txStatus, session, state, extended, simple, told, reply, unreported>>

(***************************************************************************)
(* Extended query.  After an Err everything up to Sync is skipped.         *)
(***************************************************************************)
Fail == /\ conn' = "AwaitingSync"
        /\ txStatus' = to_error_state(txStatus)

Succeed == UNCHANGED <<conn, txStatus>>

on_parse(name, text) ==
  /\ conn = "ReadyForQuery"
  /\ \/ /\ Len(text) > 1
        /\ Fail /\ UNCHANGED prepared
     \/ /\ Len(text) <= 1
        /\ prepared' = Insert(prepared, name,
                         IF text = << >> THEN Statement("Empty", None, FALSE) ELSE text[1])
        /\ Succeed
  /\ reply' = NoReply
  /\ UNCHANGED <<session, state, portals, extended_results, stale, answered, simple,
                 told, unreported>>

\* bad: one of the parameters cannot be rendered as a literal.
on_bind(portal, name, bad) ==
  /\ conn = "ReadyForQuery"
  /\ \/ /\ name \notin DOMAIN prepared
        /\ Fail /\ UNCHANGED <<portals, stale>>
     \/ /\ name \in DOMAIN prepared
        /\ portals' = Insert(portals, portal, [statement |-> prepared[name], bad |-> bad])
        /\ stale' = stale \cup ({portal} \cap DOMAIN extended_results)
        /\ Succeed
  /\ reply' = NoReply
  /\ UNCHANGED <<session, state, prepared, extended_results, answered, simple, told,
                 unreported>>

cache_extended_result(portal, kind) ==
  /\ extended_results' = Insert(extended_results, portal, kind)
  /\ stale' = stale \ {portal}
  /\ answered' = answered \ {portal}
  /\ unreported' = (unreported \/ (/\ portal \in DOMAIN extended_results \ answered
                                   /\ extended_results[portal] = "RowCount"))

\* The portal exists and render_portal_sql can write its parameters.
Renderable(portal) == portal \in DOMAIN portals /\ ~portals[portal].bad

\* Mutant: the response is cached even if nobody is logged in.
DescribeWithoutSession(portal) ==
  /\ conn = "ReadyForQuery"
  /\ Renderable(portal)
  /\ \E kind \in Kinds :
       /\ execute_statement(portals[portal].statement, kind)
       /\ cache_extended_result(portal, kind)
  /\ Succeed
  /\ reply' = NoReply
  /\ UNCHANGED <<session, prepared, portals, simple, told>>

\* Describing a portal runs its statement, to know the columns, and keeps
\* the response for the Execute message.
do_describe_portal(portal) ==
  /\ conn = "ReadyForQuery"
  /\ \/ /\ Renderable(portal)
        /\ \E kind \in Kinds \cup {"Err"} :
             /\ execute_statement(portals[portal].statement, kind)
             /\ \/ /\ kind # "Err" /\ session
                   /\ cache_extended_result(portal, kind)
                   /\ Succeed
                \/ /\ kind = "Err" \/ ~session
                   /\ Fail
                   /\ UNCHANGED <<extended_results, stale, answered, unreported>>
     \/ /\ ~Renderable(portal)
        /\ Fail
        /\ UNCHANGED <<state, extended_results, stale, answered, unreported>>
  /\ reply' = NoReply
  /\ UNCHANGED <<session, prepared, portals, simple, told>>

\* Mutant: the response is read but not removed.
PeekCachedResult(portal, kind) ==
  /\ portal \in DOMAIN extended_results
  /\ kind = extended_results[portal]
  /\ UNCHANGED extended_results

take_cached_extended_result(portal, kind) ==
  /\ portal \in DOMAIN extended_results
  /\ kind = extended_results[portal]
  /\ extended_results' = Remove(extended_results, portal)

\* The response of a portal: the cached one, or the one of running it now.
PortalResponse(portal, kind) ==
  \/ /\ take_cached_extended_result(portal, kind)
     /\ stale' = stale \ {portal}
     /\ answered' = answered \cup {portal}
     /\ UNCHANGED state
  \/ /\ portal \notin DOMAIN extended_results
     /\ \/ /\ Renderable(portal)
           /\ execute_statement(portals[portal].statement, kind)
        \/ ~Renderable(portal) /\ kind = "Error" /\ UNCHANGED state
     /\ UNCHANGED <<extended_results, stale, answered>>

on_execute(portal) ==
  /\ conn = "ReadyForQuery"
  /\ \/ /\ portal \notin DOMAIN portals
        /\ Fail
        /\ reply' = NoReply
        /\ UNCHANGED <<state, portals, extended_results, stale, answered, told>>
     \/ /\ portal \in DOMAIN portals
        /\ \E kind \in Kinds \cup {"Err"}, res \in Kinds \cup {"Err"} :
             /\ PortalResponse(portal, kind)
             /\ try_from(kind, res)
             /\ reply' = [kind |-> res, stale |-> portal \in stale]
             /\ \/ /\ res = "Err"
                   /\ Fail
                   /\ UNCHANGED <<portals, told>>
                \/ /\ res # "Err"
                   /\ txStatus' = StatusAfter(txStatus, res)
                   /\ told' = ToldAfter(res)
                   /\ portals' = IF portal = DEFAULT_NAME THEN Remove(portals, portal)
                                 ELSE portals
                   /\ UNCHANGED conn
  /\ UNCHANGED <<session, prepared, simple, unreported>>

on_close_portal(portal) ==
  /\ conn = "ReadyForQuery"
  /\ portals' = Remove(portals, portal)
  /\ reply' = NoReply
  /\ UNCHANGED <<conn, txStatus, session, state, prepared, extended_results, stale,
                 answered, simple, told, unreported>>

on_close_statement(name) ==
  /\ conn = "ReadyForQuery"
  /\ prepared' = Remove(prepared, name)
  /\ reply' = NoReply
  /\ UNCHANGED <<conn, txStatus, session, state, portals, extended_results, stale,
                 answered, simple, told, unreported>>

on_sync ==
  /\ conn \in {"ReadyForQuery", "AwaitingSync"}
  /\ conn' = "ReadyForQuery"
  /\ reply' = NoReply
  /\ UNCHANGED <<txStatus, session, state, extended, simple, told, unreported>>

Gateway == execute_simple_query \/ send_response \/ ready_for_query

Client ==
  \/ startup \/ password \/ disconnect
  \/ \E text \in Texts : query(text)
  \/ \E name \in StatementNames, text \in Texts : on_parse(name, text)
  \/ \E portal \in PortalNames, name \in StatementNames, bad \in BOOLEAN :
       on_bind(portal, name, bad)
  \/ \E portal \in PortalNames :
       do_describe_portal(portal) \/ on_execute(portal) \/ on_close_portal(portal)
  \/ \E name \in StatementNames : on_close_statement(name)
  \/ on_sync

Next == Gateway \/ Client \/ exasol_lost

Spec == Init /\ [][Next]_vars

\* The gateway's task runs while it has work; nothing is assumed of clients.
FairSpec == Spec /\ WF_vars(Gateway)
-----------------------------------------------------------------------------
Portal == [statement : Statements, bad : BOOLEAN]

IsMap(f, keys, values) == DOMAIN f \subseteq keys /\ f \in [DOMAIN f -> values]

ConnTypeOK ==
  /\ conn \in {"AwaitingStartup", "AuthenticationInProgress", "ReadyForQuery",
               "QueryInProgress", "AwaitingSync"}
  /\ txStatus \in {"I", "T", "E"} /\ told \in {"I", "T"}
  /\ session \in BOOLEAN

StateTypeOK ==
  /\ exasol \in [up : BOOLEAN, schema : Schemas \cup {None}]
  /\ current_schema \in Schemas \cup {None}
  /\ IsMap(cursors, CursorNames, BOOLEAN)

ExtendedTypeOK ==
  /\ IsMap(extended_results, PortalNames, Kinds)
  /\ IsMap(prepared, StatementNames, Statements)
  /\ IsMap(portals, PortalNames, Portal)
  /\ stale \subseteq PortalNames /\ answered \subseteq PortalNames

\* Work of a simple query exists only while one is in progress.
SimpleTypeOK ==
  /\ batch \in Seq(Statements) /\ responses \in Seq(Kinds)
  /\ conn # "QueryInProgress" => batch = << >> /\ responses = << >>

ReplyTypeOK ==
  /\ reply \in [kind : Kinds \cup {"Err", "none"}, stale : BOOLEAN]
  /\ unreported \in BOOLEAN

\* Type invariant.
TypeOK == ConnTypeOK /\ StateTypeOK /\ ExtendedTypeOK /\ SimpleTypeOK /\ ReplyTypeOK

\* The transaction status of ReadyForQuery is idle exactly when the last
\* transaction command acknowledged to the client was an end: whatever mix of
\* simple batches, failures, described and executed portals the client used
\* (on_execute and pgwire's sending of the responses of a batch).
StatusAgreesWithAcks == (txStatus = "I") <=> (told = "I")

\* A response cached by Describe answers one Execute, never a second one.
AtMostOnceDelivery == answered \cap DOMAIN extended_results = {}

\* SHOW search_path never names a schema other than the one that the last
\* OPEN SCHEMA of a SET search_path opened, however many of these failed
\* (current_schema is written only after OPEN SCHEMA succeeded).
ShownSchemaWasOpened ==
  (exasol.up /\ current_schema # None) => exasol.schema = current_schema

\* Nothing of a batch runs after a statement that was refused.
ErrorEndsTheBatch ==
  \A i \in DOMAIN responses :
    responses[i] = "Error" => i = Len(responses) /\ batch = << >>

\* Gateway state exists only for a client that Exasol has authenticated.
NoStateWithoutSession ==
  ~session => /\ DOMAIN cursors = {} /\ DOMAIN extended_results = {}
              /\ current_schema = None /\ ~exasol.up

\* Every simple query is answered by ReadyForQuery, if Exasol answers or fails.
SimpleQueryIsAnswered == conn = "QueryInProgress" ~> conn = "ReadyForQuery"

\* An Execute is answered with the response of the statement that was bound.
ExecuteAnswersItsPortal == ~reply.stale

\* No completed write goes without its command completion.
WritesAreReported == ~unreported
=============================================================================
