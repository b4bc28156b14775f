------------------------- MODULE WebSocketTransport -------------------------
(***************************************************************************)
(* The WebSocket transport to Exasol, src/exasol/websocket_transport.rs:   *)
(* the two-step login, requests with one response each, control frames in  *)
(* between, and the fetch loop that collects a large result set.  Before a *)
(* client gets its session, ExasolSession::initialize runs the statements  *)
(* of session_init_sql over it.                                            *)
(*                                                                         *)
(* The gateway and Exasol run concurrently and talk over two ordered       *)
(* channels that either side can lose at any time.  Exasol is external; it *)
(* is modelled by the answers the transport is written for.                *)
(***************************************************************************)
EXTENDS Naturals, Sequences, FiniteSets

CONSTANTS MaxRows,   \* bound: rows of a result set
          MaxFrames, \* bound: control frames Exasol has under way
          InitSql    \* the number of statements of session_init_sql, which are run
                     \* if a preprocessor script is configured

ASSUME BoundsAssumption == MaxRows \in Nat /\ MaxFrames \in Nat /\ InitSql \in Nat

VARIABLES
  phase,      \* what the outstanding request is for; "idle" if there is none
  up,         \* is the websocket open
  toExasol,   \* requests under way
  toGateway,  \* messages under way to the gateway
  rows,       \* the rows collected by the statement being executed
  fetched,    \* its count of rows
  total,      \* numRows, as the answer to execute said
  outcome,    \* how the last statement ended
  left,       \* the statements of session_init_sql still to run; a client has
              \* the session once there are none
  applied     \* how many statements with a row count Exasol has executed for
              \* initialize

vars == <<phase, up, toExasol, toGateway, rows, fetched, total, outcome, left, applied>>
channels == <<toExasol, toGateway>>
result == <<rows, fetched, total>>
initVars == <<left, applied>>

Waiting == {"key", "login", "execute", "fetch"}

\* A request; start is the startPosition of a fetch.
Request(command, start) == [command |-> command, start |-> start]

\* Messages to the gateway.  An answer carries the request it answers, a
\* status, the part from+1 .. upto of a result set of n rows, and whether
\* there is a resultSetHandle to fetch the rest with.
Frame(kind) == [kind |-> kind, to |-> Request("none", 0), status |-> "none",
                from |-> 0, upto |-> 0, n |-> 0, handle |-> FALSE]
Answer(req, status, from, upto, n, handle) ==
  [kind |-> "text", to |-> req, status |-> status, from |-> from, upto |-> upto,
   n |-> n, handle |-> handle]

Numbers(from, upto) == [i \in 1 .. (upto - from) |-> from + i]

Init ==
  /\ phase = "key" /\ up = TRUE
  /\ toExasol = <<Request("key", 0)>> /\ toGateway = << >>
  /\ rows = << >> /\ fetched = 0 /\ total = 0
  /\ outcome = "none"
  /\ left = InitSql /\ applied = 0

(***************************************************************************)
(* The gateway.                                                            *)
(***************************************************************************)

\* A session that is not a client's yet.
Connecting == phase \in {"key", "login"} \/ left > 0

\* An Err ends the statement, or connect_exasol, which drops the transport.
Fail ==
  /\ phase' = IF Connecting THEN "dropped" ELSE "idle"
  /\ outcome' = "error"
  /\ UNCHANGED <<result, initVars>>

\* request, sending half
send(req, purpose) ==
  /\ phase' = purpose
  /\ toExasol' = Append(toExasol, req)

\* ExasolSession::initialize, the next statement.
initialize ==
  /\ phase = "idle" /\ left > 0
  /\ \/ /\ up
        /\ send(Request("execute", 0), "execute")
        /\ outcome' = "none"
        /\ UNCHANGED <<toGateway, result, initVars>>
     \/ ~up /\ Fail /\ UNCHANGED channels
  /\ UNCHANGED up

execute ==
  /\ phase = "idle" /\ left = 0
  /\ \/ /\ up
        /\ send(Request("execute", 0), "execute")
        /\ outcome' = "none"
        /\ UNCHANGED toGateway
     \/ /\ ~up /\ outcome' = "error"
        /\ UNCHANGED <<phase, channels>>
  /\ UNCHANGED <<up, result, initVars>>

\* Mutant: a control frame is taken for a failed answer.
FrameFailsStatement ==
  /\ phase \in Waiting /\ up /\ toGateway # << >>
  /\ Head(toGateway).kind \in {"ping", "pong"}
  /\ toGateway' = Tail(toGateway)
  /\ Fail
  /\ UNCHANGED <<up, toExasol>>

\* read_json_response: control frames are answered or passed over ...
read_frame ==
  /\ phase \in Waiting /\ up /\ toGateway # << >>
  /\ Head(toGateway).kind \in {"ping", "pong"}
  /\ toGateway' = Tail(toGateway)
  /\ UNCHANGED <<phase, up, toExasol, result, outcome, initVars>>

\* Mutant: the end of the stream is passed over like a control frame.
WaitOnClosed ==
  /\ phase \in Waiting /\ ~up
  /\ UNCHANGED vars

\* ... and a closed websocket is an error.
read_closed ==
  /\ phase \in Waiting /\ ~up
  /\ Fail
  /\ UNCHANGED <<up, channels>>

HasAnswer(purposes) ==
  /\ phase \in purposes /\ up /\ toGateway # << >>
  /\ Head(toGateway).kind = "text"
  /\ toGateway' = Tail(toGateway)

\* request, receiving half: an answer that is not text, not JSON or not "ok"
\* fails the request, and so does an "ok" without the expected data.
read_error ==
  /\ HasAnswer(Waiting)
  /\ Head(toGateway).status # "ok" /\ Head(toGateway).status # "count"
  /\ Fail
  /\ UNCHANGED <<up, toExasol>>

login ==
  /\ HasAnswer({"key", "login"})
  /\ Head(toGateway).status = "ok"
  /\ IF phase = "key" THEN send(Request("login", 0), "login")
     ELSE phase' = "idle" /\ UNCHANGED toExasol
  /\ UNCHANGED <<up, result, outcome, initVars>>

\* Mutant: execute_update takes rows for success.
KeepResultSet == phase' = "idle" /\ outcome' = "rows" /\ left' = IF left > 0 THEN left - 1 ELSE 0

\* A result set is what a client's execute returns; execute_update of initialize
\* takes it for an error.
EndWithRows ==
  /\ IF left > 0 THEN phase' = "dropped" /\ outcome' = "error"
     ELSE phase' = "idle" /\ outcome' = "rows"
  /\ UNCHANGED left

\* The loop of parse_result_set: with n rows fetched so far, ask for more
\* while some are missing and there is a handle.
FetchMore(n, count, collected, handle) ==
  /\ fetched' = n /\ total' = count /\ rows' = collected
  /\ IF handle /\ n < count
     THEN send(Request("fetch", n), "fetch") /\ UNCHANGED <<outcome, left>>
     ELSE EndWithRows /\ UNCHANGED toExasol
  /\ UNCHANGED applied

\* Mutant: the rows that came with the answer to execute are dropped.
DropFirstRows ==
  LET a == Head(toGateway) IN
  /\ HasAnswer({"execute"})
  /\ a.status = "ok"
  /\ FetchMore(a.upto, a.n, << >>, a.handle)
  /\ UNCHANGED up

parse_result_set ==
  LET a == Head(toGateway) IN
  /\ HasAnswer({"execute"})
  /\ a.status = "ok"
  /\ FetchMore(a.upto, a.n, Numbers(a.from, a.upto), a.handle)
  /\ UNCHANGED up

\* Mutant: a chunk is counted with one row too many.
CountOneTooMany ==
  LET a == Head(toGateway) IN
  /\ HasAnswer({"fetch"})
  /\ a.status = "ok"
  /\ FetchMore(fetched + (a.upto - a.from) + 1, total, rows \o Numbers(a.from, a.upto), TRUE)
  /\ UNCHANGED up

fetch ==
  LET a == Head(toGateway) IN
  /\ HasAnswer({"fetch"})
  /\ a.status = "ok"
  /\ FetchMore(fetched + (a.upto - a.from), total, rows \o Numbers(a.from, a.upto), TRUE)
  /\ UNCHANGED up

row_count ==
  /\ HasAnswer({"execute"})
  /\ Head(toGateway).status = "count"
  /\ phase' = "idle" /\ outcome' = "count"
  /\ left' = IF left > 0 THEN left - 1 ELSE 0
  /\ UNCHANGED <<up, toExasol, result, applied>>

close ==
  /\ phase = "idle" /\ left = 0
  /\ phase' = "dropped" /\ up' = FALSE
  /\ UNCHANGED <<channels, result, outcome, initVars>>

Gateway == \/ initialize \/ read_frame \/ read_closed \/ read_error
           \/ login \/ parse_result_set \/ fetch \/ row_count

(***************************************************************************)
(* Exasol.                                                                 *)
(***************************************************************************)
\* A result set that does not fit its first message has a handle, and a fetch
\* returns at least one of the rows that are left.
Answers(req) ==
  {Answer(req, "error", 0, 0, 0, FALSE)} \cup
  CASE req.command \in {"key", "login"} -> {Answer(req, "ok", 0, 0, 0, FALSE)}
    [] req.command = "execute" ->
         {Answer(req, "count", 0, 0, 0, FALSE)} \cup
         {a \in {Answer(req, "ok", 0, k, n, h) : k \in 0 .. MaxRows, n \in 0 .. MaxRows, h \in BOOLEAN} :
            a.upto <= a.n /\ (a.handle \/ a.upto = a.n)}
    [] req.command = "fetch" ->
         {Answer(req, "ok", req.start, k, total, FALSE) : k \in (req.start + 1) .. total}

exasol_answers ==
  /\ up /\ toExasol # << >>
  /\ toExasol' = Tail(toExasol)
  /\ \E a \in Answers(Head(toExasol)) :
       /\ toGateway' = Append(toGateway, a)
       /\ applied' = IF left > 0 /\ a.status = "count" THEN applied + 1 ELSE applied
  /\ UNCHANGED <<phase, up, result, outcome, left>>

exasol_sends_frame ==
  /\ up /\ Cardinality({i \in DOMAIN toGateway : toGateway[i].kind # "text"}) < MaxFrames
  /\ \E kind \in {"ping", "pong"} : toGateway' = Append(toGateway, Frame(kind))
  /\ UNCHANGED <<phase, up, toExasol, result, outcome, initVars>>

\* The connection breaks: what was under way is gone.
connection_lost ==
  /\ up /\ up' = FALSE
  /\ toExasol' = << >> /\ toGateway' = << >>
  /\ UNCHANGED <<phase, result, outcome, initVars>>

Next == \/ Gateway \/ execute \/ close
        \/ exasol_answers \/ exasol_sends_frame \/ connection_lost

\* The gateway's task runs, and Exasol answers a request it received.
Spec == /\ Init /\ [][Next]_vars
        /\ WF_vars(Gateway) /\ WF_vars(exasol_answers)
-----------------------------------------------------------------------------
Message == [kind : {"text", "ping", "pong"},
            to : [command : Waiting \cup {"none"}, start : Nat],
            status : {"ok", "count", "error", "none"},
            from : Nat, upto : Nat, n : Nat, handle : BOOLEAN]

\* Type invariant; the fetch loop never counts beyond the result set.
TypeOK ==
  /\ phase \in Waiting \cup {"idle", "dropped"}
  /\ up \in BOOLEAN
  /\ toExasol \in Seq([command : Waiting, start : Nat])
  /\ toGateway \in Seq(Message)
  /\ rows \in Seq(Nat) /\ total \in Nat /\ fetched \in 0 .. total
  /\ outcome \in {"none", "error", "rows", "count"}
  /\ left \in 0 .. InitSql /\ applied \in 0 .. InitSql

Unread == {i \in DOMAIN toGateway : toGateway[i].kind = "text"}

\* Requests and answers never get out of step: an idle transport has no answer
\* left to read, a waiting one at most one, and that answers the request it is
\* waiting for.  An answer left behind by a failed statement would be taken for
\* the answer of the next one.
InStep ==
  /\ phase \notin Waiting => toExasol = << >> /\ Unread = {}
  /\ Len(toExasol) <= 1 /\ (toExasol # << >> => Unread = {})
  /\ \A i, j \in Unread : i = j
  /\ \A i \in Unread : toGateway[i].to.command = phase

\* A statement that ends with a result set has all its rows, in order, however
\* the rows were spread over the answer to execute and the fetches.
RowsAreComplete == outcome = "rows" => rows = Numbers(0, total)

\* A client gets a session only after Exasol has executed every statement of
\* session_init_sql, and each of them once: one that failed, whose answer was
\* lost or that returned rows, costs the client the session.
InitializedFirst ==
  /\ ~Connecting /\ phase # "dropped" => applied = InitSql
  /\ phase = "idle" => applied + left = InitSql

\* Every statement ends, provided that Exasol answers, even while control
\* frames keep coming in between; and so does connecting, with all of
\* session_init_sql.
StatementEnds ==
  /\ phase \in Waiting ~> phase \notin Waiting
  /\ Connecting ~> ~Connecting \/ phase = "dropped"
=============================================================================
