--------------------------- MODULE CursorRegistry ---------------------------
(***************************************************************************)
(* The cursor commands of one client session: DECLARE, FETCH, MOVE, CLOSE  *)
(* and the end of a transaction, as ExasolPgWireHandler of                 *)
(* src/pg_server.rs executes them on SessionState.cursors.                 *)
(***************************************************************************)
EXTENDS GatewayCursor

CONSTANTS Names,    \* cursor names
          Rows,     \* the rows of the database
          Results,  \* the row sequences Exasol can return for a cursor query
          Operands  \* the integers clients write in direction clauses

\* The one i64 left out is IMin, whose negation is not an i64: there forward
\* and backward call each other for ever (src/pg_server.rs 1442 and 1500).
ASSUME OperandsAssumption == Operands \subseteq (-IMax) .. IMax
\* GatewayCursor::len refuses a result that is not counted by an isize.
ASSUME ResultsAssumption ==
  \A rows \in Results : rows \in Seq(Rows) /\ Len(rows) <= IMax

\* The operands whose sum with a position is still an i64.
NoOverflow == \A rows \in Results, k \in Operands : k + Len(rows) <= IMax

VARIABLES cursors,   \* SessionState.cursors, a map from open names
          response,  \* the GatewayResponse (or error) of the last command
          reading    \* history: what FETCH delivered while only reading on

vars == <<cursors, response, reading>>

Clauses == Clause(Operands)

\* History of an open cursor: straight while it was only ever read forwards,
\* got the rows delivered so far.
Fresh == [straight |-> TRUE, got |-> << >>]

\* A response carries the command it answers, so that an answer can be
\* compared with what that command promises.
Command(op, name, clause) == [op |-> op, name |-> name, clause |-> clause]
Answer(command, kind, rows, count) ==
  [to |-> command, kind |-> kind, rows |-> rows, count |-> count]
Error(command, sqlstate) == Answer(command, sqlstate, << >>, 0)
Execution(command) == Answer(command, "ok", << >>, 0)

NoName == ""
NoClause == [text |-> "", n |-> 0]

Insert(f, k, v) == [x \in DOMAIN f \cup {k} |-> IF x = k THEN v ELSE f[x]]
Retain(f, S) == [x \in DOMAIN f \cap S |-> f[x]]

Init == /\ cursors = [n \in {} |-> 0]
        /\ response = Execution(Command("START", NoName, NoClause))
        /\ reading = [n \in {} |-> 0]

(***************************************************************************)
(* DECLARE.  Refused before execution when the query is not a plain SELECT *)
(* or the name is taken, after it when Exasol fails or returns no rows.    *)
(***************************************************************************)
declare_cursor(name) ==
  LET cmd == Command("DECLARE", name, NoClause) IN
  \/ /\ name \notin DOMAIN cursors
     /\ \E rows \in Results, scroll, hold \in BOOLEAN :
          cursors' = Insert(cursors, name,
                       [rows |-> rows, position |-> -1, scroll |-> scroll, hold |-> hold])
     /\ reading' = Insert(reading, name, Fresh)
     /\ response' = Execution(cmd)
  \/ /\ response' = Error(cmd, "0A000")  \* an unsafe query, whatever the name
     /\ UNCHANGED <<cursors, reading>>
  \/ /\ name \in DOMAIN cursors
     /\ response' = Error(cmd, "42P03")
     /\ UNCHANGED <<cursors, reading>>
  \/ /\ name \notin DOMAIN cursors       \* translation or Exasol fails
     /\ response' = Error(cmd, "XX000")
     /\ UNCHANGED <<cursors, reading>>

(***************************************************************************)
(* FETCH and MOVE.                                                         *)
(***************************************************************************)
Missing(name, cmd) ==
  /\ name \notin DOMAIN cursors
  /\ response' = Error(cmd, "34000")
  /\ UNCHANGED <<cursors, reading>>

NotScrollable(name, d, cmd) ==
  /\ name \in DOMAIN cursors
  /\ ~cursors[name].scroll /\ direction_requires_scroll(d)
  /\ response' = Error(cmd, "0A000")
  /\ UNCHANGED <<cursors, reading>>

Allowed(name, d) ==
  /\ name \in DOMAIN cursors
  /\ cursors[name].scroll \/ ~direction_requires_scroll(d)

ReadsOn(d) == \/ d.tag \in {"Next", "All", "ForwardAll"}
              \/ d.tag \in {"Forward", "Count"} /\ d.n > 0
Rereads(d) == d.tag \in {"Forward", "Backward", "Count"} /\ d.n = 0

fetch_cursor(name, clause) ==
  LET cmd == Command("FETCH", name, clause)
      d == parse_cursor_direction(clause)
      step == apply(cursors[name], d, TRUE)
  IN \/ Missing(name, cmd)
     \/ NotScrollable(name, d, cmd)
     \/ /\ Allowed(name, d)
        /\ cursors' = [cursors EXCEPT ![name].position = step.position]
        /\ response' = Answer(cmd, "rows", step.rows, Len(step.rows))
        /\ reading' =
             IF Rereads(d) \/ ~reading[name].straight THEN reading
             ELSE [reading EXCEPT ![name] =
                     [straight |-> ReadsOn(d),
                      got |-> IF ReadsOn(d) THEN @.got \o step.rows ELSE << >>]]

move_cursor(name, clause) ==
  LET cmd == Command("MOVE", name, clause)
      d == parse_cursor_direction(clause)
      step == apply(cursors[name], d, FALSE)
  IN \/ Missing(name, cmd)
     \/ NotScrollable(name, d, cmd)
     \/ /\ Allowed(name, d)
        /\ cursors' = [cursors EXCEPT ![name].position = step.position]
        /\ response' = Answer(cmd, "count", << >>, step.count)
        /\ reading' = IF Rereads(d) THEN reading
                      ELSE [reading EXCEPT ![name] = [straight |-> FALSE, got |-> << >>]]

(***************************************************************************)
(* CLOSE and the end of a transaction.                                     *)
(***************************************************************************)
close_cursor(name) ==
  LET cmd == Command("CLOSE", name, NoClause) IN
  \/ Missing(name, cmd)
  \/ /\ name \in DOMAIN cursors
     /\ cursors' = Retain(cursors, Names \ {name})
     /\ reading' = Retain(reading, Names \ {name})
     /\ response' = Execution(cmd)

close_all_cursors ==
  /\ cursors' = Retain(cursors, {})
  /\ reading' = Retain(reading, {})
  /\ response' = Execution(Command("CLOSE ALL", NoName, NoClause))

Held == {n \in DOMAIN cursors : cursors[n].hold}

\* COMMIT, ROLLBACK, END and ABORT
clear_non_hold_cursors ==
  /\ cursors' = Retain(cursors, Held)
  /\ reading' = Retain(reading, Held)
  /\ response' = Execution(Command("COMMIT", NoName, NoClause))

Next ==
  \/ \E n \in Names : declare_cursor(n) \/ close_cursor(n)
  \/ \E n \in Names, cl \in Clauses : fetch_cursor(n, cl) \/ move_cursor(n, cl)
  \/ close_all_cursors
  \/ clear_non_hold_cursors

Spec == Init /\ [][Next]_vars
-----------------------------------------------------------------------------
Cursor == [rows : Results, position : Int, scroll : BOOLEAN, hold : BOOLEAN]

\* Type invariant; a position never leaves -1 .. len.
TypeOK ==
  /\ DOMAIN cursors \subseteq Names
  /\ cursors \in [DOMAIN cursors -> Cursor]
  /\ DOMAIN reading = DOMAIN cursors
  /\ \A n \in DOMAIN cursors : cursors[n].position \in -1 .. Len(cursors[n].rows)

\* Whatever mix of forward FETCH commands a client uses (NEXT, counts, ALL), a
\* cursor that was only read forwards has delivered exactly the rows up to its
\* position, each once and in order: no row is lost or repeated at a chunk
\* boundary or at the end (GatewayCursor::forward).
ForwardReadsLoseNothing ==
  \A n \in DOMAIN cursors :
    reading[n].straight =>
      reading[n].got = SubSeq(cursors[n].rows, 1,
                         Lesser(cursors[n].position + 1, Len(cursors[n].rows)))

\* A cursor that was not declared SCROLL never moves back, whatever clause is
\* used (parse_cursor_direction, direction_requires_scroll and apply together).
\* A name that is closed and declared again is another cursor.
NoScrollNeverGoesBack ==
  [][\A n \in DOMAIN cursors :
       (n \in DOMAIN cursors' /\ ~cursors[n].scroll)
         => cursors'[n].position >= cursors[n].position]_vars

\* The registry implements the promise of CursorSpec: every command leaves the
\* cursor on the place its clause means and answers with the rows in between.
Promise == INSTANCE CursorSpec WITH
  Clauses <- Clauses,
  places  <- [n \in DOMAIN cursors |->
                [rows |-> cursors[n].rows, at |-> cursors[n].position + 1,
                 scroll |-> cursors[n].scroll, hold |-> cursors[n].hold]],
  response <- response

ImplementsCursorSpec == Promise!Spec
=============================================================================
