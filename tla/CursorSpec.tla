----------------------------- MODULE CursorSpec -----------------------------
(***************************************************************************)
(* What the cursor commands of one session promise, stated without the     *)
(* gateway's position arithmetic.  A cursor stands on a place at in        *)
(* 0 .. n+1 of its n rows, 0 before the first and n+1 after the last.  A   *)
(* clause either walks a number of rows, delivering each row it comes to,  *)
(* or jumps to a place, delivering the row there.  Places outside the rows *)
(* are clipped to 0 and n+1.                                               *)
(*                                                                         *)
(* The specification is parameterised by the clauses a client can send, so *)
(* integers are mathematical integers: nothing wraps around here.          *)
(***************************************************************************)
EXTENDS Integers, Sequences

CONSTANTS Names,    \* cursor names
          Results,  \* the row sequences a cursor query can return
          Clauses   \* the direction clauses of FETCH and MOVE

VARIABLES places,   \* places[name] for every open cursor
          response  \* the last command and the answer to it

vars == <<places, response>>

Clip(x, n) == IF x < 0 THEN 0 ELSE IF x > n + 1 THEN n + 1 ELSE x

JumpTexts == {"FIRST", "LAST", "ABSOLUTE n", "RELATIVE n"}

\* The signed number of rows a walking clause asks for.
Walk(n, cl) ==
  CASE cl.text \in {"", "NEXT", "FORWARD"}   -> 1
    [] cl.text \in {"PRIOR", "BACKWARD"}     -> -1
    [] cl.text \in {"ALL", "FORWARD ALL"}    -> n + 1
    [] cl.text = "BACKWARD ALL"              -> -(n + 1)
    [] cl.text \in {"n", "FORWARD n"}        -> cl.n
    [] cl.text = "BACKWARD n"                -> -cl.n

\* The place a jumping clause names.
Jump(p, cl) ==
  LET n == Len(p.rows) IN
  CASE cl.text = "FIRST"      -> 1
    [] cl.text = "LAST"       -> n
    [] cl.text = "ABSOLUTE n" -> IF cl.n < 0 THEN n + 1 + cl.n ELSE cl.n
    [] cl.text = "RELATIVE n" -> p.at + cl.n

Landing(p, cl) ==
  Clip(IF cl.text \in JumpTexts THEN Jump(p, cl) ELSE p.at + Walk(Len(p.rows), cl),
       Len(p.rows))

RowAt(p, at) == IF at \in 1 .. Len(p.rows) THEN <<p.rows[at]>> ELSE << >>

\* The rows between the old and the new place, in the order they are met.
Met(p, cl) ==
  LET to == Landing(p, cl)
      n  == Len(p.rows)
      upTo == IF to > n THEN n ELSE to
      downTo == IF to < 1 THEN 1 ELSE to
  IN IF cl.text \in JumpTexts \/ Walk(n, cl) = 0 THEN RowAt(p, to)
     ELSE IF Walk(n, cl) > 0 THEN SubSeq(p.rows, p.at + 1, upTo)
     ELSE [i \in 1 .. (p.at - downTo) |-> p.rows[p.at - i]]

\* A cursor without SCROLL accepts only clauses that cannot go back.
NeedsScroll(n, cl) ==
  \/ cl.text \in JumpTexts \cup {"BACKWARD ALL"}
  \/ Walk(n, cl) < 0
  \/ cl.text = "BACKWARD n" /\ cl.n = 0

Command(op, name, clause) == [op |-> op, name |-> name, clause |-> clause]
Answer(command, kind, rows, count) ==
  [to |-> command, kind |-> kind, rows |-> rows, count |-> count]
Refused(command, sqlstate) == Answer(command, sqlstate, << >>, 0)
Done(command) == Answer(command, "ok", << >>, 0)

NoName == ""
NoClause == [text |-> "", n |-> 0]

Init == /\ places = [n \in {} |-> 0]
        /\ response = Done(Command("START", NoName, NoClause))

Put(f, k, v) == [x \in DOMAIN f \cup {k} |-> IF x = k THEN v ELSE f[x]]
Keep(f, S) == [x \in DOMAIN f \cap S |-> f[x]]

\* A declaration may be refused for its query; a taken name is always refused.
Declare(n) ==
  LET cmd == Command("DECLARE", n, NoClause) IN
  \/ /\ n \notin DOMAIN places
     /\ \E rows \in Results, scroll, hold \in BOOLEAN :
          places' = Put(places, n, [rows |-> rows, at |-> 0,
                                    scroll |-> scroll, hold |-> hold])
     /\ response' = Done(cmd)
  \/ /\ n \notin DOMAIN places
     /\ response' = Refused(cmd, "XX000")
     /\ UNCHANGED places
  \/ /\ n \in DOMAIN places
     /\ response' = Refused(cmd, "42P03")
     /\ UNCHANGED places
  \/ /\ response' = Refused(cmd, "0A000")
     /\ UNCHANGED places

Missing(n, cmd) ==
  /\ n \notin DOMAIN places
  /\ response' = Refused(cmd, "34000")
  /\ UNCHANGED places

\* Walk or jump; the answer is left to FETCH and MOVE.
Step(n, cl, cmd, answer) ==
  /\ n \in DOMAIN places
  /\ IF ~places[n].scroll /\ NeedsScroll(Len(places[n].rows), cl)
     THEN response' = Refused(cmd, "0A000") /\ UNCHANGED places
     ELSE /\ places' = [places EXCEPT ![n].at = Landing(places[n], cl)]
          /\ response' = answer

\* FETCH answers with the rows met ...
Fetch(n, cl) ==
  LET cmd == Command("FETCH", n, cl)
      met == Met(places[n], cl)
  IN Missing(n, cmd) \/ Step(n, cl, cmd, Answer(cmd, "rows", met, Len(met)))

\* ... and MOVE with their number; a MOVE by zero rows meets none.
Move(n, cl) ==
  LET cmd == Command("MOVE", n, cl)
      stays == cl.text \notin JumpTexts /\ Walk(Len(places[n].rows), cl) = 0
      count == IF stays THEN 0 ELSE Len(Met(places[n], cl))
  IN Missing(n, cmd) \/ Step(n, cl, cmd, Answer(cmd, "count", << >>, count))

Close(n) ==
  LET cmd == Command("CLOSE", n, NoClause) IN
  \/ Missing(n, cmd)
  \/ /\ n \in DOMAIN places
     /\ places' = Keep(places, Names \ {n})
     /\ response' = Done(cmd)

CloseAll ==
  /\ places' = Keep(places, {})
  /\ response' = Done(Command("CLOSE ALL", NoName, NoClause))

EndTransaction ==
  /\ places' = Keep(places, {n \in DOMAIN places : places[n].hold})
  /\ response' = Done(Command("COMMIT", NoName, NoClause))

Next == \/ \E n \in Names : Declare(n) \/ Close(n)
        \/ \E n \in Names, cl \in Clauses : Fetch(n, cl) \/ Move(n, cl)
        \/ CloseAll
        \/ EndTransaction

Spec == Init /\ [][Next]_vars
=============================================================================
