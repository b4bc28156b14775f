---------------------------- MODULE GatewayCursor ----------------------------
(***************************************************************************)
(* The position arithmetic of a gateway-managed SQL cursor: the methods of *)
(* GatewayCursor in src/pg_server.rs and the parsing of the direction      *)
(* clause of FETCH and MOVE in src/policy.rs.                              *)
(*                                                                         *)
(* A cursor holds the materialised rows of its query, a position in        *)
(* -1 .. len (-1 is before the first row, len is after the last one) and   *)
(* the SCROLL and WITH HOLD options.  The rows are the flat sequence of    *)
(* rows; that slicing a list of Arrow record batches is the same as        *)
(* slicing the flat sequence is the subject of module RecordBatches.       *)
(***************************************************************************)
EXTENDS Integers, Sequences

CONSTANT IMax   \* the largest i64, which is also the largest isize

ASSUME IMaxAssumption == IMax \in Nat \ {0}

IMin == -IMax - 1

\* Two's complement result of adding two in-range integers in a release build.
Wrap(x) == IF x > IMax THEN x - 2 * (IMax + 1)
           ELSE IF x < IMin THEN x + 2 * (IMax + 1)
           ELSE x

Lesser(a, b) == IF a < b THEN a ELSE b

(***************************************************************************)
(* Direction clauses and directions.                                       *)
(***************************************************************************)

\* The spellings of a direction clause that carry no integer ...
PlainClauses == {"", "NEXT", "PRIOR", "FIRST", "LAST", "ALL", "FORWARD",
                 "BACKWARD", "FORWARD ALL", "BACKWARD ALL"}
\* ... and the ones that carry one; "n" is the bare integer of FETCH 5.
CountedClauses == {"n", "ABSOLUTE n", "RELATIVE n", "FORWARD n", "BACKWARD n"}

Clause(ints) == [text : PlainClauses, n : {0}] \cup [text : CountedClauses, n : ints]

Direction(tag, n) == [tag |-> tag, n |-> n]

\* A negative count turns FORWARD into BACKWARD and the other way round.
parse_cursor_direction(clause) ==
  LET t == clause.text
      n == clause.n
  IN CASE t \in {"", "NEXT"}  -> Direction("Next", 0)
       [] t = "PRIOR"         -> Direction("Prior", 0)
       [] t = "FIRST"         -> Direction("First", 0)
       [] t = "LAST"          -> Direction("Last", 0)
       [] t = "ALL"           -> Direction("All", 0)
       [] t = "FORWARD"       -> Direction("Forward", 1)
       [] t = "BACKWARD"      -> Direction("Backward", 1)
       [] t = "n"             -> Direction("Count", n)
       [] t = "ABSOLUTE n"    -> Direction("Absolute", n)
       [] t = "RELATIVE n"    -> Direction("Relative", n)
       [] t = "FORWARD n"     -> IF n < 0 THEN Direction("Backward", -n)
                                          ELSE Direction("Forward", n)
       [] t = "BACKWARD n"    -> IF n < 0 THEN Direction("Forward", -n)
                                          ELSE Direction("Backward", n)
       [] t = "FORWARD ALL"   -> Direction("ForwardAll", 0)
       [] t = "BACKWARD ALL"  -> Direction("BackwardAll", 0)

\* Mutant: a BACKWARD with a count is forgotten.
ScrollCheckWithoutBackward(d) ==
  \/ d.tag \in {"Prior", "First", "Last", "Absolute", "Relative", "BackwardAll"}
  \/ d.tag = "Count" /\ d.n < 0

direction_requires_scroll(d) ==
  \/ d.tag \in {"Prior", "First", "Last", "Absolute", "Relative",
                "Backward", "BackwardAll"}
  \/ d.tag = "Count" /\ d.n < 0

(***************************************************************************)
(* Steps.  return_rows tells FETCH from MOVE: a MOVE counts the rows it    *)
(* passes but returns none.                                                *)
(***************************************************************************)

CursorStep(position, rows, count) ==
  [position |-> position, rows |-> rows, count |-> count]

\* rows[start..end], where start counts from 0 and end is exclusive
slice_step_rows(c, start, end) == SubSeq(c.rows, start + 1, end)

\* the same rows, last one first
reverse_slice_step_rows(c, start, end) ==
  [i \in 1 .. (end - start) |-> c.rows[end + 1 - i]]

current_row_step_rows(c) ==
  IF c.position \in 0 .. (Len(c.rows) - 1)
  THEN slice_step_rows(c, c.position, c.position + 1)
  ELSE << >>

\* A count of zero stays where it is; a FETCH re-reads the current row.
Stay(c, return_rows) ==
  LET rows == IF return_rows THEN current_row_step_rows(c) ELSE << >>
  IN CursorStep(c.position, rows, Len(rows))

ForwardStart(c) == Lesser(c.position + 1, Len(c.rows))

\* Mutant: the position is left on the exclusive end of the slice.
ForwardToEnd(c, count, return_rows) ==
  LET len       == Len(c.rows)
      start     == ForwardStart(c)
      requested == Lesser(count, len - start)
      end       == start + requested
  IN IF count = 0 THEN Stay(c, return_rows)
     ELSE IF start >= len THEN CursorStep(len, << >>, 0)
     ELSE CursorStep(end,
                     IF return_rows THEN slice_step_rows(c, start, end) ELSE << >>,
                     requested)

forward(c, count, return_rows) ==
  LET len       == Len(c.rows)
      start     == ForwardStart(c)
      requested == Lesser(count, len - start)
      end       == start + requested
  IN IF count = 0 THEN Stay(c, return_rows)
     ELSE IF start >= len THEN CursorStep(len, << >>, 0)
     ELSE CursorStep(IF requested < count THEN len ELSE end - 1,
                     IF return_rows THEN slice_step_rows(c, start, end) ELSE << >>,
                     requested)

forward_all(c, return_rows) ==
  LET len   == Len(c.rows)
      start == ForwardStart(c)
  IN CursorStep(len,
                IF return_rows /\ start < len THEN slice_step_rows(c, start, len)
                ELSE << >>,
                len - start)

BackwardStart(c) ==
  IF c.position >= Len(c.rows) THEN Len(c.rows) - 1 ELSE c.position - 1

\* Mutant: the position is moved by the count asked for, not by the rows there are.
BackwardUnclipped(c, count, return_rows) ==
  LET start     == BackwardStart(c)
      requested == Lesser(count, start + 1)
      end       == start - requested + 1
  IN IF count = 0 THEN Stay(c, return_rows)
     ELSE IF start < 0 THEN CursorStep(-1, << >>, 0)
     ELSE CursorStep(start - count + 1,
                     IF return_rows THEN reverse_slice_step_rows(c, end, start + 1)
                     ELSE << >>,
                     requested)

backward(c, count, return_rows) ==
  LET start     == BackwardStart(c)
      requested == Lesser(count, start + 1)
      end       == start - requested + 1
  IN IF count = 0 THEN Stay(c, return_rows)
     ELSE IF start < 0 THEN CursorStep(-1, << >>, 0)
     ELSE CursorStep(IF requested < count THEN -1 ELSE end,
                     IF return_rows THEN reverse_slice_step_rows(c, end, start + 1)
                     ELSE << >>,
                     requested)

backward_all(c, return_rows) ==
  LET start == BackwardStart(c)
  IN IF start < 0 THEN CursorStep(-1, << >>, 0)
     ELSE CursorStep(-1,
                     IF return_rows THEN reverse_slice_step_rows(c, 0, start + 1)
                     ELSE << >>,
                     start + 1)

seek(c, target, return_rows) ==
  IF target < 0 THEN CursorStep(-1, << >>, 0)
  ELSE IF target >= Len(c.rows) THEN CursorStep(Len(c.rows), << >>, 0)
  ELSE CursorStep(target,
                  IF return_rows THEN slice_step_rows(c, target, target + 1)
                  ELSE << >>,
                  1)

\* Mutant: a negative place is counted from the last row but one.
AbsoluteFromLast(c, target, return_rows) ==
  IF target = 0 THEN CursorStep(-1, << >>, 0)
  ELSE seek(c, IF target > 0 THEN target - 1 ELSE Len(c.rows) + target - 1, return_rows)

absolute(c, target, return_rows) ==
  IF target = 0 THEN CursorStep(-1, << >>, 0)
  ELSE seek(c, IF target > 0 THEN target - 1 ELSE Len(c.rows) + target, return_rows)

\* position + offset is computed in i64: near IMax the sum wraps around.
relative(c, offset, return_rows) == seek(c, Wrap(c.position + offset), return_rows)

\* The movement of GatewayCursor::apply, once the SCROLL check has passed.
apply(c, d, return_rows) ==
  CASE d.tag = "Next"        -> forward(c, 1, return_rows)
    [] d.tag = "Prior"       -> backward(c, 1, return_rows)
    [] d.tag = "First"       -> absolute(c, 1, return_rows)
    [] d.tag = "Last"        -> absolute(c, -1, return_rows)
    [] d.tag = "Absolute"    -> absolute(c, d.n, return_rows)
    [] d.tag = "Relative"    -> relative(c, d.n, return_rows)
    [] d.tag = "Forward"     -> forward(c, d.n, return_rows)
    [] d.tag = "ForwardAll"  -> forward_all(c, return_rows)
    [] d.tag = "Backward"    -> backward(c, d.n, return_rows)
    [] d.tag = "BackwardAll" -> backward_all(c, return_rows)
    [] d.tag = "All"         -> forward_all(c, return_rows)
    [] d.tag = "Count"       -> IF d.n < 0 THEN backward(c, -d.n, return_rows)
                                           ELSE forward(c, d.n, return_rows)
=============================================================================
