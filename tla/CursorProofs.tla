---------------------------- MODULE CursorProofs ----------------------------
(***************************************************************************)
(* Proofs about the cursor registry: its type invariant (a position never  *)
(* leaves -1 .. len), and that a cursor without SCROLL never goes back.    *)
(***************************************************************************)
EXTENDS CursorRegistry, TLAPS

\* The cursors and directions the lemmas speak about.
GoodCursor(c) == c \in Cursor /\ c.position \in -1 .. Len(c.rows)

GoodDirection(d) ==
  /\ d.n \in Int
  /\ d.tag \in {"Next", "Prior", "First", "Last", "Absolute", "Relative", "Forward",
                "ForwardAll", "Backward", "BackwardAll", "All", "Count"}
  /\ d.tag \in {"Forward", "Backward"} => d.n >= 0

\* The rows of a cursor are counted by a natural number.
LEMMA LenNat == ASSUME NEW c \in Cursor PROVE Len(c.rows) \in Nat
  BY ResultsAssumption DEF Cursor

\* The operands of clauses are integers.
LEMMA OperandsAreIntegers == Operands \cup {0} \subseteq Int
<1>1. Operands \subseteq Int BY IMaxAssumption, OperandsAssumption
<1>2. QED BY <1>1

\* What a clause without an integer is parsed to ...
LEMMA ParsedPlain ==
  ASSUME NEW cl, cl.text \in PlainClauses
  PROVE  parse_cursor_direction(cl) \in
           {Direction(t, 0) : t \in {"Next", "Prior", "First", "Last", "All",
                                     "ForwardAll", "BackwardAll"}}
           \cup {Direction(t, 1) : t \in {"Forward", "Backward"}}
  BY DEF parse_cursor_direction, PlainClauses

\* ... and a clause with one: a negative count changes the direction.
LEMMA ParsedCounted ==
  ASSUME NEW cl, cl.text \in CountedClauses, cl.n \in Int
  PROVE  parse_cursor_direction(cl) =
           CASE cl.text = "n"          -> Direction("Count", cl.n)
             [] cl.text = "ABSOLUTE n" -> Direction("Absolute", cl.n)
             [] cl.text = "RELATIVE n" -> Direction("Relative", cl.n)
             [] cl.text = "FORWARD n"  -> IF cl.n < 0 THEN Direction("Backward", -cl.n)
                                                      ELSE Direction("Forward", cl.n)
             [] cl.text = "BACKWARD n" -> IF cl.n < 0 THEN Direction("Forward", -cl.n)
                                                      ELSE Direction("Backward", cl.n)
  BY DEF parse_cursor_direction, CountedClauses

\* parse_cursor_direction yields a known direction, and a count that is never
\* negative for Forward and Backward.
LEMMA ParsedDirection ==
  ASSUME NEW cl \in Clauses
  PROVE  GoodDirection(parse_cursor_direction(cl))
<1>1. cl.n \in Int
  <2>1. cl.n \in Operands \cup {0} BY DEF Clauses, Clause
  <2>2. QED BY <2>1, OperandsAreIntegers
<1>2. cl.text \in PlainClauses \/ cl.text \in CountedClauses
  BY DEF Clauses, Clause
<1>3. CASE cl.text \in PlainClauses
  BY <1>3, ParsedPlain DEF GoodDirection, Direction
<1>4. CASE cl.text \in CountedClauses
  <2>1. CASE cl.text \in {"n", "ABSOLUTE n", "RELATIVE n"}
    <3>1. parse_cursor_direction(cl) \in
            {Direction(t, cl.n) : t \in {"Count", "Absolute", "Relative"}}
      BY <1>1, <1>4, <2>1, ParsedCounted
    <3>2. QED BY <1>1, <3>1 DEF GoodDirection, Direction
  <2>2. CASE cl.text \in {"FORWARD n", "BACKWARD n"}
    <3>1. \E k \in Nat : \/ parse_cursor_direction(cl) = Direction("Forward", k)
                         \/ parse_cursor_direction(cl) = Direction("Backward", k)
      <4>1. CASE cl.n < 0
        <5>1. -cl.n \in Nat BY <1>1, <4>1
        <5>2. QED BY <1>1, <1>4, <2>2, <4>1, <5>1, ParsedCounted
      <4>2. CASE ~(cl.n < 0)
        <5>1. cl.n \in Nat BY <1>1, <4>2
        <5>2. QED BY <1>1, <1>4, <2>2, <4>2, <5>1, ParsedCounted
      <4>3. QED BY <4>1, <4>2
    <3>2. QED BY <3>1 DEF GoodDirection, Direction
  <2>3. QED BY <1>4, <2>1, <2>2 DEF CountedClauses
<1>5. QED BY <1>2, <1>3, <1>4

\* The position of a step is the one it was made with.
LEMMA StepPosition ==
  ASSUME NEW p, NEW r, NEW n PROVE CursorStep(p, r, n).position = p
  BY DEF CursorStep

\* forward, for a count that is not negative, lands inside -1 .. len and not
\* before where it started.
LEMMA ForwardLands ==
  ASSUME NEW c, GoodCursor(c), NEW k \in Nat, NEW rr \in BOOLEAN
  PROVE  /\ forward(c, k, rr).position \in -1 .. Len(c.rows)
         /\ forward(c, k, rr).position >= c.position
<1>1. Len(c.rows) \in Nat /\ c.position \in Int
  BY LenNat DEF GoodCursor, Cursor
<1>2. c.position >= -1 /\ c.position <= Len(c.rows)
  BY DEF GoodCursor
<1> DEFINE len == Len(c.rows)
           start == ForwardStart(c)
           requested == Lesser(k, len - start)
<1>3. /\ start \in Int /\ start >= 0 /\ start <= len
      /\ start >= c.position /\ (start < len => start = c.position + 1)
  BY <1>1, <1>2 DEF ForwardStart, Lesser
<1>4. CASE k = 0
  <2>1. forward(c, k, rr).position = c.position
    BY <1>4 DEF forward, Stay, CursorStep
  <2>2. QED BY <1>1, <1>2, <2>1
<1>5. CASE k # 0 /\ start >= len
  <2>1. forward(c, k, rr).position = len
    BY <1>5 DEF forward, CursorStep
  <2>2. QED BY <1>1, <1>2, <2>1
<1>6. CASE k # 0 /\ start < len
  <2>1. requested \in Int /\ 1 <= requested /\ requested <= len - start
    BY <1>1, <1>3, <1>6 DEF Lesser
  <2>2. forward(c, k, rr).position
          = IF requested < k THEN len ELSE (start + requested) - 1
    <3>1. ~(start >= len) BY <1>1, <1>3, <1>6
    <3>2. forward(c, k, rr)
            = CursorStep(IF requested < k THEN len ELSE (start + requested) - 1,
                         IF rr THEN slice_step_rows(c, start, start + requested)
                         ELSE << >>,
                         requested)
      BY <1>6, <3>1, Zenon DEF forward
    <3>3. QED BY <3>2, StepPosition, Zenon
  <2>3. QED BY <1>1, <1>2, <1>3, <1>6, <2>1, <2>2
<1>7. QED BY <1>1, <1>3, <1>4, <1>5, <1>6

\* FORWARD ALL lands beside the rows or in them, and does not go back.
LEMMA ForwardAllLands ==
  ASSUME NEW c, GoodCursor(c), NEW rr \in BOOLEAN
  PROVE  /\ forward_all(c, rr).position \in -1 .. Len(c.rows)
         /\ forward_all(c, rr).position >= c.position
<1>1. Len(c.rows) \in Nat /\ c.position \in Int
  BY LenNat DEF GoodCursor, Cursor
<1>2. QED
  BY <1>1 DEF GoodCursor, forward_all, CursorStep

\* BACKWARD stays in the rows or before them.
LEMMA BackwardLands ==
  ASSUME NEW c, GoodCursor(c), NEW k \in Nat, NEW rr \in BOOLEAN
  PROVE  backward(c, k, rr).position \in -1 .. Len(c.rows)
<1>1. Len(c.rows) \in Nat /\ c.position \in Int
  BY LenNat DEF GoodCursor, Cursor
<1>2. c.position >= -1 /\ c.position <= Len(c.rows)
  BY DEF GoodCursor
<1> DEFINE len == Len(c.rows)
           start == BackwardStart(c)
           requested == Lesser(k, start + 1)
<1>3. start \in Int /\ start >= -2 /\ start < len
  BY <1>1, <1>2 DEF BackwardStart
<1>4. CASE k = 0
  <2>1. backward(c, k, rr).position = c.position
    BY <1>4 DEF backward, Stay, CursorStep
  <2>2. QED BY <1>1, <1>2, <2>1
<1>5. CASE k # 0 /\ start < 0
  <2>1. backward(c, k, rr).position = -1
    BY <1>5 DEF backward, CursorStep
  <2>2. QED BY <1>1, <2>1
<1>6. CASE k # 0 /\ start >= 0
  <2>1. requested \in Int /\ 1 <= requested /\ requested <= start + 1
    BY <1>1, <1>3, <1>6 DEF Lesser
  <2>2. backward(c, k, rr).position
          = IF requested < k THEN -1 ELSE start - requested + 1
    <3>1. ~(start < 0) BY <1>1, <1>3, <1>6
    <3>2. backward(c, k, rr)
            = CursorStep(IF requested < k THEN -1 ELSE start - requested + 1,
                         IF rr
                         THEN reverse_slice_step_rows(c, start - requested + 1, start + 1)
                         ELSE << >>,
                         requested)
      BY <1>6, <3>1, Zenon DEF backward
    <3>3. QED BY <3>2, StepPosition, Zenon
  <2>3. QED BY <1>1, <1>2, <1>3, <1>6, <2>1, <2>2
<1>7. QED BY <1>1, <1>3, <1>4, <1>5, <1>6

\* BACKWARD ALL lands before the first row.
LEMMA BackwardAllLands ==
  ASSUME NEW c, GoodCursor(c), NEW rr \in BOOLEAN
  PROVE  backward_all(c, rr).position \in -1 .. Len(c.rows)
<1>1. Len(c.rows) \in Nat
  BY LenNat DEF GoodCursor
<1>2. QED
  BY <1>1 DEF backward_all, CursorStep

\* A place asked for by its number is cut to the rows.
LEMMA SeekLands ==
  ASSUME NEW c, GoodCursor(c), NEW t \in Int, NEW rr \in BOOLEAN
  PROVE  seek(c, t, rr).position \in -1 .. Len(c.rows)
<1>1. Len(c.rows) \in Nat
  BY LenNat DEF GoodCursor
<1>2. QED
  BY <1>1 DEF seek, CursorStep

\* ABSOLUTE, counted from either end, lands in the rows or beside them.
LEMMA AbsoluteLands ==
  ASSUME NEW c, GoodCursor(c), NEW t \in Int, NEW rr \in BOOLEAN
  PROVE  absolute(c, t, rr).position \in -1 .. Len(c.rows)
<1>1. Len(c.rows) \in Nat
  BY LenNat DEF GoodCursor
<1>2. CASE t = 0
  BY <1>1, <1>2 DEF absolute, CursorStep
<1>3. CASE t > 0
  <2>1. absolute(c, t, rr) = seek(c, t - 1, rr)
    BY <1>3 DEF absolute
  <2>2. QED BY <2>1, SeekLands
<1>4. CASE t < 0
  <2>1. absolute(c, t, rr) = seek(c, Len(c.rows) + t, rr)
    BY <1>4 DEF absolute
  <2>2. Len(c.rows) + t \in Int
    BY <1>1
  <2>3. QED BY <2>1, <2>2, SeekLands
<1>5. QED BY <1>2, <1>3, <1>4

\* Even a sum that wraps around is clipped to -1 .. len by seek.
LEMMA RelativeLands ==
  ASSUME NEW c, GoodCursor(c), NEW t \in Int, NEW rr \in BOOLEAN
  PROVE  relative(c, t, rr).position \in -1 .. Len(c.rows)
<1>1. Wrap(c.position + t) \in Int
  BY IMaxAssumption DEF GoodCursor, Cursor, Wrap, IMin
<1>2. QED BY <1>1, SeekLands DEF relative

\* The movements, by the four helpers apply dispatches to.
LEMMA ApplyForward ==
  ASSUME NEW c, NEW d, NEW rr, GoodDirection(d),
         d.tag \in {"Next", "Forward"} \/ (d.tag = "Count" /\ d.n >= 0)
  PROVE  \E k \in Nat : apply(c, d, rr) = forward(c, k, rr)
<1>1. CASE d.tag = "Next" BY <1>1 DEF apply
<1>2. CASE d.tag = "Forward" BY <1>2 DEF apply, GoodDirection
<1>3. CASE d.tag = "Count"
  <2>1. d.n \in Nat /\ ~(d.n < 0) BY <1>3 DEF GoodDirection
  <2>2. apply(c, d, rr) = forward(c, d.n, rr) BY <1>3, <2>1 DEF apply
  <2>3. QED BY <2>1, <2>2
<1>4. QED BY <1>1, <1>2, <1>3

\* The clauses that go back.
LEMMA ApplyBackward ==
  ASSUME NEW c, NEW d, NEW rr, GoodDirection(d),
         d.tag \in {"Prior", "Backward"} \/ (d.tag = "Count" /\ d.n < 0)
  PROVE  \E k \in Nat : apply(c, d, rr) = backward(c, k, rr)
<1>1. CASE d.tag = "Prior" BY <1>1 DEF apply
<1>2. CASE d.tag = "Backward" BY <1>2 DEF apply, GoodDirection
<1>3. CASE d.tag = "Count"
  <2>1. -d.n \in Nat /\ d.n < 0 BY <1>3 DEF GoodDirection
  <2>2. apply(c, d, rr) = backward(c, -d.n, rr) BY <1>3, <2>1 DEF apply
  <2>3. QED BY <2>1, <2>2
<1>4. QED BY <1>1, <1>2, <1>3

\* The clauses that name a place.
LEMMA ApplyAbsolute ==
  ASSUME NEW c, NEW d, NEW rr, GoodDirection(d),
         d.tag \in {"First", "Last", "Absolute"}
  PROVE  \E t \in Int : apply(c, d, rr) = absolute(c, t, rr)
<1>1. CASE d.tag = "First" BY <1>1 DEF apply
<1>2. CASE d.tag = "Last" BY <1>2 DEF apply
<1>3. CASE d.tag = "Absolute" BY <1>3 DEF apply, GoodDirection
<1>4. QED BY <1>1, <1>2, <1>3

\* The clauses that go all the way, and RELATIVE.
LEMMA ApplyAll ==
  ASSUME NEW c, NEW d, NEW rr
  PROVE  /\ d.tag \in {"All", "ForwardAll"} => apply(c, d, rr) = forward_all(c, rr)
         /\ d.tag = "BackwardAll" => apply(c, d, rr) = backward_all(c, rr)
         /\ d.tag = "Relative" => apply(c, d, rr) = relative(c, d.n, rr)
  BY DEF apply

\* Every movement keeps the position in -1 .. len.
LEMMA ApplyLands ==
  ASSUME NEW c, GoodCursor(c), NEW d, GoodDirection(d), NEW rr \in BOOLEAN
  PROVE  apply(c, d, rr).position \in -1 .. Len(c.rows)
<1>1. CASE d.tag \in {"Next", "Forward"} \/ (d.tag = "Count" /\ d.n >= 0)
  BY <1>1, ApplyForward, ForwardLands
<1>2. CASE d.tag \in {"Prior", "Backward"} \/ (d.tag = "Count" /\ d.n < 0)
  BY <1>2, ApplyBackward, BackwardLands
<1>3. CASE d.tag \in {"All", "ForwardAll"}
  BY <1>3, ApplyAll, ForwardAllLands
<1>4. CASE d.tag = "BackwardAll"
  BY <1>4, ApplyAll, BackwardAllLands
<1>5. CASE d.tag \in {"First", "Last", "Absolute"}
  BY <1>5, ApplyAbsolute, AbsoluteLands
<1>6. CASE d.tag = "Relative"
  BY <1>6, ApplyAll, RelativeLands DEF GoodDirection
<1>7. QED
  BY <1>1, <1>2, <1>3, <1>4, <1>5, <1>6 DEF GoodDirection

\* A direction that needs no SCROLL never lands before the position it left.
LEMMA ApplyWithoutScroll ==
  ASSUME NEW c, GoodCursor(c), NEW d, GoodDirection(d), NEW rr \in BOOLEAN,
         ~direction_requires_scroll(d)
  PROVE  apply(c, d, rr).position >= c.position
<1>1. CASE d.tag \in {"Next", "Forward"} \/ (d.tag = "Count" /\ d.n >= 0)
  BY <1>1, ApplyForward, ForwardLands
<1>2. CASE d.tag \in {"All", "ForwardAll"}
  BY <1>2, ApplyAll, ForwardAllLands
<1>3. QED
  BY <1>1, <1>2 DEF GoodDirection, direction_requires_scroll
-----------------------------------------------------------------------------
\* Under the type invariant an open cursor is one the lemmas speak about.
LEMMA OpenCursorIsGood ==
  ASSUME TypeOK, NEW n \in DOMAIN cursors
  PROVE  GoodCursor(cursors[n])
  BY DEF TypeOK, GoodCursor

\* Inserting, dropping and moving a cursor keep the map a map of cursors.
LEMMA InsertGood ==
  ASSUME TypeOK, NEW n \in Names, NEW c, GoodCursor(c), NEW h,
         cursors' = Insert(cursors, n, c), reading' = Insert(reading, n, h)
  PROVE  TypeOK'
  BY DEF TypeOK, Insert, GoodCursor

\* The cursors that outlive a transaction are as good as before.
LEMMA RetainGood ==
  ASSUME TypeOK, NEW S,
         cursors' = Retain(cursors, S), reading' = Retain(reading, S)
  PROVE  TypeOK'
  BY DEF TypeOK, Retain

\* A cursor moved into its rows or beside them is good.
LEMMA PositionGood ==
  ASSUME TypeOK, NEW n \in DOMAIN cursors, NEW p \in -1 .. Len(cursors[n].rows),
         cursors' = [cursors EXCEPT ![n].position = p],
         DOMAIN reading' = DOMAIN reading
  PROVE  TypeOK'
<1>1. DOMAIN cursors' = DOMAIN cursors OBVIOUS
<1>2. p \in Int BY LenNat, OpenCursorIsGood DEF GoodCursor
<1>3. \A m \in DOMAIN cursors : cursors'[m].rows = cursors[m].rows
  BY DEF TypeOK, Cursor
<1>4. \A m \in DOMAIN cursors :
        cursors'[m].position = IF m = n THEN p ELSE cursors[m].position
  BY DEF TypeOK, Cursor
<1>5. cursors' \in [DOMAIN cursors -> Cursor]
  BY <1>2 DEF TypeOK, Cursor
<1>6. QED BY <1>1, <1>3, <1>4, <1>5 DEF TypeOK

\* There is no cursor at first.
LEMMA TypeInit == Init => TypeOK
  BY DEF Init, TypeOK

\* One step of any command, or a stuttering step, keeps the type invariant.
LEMMA TypeStep == TypeOK /\ [Next]_vars => TypeOK'
<1> SUFFICES ASSUME TypeOK, [Next]_vars PROVE TypeOK' OBVIOUS
<1>1. ASSUME UNCHANGED <<cursors, reading>> PROVE TypeOK'
  BY <1>1 DEF TypeOK
<1>2. ASSUME NEW n \in Names, declare_cursor(n) PROVE TypeOK'
  <2>1. CASE \E rows \in Results, scroll, hold \in BOOLEAN :
               /\ cursors' = Insert(cursors, n, [rows |-> rows, position |-> -1,
                                                 scroll |-> scroll, hold |-> hold])
               /\ reading' = Insert(reading, n, Fresh)
    <3>1. PICK rows \in Results, scroll \in BOOLEAN, hold \in BOOLEAN :
               /\ cursors' = Insert(cursors, n, [rows |-> rows, position |-> -1,
                                                 scroll |-> scroll, hold |-> hold])
               /\ reading' = Insert(reading, n, Fresh)
      BY <2>1
    <3> DEFINE c == [rows |-> rows, position |-> -1, scroll |-> scroll, hold |-> hold]
    <3>2. c \in Cursor BY DEF Cursor
    <3>3. GoodCursor(c) BY <3>2, LenNat DEF GoodCursor
    <3>4. QED BY <3>1, <3>3, InsertGood
  <2>2. CASE UNCHANGED <<cursors, reading>> BY <1>1, <2>2
  <2>3. QED BY <1>2, <2>1, <2>2 DEF declare_cursor
<1>3. ASSUME NEW n \in Names, close_cursor(n) PROVE TypeOK'
  BY <1>1, <1>3, RetainGood DEF close_cursor, Missing
<1>4. ASSUME NEW n \in Names, NEW cl \in Clauses, fetch_cursor(n, cl) PROVE TypeOK'
  <2> DEFINE d == parse_cursor_direction(cl)
             p == apply(cursors[n], d, TRUE).position
  <2>1. CASE /\ Allowed(n, d)
             /\ cursors' = [cursors EXCEPT ![n].position = p]
             /\ DOMAIN reading' = DOMAIN reading
    <3>1. n \in DOMAIN cursors BY <2>1 DEF Allowed
    <3>2. p \in -1 .. Len(cursors[n].rows)
      BY <3>1, OpenCursorIsGood, ParsedDirection, ApplyLands
    <3>3. QED BY <2>1, <3>1, <3>2, PositionGood
  <2>2. CASE UNCHANGED <<cursors, reading>> BY <1>1, <2>2
  <2>3. QED BY <1>4, <2>1, <2>2 DEF fetch_cursor, Missing, NotScrollable
<1>5. ASSUME NEW n \in Names, NEW cl \in Clauses, move_cursor(n, cl) PROVE TypeOK'
  <2> DEFINE d == parse_cursor_direction(cl)
             p == apply(cursors[n], d, FALSE).position
  <2>1. CASE /\ Allowed(n, d)
             /\ cursors' = [cursors EXCEPT ![n].position = p]
             /\ DOMAIN reading' = DOMAIN reading
    <3>1. n \in DOMAIN cursors BY <2>1 DEF Allowed
    <3>2. p \in -1 .. Len(cursors[n].rows)
      BY <3>1, OpenCursorIsGood, ParsedDirection, ApplyLands
    <3>3. QED BY <2>1, <3>1, <3>2, PositionGood
  <2>2. CASE UNCHANGED <<cursors, reading>> BY <1>1, <2>2
  <2>3. QED BY <1>5, <2>1, <2>2 DEF move_cursor, Missing, NotScrollable
<1>6. CASE close_all_cursors BY <1>6, RetainGood DEF close_all_cursors
<1>7. CASE clear_non_hold_cursors BY <1>7, RetainGood DEF clear_non_hold_cursors
<1>8. CASE UNCHANGED vars BY <1>1, <1>8 DEF vars
<1>9. QED BY <1>2, <1>3, <1>4, <1>5, <1>6, <1>7, <1>8 DEF Next

\* Whatever commands a client sends, with whatever integers, every open cursor
\* stands in -1 .. len of its rows (GatewayCursor::apply), so no later slice of
\* its record batches is out of range.
THEOREM TypeCorrect == Spec => []TypeOK
<1>1. QED BY TypeInit, TypeStep, PTL DEF Spec

\* One step never takes a cursor without SCROLL back.
LEMMA NoScrollStep ==
  ASSUME TypeOK, Next, NEW n \in DOMAIN cursors, n \in DOMAIN cursors',
         ~cursors[n].scroll
  PROVE  cursors'[n].position >= cursors[n].position
<1>0. cursors[n].position \in Int
  BY OpenCursorIsGood DEF GoodCursor, Cursor
<1>1. ASSUME cursors'[n] = cursors[n]
      PROVE  cursors'[n].position >= cursors[n].position
  BY <1>0, <1>1
<1>2. ASSUME NEW m \in Names, declare_cursor(m)
      PROVE  cursors'[n] = cursors[n]
  BY <1>2 DEF declare_cursor, Insert
<1>3. ASSUME NEW S, cursors' = Retain(cursors, S)
      PROVE  cursors'[n] = cursors[n]
  BY <1>3 DEF Retain
<1>4. ASSUME NEW m \in Names, NEW cl \in Clauses, NEW rr \in BOOLEAN,
             Allowed(m, parse_cursor_direction(cl)),
             cursors' = [cursors EXCEPT ![m].position =
                           apply(cursors[m], parse_cursor_direction(cl), rr).position]
      PROVE  cursors'[n].position >= cursors[n].position
  <2>1. CASE m = n
    <3>1. ~direction_requires_scroll(parse_cursor_direction(cl))
      BY <1>4, <2>1 DEF Allowed
    <3>2. apply(cursors[n], parse_cursor_direction(cl), rr).position >= cursors[n].position
      BY <3>1, OpenCursorIsGood, ParsedDirection, ApplyWithoutScroll
    <3>3. cursors'[n].position = apply(cursors[n], parse_cursor_direction(cl), rr).position
      BY <1>4, <2>1 DEF TypeOK, Cursor
    <3>4. QED BY <3>2, <3>3
  <2>2. CASE m # n
    <3>1. cursors'[n] = cursors[n] BY <1>4, <2>2 DEF TypeOK, Cursor
    <3>2. QED BY <1>1, <3>1
  <2>3. QED BY <2>1, <2>2
<1>5. ASSUME NEW m \in Names, NEW cl \in Clauses, fetch_cursor(m, cl)
      PROVE  cursors'[n].position >= cursors[n].position
  BY <1>1, <1>4, <1>5 DEF fetch_cursor, Missing, NotScrollable
<1>6. ASSUME NEW m \in Names, NEW cl \in Clauses, move_cursor(m, cl)
      PROVE  cursors'[n].position >= cursors[n].position
  BY <1>1, <1>4, <1>6 DEF move_cursor, Missing, NotScrollable
<1>7. ASSUME NEW m \in Names, close_cursor(m) PROVE cursors'[n] = cursors[n]
  BY <1>3, <1>7 DEF close_cursor, Missing
<1>8. ASSUME close_all_cursors PROVE cursors'[n] = cursors[n]
  BY <1>3, <1>8 DEF close_all_cursors
<1>9. ASSUME clear_non_hold_cursors PROVE cursors'[n] = cursors[n]
  BY <1>3, <1>9 DEF clear_non_hold_cursors
<1>10. QED
  BY <1>1, <1>2, <1>5, <1>6, <1>7, <1>8, <1>9 DEF Next

\* A cursor that was not declared SCROLL never moves back, for every set of
\* names, results and integer operands (direction_requires_scroll).
THEOREM NoScrollTheorem == Spec => NoScrollNeverGoesBack
<1>1. TypeOK /\ [Next]_vars =>
        [\A n \in DOMAIN cursors :
           (n \in DOMAIN cursors' /\ ~cursors[n].scroll)
             => cursors'[n].position >= cursors[n].position]_vars
  BY NoScrollStep
<1>2. QED BY <1>1, TypeCorrect, PTL DEF Spec, NoScrollNeverGoesBack
=============================================================================
