-------------------------- MODULE CursorRefinement --------------------------
(***************************************************************************)
(* The registry implements the promise of CursorSpec, for any number of    *)
(* cursors and rows, as long as no sum of a position and an operand leaves *)
(* the width (NoOverflow); and a client that only reads forwards misses    *)
(* and repeats no row, whatever the width.                                 *)
(***************************************************************************)
EXTENDS CursorProofs, SequenceTheorems

\* The place of CursorSpec a cursor of the registry stands for.
At(c) == [rows |-> c.rows, at |-> c.position + 1, scroll |-> c.scroll, hold |-> c.hold]

\* Where a walk of w rows ends, and the rows it meets.
WalkTo(p, w) == Promise!Clip(p.at + w, Len(p.rows))

Walked(p, w) ==
  LET to == WalkTo(p, w)
  IN IF w = 0 THEN Promise!RowAt(p, to)
     ELSE IF w > 0
     THEN SubSeq(p.rows, p.at + 1, IF to > Len(p.rows) THEN Len(p.rows) ELSE to)
     ELSE [i \in 1 .. (p.at - (IF to < 1 THEN 1 ELSE to)) |-> p.rows[p.at - i]]

\* A step of the gateway does what a walk does: FETCH returns the rows, MOVE
\* counts them.
IsWalk(step, p, w, rr) ==
  /\ step.position = WalkTo(p, w) - 1
  /\ rr => step.rows = Walked(p, w)
  /\ ~rr => step.count = IF w = 0 THEN 0 ELSE Len(Walked(p, w))

\* The fields of a step.
LEMMA StepFields ==
  ASSUME NEW p, NEW r, NEW n
  PROVE  /\ CursorStep(p, r, n).position = p
         /\ CursorStep(p, r, n).rows = r
         /\ CursorStep(p, r, n).count = n
  BY DEF CursorStep

\* What the lemmas need to know of a good cursor.
LEMMA GoodPlace ==
  ASSUME NEW c, GoodCursor(c)
  PROVE  /\ Len(c.rows) \in Nat /\ c.rows \in Seq(Rows)
         /\ c.position \in Int /\ c.position >= -1 /\ c.position <= Len(c.rows)
         /\ At(c).rows = c.rows /\ At(c).at = c.position + 1
<1>1. c \in Cursor /\ c.position \in -1 .. Len(c.rows) BY DEF GoodCursor
<1>2. c.rows \in Results BY <1>1 DEF Cursor
<1>3. c.rows \in Seq(Rows) BY <1>2, ResultsAssumption
<1>4. Len(c.rows) \in Nat BY <1>3
<1>5. QED BY <1>1, <1>3, <1>4 DEF At

\* Pieces of a sequence: an empty one ...
LEMMA EmptyPiece ==
  ASSUME NEW s \in Seq(Rows), NEW m \in Int, NEW n \in Int, m > n
  PROVE  SubSeq(s, m, n) = << >>
  OBVIOUS

\* ... the length of one inside the sequence ...
LEMMA PieceLength ==
  ASSUME NEW s \in Seq(Rows), NEW m \in Int, NEW n \in Int, 1 <= m, m <= n + 1, n <= Len(s)
  PROVE  Len(SubSeq(s, m, n)) = (n - m) + 1
  OBVIOUS

\* ... and one read backwards that has no rows.
LEMMA EmptyReverse ==
  ASSUME NEW s, NEW n \in Int, n < 1, NEW e \in Int
  PROVE  [i \in 1 .. n |-> s[e - i]] = << >>
<1>1. 1 .. n = 1 .. 0 OBVIOUS
<1>2. [i \in 1 .. n |-> s[e - i]] = [i \in 1 .. 0 |-> s[e - i]] BY <1>1
<1>3. [i \in 1 .. 0 |-> s[e - i]] \in Seq({}) OBVIOUS
<1>4. Len([i \in 1 .. 0 |-> s[e - i]]) = 0 OBVIOUS
<1>5. QED BY <1>2, <1>3, <1>4, EmptySeq

\* reverse_slice_step_rows reads a piece backwards.
LEMMA ReverseSlice ==
  ASSUME NEW c, NEW start \in Int, NEW end \in Int, NEW n, n = end - start, NEW e, e = end + 1
  PROVE  reverse_slice_step_rows(c, start, end) = [i \in 1 .. n |-> c.rows[e - i]]
<1>1. \A i \in 1 .. n : end + 1 - i = e - i OBVIOUS
<1>2. QED BY <1>1 DEF reverse_slice_step_rows

\* A count that is neither negative nor positive is its own negation.
LEMMA MinusZero ==
  ASSUME NEW k \in Int, k <= 0, k >= 0 PROVE -k = 0
  OBVIOUS

\* A piece of one row.
LEMMA OneRowPiece ==
  ASSUME NEW s \in Seq(Rows), NEW i \in 1 .. Len(s)
  PROVE  SubSeq(s, i, i) = << s[i] >>
<1>1. \A j \in i .. i : s[j] \in Rows OBVIOUS
<1>2. /\ SubSeq(s, i, i) \in Seq(Rows)
      /\ Len(SubSeq(s, i, i)) = 1
      /\ SubSeq(s, i, i)[1] = s[i]
  BY <1>1, SubSeqProperties
<1>3. << s[i] >> \in Seq(Rows) /\ Len(<< s[i] >>) = 1 /\ << s[i] >>[1] = s[i]
  OBVIOUS
<1>4. \A j \in 1 .. Len(SubSeq(s, i, i)) : SubSeq(s, i, i)[j] = << s[i] >>[j]
  <2>1. 1 .. Len(SubSeq(s, i, i)) = {1} BY <1>2
  <2>2. QED BY <1>2, <1>3, <2>1
<1>5. Len(SubSeq(s, i, i)) = Len(<< s[i] >>) BY <1>2, <1>3
<1>6. QED BY <1>2, <1>3, <1>4, <1>5, SeqEqual, Zenon

\* Walking on, the rows are met in order.
LEMMA WalkedOn ==
  ASSUME NEW c, GoodCursor(c), NEW w \in Int, w > 0
  PROVE  Walked(At(c), w)
           = SubSeq(c.rows, c.position + 2,
                    IF WalkTo(At(c), w) > Len(c.rows) THEN Len(c.rows) ELSE WalkTo(At(c), w))
<1>1. w # 0 OBVIOUS
<1>2. Walked(At(c), w)
        = SubSeq(At(c).rows, At(c).at + 1,
                 IF WalkTo(At(c), w) > Len(At(c).rows) THEN Len(At(c).rows) ELSE WalkTo(At(c), w))
  BY <1>1, Zenon DEF Walked
<1>3. At(c).rows = c.rows /\ At(c).at + 1 = c.position + 2 BY GoodPlace
<1>4. QED BY <1>2, <1>3, Zenon

\* Walking back, the rows are met in reverse.
LEMMA WalkedBack ==
  ASSUME NEW c, GoodCursor(c), NEW w \in Int, w < 0
  PROVE  Walked(At(c), w)
           = [i \in 1 .. ((c.position + 1) - (IF WalkTo(At(c), w) < 1 THEN 1 ELSE WalkTo(At(c), w)))
                |-> c.rows[(c.position + 1) - i]]
<1>1. w # 0 /\ ~(w > 0) OBVIOUS
<1>2. Walked(At(c), w)
        = [i \in 1 .. (At(c).at - (IF WalkTo(At(c), w) < 1 THEN 1 ELSE WalkTo(At(c), w)))
             |-> At(c).rows[At(c).at - i]]
  BY <1>1, Zenon DEF Walked
<1>3. At(c).rows = c.rows /\ At(c).at = c.position + 1 BY GoodPlace
<1>4. QED BY <1>2, <1>3, Zenon

\* A count of zero walks nowhere: the row the cursor is on is read again.
LEMMA StayWalks ==
  ASSUME NEW c, GoodCursor(c), NEW rr \in BOOLEAN
  PROVE  IsWalk(Stay(c, rr), At(c), 0, rr)
<1>1. WalkTo(At(c), 0) = c.position + 1
  BY GoodPlace DEF WalkTo, Promise!Clip
<1>2. Stay(c, rr).position = c.position
  BY StepFields DEF Stay
<1>3. rr => Stay(c, rr).rows = Walked(At(c), 0)
  <2>1. Walked(At(c), 0) = Promise!RowAt(At(c), c.position + 1)
    BY <1>1 DEF Walked
  <2>2. rr => Stay(c, rr).rows = current_row_step_rows(c)
    BY StepFields DEF Stay
  <2>3. current_row_step_rows(c) = Promise!RowAt(At(c), c.position + 1)
    <3>1. CASE c.position \in 0 .. (Len(c.rows) - 1)
      <4>1. c.position + 1 \in 1 .. Len(c.rows) BY <3>1, GoodPlace
      <4>2. SubSeq(c.rows, c.position + 1, c.position + 1) = << c.rows[c.position + 1] >>
        BY <4>1, GoodPlace, OneRowPiece
      <4>3. QED BY <3>1, <4>1, <4>2, GoodPlace DEF current_row_step_rows, slice_step_rows, Promise!RowAt
    <3>2. CASE c.position \notin 0 .. (Len(c.rows) - 1)
      <4>1. c.position + 1 \notin 1 .. Len(c.rows) BY <3>2, GoodPlace
      <4>2. QED BY <3>2, <4>1, GoodPlace DEF current_row_step_rows, Promise!RowAt
    <3>3. QED BY <3>1, <3>2
  <2>4. QED BY <2>1, <2>2, <2>3
<1>4. ~rr => Stay(c, rr).count = 0
  BY StepFields DEF Stay
<1>5. QED BY <1>1, <1>2, <1>3, <1>4, GoodPlace DEF IsWalk

\* forward walks on by its count ...
LEMMA ForwardWalks ==
  ASSUME NEW c, GoodCursor(c), NEW k \in Nat, NEW rr \in BOOLEAN
  PROVE  IsWalk(forward(c, k, rr), At(c), k, rr)
<1> DEFINE len == Len(c.rows)
           start == ForwardStart(c)
           requested == Lesser(k, len - start)
           to == WalkTo(At(c), k)
<1>1. /\ len \in Nat /\ c.rows \in Seq(Rows) /\ c.position \in Int
      /\ c.position >= -1 /\ c.position <= len
      /\ At(c).rows = c.rows /\ At(c).at = c.position + 1
  BY GoodPlace
<1>2. to = IF c.position + 1 + k > len + 1 THEN len + 1 ELSE c.position + 1 + k
  BY <1>1 DEF WalkTo, Promise!Clip
<1>3. CASE k = 0
  <2>1. forward(c, k, rr) = Stay(c, rr) BY <1>3 DEF forward
  <2>2. QED BY <1>3, <2>1, StayWalks
<1>4. CASE k # 0
  <2>0. Walked(At(c), k) = SubSeq(c.rows, c.position + 2, IF to > len THEN len ELSE to)
    <3>1. k \in Int /\ k > 0 BY <1>4
    <3>2. QED BY <3>1, WalkedOn, Zenon
  <2>1. CASE start >= len
    <3>1. forward(c, k, rr) = CursorStep(len, << >>, 0)
      BY <1>4, <2>1, Zenon DEF forward
    <3>2. c.position + 1 >= len
      BY <1>1, <2>1 DEF ForwardStart, Lesser
    <3>3. to = len + 1 /\ to > len
      BY <1>1, <1>2, <1>4, <3>2
    <3>4. Walked(At(c), k) = << >>
      BY <1>1, <2>0, <3>2, <3>3, EmptyPiece
    <3>5. QED BY <1>1, <1>4, <3>1, <3>3, <3>4, StepFields DEF IsWalk
  <2>2. CASE ~(start >= len)
    <3>1. start = c.position + 1 /\ start < len
      BY <1>1, <2>2 DEF ForwardStart, Lesser
    <3>2. forward(c, k, rr)
            = CursorStep(IF requested < k THEN len ELSE (start + requested) - 1,
                         IF rr THEN slice_step_rows(c, start, start + requested) ELSE << >>,
                         requested)
      BY <1>4, <2>2, Zenon DEF forward
    <3>3. requested \in Nat /\ requested <= len - start /\ requested <= k /\ 1 <= requested
      BY <1>1, <1>4, <3>1 DEF Lesser
    <3>4. (IF requested < k THEN len ELSE (start + requested) - 1) = to - 1
      BY <1>1, <1>2, <3>1 DEF Lesser
    <3>5. (IF to > len THEN len ELSE to) = start + requested
      BY <1>1, <1>2, <3>1 DEF Lesser
    <3>6. slice_step_rows(c, start, start + requested) = Walked(At(c), k)
      <4>1. start + 1 = c.position + 2 BY <1>1, <3>1
      <4>2. QED BY <2>0, <3>5, <4>1 DEF slice_step_rows
    <3>7. Len(Walked(At(c), k)) = requested
      <4>1. Len(SubSeq(c.rows, start + 1, start + requested)) = requested
        BY <1>1, <3>1, <3>3, PieceLength
      <4>2. QED BY <3>6, <4>1 DEF slice_step_rows
    <3> HIDE DEF requested, start, to
    <3>8. QED BY <1>4, <3>2, <3>4, <3>6, <3>7, StepFields DEF IsWalk, to
  <2>3. QED BY <2>1, <2>2
<1>5. QED BY <1>3, <1>4

\* ... forward_all by more than there are rows ...
LEMMA ForwardAllWalks ==
  ASSUME NEW c, GoodCursor(c), NEW rr \in BOOLEAN
  PROVE  IsWalk(forward_all(c, rr), At(c), Len(c.rows) + 1, rr)
<1> DEFINE len == Len(c.rows)
           start == ForwardStart(c)
           to == WalkTo(At(c), len + 1)
<1>1. /\ len \in Nat /\ c.rows \in Seq(Rows) /\ c.position \in Int
      /\ c.position >= -1 /\ c.position <= len
      /\ At(c).rows = c.rows /\ At(c).at = c.position + 1
  BY GoodPlace
<1>2. to = len + 1
  BY <1>1 DEF WalkTo, Promise!Clip
<1>3. Walked(At(c), len + 1) = SubSeq(c.rows, c.position + 2, len)
  <2>1. len + 1 \in Int /\ len + 1 > 0 /\ to > len BY <1>1, <1>2
  <2>2. QED BY <2>1, WalkedOn, Zenon
<1>4. forward_all(c, rr)
        = CursorStep(len, IF rr /\ start < len THEN slice_step_rows(c, start, len) ELSE << >>, len - start)
  BY Zenon DEF forward_all
<1>5. CASE start < len
  <2>1. start + 1 = c.position + 2 /\ start + 1 <= len + 1
    BY <1>1, <1>5 DEF ForwardStart, Lesser
  <2>2. slice_step_rows(c, start, len) = Walked(At(c), len + 1)
    BY <1>3, <2>1 DEF slice_step_rows
  <2>3. Len(Walked(At(c), len + 1)) = len - start
    <3>1. start \in Int /\ 1 <= start + 1 BY <1>1 DEF ForwardStart, Lesser
    <3>2. Len(SubSeq(c.rows, start + 1, len)) = (len - (start + 1)) + 1
      <4> HIDE DEF start, len
      <4>1. QED BY <1>1, <2>1, <3>1, PieceLength DEF len
    <3>3. QED BY <1>1, <1>3, <2>1, <3>1, <3>2
  <2>4. len + 1 # 0 BY <1>1
  <2> HIDE DEF start, to
  <2>5. QED BY <1>1, <1>2, <1>4, <1>5, <2>2, <2>3, <2>4, StepFields DEF IsWalk, to
<1>6. CASE ~(start < len)
  <2>1. start = len /\ c.position + 2 > len
    BY <1>1, <1>6 DEF ForwardStart, Lesser
  <2>2. Walked(At(c), len + 1) = << >>
    BY <1>1, <1>3, <2>1, EmptyPiece
  <2>4. len + 1 # 0 /\ len - start = 0 BY <1>1, <2>1
  <2> HIDE DEF start, to
  <2>5. QED BY <1>1, <1>2, <1>4, <1>6, <2>2, <2>4, StepFields DEF IsWalk, to
<1>7. QED BY <1>5, <1>6

\* ... backward back by its count ...
LEMMA BackwardWalks ==
  ASSUME NEW c, GoodCursor(c), NEW k \in Nat, NEW rr \in BOOLEAN
  PROVE  IsWalk(backward(c, k, rr), At(c), -k, rr)
<1> DEFINE len == Len(c.rows)
           pos == c.position
           start == BackwardStart(c)
           requested == Lesser(k, start + 1)
           to == WalkTo(At(c), -k)
<1>1. /\ len \in Nat /\ pos \in Int /\ pos >= -1 /\ pos <= len
      /\ At(c).rows = c.rows /\ At(c).at = pos + 1
  BY GoodPlace
<1>2. to = IF (pos + 1) - k < 0 THEN 0 ELSE (pos + 1) - k
  BY <1>1 DEF WalkTo, Promise!Clip
<1>3. CASE k = 0
  <2>1. backward(c, k, rr) = Stay(c, rr) BY <1>3 DEF backward
  <2>2. -k = 0
    <3>1. k \in Int /\ k <= 0 /\ k >= 0 BY <1>3
    <3>2. QED BY <3>1, MinusZero
  <2>3. QED BY <2>1, <2>2, StayWalks
<1>4. CASE k # 0
  <2>0. Walked(At(c), -k) = [i \in 1 .. ((pos + 1) - (IF to < 1 THEN 1 ELSE to)) |-> c.rows[(pos + 1) - i]]
    <3>1. -k \in Int /\ -k < 0 BY <1>4
    <3>2. QED BY <3>1, WalkedBack, Zenon
  <2>1. start = pos - 1 BY <1>1 DEF BackwardStart
  <2>2. CASE start < 0
    <3>1. backward(c, k, rr) = CursorStep(-1, << >>, 0)
      BY <1>4, <2>2, Zenon DEF backward
    <3>2. to = 0 /\ to - 1 = -1 /\ -k # 0 BY <1>1, <1>2, <1>4, <2>1, <2>2
    <3>3. Walked(At(c), -k) = << >>
      <4> DEFINE n == (pos + 1) - (IF to < 1 THEN 1 ELSE to)
      <4>1. n \in Int /\ n < 1 /\ pos + 1 \in Int BY <1>1, <2>1, <2>2, <3>2
      <4>2. [i \in 1 .. n |-> c.rows[(pos + 1) - i]] = << >>
        <5> HIDE DEF n, pos
        <5>1. QED BY <4>1, EmptyReverse
      <4>3. Walked(At(c), -k) = [i \in 1 .. n |-> c.rows[(pos + 1) - i]] BY <2>0
      <4> HIDE DEF n
      <4>4. QED BY <4>2, <4>3
    <3>4. QED BY <3>1, <3>2, <3>3, StepFields DEF IsWalk
  <2>3. CASE ~(start < 0)
    <3>1. backward(c, k, rr)
            = CursorStep(IF requested < k THEN -1 ELSE start - requested + 1,
                         IF rr THEN reverse_slice_step_rows(c, start - requested + 1, start + 1)
                         ELSE << >>,
                         requested)
      BY <1>4, <2>3, Zenon DEF backward
    <3>2. requested \in Nat BY <1>1, <1>4, <2>1, <2>3 DEF Lesser
    <3>3. (IF requested < k THEN -1 ELSE start - requested + 1) = to - 1
      BY <1>1, <1>2, <2>1, <2>3 DEF Lesser
    <3>4. (pos + 1) - (IF to < 1 THEN 1 ELSE to) = requested
      BY <1>1, <1>2, <2>1, <2>3 DEF Lesser
    <3>5. reverse_slice_step_rows(c, start - requested + 1, start + 1) = Walked(At(c), -k)
      <4>1. (start + 1) - (start - requested + 1) = requested BY <1>1, <2>1, <3>2
      <4>2. (start + 1) + 1 = pos + 1 BY <1>1, <2>1
      <4>3. reverse_slice_step_rows(c, start - requested + 1, start + 1)
              = [i \in 1 .. requested |-> c.rows[(pos + 1) - i]]
        <5>1. start - requested + 1 \in Int /\ start + 1 \in Int BY <1>1, <2>1, <3>2
        <5> HIDE DEF start, requested, pos
        <5>2. QED BY <4>1, <4>2, <5>1, ReverseSlice
      <4>4. QED BY <2>0, <3>4, <4>3, Zenon
    <3>6. Len(Walked(At(c), -k)) = requested
      <4>1. Len([i \in 1 .. requested |-> c.rows[(pos + 1) - i]]) = requested
        <5> HIDE DEF requested, pos
        <5>1. QED BY <3>2
      <4>2. QED BY <2>0, <3>4, <4>1, Zenon
    <3>7. -k # 0 BY <1>4
    <3> HIDE DEF requested, start, to
    <3>8. QED BY <3>1, <3>3, <3>5, <3>6, <3>7, StepFields DEF IsWalk, to
  <2>4. QED BY <2>2, <2>3
<1>5. QED BY <1>3, <1>4

\* ... and backward_all by more than there are rows.
LEMMA BackwardAllWalks ==
  ASSUME NEW c, GoodCursor(c), NEW rr \in BOOLEAN
  PROVE  IsWalk(backward_all(c, rr), At(c), -(Len(c.rows) + 1), rr)
<1> DEFINE len == Len(c.rows)
           pos == c.position
           start == BackwardStart(c)
           w == -(len + 1)
           to == WalkTo(At(c), w)
<1>1. /\ len \in Nat /\ pos \in Int /\ pos >= -1 /\ pos <= len
      /\ At(c).rows = c.rows /\ At(c).at = pos + 1
  BY GoodPlace
<1>2. to = 0 /\ to - 1 = -1 /\ w \in Int /\ w < 0 /\ w # 0
  BY <1>1 DEF WalkTo, Promise!Clip
<1>3. start = pos - 1 BY <1>1 DEF BackwardStart
<1>4. Walked(At(c), w) = [i \in 1 .. pos |-> c.rows[(pos + 1) - i]]
  <2>1. Walked(At(c), w) = [i \in 1 .. ((pos + 1) - (IF to < 1 THEN 1 ELSE to)) |-> c.rows[(pos + 1) - i]]
    BY <1>2, WalkedBack, Zenon
  <2>2. (pos + 1) - (IF to < 1 THEN 1 ELSE to) = pos BY <1>1, <1>2
  <2>3. QED BY <2>1, <2>2, Zenon
<1>5. CASE start < 0
  <2>1. backward_all(c, rr) = CursorStep(-1, << >>, 0)
    BY <1>5, Zenon DEF backward_all
  <2>2. Walked(At(c), w) = << >>
    <3>1. pos \in Int /\ pos < 1 /\ pos + 1 \in Int BY <1>1, <1>3, <1>5
    <3>2. [i \in 1 .. pos |-> c.rows[(pos + 1) - i]] = << >>
      <4> HIDE DEF pos
      <4>1. QED BY <3>1, EmptyReverse
    <3>3. QED BY <1>4, <3>2, Zenon
  <2>3. QED BY <1>2, <2>1, <2>2, StepFields DEF IsWalk
<1>6. CASE ~(start < 0)
  <2>1. backward_all(c, rr)
          = CursorStep(-1, IF rr THEN reverse_slice_step_rows(c, 0, start + 1) ELSE << >>, start + 1)
    BY <1>6, Zenon DEF backward_all
  <2>2. start + 1 = pos /\ (start + 1) - 0 = pos /\ (start + 1) + 1 = pos + 1 /\ pos \in Nat
    BY <1>1, <1>3, <1>6
  <2>3. reverse_slice_step_rows(c, 0, start + 1) = Walked(At(c), w)
    <3>1. 0 \in Int /\ start + 1 \in Int BY <1>1, <1>3
    <3>2. reverse_slice_step_rows(c, 0, start + 1) = [i \in 1 .. pos |-> c.rows[(pos + 1) - i]]
      <4> HIDE DEF start, pos
      <4>1. QED BY <2>2, <3>1, ReverseSlice
    <3>3. QED BY <1>4, <3>2, Zenon
  <2>4. Len(Walked(At(c), w)) = start + 1
    <3>1. Len([i \in 1 .. pos |-> c.rows[(pos + 1) - i]]) = pos
      <4> HIDE DEF pos
      <4>1. QED BY <2>2
    <3>2. QED BY <1>4, <2>2, <3>1, Zenon
  <2> HIDE DEF start, w
  <2>5. IsWalk(backward_all(c, rr), At(c), w, rr)
    BY <1>2, <2>1, <2>3, <2>4, StepFields DEF IsWalk
  <2>6. QED BY <2>5 DEF w
<1>7. QED BY <1>5, <1>6

\* A step does what a jump to a place does.
LandsOn(step, p, to, rr) ==
  /\ step.position = to - 1
  /\ rr => step.rows = Promise!RowAt(p, to)
  /\ ~rr => step.count = Len(Promise!RowAt(p, to))

IsJump(step, p, place, rr) == LandsOn(step, p, Promise!Clip(place, Len(p.rows)), rr)

\* seek jumps to the place of its index ...
LEMMA SeekJumps ==
  ASSUME NEW c, GoodCursor(c), NEW t \in Int, NEW rr \in BOOLEAN
  PROVE  IsJump(seek(c, t, rr), At(c), t + 1, rr)
<1> DEFINE len == Len(c.rows)
           to == Promise!Clip(t + 1, len)
<1>1. len \in Nat /\ c.rows \in Seq(Rows) /\ At(c).rows = c.rows BY GoodPlace
<1>2. to = IF t + 1 < 0 THEN 0 ELSE IF t + 1 > len + 1 THEN len + 1 ELSE t + 1
  BY DEF Promise!Clip
<1> SUFFICES LandsOn(seek(c, t, rr), At(c), to, rr) BY <1>1 DEF IsJump
<1> HIDE DEF to
<1>3. CASE t < 0
  <2>1. seek(c, t, rr) = CursorStep(-1, << >>, 0) BY <1>3, Zenon DEF seek
  <2>2. to = 0 /\ to - 1 = -1 /\ to \notin 1 .. len BY <1>1, <1>2, <1>3
  <2>3. Promise!RowAt(At(c), to) = << >> BY <1>1, <2>2, Zenon DEF Promise!RowAt
  <2>4. Len(<< >>) = 0 OBVIOUS
  <2>5. seek(c, t, rr).position = to - 1 /\ seek(c, t, rr).rows = << >> /\ seek(c, t, rr).count = 0
    BY <2>1, <2>2, StepFields
  <2>6. QED BY <2>3, <2>4, <2>5 DEF LandsOn
<1>4. CASE ~(t < 0) /\ t >= len
  <2>1. seek(c, t, rr) = CursorStep(len, << >>, 0) BY <1>4, Zenon DEF seek
  <2>2. to - 1 = len /\ to \notin 1 .. len BY <1>1, <1>2, <1>4
  <2>3. Promise!RowAt(At(c), to) = << >> BY <1>1, <2>2, Zenon DEF Promise!RowAt
  <2>4. Len(<< >>) = 0 OBVIOUS
  <2>5. seek(c, t, rr).position = to - 1 /\ seek(c, t, rr).rows = << >> /\ seek(c, t, rr).count = 0
    BY <2>1, <2>2, StepFields
  <2>6. QED BY <2>3, <2>4, <2>5 DEF LandsOn
<1>5. CASE ~(t < 0) /\ ~(t >= len)
  <2>1. seek(c, t, rr) = CursorStep(t, IF rr THEN slice_step_rows(c, t, t + 1) ELSE << >>, 1)
    BY <1>5, Zenon DEF seek
  <2>2. to = t + 1 /\ to - 1 = t /\ t + 1 \in 1 .. len BY <1>1, <1>2, <1>5
  <2>3. Promise!RowAt(At(c), to) = << c.rows[t + 1] >> BY <1>1, <2>2, Zenon DEF Promise!RowAt
  <2>4. slice_step_rows(c, t, t + 1) = << c.rows[t + 1] >>
    BY <1>1, <2>2, OneRowPiece DEF slice_step_rows
  <2>5. Len(<< c.rows[t + 1] >>) = 1 OBVIOUS
  <2>6. /\ seek(c, t, rr).position = to - 1
        /\ rr => seek(c, t, rr).rows = << c.rows[t + 1] >>
        /\ seek(c, t, rr).count = 1
    BY <2>1, <2>2, <2>4, StepFields
  <2>7. QED BY <2>3, <2>5, <2>6 DEF LandsOn
<1>6. QED BY <1>3, <1>4, <1>5

\* ... and absolute counts it from the first row, or from the end.
LEMMA AbsoluteJumps ==
  ASSUME NEW c, GoodCursor(c), NEW t \in Int, NEW rr \in BOOLEAN
  PROVE  IsJump(absolute(c, t, rr), At(c), IF t < 0 THEN Len(c.rows) + 1 + t ELSE t, rr)
<1>1. Len(c.rows) \in Nat BY GoodPlace
<1>2. CASE t = 0
  <2>1. absolute(c, t, rr) = CursorStep(-1, << >>, 0) BY <1>2 DEF absolute
  <2>2. seek(c, -1, rr) = CursorStep(-1, << >>, 0) BY DEF seek
  <2>3. IsJump(seek(c, -1, rr), At(c), -1 + 1, rr) BY SeekJumps
  <2>4. -1 + 1 = (IF t < 0 THEN Len(c.rows) + 1 + t ELSE t) BY <1>2
  <2>5. QED BY <2>1, <2>2, <2>3, <2>4
<1>3. CASE t > 0
  <2>1. absolute(c, t, rr) = seek(c, t - 1, rr) BY <1>3 DEF absolute
  <2>2. IsJump(seek(c, t - 1, rr), At(c), (t - 1) + 1, rr) BY SeekJumps
  <2>3. (t - 1) + 1 = (IF t < 0 THEN Len(c.rows) + 1 + t ELSE t) BY <1>3
  <2>4. QED BY <2>1, <2>2, <2>3
<1>4. CASE t < 0
  <2>1. absolute(c, t, rr) = seek(c, Len(c.rows) + t, rr) BY <1>4 DEF absolute
  <2>2. Len(c.rows) + t \in Int BY <1>1
  <2>3. IsJump(seek(c, Len(c.rows) + t, rr), At(c), (Len(c.rows) + t) + 1, rr) BY <2>2, SeekJumps
  <2>4. (Len(c.rows) + t) + 1 = (IF t < 0 THEN Len(c.rows) + 1 + t ELSE t) BY <1>1, <1>4
  <2>5. QED BY <2>1, <2>3, <2>4
<1>5. QED BY <1>2, <1>3, <1>4

\* A sum that does not overflow is the sum.
LEMMA RelativeJumps ==
  ASSUME NoOverflow, NEW c, GoodCursor(c), NEW t \in Operands, NEW rr \in BOOLEAN
  PROVE  IsJump(relative(c, t, rr), At(c), At(c).at + t, rr)
<1>1. /\ Len(c.rows) \in Nat /\ c.position \in Int /\ c.position >= -1 /\ c.position <= Len(c.rows)
      /\ At(c).at = c.position + 1
  BY GoodPlace
<1>2. t \in Int /\ t >= -IMax /\ t + Len(c.rows) <= IMax
  <2>1. c.rows \in Results BY DEF GoodCursor, Cursor
  <2>2. t \in (-IMax) .. IMax BY OperandsAssumption
  <2>3. QED BY <2>1, <2>2, IMaxAssumption DEF NoOverflow
<1>3. Wrap(c.position + t) = c.position + t
  BY <1>1, <1>2, IMaxAssumption DEF Wrap, IMin
<1>4. IsJump(seek(c, c.position + t, rr), At(c), (c.position + t) + 1, rr)
  BY <1>1, <1>2, SeekJumps
<1>5. (c.position + t) + 1 = At(c).at + t BY <1>1, <1>2
<1>6. QED BY <1>3, <1>4, <1>5 DEF relative

(***************************************************************************)
(* From clauses to directions.                                             *)
(***************************************************************************)

\* What a clause asks the registry to do is what it promises: parsed and
\* applied it walks as far, or jumps to the place, the clause says.
LEMMA ClauseMoves ==
  ASSUME NoOverflow, NEW c, GoodCursor(c), NEW cl \in Clauses, NEW rr \in BOOLEAN
  PROVE  LET step == apply(c, parse_cursor_direction(cl), rr)
         IN IF cl.text \in Promise!JumpTexts
            THEN IsJump(step, At(c), Promise!Jump(At(c), cl), rr)
            ELSE IsWalk(step, At(c), Promise!Walk(Len(c.rows), cl), rr)
<1> DEFINE len == Len(c.rows)
           d == parse_cursor_direction(cl)
           step == apply(c, d, rr)
<1>0. len \in Nat /\ Len(At(c).rows) = len BY GoodPlace
<1>1. \/ cl.text \in PlainClauses /\ cl.n = 0
      \/ cl.text \in CountedClauses /\ cl.n \in Operands /\ cl.n \in Int
  BY OperandsAreIntegers DEF Clauses, Clause
<1>2. CASE cl.text \in {"", "NEXT", "FORWARD"}
  <2>1. step = forward(c, 1, rr) BY <1>2 DEF apply, parse_cursor_direction, Direction
  <2>2. Promise!Walk(len, cl) = 1 /\ cl.text \notin Promise!JumpTexts
    BY <1>2 DEF Promise!Walk, Promise!JumpTexts
  <2>3. IsWalk(forward(c, 1, rr), At(c), 1, rr) BY ForwardWalks
  <2>4. QED BY <2>1, <2>2, <2>3
<1>3. CASE cl.text \in {"PRIOR", "BACKWARD"}
  <2>1. step = backward(c, 1, rr) BY <1>3 DEF apply, parse_cursor_direction, Direction
  <2>2. Promise!Walk(len, cl) = -1 /\ cl.text \notin Promise!JumpTexts
    BY <1>3 DEF Promise!Walk, Promise!JumpTexts
  <2>3. IsWalk(backward(c, 1, rr), At(c), -1, rr) BY BackwardWalks
  <2>4. QED BY <2>1, <2>2, <2>3
<1>4. CASE cl.text \in {"ALL", "FORWARD ALL"}
  <2>1. step = forward_all(c, rr) BY <1>4 DEF apply, parse_cursor_direction, Direction
  <2>2. Promise!Walk(len, cl) = len + 1 /\ cl.text \notin Promise!JumpTexts
    BY <1>4 DEF Promise!Walk, Promise!JumpTexts
  <2>3. QED BY <2>1, <2>2, ForwardAllWalks
<1>5. CASE cl.text = "BACKWARD ALL"
  <2>1. step = backward_all(c, rr) BY <1>5 DEF apply, parse_cursor_direction, Direction
  <2>2. Promise!Walk(len, cl) = -(len + 1) /\ cl.text \notin Promise!JumpTexts
    BY <1>5 DEF Promise!Walk, Promise!JumpTexts
  <2>3. QED BY <2>1, <2>2, BackwardAllWalks
<1>6. CASE cl.text \in {"n", "FORWARD n"}
  <2>1. cl.n \in Int BY <1>1, <1>6 DEF PlainClauses
  <2>2. Promise!Walk(len, cl) = cl.n /\ cl.text \notin Promise!JumpTexts
    BY <1>6 DEF Promise!Walk, Promise!JumpTexts
  <2>3. CASE cl.n < 0
    <3>1. step = backward(c, -cl.n, rr) BY <1>6, <2>3 DEF apply, parse_cursor_direction, Direction
    <3>2. -cl.n \in Nat /\ -(-cl.n) = cl.n BY <2>1, <2>3
    <3>3. IsWalk(backward(c, -cl.n, rr), At(c), -(-cl.n), rr) BY <3>2, BackwardWalks
    <3>4. QED BY <2>2, <3>1, <3>2, <3>3
  <2>4. CASE ~(cl.n < 0)
    <3>1. step = forward(c, cl.n, rr) BY <1>6, <2>4 DEF apply, parse_cursor_direction, Direction
    <3>2. cl.n \in Nat BY <2>1, <2>4
    <3>3. QED BY <2>2, <3>1, <3>2, ForwardWalks
  <2>5. QED BY <2>3, <2>4
<1>7. CASE cl.text = "BACKWARD n"
  <2>1. cl.n \in Int BY <1>1, <1>7 DEF PlainClauses
  <2>2. Promise!Walk(len, cl) = -cl.n /\ cl.text \notin Promise!JumpTexts
    BY <1>7 DEF Promise!Walk, Promise!JumpTexts
  <2>3. CASE cl.n < 0
    <3>1. step = forward(c, -cl.n, rr) BY <1>7, <2>3 DEF apply, parse_cursor_direction, Direction
    <3>2. -cl.n \in Nat BY <2>1, <2>3
    <3>3. QED BY <2>2, <3>1, <3>2, ForwardWalks
  <2>4. CASE ~(cl.n < 0)
    <3>1. step = backward(c, cl.n, rr) BY <1>7, <2>4 DEF apply, parse_cursor_direction, Direction
    <3>2. cl.n \in Nat BY <2>1, <2>4
    <3>3. QED BY <2>2, <3>1, <3>2, BackwardWalks
  <2>5. QED BY <2>3, <2>4
<1>8. CASE cl.text = "FIRST"
  <2>1. step = absolute(c, 1, rr) BY <1>8 DEF apply, parse_cursor_direction, Direction
  <2>2. Promise!Jump(At(c), cl) = 1 /\ cl.text \in Promise!JumpTexts
    BY <1>8 DEF Promise!Jump, Promise!JumpTexts
  <2>3. IsJump(absolute(c, 1, rr), At(c), IF 1 < 0 THEN len + 1 + 1 ELSE 1, rr) BY AbsoluteJumps
  <2>4. (IF 1 < 0 THEN len + 1 + 1 ELSE 1) = 1 OBVIOUS
  <2>5. QED BY <2>1, <2>2, <2>3, <2>4
<1>9. CASE cl.text = "LAST"
  <2>1. step = absolute(c, -1, rr) BY <1>9 DEF apply, parse_cursor_direction, Direction
  <2>2. Promise!Jump(At(c), cl) = len /\ cl.text \in Promise!JumpTexts
    BY <1>0, <1>9 DEF Promise!Jump, Promise!JumpTexts
  <2>3. IsJump(absolute(c, -1, rr), At(c), IF -1 < 0 THEN len + 1 + -1 ELSE -1, rr) BY AbsoluteJumps
  <2>4. (IF -1 < 0 THEN len + 1 + -1 ELSE -1) = len BY <1>0
  <2>5. QED BY <2>1, <2>2, <2>3, <2>4
<1>10. CASE cl.text = "ABSOLUTE n"
  <2>1. cl.n \in Int BY <1>1, <1>10 DEF PlainClauses
  <2>2. step = absolute(c, cl.n, rr) BY <1>10 DEF apply, parse_cursor_direction, Direction
  <2>3. Promise!Jump(At(c), cl) = (IF cl.n < 0 THEN len + 1 + cl.n ELSE cl.n) /\ cl.text \in Promise!JumpTexts
    BY <1>0, <1>10 DEF Promise!Jump, Promise!JumpTexts
  <2>4. QED BY <2>1, <2>2, <2>3, AbsoluteJumps
<1>11. CASE cl.text = "RELATIVE n"
  <2>1. cl.n \in Operands BY <1>1, <1>11 DEF PlainClauses
  <2>2. step = relative(c, cl.n, rr) BY <1>11 DEF apply, parse_cursor_direction, Direction
  <2>3. Promise!Jump(At(c), cl) = At(c).at + cl.n /\ cl.text \in Promise!JumpTexts
    BY <1>11 DEF Promise!Jump, Promise!JumpTexts
  <2>4. QED BY <2>1, <2>2, <2>3, RelativeJumps
<1>12. QED
  BY <1>1, <1>2, <1>3, <1>4, <1>5, <1>6, <1>7, <1>8, <1>9, <1>10, <1>11 DEF PlainClauses, CountedClauses

\* What the CASE expressions of the promise come to.
LEMMA WalkValues ==
  ASSUME NEW n, NEW cl
  PROVE  /\ cl.text \in {"", "NEXT", "FORWARD"} => Promise!Walk(n, cl) = 1
         /\ cl.text \in {"PRIOR", "BACKWARD"} => Promise!Walk(n, cl) = -1
         /\ cl.text \in {"ALL", "FORWARD ALL"} => Promise!Walk(n, cl) = n + 1
         /\ cl.text = "BACKWARD ALL" => Promise!Walk(n, cl) = -(n + 1)
         /\ cl.text \in {"n", "FORWARD n"} => Promise!Walk(n, cl) = cl.n
         /\ cl.text = "BACKWARD n" => Promise!Walk(n, cl) = -cl.n
  BY DEF Promise!Walk

\* A walk has a number of rows ...
LEMMA WalkIsInteger ==
  ASSUME NEW n \in Nat, NEW cl \in Clauses, cl.text \notin Promise!JumpTexts
  PROVE  Promise!Walk(n, cl) \in Int
<1> DEFINE w == Promise!Walk(n, cl)
<1>1. cl.n \in Int BY OperandsAreIntegers DEF Clauses, Clause
<1>2. cl.text \in PlainClauses \cup CountedClauses BY DEF Clauses, Clause
<1>3. w = 1 \/ w = -1 \/ w = n + 1 \/ w = -(n + 1) \/ w = cl.n \/ w = -cl.n
  BY <1>2, WalkValues DEF PlainClauses, CountedClauses, Promise!JumpTexts
<1> HIDE DEF w
<1>4. w \in Int BY <1>1, <1>3
<1>5. QED BY <1>4 DEF w

\* ... and a jump a place.
LEMMA JumpIsInteger ==
  ASSUME NEW p, Len(p.rows) \in Nat, p.at \in Int, NEW cl \in Clauses, cl.text \in Promise!JumpTexts
  PROVE  Promise!Jump(p, cl) \in Int
<1> DEFINE j == Promise!Jump(p, cl)
<1>1. cl.n \in Int BY OperandsAreIntegers DEF Clauses, Clause
<1>2. /\ cl.text = "FIRST" => j = 1
      /\ cl.text = "LAST" => j = Len(p.rows)
      /\ cl.text = "ABSOLUTE n" => j = IF cl.n < 0 THEN Len(p.rows) + 1 + cl.n ELSE cl.n
      /\ cl.text = "RELATIVE n" => j = p.at + cl.n
  BY DEF Promise!Jump
<1> HIDE DEF j
<1>3. j = 1 \/ j = Len(p.rows) \/ j = Len(p.rows) + 1 + cl.n \/ j = cl.n \/ j = p.at + cl.n
  BY <1>2 DEF Promise!JumpTexts
<1>4. j \in Int BY <1>1, <1>3
<1>5. QED BY <1>4 DEF j

\* The registry asks for SCROLL exactly when the promise does.
LEMMA ScrollAgrees ==
  ASSUME NEW cl \in Clauses, NEW n \in Nat
  PROVE  Promise!NeedsScroll(n, cl) <=> direction_requires_scroll(parse_cursor_direction(cl))
<1>1. \/ cl.text \in PlainClauses /\ cl.n = 0
      \/ cl.text \in CountedClauses /\ cl.n \in Int
  BY OperandsAreIntegers DEF Clauses, Clause
<1>2. CASE cl.text \in {"", "NEXT", "FORWARD", "ALL", "FORWARD ALL"}
  <2>0. Promise!Walk(n, cl) = 1 \/ Promise!Walk(n, cl) = n + 1 BY <1>2, WalkValues
  <2>1. ~(Promise!Walk(n, cl) < 0)
    <3> DEFINE w == Promise!Walk(n, cl)
    <3> HIDE DEF w
    <3>1. w = 1 \/ w = n + 1 BY <2>0 DEF w
    <3>2. ~(w < 0) BY <3>1
    <3>3. QED BY <3>2 DEF w
  <2>4. cl.text \notin Promise!JumpTexts \cup {"BACKWARD ALL", "BACKWARD n"}
    BY <1>2 DEF Promise!JumpTexts
  <2>2. parse_cursor_direction(cl).tag \in {"Next", "Forward", "All", "ForwardAll"}
    BY <1>2 DEF parse_cursor_direction, Direction
  <2>5. QED BY <2>1, <2>2, <2>4 DEF Promise!NeedsScroll, direction_requires_scroll
<1>3. CASE cl.text \in {"PRIOR", "BACKWARD", "BACKWARD ALL"}
  <2>0. Promise!Walk(n, cl) = -1 \/ Promise!Walk(n, cl) = -(n + 1) BY <1>3, WalkValues
  <2>1. Promise!Walk(n, cl) < 0 BY <2>0
  <2>2. parse_cursor_direction(cl).tag \in {"Prior", "Backward", "BackwardAll"}
    BY <1>3 DEF parse_cursor_direction, Direction
  <2>3. QED BY <2>1, <2>2 DEF Promise!NeedsScroll, direction_requires_scroll
<1>4. CASE cl.text \in Promise!JumpTexts
  <2>1. parse_cursor_direction(cl).tag \in {"First", "Last", "Absolute", "Relative"}
    BY <1>4 DEF Promise!JumpTexts, parse_cursor_direction, Direction
  <2>2. QED BY <1>4, <2>1 DEF Promise!NeedsScroll, direction_requires_scroll
<1>5. CASE cl.text \in {"n", "FORWARD n"}
  <2>1. cl.n \in Int BY <1>1, <1>5 DEF PlainClauses
  <2>2. Promise!Walk(n, cl) = cl.n /\ cl.text \notin Promise!JumpTexts
    BY <1>5 DEF Promise!Walk, Promise!JumpTexts
  <2>3. Promise!NeedsScroll(n, cl) <=> cl.n < 0
    BY <1>5, <2>2 DEF Promise!NeedsScroll
  <2>4. direction_requires_scroll(parse_cursor_direction(cl)) <=> cl.n < 0
    BY <1>5, <2>1 DEF direction_requires_scroll, parse_cursor_direction, Direction
  <2>5. QED BY <2>3, <2>4
<1>6. CASE cl.text = "BACKWARD n"
  <2>1. cl.n \in Int BY <1>1, <1>6 DEF PlainClauses
  <2>2. Promise!Walk(n, cl) = -cl.n /\ cl.text \notin Promise!JumpTexts
    BY <1>6 DEF Promise!Walk, Promise!JumpTexts
  <2>3. Promise!NeedsScroll(n, cl) <=> ~(cl.n < 0)
    <3>1. Promise!NeedsScroll(n, cl) <=> -cl.n < 0 \/ cl.n = 0
      BY <1>6, <2>2 DEF Promise!NeedsScroll
    <3>2. QED BY <2>1, <3>1
  <2>4. direction_requires_scroll(parse_cursor_direction(cl)) <=> ~(cl.n < 0)
    BY <1>6, <2>1 DEF direction_requires_scroll, parse_cursor_direction, Direction
  <2>5. QED BY <2>3, <2>4
<1>7. QED
  BY <1>1, <1>2, <1>3, <1>4, <1>5, <1>6 DEF PlainClauses, CountedClauses, Promise!JumpTexts

\* A command leaves the cursor on the place its clause means, and its answer has
\* the rows in between, or their number.
LEMMA MovesAsPromised ==
  ASSUME NoOverflow, NEW c, GoodCursor(c), NEW cl \in Clauses, NEW rr \in BOOLEAN
  PROVE  LET step == apply(c, parse_cursor_direction(cl), rr)
             stays == cl.text \notin Promise!JumpTexts /\ Promise!Walk(Len(c.rows), cl) = 0
         IN /\ step.position + 1 = Promise!Landing(At(c), cl)
            /\ rr => step.rows = Promise!Met(At(c), cl)
            /\ ~rr => step.count = IF stays THEN 0 ELSE Len(Promise!Met(At(c), cl))
<1> DEFINE step == apply(c, parse_cursor_direction(cl), rr)
           p == At(c)
           w == Promise!Walk(Len(c.rows), cl)
<1>1. step.position \in Int /\ p.rows = c.rows
  BY ApplyLands, ParsedDirection, GoodPlace
<1>2. CASE cl.text \in Promise!JumpTexts
  <2> DEFINE to == Promise!Clip(Promise!Jump(p, cl), Len(p.rows))
  <2>1. LandsOn(step, p, to, rr)
    BY <1>2, ClauseMoves, Zenon DEF IsJump
  <2>2. Promise!Landing(p, cl) = to
    BY <1>2, Zenon DEF Promise!Landing
  <2>3. Promise!Met(p, cl) = Promise!RowAt(p, to)
    BY <1>2, <2>2, Zenon DEF Promise!Met
  <2>4. to \in Int /\ step.position + 1 = to
    <3>1. step.position = to - 1 BY <2>1 DEF LandsOn
    <3>2. to \in Int
      <4>1. Len(p.rows) \in Nat /\ p.at \in Int BY GoodPlace
      <4>2. Promise!Jump(p, cl) \in Int BY <1>2, <4>1, JumpIsInteger
      <4>3. QED BY <4>1, <4>2 DEF Promise!Clip
    <3> HIDE DEF to, step
    <3>3. QED BY <1>1, <3>1, <3>2
  <2>5. QED BY <1>2, <2>1, <2>2, <2>3, <2>4, Zenon DEF LandsOn
<1>3. CASE cl.text \notin Promise!JumpTexts
  <2>1. IsWalk(step, p, w, rr)
    BY <1>3, ClauseMoves, Zenon
  <2>2. Promise!Landing(p, cl) = WalkTo(p, w)
    BY <1>1, <1>3, Zenon DEF Promise!Landing, WalkTo
  <2>3. Promise!Met(p, cl) = Walked(p, w)
    BY <1>1, <1>3, <2>2, Zenon DEF Promise!Met, Walked
  <2>4. step.position + 1 = WalkTo(p, w)
    <3>1. step.position = WalkTo(p, w) - 1 BY <2>1 DEF IsWalk
    <3>2. WalkTo(p, w) \in Int
      <4>1. w \in Int
        BY <1>3, GoodPlace, WalkIsInteger
      <4> HIDE DEF w
      <4>2. QED BY <4>1, GoodPlace DEF WalkTo, Promise!Clip
    <3> HIDE DEF step, w
    <3>3. QED BY <1>1, <3>1, <3>2
  <2>5. QED BY <1>3, <2>1, <2>2, <2>3, <2>4, Zenon DEF IsWalk
<1>4. QED BY <1>2, <1>3

(***************************************************************************)
(* The simulation.                                                         *)
(***************************************************************************)

\* The places of the promise, as the registry's refinement mapping has them.
Places == [n \in DOMAIN cursors |-> At(cursors[n])]

\* Untouched cursors keep their places.
LEMMA PlacesKept ==
  ASSUME cursors' = cursors PROVE Places' = Places
  BY DEF Places, At

\* A declared cursor is a new place ...
LEMMA PlacesPut ==
  ASSUME NEW n, NEW c, cursors' = Insert(cursors, n, c)
  PROVE  Places' = Promise!Put(Places, n, At(c))
  BY DEF Places, At, Insert, Promise!Put

\* ... a closed one is taken away ...
LEMMA PlacesRetained ==
  ASSUME NEW S, cursors' = Retain(cursors, S)
  PROVE  Places' = Promise!Keep(Places, S)
  BY DEF Places, At, Retain, Promise!Keep

\* ... and one that moves changes only where it stands.
LEMMA PlacesMoved ==
  ASSUME TypeOK, NEW n \in DOMAIN cursors, NEW q,
         cursors' = [cursors EXCEPT ![n].position = q]
  PROVE  Places' = [Places EXCEPT ![n].at = q + 1]
<1>1. DOMAIN cursors' = DOMAIN cursors OBVIOUS
<1>2. \A m \in DOMAIN cursors :
        At(cursors'[m]) = IF m = n THEN [At(cursors[n]) EXCEPT !.at = q + 1] ELSE At(cursors[m])
  BY DEF TypeOK, Cursor, At
<1>3. Places' = [m \in DOMAIN cursors |-> At(cursors'[m])]
  BY <1>1 DEF Places, At
<1>4. QED BY <1>2, <1>3 DEF Places

\* The registry starts as the promise does.
LEMMA InitPromised == Init => Promise!Init
  BY DEF Init, Promise!Init, Execution, Answer, Command, NoName, NoClause,
         Promise!Done, Promise!Answer, Promise!Command, Promise!NoName, Promise!NoClause

\* The mapping of the registry is Places.
LEMMA Mapping ==
  Places = [n \in DOMAIN cursors |->
              [rows |-> cursors[n].rows, at |-> cursors[n].position + 1,
               scroll |-> cursors[n].scroll, hold |-> cursors[n].hold]]
  BY DEF Places, At

\* The same cursors are open on both levels.
LEMMA SameDomain == DOMAIN Places = DOMAIN cursors
  BY DEF Places

\* Commands and answers are the same on both levels.
LEMMA SameAnswers ==
  /\ \A op, n, cl : Promise!Command(op, n, cl) = Command(op, n, cl)
  /\ \A cmd, k, r, m : Promise!Answer(cmd, k, r, m) = Answer(cmd, k, r, m)
  /\ \A cmd : Promise!Done(cmd) = Execution(cmd)
  /\ \A cmd, e : Promise!Refused(cmd, e) = Error(cmd, e)
  /\ Promise!NoClause = NoClause /\ Promise!NoName = NoName
  BY DEF Promise!Command, Command, Promise!Answer, Answer, Promise!Done, Execution,
         Promise!Refused, Error, Promise!NoClause, NoClause, Promise!NoName, NoName

\* One lemma for each command: a cursor that is not open is refused (34000) ...
LEMMA MissingPromised ==
  ASSUME NEW n, NEW cmd, Missing(n, cmd) PROVE Promise!Missing(n, cmd)
<1>1. n \notin DOMAIN Places /\ Places' = Places
  BY PlacesKept, SameDomain DEF Missing
<1>2. response' = Promise!Refused(cmd, "34000")
  BY SameAnswers DEF Missing
<1>3. QED BY <1>1, <1>2 DEF Promise!Missing, Places, At

\* ... CLOSE ...
LEMMA ClosePromised ==
  ASSUME NEW n \in Names, close_cursor(n) PROVE Promise!Close(n)
<1> DEFINE cmd == Command("CLOSE", n, NoClause)
<1>1. CASE Missing(n, cmd)
  <2>1. Promise!Missing(n, cmd) BY <1>1, MissingPromised
  <2>2. Promise!Missing(n, Promise!Command("CLOSE", n, Promise!NoClause)) BY <2>1, SameAnswers
  <2>3. QED BY <2>2, Zenon DEF Promise!Close
<1>2. CASE n \in DOMAIN cursors /\ cursors' = Retain(cursors, Names \ {n}) /\ response' = Execution(cmd)
  <2>1. n \in DOMAIN Places /\ Places' = Promise!Keep(Places, Names \ {n})
    BY <1>2, PlacesRetained, SameDomain
  <2>2. response' = Promise!Done(Promise!Command("CLOSE", n, Promise!NoClause))
    BY <1>2, SameAnswers
  <2>3. QED BY <2>1, <2>2, Zenon DEF Promise!Close, Places, At
<1>3. QED BY <1>1, <1>2 DEF close_cursor

\* ... CLOSE ALL ...
LEMMA CloseAllPromised ==
  ASSUME close_all_cursors PROVE Promise!CloseAll
<1>1. Places' = Promise!Keep(Places, {})
  BY PlacesRetained DEF close_all_cursors
<1>2. response' = Promise!Done(Promise!Command("CLOSE ALL", Promise!NoName, Promise!NoClause))
  BY SameAnswers DEF close_all_cursors
<1>3. QED BY <1>1, <1>2, Zenon DEF Promise!CloseAll, Places, At

\* ... the end of a transaction, which keeps the WITH HOLD cursors ...
LEMMA EndPromised ==
  ASSUME clear_non_hold_cursors PROVE Promise!EndTransaction
<1>1. Places' = Promise!Keep(Places, Held)
  BY PlacesRetained DEF clear_non_hold_cursors
<1>2. Held = {n \in DOMAIN Places : Places[n].hold}
  BY DEF Held, Places, At
<1>3. Places' = Promise!Keep(Places, {n \in DOMAIN Places : Places[n].hold})
  BY <1>1, <1>2
<1>4. response' = Promise!Done(Promise!Command("COMMIT", Promise!NoName, Promise!NoClause))
  BY SameAnswers DEF clear_non_hold_cursors
<1>5. QED BY <1>3, <1>4, Zenon DEF Promise!EndTransaction, Places, At

\* ... and DECLARE.
LEMMA DeclarePromised ==
  ASSUME NEW n \in Names, declare_cursor(n) PROVE Promise!Declare(n)
<1> DEFINE cmd == Command("DECLARE", n, NoClause)
           pcmd == Promise!Command("DECLARE", n, Promise!NoClause)
<1>0. pcmd = cmd /\ DOMAIN Places = DOMAIN cursors
  BY SameAnswers, SameDomain
<1>1. CASE /\ n \notin DOMAIN cursors
           /\ \E rows \in Results, scroll, hold \in BOOLEAN :
                cursors' = Insert(cursors, n, [rows |-> rows, position |-> -1, scroll |-> scroll, hold |-> hold])
           /\ response' = Execution(cmd)
  <2>1. PICK rows \in Results, scroll \in BOOLEAN, hold \in BOOLEAN :
          cursors' = Insert(cursors, n, [rows |-> rows, position |-> -1, scroll |-> scroll, hold |-> hold])
    BY <1>1
  <2>2. At([rows |-> rows, position |-> -1, scroll |-> scroll, hold |-> hold])
          = [rows |-> rows, at |-> 0, scroll |-> scroll, hold |-> hold]
    BY DEF At
  <2>3. Places' = Promise!Put(Places, n, [rows |-> rows, at |-> 0, scroll |-> scroll, hold |-> hold])
    BY <2>1, <2>2, PlacesPut
  <2>4. response' = Promise!Done(pcmd) BY <1>0, <1>1, SameAnswers
  <2>5. n \notin DOMAIN Places BY <1>0, <1>1
  <2>6. QED BY <2>3, <2>4, <2>5, Zenon DEF Promise!Declare, Places, At
<1>2. CASE UNCHANGED cursors /\ response' = Error(cmd, "0A000")
  <2>1. Places' = Places BY <1>2, PlacesKept
  <2>2. response' = Promise!Refused(pcmd, "0A000") BY <1>0, <1>2, SameAnswers
  <2>3. QED BY <2>1, <2>2, Zenon DEF Promise!Declare, Places, At
<1>3. CASE UNCHANGED cursors /\ response' = Error(cmd, "42P03") /\ n \in DOMAIN cursors
  <2>1. Places' = Places /\ n \in DOMAIN Places BY <1>0, <1>3, PlacesKept
  <2>2. response' = Promise!Refused(pcmd, "42P03") BY <1>0, <1>3, SameAnswers
  <2>3. QED BY <2>1, <2>2, Zenon DEF Promise!Declare, Places, At
<1>4. CASE UNCHANGED cursors /\ response' = Error(cmd, "XX000") /\ n \notin DOMAIN cursors
  <2>1. Places' = Places /\ n \notin DOMAIN Places BY <1>0, <1>4, PlacesKept
  <2>2. response' = Promise!Refused(pcmd, "XX000") BY <1>0, <1>4, SameAnswers
  <2>3. QED BY <2>1, <2>2, Zenon DEF Promise!Declare, Places, At
<1>5. QED BY <1>1, <1>2, <1>3, <1>4 DEF declare_cursor

\* What the promise reads off the place of an open cursor.
LEMMA OpenPlace ==
  ASSUME TypeOK, NEW n \in DOMAIN cursors
  PROVE  /\ n \in DOMAIN Places /\ Places[n] = At(cursors[n])
         /\ Places[n].scroll = cursors[n].scroll /\ Places[n].rows = cursors[n].rows
         /\ Len(cursors[n].rows) \in Nat
  BY OpenCursorIsGood, LenNat DEF Places, At, GoodCursor

\* A cursor without SCROLL refuses what the promise refuses, and stays where it is.
LEMMA RefusalPromised ==
  ASSUME TypeOK, NEW n \in Names, NEW cl \in Clauses, NEW cmd,
         NotScrollable(n, parse_cursor_direction(cl), cmd)
  PROVE  /\ n \in DOMAIN Places
         /\ ~Places[n].scroll /\ Promise!NeedsScroll(Len(Places[n].rows), cl)
         /\ Places' = Places /\ response' = Promise!Refused(cmd, "0A000")
<1>1. n \in DOMAIN cursors /\ ~cursors[n].scroll BY DEF NotScrollable
<1>2. ~Places[n].scroll /\ Promise!NeedsScroll(Len(Places[n].rows), cl)
  BY <1>1, OpenPlace, ScrollAgrees DEF NotScrollable
<1>3. Places' = Places /\ response' = Promise!Refused(cmd, "0A000")
  BY PlacesKept, SameAnswers DEF NotScrollable
<1>4. n \in DOMAIN Places BY <1>1, OpenPlace
<1>5. QED BY <1>2, <1>3, <1>4

\* A clause the cursor allows moves it to the place the promise names.
LEMMA MovePromised ==
  ASSUME NoOverflow, TypeOK, NEW n \in Names, NEW cl \in Clauses, NEW rr \in BOOLEAN,
         Allowed(n, parse_cursor_direction(cl)),
         cursors' = [cursors EXCEPT ![n].position =
                       apply(cursors[n], parse_cursor_direction(cl), rr).position]
  PROVE  /\ n \in DOMAIN Places
         /\ ~(~Places[n].scroll /\ Promise!NeedsScroll(Len(Places[n].rows), cl))
         /\ Places' = [Places EXCEPT ![n].at = Promise!Landing(Places[n], cl)]
<1>1. n \in DOMAIN cursors BY DEF Allowed
<1>2. ~(~Places[n].scroll /\ Promise!NeedsScroll(Len(Places[n].rows), cl))
  BY <1>1, OpenPlace, ScrollAgrees DEF Allowed
<1>3. apply(cursors[n], parse_cursor_direction(cl), rr).position + 1 = Promise!Landing(Places[n], cl)
  BY <1>1, OpenPlace, OpenCursorIsGood, MovesAsPromised
<1>4. Places' = [Places EXCEPT ![n].at = Promise!Landing(Places[n], cl)]
  BY <1>1, <1>3, PlacesMoved
<1>5. n \in DOMAIN Places BY <1>1, OpenPlace
<1>6. QED BY <1>2, <1>4, <1>5

\* FETCH, refused or answered, is the FETCH of the promise ...
LEMMA FetchPromised ==
  ASSUME NoOverflow, TypeOK, NEW n \in Names, NEW cl \in Clauses, fetch_cursor(n, cl)
  PROVE  Promise!Fetch(n, cl)
<1> DEFINE cmd == Command("FETCH", n, cl)
           d == parse_cursor_direction(cl)
           step == apply(cursors[n], d, TRUE)
           met == Promise!Met(Places[n], cl)
<1>0. Promise!Command("FETCH", n, cl) = cmd BY SameAnswers
<1>1. CASE Missing(n, cmd)
  <2>1. Promise!Missing(n, cmd) BY <1>1, MissingPromised
  <2>2. QED BY <1>0, <2>1, Zenon DEF Promise!Fetch
<1>2. CASE NotScrollable(n, d, cmd)
  <2>1. /\ n \in DOMAIN Places
        /\ ~Places[n].scroll /\ Promise!NeedsScroll(Len(Places[n].rows), cl)
        /\ Places' = Places /\ response' = Promise!Refused(Promise!Command("FETCH", n, cl), "0A000")
    BY <1>0, <1>2, RefusalPromised
  <2>2. QED BY <2>1, Zenon DEF Promise!Fetch, Promise!Step, Places, At
<1>3. CASE /\ Allowed(n, d)
           /\ cursors' = [cursors EXCEPT ![n].position = step.position]
           /\ response' = Answer(cmd, "rows", step.rows, Len(step.rows))
  <2>1. n \in DOMAIN cursors BY <1>3 DEF Allowed
  <2>2. step.rows = met BY <2>1, OpenPlace, OpenCursorIsGood, MovesAsPromised
  <2>3. response' = Promise!Answer(Promise!Command("FETCH", n, cl), "rows", met, Len(met))
    BY <1>0, <1>3, <2>2, SameAnswers
  <2>4. /\ n \in DOMAIN Places
        /\ ~(~Places[n].scroll /\ Promise!NeedsScroll(Len(Places[n].rows), cl))
        /\ Places' = [Places EXCEPT ![n].at = Promise!Landing(Places[n], cl)]
    BY <1>3, MovePromised
  <2>5. QED BY <2>3, <2>4, Zenon DEF Promise!Fetch, Promise!Step, Places, At
<1>4. QED BY <1>1, <1>2, <1>3 DEF fetch_cursor

\* ... and MOVE is its MOVE.
LEMMA MoveCommandPromised ==
  ASSUME NoOverflow, TypeOK, NEW n \in Names, NEW cl \in Clauses, move_cursor(n, cl)
  PROVE  Promise!Move(n, cl)
<1> DEFINE cmd == Command("MOVE", n, cl)
           d == parse_cursor_direction(cl)
           step == apply(cursors[n], d, FALSE)
           stays == cl.text \notin Promise!JumpTexts /\ Promise!Walk(Len(Places[n].rows), cl) = 0
           count == IF stays THEN 0 ELSE Len(Promise!Met(Places[n], cl))
<1>0. Promise!Command("MOVE", n, cl) = cmd BY SameAnswers
<1>1. CASE Missing(n, cmd)
  <2>1. Promise!Missing(n, cmd) BY <1>1, MissingPromised
  <2>2. QED BY <1>0, <2>1, Zenon DEF Promise!Move
<1>2. CASE NotScrollable(n, d, cmd)
  <2>1. /\ n \in DOMAIN Places
        /\ ~Places[n].scroll /\ Promise!NeedsScroll(Len(Places[n].rows), cl)
        /\ Places' = Places /\ response' = Promise!Refused(Promise!Command("MOVE", n, cl), "0A000")
    BY <1>0, <1>2, RefusalPromised
  <2>2. QED BY <2>1, Zenon DEF Promise!Move, Promise!Step, Places, At
<1>3. CASE /\ Allowed(n, d)
           /\ cursors' = [cursors EXCEPT ![n].position = step.position]
           /\ response' = Answer(cmd, "count", << >>, step.count)
  <2>1. n \in DOMAIN cursors BY <1>3 DEF Allowed
  <2>2. step.count = count BY <2>1, OpenPlace, OpenCursorIsGood, MovesAsPromised, ZenonT(60)
  <2>3. response' = Promise!Answer(Promise!Command("MOVE", n, cl), "count", << >>, count)
    BY <1>0, <1>3, <2>2, SameAnswers
  <2>4. /\ n \in DOMAIN Places
        /\ ~(~Places[n].scroll /\ Promise!NeedsScroll(Len(Places[n].rows), cl))
        /\ Places' = [Places EXCEPT ![n].at = Promise!Landing(Places[n], cl)]
    BY <1>3, MovePromised
  <2>5. QED BY <2>3, <2>4, Zenon DEF Promise!Move, Promise!Step, Places, At
<1>4. QED BY <1>1, <1>2, <1>3 DEF move_cursor

\* Every step of the registry is one of the promise, or changes nothing of it.
LEMMA StepPromised ==
  ASSUME NoOverflow, TypeOK, [Next]_vars PROVE [Promise!Next]_Promise!vars
<1>1. CASE UNCHANGED vars
  <2>1. Places' = Places /\ response' = response BY <1>1, PlacesKept DEF vars
  <2>2. QED BY <2>1, Zenon DEF Promise!vars, Places, At
<1>2. ASSUME NEW n \in Names, declare_cursor(n) PROVE Promise!Next
  BY <1>2, DeclarePromised, Zenon DEF Promise!Next
<1>3. ASSUME NEW n \in Names, close_cursor(n) PROVE Promise!Next
  BY <1>3, ClosePromised, Zenon DEF Promise!Next
<1>4. ASSUME NEW n \in Names, NEW cl \in Clauses, fetch_cursor(n, cl) PROVE Promise!Next
  BY <1>4, FetchPromised, Zenon DEF Promise!Next
<1>5. ASSUME NEW n \in Names, NEW cl \in Clauses, move_cursor(n, cl) PROVE Promise!Next
  BY <1>5, MoveCommandPromised, Zenon DEF Promise!Next
<1>6. CASE close_all_cursors BY <1>6, CloseAllPromised, Zenon DEF Promise!Next
<1>7. CASE clear_non_hold_cursors BY <1>7, EndPromised, Zenon DEF Promise!Next
<1>8. QED BY <1>1, <1>2, <1>3, <1>4, <1>5, <1>6, <1>7, Zenon DEF Next

\* For any cursors, results and operands whose sums with a position stay in the
\* width, the commands of execute_fetch_cursor, execute_move_cursor and the rest
\* of the registry do what PostgreSQL's cursor commands promise: every clause
\* ends on the place it means and is answered with the rows met on the way.
THEOREM RefinementTheorem == ASSUME NoOverflow PROVE Spec => ImplementsCursorSpec
<1>1. TypeOK /\ [Next]_vars => [Promise!Next]_Promise!vars BY StepPromised
<1>2. QED
  BY <1>1, InitPromised, TypeCorrect, PTL DEF Spec, ImplementsCursorSpec, Promise!Spec

(***************************************************************************)
(* Reading forwards.                                                       *)
(***************************************************************************)

\* The history is one of rows; ForwardReadsLoseNothing is inductive with it.
ReadingOK == reading \in [DOMAIN cursors -> [straight : BOOLEAN, got : Seq(Rows)]]

ReadInv == TypeOK /\ ReadingOK /\ ForwardReadsLoseNothing

\* The rows up to a position.
UpTo(c, position) == SubSeq(c.rows, 1, Lesser(position + 1, Len(c.rows)))

\* A walk on delivers what comes next: together with the rows before it these
\* are the rows up to where it ends.
LEMMA WalkContinues ==
  ASSUME NEW c, GoodCursor(c), NEW w \in Int, w > 0, NEW step, IsWalk(step, At(c), w, TRUE)
  PROVE  /\ step.rows \in Seq(Rows)
         /\ UpTo(c, c.position) \o step.rows = UpTo(c, step.position)
<1> DEFINE len == Len(c.rows)
           pos == c.position
           to == WalkTo(At(c), w)
           upTo == IF to > len THEN len ELSE to
           from == Lesser(pos + 1, len)
<1>1. /\ len \in Nat /\ c.rows \in Seq(Rows) /\ pos \in Int /\ pos >= -1 /\ pos <= len
      /\ At(c).rows = c.rows /\ At(c).at = pos + 1
  BY GoodPlace
<1>2. to = IF (pos + 1) + w > len + 1 THEN len + 1 ELSE (pos + 1) + w
  BY <1>1 DEF WalkTo, Promise!Clip
<1>3. step.position = to - 1 /\ step.rows = SubSeq(c.rows, pos + 2, upTo)
  BY WalkedOn DEF IsWalk
<1>4. /\ to \in Int /\ upTo \in Int /\ from \in Int /\ 0 <= from /\ from <= upTo /\ upTo <= len
      /\ Lesser((to - 1) + 1, len) = upTo
  <2> HIDE DEF to
  <2>1. QED BY <1>1, <1>2, SMTT(60) DEF Lesser
<1>5. UpTo(c, step.position) = SubSeq(c.rows, 1, upTo)
  BY <1>3, <1>4 DEF UpTo
<1>6. step.rows = SubSeq(c.rows, from + 1, upTo)
  <2>1. CASE pos < len
    <3>1. from + 1 = pos + 2 BY <1>1, <2>1 DEF Lesser
    <3>2. QED BY <1>3, <3>1
  <2>2. CASE ~(pos < len)
    <3>1. pos + 2 > upTo /\ from + 1 > upTo BY <1>1, <1>4, <2>2 DEF Lesser
    <3>2. SubSeq(c.rows, pos + 2, upTo) = << >> /\ SubSeq(c.rows, from + 1, upTo) = << >>
      <4> HIDE DEF upTo, from, pos
      <4>1. QED BY <1>1, <1>4, <3>1, EmptyPiece
    <3>3. QED BY <1>3, <3>2
  <2>3. QED BY <2>1, <2>2
<1>7. SubSeq(c.rows, 1, from) \o SubSeq(c.rows, from + 1, upTo) = SubSeq(c.rows, 1, upTo)
  <2> HIDE DEF upTo, from, to
  <2>1. 1 \in 1 .. (len + 1) /\ from \in (1 - 1) .. len /\ upTo \in from .. len BY <1>1, <1>4
  <2>2. QED BY <1>1, <2>1, ConcatAdjacentSubSeq
<1>8. step.rows \in Seq(Rows)
  <2> HIDE DEF upTo, from, to
  <2>1. \A i \in (from + 1) .. upTo : c.rows[i] \in Rows BY <1>1, <1>4
  <2>2. QED BY <1>4, <1>6, <2>1, SubSeqProperties
<1>9. QED BY <1>5, <1>6, <1>7, <1>8 DEF UpTo

\* A direction that reads on walks on.
LEMMA ReadsOnWalks ==
  ASSUME NEW c, GoodCursor(c), NEW d, GoodDirection(d), ReadsOn(d)
  PROVE  \E w \in Int : w > 0 /\ IsWalk(apply(c, d, TRUE), At(c), w, TRUE)
<1>1. CASE d.tag = "Next"
  <2>1. apply(c, d, TRUE) = forward(c, 1, TRUE) BY <1>1 DEF apply
  <2>2. IsWalk(forward(c, 1, TRUE), At(c), 1, TRUE) BY ForwardWalks
  <2>3. 1 \in Int /\ 1 > 0 OBVIOUS
  <2>4. QED BY <2>1, <2>2, <2>3, Zenon
<1>2. CASE d.tag \in {"All", "ForwardAll"}
  <2>1. apply(c, d, TRUE) = forward_all(c, TRUE) BY <1>2, ApplyAll
  <2>2. Len(c.rows) + 1 \in Int /\ Len(c.rows) + 1 > 0 BY GoodPlace
  <2>3. QED BY <2>1, <2>2, ForwardAllWalks
<1>3. CASE d.tag \in {"Forward", "Count"} /\ d.n > 0
  <2>1. d.n \in Nat /\ ~(d.n < 0) BY <1>3 DEF GoodDirection
  <2>2. apply(c, d, TRUE) = forward(c, d.n, TRUE) BY <1>3, <2>1 DEF apply
  <2>3. IsWalk(forward(c, d.n, TRUE), At(c), d.n, TRUE) BY <2>1, ForwardWalks
  <2>4. d.n \in Int /\ d.n > 0 BY <1>3, <2>1
  <2>5. QED BY <2>2, <2>3, <2>4, Zenon
<1>4. QED BY <1>1, <1>2, <1>3 DEF ReadsOn

\* A direction that rereads leaves the cursor where it is.
LEMMA RereadsStay ==
  ASSUME NEW c, NEW d, Rereads(d), NEW rr
  PROVE  apply(c, d, rr).position = c.position
<1>1. apply(c, d, rr) = forward(c, 0, rr) \/ apply(c, d, rr) = backward(c, 0, rr)
  <2>1. d.n = 0 /\ ~(0 < 0) BY DEF Rereads
  <2>2. CASE d.tag = "Forward"
    <3>1. apply(c, d, rr) = forward(c, d.n, rr) BY <2>2 DEF apply
    <3>2. QED BY <2>1, <3>1
  <2>3. CASE d.tag = "Backward"
    <3>1. apply(c, d, rr) = backward(c, d.n, rr) BY <2>3 DEF apply
    <3>2. QED BY <2>1, <3>1
  <2>4. CASE d.tag = "Count"
    <3>1. apply(c, d, rr) = IF d.n < 0 THEN backward(c, -d.n, rr) ELSE forward(c, d.n, rr) BY <2>4 DEF apply
    <3>2. QED BY <2>1, <3>1, Zenon
  <2>5. QED BY <2>2, <2>3, <2>4 DEF Rereads
<1>2. forward(c, 0, rr) = Stay(c, rr) /\ backward(c, 0, rr) = Stay(c, rr)
  BY DEF forward, backward
<1>3. QED BY <1>1, <1>2, StepFields DEF Stay

\* Closing cursors keeps the history of the others.
LEMMA ReadRetained ==
  ASSUME ReadInv, NEW S, cursors' = Retain(cursors, S), reading' = Retain(reading, S)
  PROVE  ReadInv'
<1>1. TypeOK' BY RetainGood DEF ReadInv
<1>2. ReadingOK' BY DEF ReadInv, ReadingOK, Retain
<1>3. ForwardReadsLoseNothing'
  BY DEF ReadInv, ReadingOK, Retain, ForwardReadsLoseNothing
<1>4. QED BY <1>1, <1>2, <1>3 DEF ReadInv

\* A cursor just declared has read nothing and stands before its first row.
LEMMA ReadInserted ==
  ASSUME ReadInv, NEW n \in Names, NEW rows \in Results, NEW scroll \in BOOLEAN, NEW hold \in BOOLEAN,
         cursors' = Insert(cursors, n, [rows |-> rows, position |-> -1, scroll |-> scroll, hold |-> hold]),
         reading' = Insert(reading, n, Fresh)
  PROVE  ReadInv'
<1> DEFINE c == [rows |-> rows, position |-> -1, scroll |-> scroll, hold |-> hold]
<1>0. c \in Cursor /\ rows \in Seq(Rows) BY ResultsAssumption DEF Cursor
<1>1. TypeOK'
  <2>1. GoodCursor(c) BY <1>0, LenNat DEF GoodCursor
  <2>2. QED BY <2>1, InsertGood DEF ReadInv
<1>2. ReadingOK'
  <2>1. Fresh \in [straight : BOOLEAN, got : Seq(Rows)] BY DEF Fresh
  <2>2. QED BY <2>1 DEF ReadInv, ReadingOK, Insert, TypeOK
<1>3. UpTo(c, -1) = << >>
  <2>1. Lesser(-1 + 1, Len(rows)) = 0 BY <1>0 DEF Lesser
  <2>2. SubSeq(rows, 1, 0) = << >> BY <1>0, EmptyPiece
  <2>3. QED BY <2>1, <2>2 DEF UpTo
<1>4. ForwardReadsLoseNothing'
  <2> SUFFICES ASSUME NEW m \in DOMAIN cursors', reading'[m].straight
               PROVE  reading'[m].got = UpTo(cursors'[m], cursors'[m].position)
    BY DEF ForwardReadsLoseNothing, UpTo
  <2>1. CASE m = n
    <3>1. cursors'[m] = c /\ reading'[m] = Fresh BY <2>1 DEF Insert, ReadInv, TypeOK
    <3>2. QED BY <1>3, <3>1 DEF Fresh
  <2>2. CASE m # n
    <3>1. m \in DOMAIN cursors /\ cursors'[m] = cursors[m] /\ reading'[m] = reading[m]
      BY <2>2 DEF Insert, ReadInv, TypeOK
    <3>2. QED BY <3>1 DEF ReadInv, ForwardReadsLoseNothing, UpTo
  <2>3. QED BY <2>1, <2>2
<1>5. QED BY <1>1, <1>2, <1>4 DEF ReadInv

\* A FETCH or MOVE of one cursor, with what it does to its history.
LEMMA ReadMoved ==
  ASSUME ReadInv, NEW n \in DOMAIN cursors, NEW q \in -1 .. Len(cursors[n].rows),
         cursors' = [cursors EXCEPT ![n].position = q],
         NEW h \in [straight : BOOLEAN, got : Seq(Rows)],
         h.straight => h.got = UpTo(cursors[n], q),
         reading' = [reading EXCEPT ![n] = h]
  PROVE  ReadInv'
<1>0. DOMAIN reading = DOMAIN cursors BY DEF ReadInv, TypeOK
<1>1. TypeOK'
  <2>1. DOMAIN reading' = DOMAIN reading BY <1>0
  <2>2. QED BY <2>1, PositionGood DEF ReadInv
<1>2. ReadingOK' BY DEF ReadInv, ReadingOK
<1>3. ForwardReadsLoseNothing'
  <2> SUFFICES ASSUME NEW m \in DOMAIN cursors', reading'[m].straight
               PROVE  reading'[m].got = UpTo(cursors'[m], cursors'[m].position)
    BY DEF ForwardReadsLoseNothing, UpTo
  <2>0. m \in DOMAIN cursors /\ m \in DOMAIN reading BY <1>0
  <2>1. CASE m = n
    <3>1. cursors'[m].rows = cursors[n].rows /\ cursors'[m].position = q /\ reading'[m] = h
      BY <2>0, <2>1 DEF ReadInv, TypeOK, Cursor
    <3>2. UpTo(cursors'[m], cursors'[m].position) = UpTo(cursors[n], q) BY <3>1 DEF UpTo
    <3>3. QED BY <3>1, <3>2
  <2>2. CASE m # n
    <3>1. cursors'[m] = cursors[m] /\ reading'[m] = reading[m]
      BY <2>0, <2>2 DEF ReadInv, TypeOK, Cursor
    <3>2. QED BY <2>0, <3>1 DEF ReadInv, ForwardReadsLoseNothing, UpTo
  <2>3. QED BY <2>1, <2>2
<1>4. QED BY <1>1, <1>2, <1>3 DEF ReadInv

\* FETCH adds the rows that come next, rereads, or ends the straight reading.
LEMMA ReadFetched ==
  ASSUME ReadInv, NEW n \in Names, NEW cl \in Clauses, fetch_cursor(n, cl)
  PROVE  ReadInv'
<1> DEFINE d == parse_cursor_direction(cl)
           c == cursors[n]
           step == apply(c, d, TRUE)
<1>1. CASE UNCHANGED <<cursors, reading>>
  BY <1>1 DEF ReadInv, TypeOK, ReadingOK, ForwardReadsLoseNothing
<1>2. CASE /\ Allowed(n, d)
           /\ cursors' = [cursors EXCEPT ![n].position = step.position]
           /\ reading' =
                IF Rereads(d) \/ ~reading[n].straight THEN reading
                ELSE [reading EXCEPT ![n] =
                        [straight |-> ReadsOn(d),
                         got |-> IF ReadsOn(d) THEN @.got \o step.rows ELSE << >>]]
  <2>1. n \in DOMAIN cursors /\ TypeOK BY <1>2 DEF Allowed, ReadInv
  <2>2. GoodCursor(c) /\ GoodDirection(d) BY <2>1, OpenCursorIsGood, ParsedDirection
  <2>3. step.position \in -1 .. Len(c.rows) BY <2>2, ApplyLands
  <2>4. /\ reading[n] \in [straight : BOOLEAN, got : Seq(Rows)] /\ n \in DOMAIN reading
        /\ reading = [reading EXCEPT ![n] = reading[n]]
        /\ reading[n].straight => reading[n].got = UpTo(c, c.position)
    BY <2>1 DEF ReadInv, ReadingOK, ForwardReadsLoseNothing, UpTo
  <2>5. CASE Rereads(d) \/ ~reading[n].straight
    <3>1. reading' = [reading EXCEPT ![n] = reading[n]] BY <1>2, <2>4, <2>5
    <3>2. Rereads(d) => step.position = c.position BY RereadsStay
    <3> HIDE DEF step, c
    <3>3. reading[n].straight => reading[n].got = UpTo(c, step.position)
      BY <2>4, <2>5, <3>2, Zenon
    <3> USE DEF c
    <3>4. QED BY <1>2, <2>1, <2>3, <2>4, <3>1, <3>3, ReadMoved
  <2>6. CASE reading[n].straight /\ ~Rereads(d) /\ ReadsOn(d)
    <3>1. PICK w \in Int : w > 0 /\ IsWalk(step, At(c), w, TRUE) BY <2>2, <2>6, ReadsOnWalks
    <3>2. step.rows \in Seq(Rows) /\ UpTo(c, c.position) \o step.rows = UpTo(c, step.position)
      BY <2>2, <3>1, WalkContinues
    <3> DEFINE h == [straight |-> TRUE, got |-> reading[n].got \o step.rows]
    <3>3. reading[n].got \o step.rows \in Seq(Rows)
      <4>1. reading[n].got \in Seq(Rows) BY <2>4
      <4> HIDE DEF step, h
      <4>2. QED BY <3>2, <4>1, ConcatProperties
    <3>4. h \in [straight : BOOLEAN, got : Seq(Rows)] BY <3>3
    <3>5. h.straight => h.got = UpTo(c, step.position) BY <2>4, <2>6, <3>2
    <3>6. reading' = [reading EXCEPT ![n] = h]
      BY <1>2, <2>4, <2>6
    <3> HIDE DEF h, step
    <3>7. QED BY <1>2, <2>1, <2>3, <3>4, <3>5, <3>6, ReadMoved
  <2>7. CASE reading[n].straight /\ ~Rereads(d) /\ ~ReadsOn(d)
    <3> DEFINE h == [straight |-> FALSE, got |-> << >>]
    <3>1. h \in [straight : BOOLEAN, got : Seq(Rows)] /\ ~h.straight OBVIOUS
    <3>2. reading' = [reading EXCEPT ![n] = h]
      <4> HIDE DEF step
      <4>1. ReadsOn(d) = FALSE BY <2>7 DEF ReadsOn
      <4> HIDE DEF d
      <4>2. reading' = [reading EXCEPT ![n] =
                          [straight |-> ReadsOn(d),
                           got |-> IF ReadsOn(d) THEN @.got \o step.rows ELSE << >>]]
        BY <1>2, <2>7, Zenon
      <4>3. QED BY <4>1, <4>2, Zenon
    <3> HIDE DEF h, step
    <3>3. QED BY <1>2, <2>1, <2>3, <3>1, <3>2, ReadMoved
  <2>8. QED BY <2>5, <2>6, <2>7
<1>3. QED BY <1>1, <1>2 DEF fetch_cursor, Missing, NotScrollable

\* MOVE skips rows: unless it moves nowhere, the reading is no longer straight.
LEMMA ReadPassed ==
  ASSUME ReadInv, NEW n \in Names, NEW cl \in Clauses, move_cursor(n, cl)
  PROVE  ReadInv'
<1> DEFINE d == parse_cursor_direction(cl)
           c == cursors[n]
           step == apply(c, d, FALSE)
           h == [straight |-> FALSE, got |-> << >>]
<1>1. CASE UNCHANGED <<cursors, reading>>
  BY <1>1 DEF ReadInv, TypeOK, ReadingOK, ForwardReadsLoseNothing
<1>2. CASE /\ Allowed(n, d)
           /\ cursors' = [cursors EXCEPT ![n].position = step.position]
           /\ reading' = IF Rereads(d) THEN reading ELSE [reading EXCEPT ![n] = h]
  <2>1. n \in DOMAIN cursors /\ TypeOK BY <1>2 DEF Allowed, ReadInv
  <2>2. GoodCursor(c) /\ GoodDirection(d) BY <2>1, OpenCursorIsGood, ParsedDirection
  <2>3. step.position \in -1 .. Len(c.rows) BY <2>2, ApplyLands
  <2>4. CASE Rereads(d)
    <3>1. /\ reading[n] \in [straight : BOOLEAN, got : Seq(Rows)]
          /\ reading' = [reading EXCEPT ![n] = reading[n]]
          /\ reading[n].straight => reading[n].got = UpTo(c, c.position)
      BY <1>2, <2>1, <2>4 DEF ReadInv, ReadingOK, ForwardReadsLoseNothing, UpTo
    <3>2. step.position = c.position BY <2>4, RereadsStay
    <3>3. QED BY <1>2, <2>1, <2>3, <3>1, <3>2, ReadMoved
  <2>5. CASE ~Rereads(d)
    <3>1. h \in [straight : BOOLEAN, got : Seq(Rows)] /\ ~h.straight OBVIOUS
    <3>2. reading' = [reading EXCEPT ![n] = h] BY <1>2, <2>5
    <3> HIDE DEF h, step
    <3>3. QED BY <1>2, <2>1, <2>3, <3>1, <3>2, ReadMoved
  <2>6. QED BY <2>4, <2>5
<1>3. QED BY <1>1, <1>2 DEF move_cursor, Missing, NotScrollable

\* Every step keeps the history in agreement with the position.
LEMMA ReadStep == ReadInv /\ [Next]_vars => ReadInv'
<1> SUFFICES ASSUME ReadInv, [Next]_vars PROVE ReadInv' OBVIOUS
<1>1. ASSUME UNCHANGED <<cursors, reading>> PROVE ReadInv'
  BY <1>1 DEF ReadInv, TypeOK, ReadingOK, ForwardReadsLoseNothing
<1>2. ASSUME NEW n \in Names, declare_cursor(n) PROVE ReadInv'
  BY <1>1, <1>2, ReadInserted DEF declare_cursor
<1>3. ASSUME NEW n \in Names, close_cursor(n) PROVE ReadInv'
  BY <1>1, <1>3, ReadRetained DEF close_cursor, Missing
<1>4. ASSUME NEW n \in Names, NEW cl \in Clauses, fetch_cursor(n, cl) PROVE ReadInv'
  BY <1>4, ReadFetched
<1>5. ASSUME NEW n \in Names, NEW cl \in Clauses, move_cursor(n, cl) PROVE ReadInv'
  BY <1>5, ReadPassed
<1>6. CASE close_all_cursors BY <1>6, ReadRetained DEF close_all_cursors
<1>7. CASE clear_non_hold_cursors BY <1>7, ReadRetained DEF clear_non_hold_cursors
<1>8. CASE UNCHANGED vars BY <1>1, <1>8 DEF vars
<1>9. QED BY <1>2, <1>3, <1>4, <1>5, <1>6, <1>7, <1>8 DEF Next

\* However a client cuts its reading into FETCH commands, with whatever counts, a
\* cursor it only reads forwards has delivered the rows up to its position, each
\* once and in order (GatewayCursor::forward, forward_all).
THEOREM ForwardTheorem == Spec => []ForwardReadsLoseNothing
<1>1. Init => ReadInv
  BY TypeInit DEF Init, ReadInv, ReadingOK, ForwardReadsLoseNothing
<1>2. ReadInv => ForwardReadsLoseNothing BY DEF ReadInv
<1>3. QED BY <1>1, <1>2, ReadStep, PTL DEF Spec
=============================================================================
