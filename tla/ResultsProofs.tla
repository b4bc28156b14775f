---------------------------- MODULE ResultsProofs ----------------------------
(***************************************************************************)
(* Theorems about Results for any statements, answers, sizes of chunks and *)
(* ranges that StatementsAssumption allows.                                *)
(*                                                                         *)
(* Two invariants carry them.  SliceInv is the walk over the batches: at   *)
(* each turn the slices are the rows of the range in the batches passed,   *)
(* and while they are reversed, the reversed ones and those that wait are  *)
(* the range backwards.  ResultInv says which answer, which response and   *)
(* which message there is at each point of a statement's way, as functions *)
(* of the statement and of the slices.  The rest is about those functions: *)
(* what is sent of the rows asked for is a spelling of each of their       *)
(* cells, and what a column's type becomes is a table.                     *)
(***************************************************************************)
EXTENDS Results, SequenceFolds

(***************************************************************************)
(* total_rows, without its fold.                                           *)
(***************************************************************************)

\* What total_rows computes, turn by turn.
Totals(it, bs) ==
  it = [x \in SUBSET (DOMAIN bs) |-> IF x = {} THEN 0 ELSE it[x \ {Max(x)}] + Len(bs[Max(x)])]

\* The turns exist.
LEMMA TotalsExists ==
  ASSUME NEW X, NEW bs \in Seq(Seq(X))
  PROVE  \E it : Totals(it, bs)
<1> DEFINE n == Len(bs)
           step == [p \in Nat \X Int |-> IF p[2] \in 1 .. n THEN p[1] + Len(bs[p[2]]) ELSE p[1]]
<1>0. n \in Nat /\ DOMAIN bs = 1 .. n /\ \A i \in 1 .. n : Len(bs[i]) \in Nat OBVIOUS
<1> HIDE DEF n
<1>1. step \in [Nat \X Int -> Nat]
  <2> SUFFICES ASSUME NEW p \in Nat \X Int
               PROVE  (IF p[2] \in 1 .. n THEN p[1] + Len(bs[p[2]]) ELSE p[1]) \in Nat
    OBVIOUS
  <2>1. QED BY <1>0
<1>2. PICK it \in [SUBSET (1 .. n) -> Nat] : Folds(it, n, 0, step)
  <2> HIDE DEF step
  <2>1. QED BY <1>0, <1>1, FoldExists
<1>3. ASSUME NEW x \in SUBSET (1 .. n)
      PROVE  it[x] = IF x = {} THEN 0 ELSE it[x \ {Max(x)}] + Len(bs[Max(x)])
  <2>1. it[x] = IF x = {} THEN 0 ELSE step[<<it[x \ {Max(x)}], Max(x)>>]
    BY <1>2, Zenon DEF Folds
  <2>2. CASE x # {}
    <3>1. Max(x) \in 1 .. n BY <1>0, <2>2, MaxInSet
    <3>2. it[x \ {Max(x)}] \in Nat BY <1>2
    <3>3. QED BY <2>1, <2>2, <3>1, <3>2
  <2>3. QED BY <2>1, <2>2
<1>4. Totals(it, bs) BY <1>0, <1>2, <1>3 DEF Totals
<1>5. QED BY <1>4

\* The turns for two lists that agree on their first k members agree.
LEMMA TotalsAgree ==
  ASSUME NEW X, NEW s \in Seq(Seq(X)), NEW t \in Seq(Seq(X)), NEW k \in Nat,
         k <= Len(s), k <= Len(t), \A i \in 1 .. k : s[i] = t[i],
         NEW g, NEW h, Totals(g, s), Totals(h, t)
  PROVE  g[1 .. k] = h[1 .. k] /\ g[1 .. k] \in Nat
<1> DEFINE S == {j \in Nat : j <= k => g[1 .. j] = h[1 .. j] /\ g[1 .. j] \in Nat}
<1>0. /\ \A x \in SUBSET (DOMAIN s) : g[x] = IF x = {} THEN 0 ELSE g[x \ {Max(x)}] + Len(s[Max(x)])
      /\ \A x \in SUBSET (DOMAIN t) : h[x] = IF x = {} THEN 0 ELSE h[x \ {Max(x)}] + Len(t[Max(x)])
  BY Zenon DEF Totals
<1>1. DOMAIN s = 1 .. Len(s) /\ DOMAIN t = 1 .. Len(t) OBVIOUS
<1>2. 0 \in S
  <2>1. 1 .. 0 = {} OBVIOUS
  <2>2. g[{}] = 0 /\ h[{}] = 0 BY <1>0
  <2>3. QED BY <2>1, <2>2
<1>3. ASSUME NEW j \in Nat, j \in S PROVE j + 1 \in S
  <2> DEFINE m == j + 1
             x == 1 .. m
  <2> SUFFICES ASSUME m <= k PROVE g[x] = h[x] /\ g[x] \in Nat OBVIOUS
  <2>0. Len(s) \in Nat /\ Len(t) \in Nat OBVIOUS
  <2>1. /\ j <= k /\ m \in Nat /\ x \in SUBSET (1 .. m) /\ m \in x /\ x # {} /\ x \ {m} = 1 .. j
        /\ x \in SUBSET (1 .. Len(s)) /\ x \in SUBSET (1 .. Len(t)) /\ s[m] = t[m] /\ Len(s[m]) \in Nat
    <3>0. j <= k /\ m \in Nat /\ m \in 1 .. k OBVIOUS
    <3>7. m \in x BY <3>0
    <3>1. j <= k /\ m \in Nat /\ m \in x /\ x # {} /\ m \in 1 .. k BY <3>0, <3>7
    <3>2. x \in SUBSET (1 .. m) /\ x \ {m} = 1 .. j OBVIOUS
    <3>3. x \in SUBSET (1 .. Len(s)) /\ x \in SUBSET (1 .. Len(t)) BY <2>0
    <3>4. s[m] = t[m] /\ m \in 1 .. Len(s) BY <2>0, <3>1
    <3> HIDE DEF m
    <3>5. s[m] \in Seq(X) BY <3>4
    <3>6. QED BY <3>1, <3>2, <3>3, <3>4, <3>5, SMTT(60)
  <2> HIDE DEF m, x
  <2>2. Max(x) = m BY <2>1, MaxIsLast
  <2>3. g[1 .. j] = h[1 .. j] /\ g[1 .. j] \in Nat BY <1>3, <2>1
  <2>4. g[x] = g[1 .. j] + Len(s[m]) /\ h[x] = h[1 .. j] + Len(t[m]) BY <1>0, <1>1, <2>1, <2>2
  <2>5. QED BY <2>1, <2>3, <2>4, SMTT(60)
<1> HIDE DEF S
<1>4. Nat \subseteq S BY <1>2, <1>3, SetInduction
<1>5. k \in S BY <1>4
<1>6. QED BY <1>5 DEF S

\* total_rows is the last of the turns.
LEMMA TotalTurns ==
  ASSUME NEW X, NEW s \in Seq(Seq(X))
  PROVE  \E g : Totals(g, s) /\ total_rows(s) = g[1 .. Len(s)]
<1> DEFINE g == CHOOSE h : Totals(h, s)
<1>1. Totals(g, s) BY TotalsExists
<1>2. total_rows(s) = g[DOMAIN s] BY DEF total_rows, FoldLeft, MapThenFoldSet, Totals
<1>3. DOMAIN s = 1 .. Len(s) OBVIOUS
<1>4. QED BY <1>1, <1>2, <1>3

\* No batches have no rows.
LEMMA TotalEmpty == total_rows(<< >>) = 0
<1>0. << >> \in Seq(Seq({})) /\ Len(<< >>) = 0 BY EmptySeq
<1>1. PICK g : Totals(g, << >>) /\ total_rows(<< >>) = g[1 .. 0] BY <1>0, TotalTurns
<1>2. g[{}] = 0 BY <1>1, Zenon DEF Totals
<1>3. 1 .. 0 = {} OBVIOUS
<1>4. QED BY <1>1, <1>2, <1>3

\* A batch more adds its rows.
LEMMA TotalAppend ==
  ASSUME NEW X, NEW s \in Seq(Seq(X)), NEW b \in Seq(X)
  PROVE  total_rows(Append(s, b)) = total_rows(s) + Len(b)
<1> DEFINE t == Append(s, b)
           n == Len(s)
           m == n + 1
           x == 1 .. m
<1>1. t \in Seq(Seq(X)) /\ Len(t) = m /\ t[m] = b /\ DOMAIN t = x
      /\ n \in Nat /\ n <= Len(s) /\ n <= Len(t) /\ \A i \in 1 .. n : s[i] = t[i]
  OBVIOUS
<1>2. m \in Nat /\ x \in SUBSET (1 .. m) /\ m \in x /\ x # {} /\ x \ {m} = 1 .. n OBVIOUS
<1> HIDE DEF t, x, m, n
<1>3. PICK g : Totals(g, s) /\ total_rows(s) = g[1 .. n] BY TotalTurns DEF n
<1>4. PICK h : Totals(h, t) /\ total_rows(t) = h[x] BY <1>1, TotalTurns DEF x
<1>5. Max(x) = m BY <1>2, MaxIsLast
<1>6. h[x] = h[1 .. n] + Len(t[m])
  <2>1. \A y \in SUBSET (DOMAIN t) : h[y] = IF y = {} THEN 0 ELSE h[y \ {Max(y)}] + Len(t[Max(y)])
    BY <1>4, Zenon DEF Totals
  <2>2. QED BY <1>1, <1>2, <1>5, <2>1
<1>7. g[1 .. n] = h[1 .. n]
  <2>1. Totals(g, s) /\ Totals(h, t) /\ t \in Seq(Seq(X)) BY <1>1, <1>3, <1>4
  <2>2. n \in Nat /\ n <= Len(s) /\ n <= Len(t) /\ \A i \in 1 .. n : s[i] = t[i] BY <1>1
  <2>3. g[1 .. n] = h[1 .. n] /\ g[1 .. n] \in Nat BY <2>1, <2>2, TotalsAgree
  <2>4. QED BY <2>3
<1>8. QED BY <1>1, <1>3, <1>4, <1>6, <1>7 DEF t

\* It is the number of rows of all the batches.
LEMMA TotalIsLength ==
  ASSUME NEW X, NEW s \in Seq(Seq(X))
  PROVE  total_rows(s) = Len(FlattenSeq(s))
<1> DEFINE P == {r \in Seq(Seq(X)) : total_rows(r) = Len(FlattenSeq(r))}
<1>1. << >> \in P
  <2>1. << >> \in Seq(Seq(X)) BY EmptySeq
  <2>2. total_rows(<< >>) = 0 /\ Len(FlattenSeq(<< >>)) = 0 BY TotalEmpty, FlattenEmpty, EmptySeq
  <2>3. QED BY <2>1, <2>2
<1>2. ASSUME NEW r \in Seq(Seq(X)), NEW b \in Seq(X), r \in P PROVE Append(r, b) \in P
  <2>1. Append(r, b) \in Seq(Seq(X)) OBVIOUS
  <2>2. total_rows(Append(r, b)) = total_rows(r) + Len(b) BY TotalAppend
  <2>3. FlattenSeq(Append(r, b)) = FlattenSeq(r) \o b /\ FlattenSeq(r) \in Seq(X) BY FlattenAppend, FlattenType
  <2>4. Len(FlattenSeq(Append(r, b))) = Len(FlattenSeq(r)) + Len(b) BY <2>3, ConcatProperties
  <2>5. total_rows(r) = Len(FlattenSeq(r)) BY <1>2
  <2>6. QED BY <2>1, <2>2, <2>4, <2>5
<1> HIDE DEF P
<1>3. Seq(Seq(X)) \subseteq P BY <1>1, <1>2, SeqInduction
<1>4. QED BY <1>3 DEF P

\* A range that ends in the list.
LEMMA SliceWithin ==
  ASSUME NEW X, NEW rows \in Seq(X), NEW from \in Nat, NEW to \in Nat, to <= Len(rows)
  PROVE  typed_slice(rows, from, to) = SubSeq(rows, from + 1, to)
<1>1. Len(rows) \in Nat OBVIOUS
<1>2. CASE from >= to
  <2>1. from + 1 \in Int /\ to \in Int /\ to < from + 1 BY <1>2
  <2>2. SubSeq(rows, from + 1, to) = << >> BY <2>1, SubSeqEmpty
  <2>3. QED BY <1>2, <2>2 DEF typed_slice
<1>3. CASE ~(from >= to)
  <2>1. ~(from >= Len(rows)) /\ (to < Len(rows) \/ to = Len(rows)) BY <1>1, <1>3
  <2>2. QED BY <1>3, <2>1 DEF typed_slice
<1>4. QED BY <1>2, <1>3

\* A part of a batch is a part of the rows the batch stands in.
LEMMA CutIsPart ==
  ASSUME NEW X, NEW rows \in Seq(X), NEW b \in Seq(X), NEW o \in Nat, o + Len(b) <= Len(rows),
         \A j \in 1 .. Len(b) : rows[o + j] = b[j],
         NEW m \in Nat, NEW n \in Nat, n <= Len(b)
  PROVE  SubSeq(b, m + 1, n) = SubSeq(rows, o + m + 1, o + n)
<1>1. Len(rows) \in Nat /\ Len(b) \in Nat OBVIOUS
<1>2. CASE n < m + 1
  <2>1. o + n < o + m + 1 BY <1>2
  <2>2. SubSeq(b, m + 1, n) = << >> BY <1>2, SubSeqEmpty
  <2>3. SubSeq(rows, o + m + 1, o + n) = << >> BY <2>1, SubSeqEmpty
  <2>4. QED BY <2>2, <2>3
<1>3. CASE ~(n < m + 1)
  <2> DEFINE p == SubSeq(b, m + 1, n)
             q == SubSeq(rows, o + m + 1, o + n)
  <2>1. p \in Seq(X) /\ Len(p) = n - m /\ \A i \in 1 .. (n - m) : p[i] = b[m + i] 
    BY <1>1, <1>3
  <2>2. q \in Seq(X) /\ Len(q) = n - m /\ \A i \in 1 .. (n - m) : q[i] = rows[o + (m + i)]
    BY <1>1, <1>3
  <2>3. \A i \in 1 .. (n - m) : m + i \in 1 .. Len(b) BY <1>1, <1>3
  <2>4. \A i \in 1 .. (n - m) : p[i] = q[i] BY <2>1, <2>2, <2>3
  <2> HIDE DEF p, q
  <2>5. p = q BY <2>1, <2>2, <2>4, SeqEqual
  <2>6. QED BY <2>5 DEF p, q
<1>4. QED BY <1>2, <1>3

\* The end of a range that lies in the first n rows.
Upto(to, n) == IF to < n THEN to ELSE n

\* The range within the rows up to a batch, and within the batch, make the range
\* within the rows up to the end of the batch.
LEMMA SliceStep ==
  ASSUME NEW X, NEW rows \in Seq(X), NEW b \in Seq(X), NEW o \in Nat, o + Len(b) <= Len(rows),
         \A j \in 1 .. Len(b) : rows[o + j] = b[j],
         NEW from \in Nat, NEW to \in Nat, from < to
  PROVE  typed_slice(rows, from, Upto(to, o + Len(b))) =
           typed_slice(rows, from, Upto(to, o)) \o
             (IF o + Len(b) <= from THEN << >>
              ELSE SubSeq(b, saturating_sub(from, o) + 1, IF to - o < Len(b) THEN to - o ELSE Len(b)))
<1> DEFINE lo == Upto(to, o)
           hi == Upto(to, o + Len(b))
           m  == saturating_sub(from, o)
           n  == IF to - o < Len(b) THEN to - o ELSE Len(b)
           before == typed_slice(rows, from, lo)
<1>0. Len(rows) \in Nat /\ Len(b) \in Nat OBVIOUS
<1>1. lo \in Nat /\ hi \in Nat /\ lo <= Len(rows) /\ hi <= Len(rows) /\ lo <= hi /\ m \in Nat /\ n \in Int /\ n <= Len(b)
  BY <1>0 DEF Upto, saturating_sub
<1>2. before = SubSeq(rows, from + 1, lo) BY <1>1, SliceWithin
<1>3. typed_slice(rows, from, hi) = SubSeq(rows, from + 1, hi) BY <1>1, SliceWithin
<1>4. before \in Seq(X)
  <2>1. \A i \in (from + 1) .. lo : rows[i] \in X BY <1>0, <1>1
  <2>2. QED BY <1>1, <1>2, <2>1, SubSeqProperties
<1>5. CASE o + Len(b) <= from
  <2>1. lo < from + 1 /\ hi < from + 1 BY <1>0, <1>5 DEF Upto
  <2>2. before = << >> /\ SubSeq(rows, from + 1, hi) = << >>
    <3> HIDE DEF lo, hi
    <3>1. SubSeq(rows, from + 1, lo) = << >> BY <1>1, <2>1, SubSeqEmpty
    <3>2. SubSeq(rows, from + 1, hi) = << >> BY <1>1, <2>1, SubSeqEmpty
    <3>3. QED BY <1>2, <3>1, <3>2
  <2>3. << >> \o << >> = << >> OBVIOUS
  <2>4. QED BY <1>3, <1>5, <2>2, <2>3
<1>6. CASE ~(o + Len(b) <= from)
  <2>1. CASE to <= o
    <3>1. n < m + 1 /\ lo = hi BY <1>0, <2>1 DEF Upto, saturating_sub
    <3>2. SubSeq(b, m + 1, n) = << >> BY <1>1, <3>1, SubSeqEmpty
    <3>3. before \o << >> = before BY <1>4, ConcatEmptySeq
    <3>4. before = typed_slice(rows, from, hi) BY <3>1
    <3>5. QED BY <1>6, <3>2, <3>3, <3>4
  <2>2. CASE ~(to <= o)
    <3>1. n \in Nat /\ o + n = hi /\ lo = o BY <1>0, <2>2 DEF Upto
    <3>2. SubSeq(b, m + 1, n) = SubSeq(rows, o + m + 1, hi)
      <4> HIDE DEF m, n, hi
      <4>1. SubSeq(b, m + 1, n) = SubSeq(rows, o + m + 1, o + n) BY <1>0, <1>1, <3>1, CutIsPart
      <4>2. QED BY <3>1, <4>1
    <3>3. CASE from >= o
      <4>1. o + m + 1 = from + 1 /\ lo < from + 1 BY <3>1, <3>3 DEF saturating_sub
      <4>2. before = << >> BY <1>1, <1>2, <4>1, SubSeqEmpty, SMTT(60)
      <4>3. SubSeq(b, m + 1, n) = SubSeq(rows, from + 1, hi) BY <3>2, <4>1
      <4>4. SubSeq(rows, from + 1, hi) \in Seq(X)
        <5>1. \A i \in (from + 1) .. hi : rows[i] \in X BY <1>0, <1>1
        <5>2. QED BY <1>1, <5>1, SubSeqProperties
      <4>5. << >> \o SubSeq(rows, from + 1, hi) = SubSeq(rows, from + 1, hi) BY <4>4, ConcatEmptySeq
      <4>6. QED BY <1>3, <1>6, <4>2, <4>3, <4>5
    <3>4. CASE ~(from >= o)
      <4>1. m = 0 /\ o + m + 1 = o + 1 /\ from + 1 \in 1 .. Len(rows) + 1
            /\ o \in (from + 1) - 1 .. Len(rows) /\ hi \in o .. Len(rows)
        BY <1>0, <1>1, <3>1, <3>4 DEF saturating_sub
      <4>2. SubSeq(rows, from + 1, o) \o SubSeq(rows, o + 1, hi) = SubSeq(rows, from + 1, hi)
        <5> HIDE DEF hi, m, n, lo, before
        <5>1. QED BY <4>1, ConcatAdjacentSubSeq
      <4>3. before = SubSeq(rows, from + 1, o) BY <1>2, <3>1
      <4>4. SubSeq(b, m + 1, n) = SubSeq(rows, o + 1, hi) BY <3>2, <4>1
      <4>5. QED BY <1>3, <1>6, <4>2, <4>3, <4>4
    <3>5. QED BY <3>3, <3>4
  <2>3. QED BY <2>1, <2>2
<1>7. QED BY <1>5, <1>6

\* The range within all the rows.
LEMMA SliceAll ==
  ASSUME NEW X, NEW rows \in Seq(X), NEW from \in Nat, NEW to \in Nat, NEW o \in Nat,
         from >= to \/ o >= to \/ o = Len(rows)
  PROVE  typed_slice(rows, from, Upto(to, o)) = typed_slice(rows, from, to)
<1>1. Len(rows) \in Nat OBVIOUS
<1>2. CASE from >= to BY <1>2 DEF typed_slice, Upto
<1>3. CASE o >= to
  <2>1. Upto(to, o) = to BY <1>3 DEF Upto
  <2>2. QED BY <2>1
<1>4. CASE o = Len(rows) /\ ~(to < o) /\ ~(from >= to) BY <1>1, <1>4 DEF typed_slice, Upto
<1>5. QED BY <1>1, <1>2, <1>3, <1>4

(***************************************************************************)
(* The walk over the batches.                                              *)
(***************************************************************************)

\* What has been found once the walk is over.
SliceFound ==
  IF backward
  THEN FlattenSeq(reversed) = typed_reverse_slice(FlattenSeq(batches), start, end)
  ELSE FlattenSeq(out) = typed_slice(FlattenSeq(batches), start, end)

\* The rows already reversed and those that still wait, last ones first, are the
\* range backwards.
ReverseInvariant ==
  pc = "reverse" =>
    /\ backward
    /\ FlattenSeq(reversed) \o Reverse(FlattenSeq(out))
         = typed_reverse_slice(FlattenSeq(batches), start, end)

SliceLists ==
  /\ batches \in Seq(Seq(RowsOf(stmt)))
  /\ out \in Seq(Seq(RowsOf(stmt)))
  /\ reversed \in Seq(Seq(RowsOf(stmt)))

SliceInv ==
  /\ stmt \in Statements
  /\ start = stmt.from /\ end = stmt.to /\ backward = stmt.backward
  /\ SliceLists
  /\ next \in 1 .. Len(batches) + 1
  /\ offset = total_rows(SubSeq(batches, 1, next - 1))
  /\ pc \in {"execute", "slice", "reverse", "done", "send", "sent"}
  /\ pc = "execute" => InitSlice /\ batches = << >>
  /\ pc = "slice" => reversed = << >>
  /\ LoopInvariant
  /\ ReverseInvariant
  /\ pc \in {"done", "send", "sent"} => SliceFound

\* The batches of a cursor: Exasol's chunks, or one empty batch for none at all.
LEMMA BatchesOfAnswer ==
  ASSUME NEW st \in Statements, st.how # "write"
  PROVE  [i \in DOMAIN arrow_execute(st).batches |-> arrow_execute(st).batches[i].rows]
           = IF st.chunks = << >> /\ st.schema THEN << << >> >> ELSE st.chunks
<1> DEFINE fields == [i \in DOMAIN st.columns |-> st.columns[i].field]
           bs == [i \in DOMAIN st.chunks |-> [schema |-> fields, rows |-> st.chunks[i]]]
           got == arrow_execute(st).batches
<1>1. st.chunks \in Seq(Seq(RowsOf(st))) BY StatementsAssumption
<1>2. got = backfill_schema_when_empty(bs, IF st.schema THEN {fields} ELSE {}) BY DEF arrow_execute
<1>3. bs = << >> <=> st.chunks = << >>
  <2>1. DOMAIN st.chunks = 1 .. Len(st.chunks) /\ Len(st.chunks) \in Nat BY <1>1
  <2>2. bs = << >> => st.chunks = << >>
    <3> SUFFICES ASSUME bs = << >> PROVE st.chunks = << >> OBVIOUS
    <3>1. DOMAIN bs = {} BY SMT
    <3>2. DOMAIN st.chunks = {} BY <3>1
    <3>3. Len(st.chunks) = 0
      <4> SUFFICES ASSUME Len(st.chunks) # 0 PROVE FALSE OBVIOUS
      <4>1. 1 \in 1 .. Len(st.chunks) BY <2>1
      <4>2. QED BY <2>1, <3>2, <4>1
    <3>4. QED BY <1>1, <3>3, EmptySeq
  <2>3. st.chunks = << >> => bs = << >>
    OBVIOUS
  <2>4. QED BY <2>2, <2>3
<1>4. CASE st.chunks = << >> /\ st.schema
  <2>1. got = << [schema |-> CHOOSE s \in {fields} : TRUE, rows |-> << >>] >>
    BY <1>2, <1>3, <1>4 DEF backfill_schema_when_empty
  <2> HIDE DEF got
  <2>2. [i \in DOMAIN got |-> got[i].rows] = << << >> >> BY <2>1
  <2>3. QED BY <1>4, <2>2 DEF got
<1>5. CASE ~(st.chunks = << >> /\ st.schema)
  <2>1. got = bs BY <1>2, <1>3, <1>5 DEF backfill_schema_when_empty
  <2>2. [i \in DOMAIN bs |-> bs[i].rows] = st.chunks
    <3>1. st.chunks = [i \in DOMAIN st.chunks |-> st.chunks[i]] BY <1>1
    <3>2. [i \in DOMAIN bs |-> bs[i].rows] = [i \in DOMAIN st.chunks |-> st.chunks[i]] OBVIOUS
    <3>3. QED BY <3>1, <3>2
  <2>3. QED BY <1>5, <2>1, <2>2
<1>6. QED BY <1>4, <1>5

\* A list of no rows has no range.
LEMMA SliceOfNone ==
  ASSUME NEW from \in Nat, NEW to
  PROVE  typed_slice(<< >>, from, to) = << >> /\ typed_reverse_slice(<< >>, from, to) = << >>
<1>1. Len(<< >>) = 0 /\ from >= 0 OBVIOUS
<1>2. typed_slice(<< >>, from, to) = << >> BY <1>1 DEF typed_slice
<1>3. Reverse(<< >>) = << >> BY DEF Reverse
<1>4. QED BY <1>2, <1>3 DEF typed_reverse_slice

\* SliceInv holds before the statement is executed ...
LEMMA SliceInit == Init => SliceInv
<1> SUFFICES ASSUME Init PROVE SliceInv OBVIOUS
<1>1. stmt \in Statements /\ start = stmt.from /\ end = stmt.to /\ backward = stmt.backward
      /\ batches = << >> /\ pc = "execute" /\ InitSlice
  BY DEF Init
<1>2. SliceLists BY <1>1, EmptySeq DEF InitSlice, SliceLists
<1>3. next \in 1 .. Len(batches) + 1 BY <1>1 DEF InitSlice
<1>4. offset = total_rows(SubSeq(batches, 1, next - 1))
  <2>1. SubSeq(batches, 1, next - 1) = << >>
    <3>1. next - 1 = 0 BY <1>1 DEF InitSlice
    <3>2. SubSeq(batches, 1, 0) = << >> BY SubSeqEmpty
    <3>3. QED BY <3>1, <3>2
  <2>2. QED BY <1>1, <2>1, TotalEmpty DEF InitSlice
<1>5. QED BY <1>1, <1>2, <1>3, <1>4 DEF SliceInv, LoopInvariant, ReverseInvariant

\* The arguments are numbers.
LEMMA RangeType ==
  ASSUME NEW st \in Statements
  PROVE  st.from \in Nat /\ st.to \in Nat /\ st.backward \in BOOLEAN
<1>1. st.from \in 0 .. Bound /\ st.to \in 0 .. Bound /\ st.backward \in BOOLEAN BY StatementsAssumption
<1>2. QED BY <1>1

\* ... once the batches of the answer are there ...
LEMMA SliceExecute == SliceInv /\ execute => SliceInv'
<1> SUFFICES ASSUME SliceInv, execute PROVE SliceInv' OBVIOUS
<1>1. /\ stmt \in Statements /\ stmt' = stmt /\ start' = start /\ end' = end /\ backward' = backward
      /\ start = stmt.from /\ end = stmt.to /\ backward = stmt.backward
      /\ next = 1 /\ next' = 1 /\ offset = 0 /\ offset' = 0
      /\ out = << >> /\ out' = << >> /\ reversed = << >> /\ reversed' = << >>
  BY DEF SliceInv, execute, InitSlice
<1>2. start \in Nat /\ end \in Nat /\ backward \in BOOLEAN BY <1>1, RangeType
<1>3. batches' \in Seq(Seq(RowsOf(stmt)))
  <2>1. CASE stmt.how = "cursor"
    <3>1. outcome'["arrow"] = arrow_execute(stmt) BY DEF execute
    <3>2. batches' = [i \in DOMAIN arrow_execute(stmt).batches |-> arrow_execute(stmt).batches[i].rows]
      BY <2>1, <3>1 DEF execute
    <3>3. batches' = IF stmt.chunks = << >> /\ stmt.schema THEN << << >> >> ELSE stmt.chunks
      BY <1>1, <2>1, <3>2, BatchesOfAnswer
    <3>4. << << >> >> \in Seq(Seq(RowsOf(stmt))) BY EmptySeq
    <3>5. stmt.chunks \in Seq(Seq(RowsOf(stmt))) BY <1>1, StatementsAssumption
    <3>6. QED BY <3>3, <3>4, <3>5
  <2>2. CASE stmt.how # "cursor"
    <3>1. batches' = batches BY <2>2 DEF execute
    <3>2. QED BY <3>1 DEF SliceInv, SliceLists
  <2>3. QED BY <2>1, <2>2
<1>4. SliceLists' BY <1>1, <1>3, EmptySeq DEF SliceLists
<1>5. next' \in 1 .. Len(batches') + 1
  <2>1. Len(batches') \in Nat BY <1>3
  <2>2. QED BY <1>1, <2>1
<1>6. offset' = total_rows(SubSeq(batches', 1, next' - 1))
  <2>1. next' - 1 = 0 BY <1>1
  <2>2. SubSeq(batches', 1, 0) = << >> BY SubSeqEmpty
  <2>3. QED BY <1>1, <2>1, <2>2, TotalEmpty
<1>7. LoopInvariant'
  <2> SUFFICES FlattenSeq(out') = typed_slice(FlattenSeq(batches'), start', IF end' < offset' THEN end' ELSE offset')
    BY DEF LoopInvariant
  <2>1. (IF end' < offset' THEN end' ELSE offset') = 0 BY <1>1, <1>2
  <2>2. typed_slice(FlattenSeq(batches'), start', 0) = << >> BY <1>1, <1>2 DEF typed_slice
  <2>3. QED BY <1>1, <2>1, <2>2, FlattenEmpty
<1>8. pc' = "slice" \/ (pc' = "done" /\ batches' = batches) BY DEF execute
<1>9. pc' = "done" => SliceFound'
  <2> SUFFICES ASSUME pc' = "done" PROVE SliceFound' OBVIOUS
  <2>1. batches' = << >> BY <1>8 DEF SliceInv, execute
  <2>2. QED BY <1>1, <1>2, <2>1, FlattenEmpty, SliceOfNone DEF SliceFound
<1>10. QED BY <1>1, <1>4, <1>5, <1>6, <1>7, <1>8, <1>9 DEF SliceInv, ReverseInvariant

\* A turn of slice_batches.
LEMMA SliceTurn == SliceInv /\ slice_batches /\ UNCHANGED resultVars => SliceInv'
<1> SUFFICES ASSUME SliceInv, slice_batches, UNCHANGED resultVars PROVE SliceInv' OBVIOUS
<1> DEFINE X == RowsOf(stmt)
           rows == FlattenSeq(batches)
<1>1. /\ stmt \in Statements /\ stmt' = stmt /\ start' = start /\ end' = end /\ backward' = backward
      /\ start = stmt.from /\ end = stmt.to /\ backward = stmt.backward
      /\ batches' = batches /\ reversed = << >> /\ reversed' = << >> /\ pc = "slice"
      /\ next \in 1 .. Len(batches) + 1 /\ offset = total_rows(SubSeq(batches, 1, next - 1))
  BY DEF SliceInv, slice_batches, resultVars
<1>2. start \in Nat /\ end \in Nat /\ backward \in BOOLEAN BY <1>1, RangeType
<1>3. batches \in Seq(Seq(X)) /\ out \in Seq(Seq(X)) BY DEF SliceInv, SliceLists
<1>4. rows \in Seq(X) BY <1>3, FlattenType
<1> DEFINE before == FlattenSeq(SubSeq(batches, 1, next - 1))
<1>5. SubSeq(batches, 1, next - 1) \in Seq(Seq(X)) /\ next - 1 \in 0 .. Len(batches) /\ Len(batches) \in Nat
  BY <1>1, <1>3
<1>6. before \in Seq(X) /\ offset = Len(before) /\ offset \in Nat
  <2>1. before \in Seq(X) BY <1>5, FlattenType
  <2>2. offset = Len(before) BY <1>1, <1>5, TotalIsLength
  <2>3. QED BY <2>1, <2>2
<1>7. FlattenSeq(out) = typed_slice(rows, start, Upto(end, offset))
  BY <1>1 DEF SliceInv, LoopInvariant, Upto
<1>8. CASE Finished /\ pc' = (IF backward THEN "reverse" ELSE "done") /\ UNCHANGED <<next, offset, out>>
  <2>1. start >= end \/ offset >= end \/ offset = Len(rows)
    <3>1. CASE next > Len(batches)
      <4>1. next - 1 = Len(batches) BY <1>1, <1>5, <3>1
      <4>2. SubSeq(batches, 1, Len(batches)) = batches BY <1>3, SubSeqFull
      <4>3. QED BY <1>6, <4>1, <4>2
    <3>2. QED BY <1>8, <3>1 DEF Finished
  <2>2. FlattenSeq(out) = typed_slice(rows, start, end)
    <3> HIDE DEF rows, X
    <3>1. typed_slice(rows, start, Upto(end, offset)) = typed_slice(rows, start, end)
      BY <1>2, <1>4, <1>6, <2>1, SliceAll
    <3>2. QED BY <1>7, <3>1
  <2>3. CASE backward
    <3>1. FlattenSeq(reversed) = << >> BY <1>1, FlattenEmpty
    <3>2. FlattenSeq(out) \in Seq(X) BY <1>3, FlattenType
    <3>3. Reverse(FlattenSeq(out)) \in Seq(X) BY <3>2, ReverseType
    <3>4. << >> \o Reverse(FlattenSeq(out)) = Reverse(FlattenSeq(out)) BY <3>3, ConcatEmptySeq
    <3>5. ReverseInvariant' BY <1>1, <1>8, <2>2, <2>3, <3>1, <3>4 DEF ReverseInvariant, typed_reverse_slice
    <3>6. pc' = "reverse" BY <1>8, <2>3
    <3>7. QED BY <1>1, <1>3, <1>8, <3>5, <3>6 DEF SliceInv, SliceLists, LoopInvariant
  <2>4. CASE ~backward
    <3>1. pc' = "done" BY <1>8, <2>4
    <3>2. SliceFound' BY <1>1, <1>8, <2>2, <2>4 DEF SliceFound
    <3>3. QED BY <1>1, <1>3, <1>8, <3>1, <3>2 DEF SliceInv, SliceLists, LoopInvariant, ReverseInvariant
  <2>5. QED BY <2>3, <2>4
<1>9. CASE /\ ~Finished /\ pc' = pc
           /\ Advance(batches[next])
           /\ out' = IF Skipped(batches[next]) \/ Cut(batches[next]) = << >> THEN out
                     ELSE Append(out, Cut(batches[next]))
  <2> DEFINE b == batches[next]
             cut == IF offset + Len(b) <= start THEN << >>
                    ELSE SubSeq(b, saturating_sub(start, offset) + 1,
                                IF end - offset < Len(b) THEN end - offset ELSE Len(b))
  <2>1. start < end /\ next \in 1 .. Len(batches) BY <1>1, <1>2, <1>5, <1>9 DEF Finished
  <2>2. b \in Seq(X) /\ Len(b) \in Nat
    <3>1. b \in Seq(X) BY <1>3, <2>1
    <3>2. QED BY <3>1
  <2>3. next' = next + 1 /\ offset' = offset + Len(b) BY <1>9 DEF Advance
  <2>4. /\ FlattenSeq(SubSeq(batches, 1, next)) = before \o b
        /\ (next - 1) + 1 = next /\ next' - 1 = next
    <3>1. next - 1 \in Nat /\ next - 1 < Len(batches) /\ (next - 1) + 1 = next /\ next' - 1 = next
      BY <1>5, <2>1, <2>3
    <3>2. FlattenSeq(SubSeq(batches, 1, (next - 1) + 1)) = before \o batches[(next - 1) + 1]
      BY <1>3, <3>1, FlattenNext
    <3>3. QED BY <3>1, <3>2
  <2>5. Len(before \o b) = offset + Len(b)
        /\ \A j \in 1 .. Len(b) : (before \o b)[offset + j] = b[j]
    <3> HIDE DEF b, before
    <3>1. QED BY <1>6, <2>2, ConcatProperties
  <2>6. offset + Len(b) <= Len(rows) /\ \A j \in 1 .. Len(b) : rows[offset + j] = b[j]
    <3>1. next \in 0 .. Len(batches) BY <1>5, <2>1
    <3>2. /\ Len(FlattenSeq(SubSeq(batches, 1, next))) <= Len(rows)
          /\ \A i \in 1 .. Len(FlattenSeq(SubSeq(batches, 1, next))) :
               FlattenSeq(SubSeq(batches, 1, next))[i] = rows[i]
      BY <1>3, <3>1, FlattenPrefix
    <3>3. /\ Len(before \o b) <= Len(rows)
          /\ \A i \in 1 .. Len(before \o b) : (before \o b)[i] = rows[i]
      BY <2>4, <3>2
    <3> HIDE DEF b, before, rows, X
    <3>4. \A j \in 1 .. Len(b) : offset + j \in 1 .. (offset + Len(b)) BY <1>6, <2>2
    <3>5. QED BY <2>5, <3>3, <3>4
  <2>7. typed_slice(rows, start, Upto(end, offset + Len(b))) = typed_slice(rows, start, Upto(end, offset)) \o cut
    <3> HIDE DEF b, before, rows, X
    <3>1. /\ rows \in Seq(X) /\ b \in Seq(X) /\ offset \in Nat /\ offset + Len(b) <= Len(rows)
          /\ \A j \in 1 .. Len(b) : rows[offset + j] = b[j]
          /\ start \in Nat /\ end \in Nat /\ start < end
      BY <1>2, <1>4, <1>6, <2>1, <2>2, <2>6
    <3>2. typed_slice(rows, start, Upto(end, offset + Len(b))) =
            typed_slice(rows, start, Upto(end, offset)) \o
              (IF offset + Len(b) <= start THEN << >>
               ELSE SubSeq(b, saturating_sub(start, offset) + 1, IF end - offset < Len(b) THEN end - offset ELSE Len(b)))
      BY <3>1, SliceStep, Zenon
    <3>3. QED BY <3>2
  <2>8. cut \in Seq(X)
    <3> HIDE DEF b, X
    <3>1. saturating_sub(start, offset) \in Nat BY <1>2, <1>6 DEF saturating_sub
    <3>2. (IF end - offset < Len(b) THEN end - offset ELSE Len(b)) \in Int BY <1>2, <1>6, <2>2
    <3>3. (IF end - offset < Len(b) THEN end - offset ELSE Len(b)) <= Len(b) BY <1>2, <1>6, <2>2
    <3>4. QED BY <2>2, <3>1, <3>2, <3>3
  <2>9. out' = IF cut = << >> THEN out ELSE Append(out, cut) BY <1>9 DEF Skipped, Cut
  <2>10. out' \in Seq(Seq(X)) /\ FlattenSeq(out') = FlattenSeq(out) \o cut
    <3> HIDE DEF cut, X
    <3>1. CASE cut = << >>
      <4>1. FlattenSeq(out) \in Seq(X) BY <1>3, FlattenType
      <4>2. FlattenSeq(out) \o << >> = FlattenSeq(out) BY <4>1, ConcatEmptySeq
      <4>3. QED BY <1>3, <2>9, <3>1, <4>2
    <3>2. CASE cut # << >>
      <4>1. out' = Append(out, cut) BY <2>9, <3>2
      <4>2. Append(out, cut) \in Seq(Seq(X)) BY <1>3, <2>8
      <4>3. QED BY <1>3, <2>8, <4>1, <4>2, FlattenAppend
    <3>3. QED BY <3>1, <3>2
  <2>11. next' \in 1 .. Len(batches') + 1 BY <1>1, <1>5, <2>1, <2>3
  <2>12. offset' = total_rows(SubSeq(batches', 1, next' - 1))
    <3>1. SubSeq(batches, 1, next) \in Seq(Seq(X)) BY <1>3, <1>5, <2>1
    <3>2. total_rows(SubSeq(batches, 1, next)) = Len(before \o b) BY <2>4, <3>1, TotalIsLength
    <3>3. QED BY <1>1, <2>3, <2>4, <2>5, <3>2
  <2>13. LoopInvariant'
    <3>1. FlattenSeq(out') = typed_slice(rows, start, Upto(end, offset')) BY <1>7, <2>3, <2>7, <2>10
    <3>2. QED BY <1>1, <3>1 DEF LoopInvariant, Upto
  <2>14. pc' = "slice" BY <1>1, <1>9
  <2>15. SliceLists' BY <1>1, <1>3, <2>10, EmptySeq DEF SliceLists
  <2>16. QED BY <1>1, <2>11, <2>12, <2>13, <2>14, <2>15 DEF SliceInv, ReverseInvariant
<1>10. QED BY <1>8, <1>9 DEF slice_batches

\* A turn of reverse_slice_batches.
LEMMA ReverseTurn == SliceInv /\ reverse_slice_batches /\ UNCHANGED resultVars => SliceInv'
<1> SUFFICES ASSUME SliceInv, reverse_slice_batches, UNCHANGED resultVars PROVE SliceInv' OBVIOUS
<1> DEFINE X == RowsOf(stmt)
           range == typed_reverse_slice(FlattenSeq(batches), start, end)
<1>1. /\ stmt \in Statements /\ stmt' = stmt /\ start' = start /\ end' = end /\ backward' = backward
      /\ start = stmt.from /\ end = stmt.to /\ backward = stmt.backward
      /\ batches' = batches /\ next' = next /\ offset' = offset /\ pc = "reverse"
      /\ next \in 1 .. Len(batches) + 1 /\ offset = total_rows(SubSeq(batches, 1, next - 1))
  BY DEF SliceInv, reverse_slice_batches, resultVars
<1>2. batches \in Seq(Seq(X)) /\ out \in Seq(Seq(X)) /\ reversed \in Seq(Seq(X)) BY DEF SliceInv, SliceLists
<1>3. backward /\ FlattenSeq(reversed) \o Reverse(FlattenSeq(out)) = range
  BY <1>1 DEF SliceInv, ReverseInvariant
<1>4. FlattenSeq(reversed) \in Seq(X) BY <1>2, FlattenType
<1>5. CASE out = << >> /\ pc' = "done" /\ UNCHANGED <<out, reversed>>
  <2>1. Reverse(FlattenSeq(out)) = << >>
    <3>1. Reverse(<< >>) = << >> BY DEF Reverse
    <3>2. QED BY <1>5, <3>1, FlattenEmpty
  <2>2. FlattenSeq(reversed) \o << >> = FlattenSeq(reversed) BY <1>4, ConcatEmptySeq
  <2>3. SliceFound' BY <1>1, <1>3, <1>5, <2>1, <2>2 DEF SliceFound
  <2>4. QED BY <1>1, <1>2, <1>5, <2>3 DEF SliceInv, SliceLists, LoopInvariant, ReverseInvariant
<1>6. CASE out # << >> /\ PopReversed /\ pc' = pc
  <2> DEFINE f == Front(out)
             l == Last(out)
  <2>1. f \in Seq(Seq(X)) /\ l \in Seq(X) /\ out = Append(f, l) BY <1>2, <1>6, FrontLast
  <2>2. reversed' = Append(reversed, Reverse(l)) /\ out' = f BY <1>6 DEF PopReversed
  <2> HIDE DEF f, l, X
  <2>3. Reverse(l) \in Seq(X) BY <2>1, ReverseType
  <2>4. reversed' \in Seq(Seq(X)) /\ out' \in Seq(Seq(X)) BY <1>2, <2>1, <2>2, <2>3
  <2>5. FlattenSeq(out) = FlattenSeq(f) \o l /\ FlattenSeq(f) \in Seq(X) BY <2>1, FlattenAppend, FlattenType
  <2>6. Reverse(FlattenSeq(out)) = Reverse(l) \o Reverse(FlattenSeq(f)) BY <2>1, <2>5, ReverseConcat
  <2>7. FlattenSeq(reversed') = FlattenSeq(reversed) \o Reverse(l) BY <1>2, <2>2, <2>3, FlattenAppend
  <2>8. Reverse(FlattenSeq(f)) \in Seq(X) BY <2>5, ReverseType
  <2>9. (FlattenSeq(reversed) \o Reverse(l)) \o Reverse(FlattenSeq(f))
          = FlattenSeq(reversed) \o (Reverse(l) \o Reverse(FlattenSeq(f)))
    BY <1>4, <2>3, <2>8, ConcatAssociative
  <2>10. FlattenSeq(reversed') \o Reverse(FlattenSeq(out')) = range BY <1>3, <2>2, <2>6, <2>7, <2>9
  <2>11. ReverseInvariant' BY <1>1, <1>3, <2>10 DEF ReverseInvariant
  <2>12. SliceLists' BY <1>1, <1>2, <2>4 DEF SliceLists, X
  <2>13. pc' = "reverse" BY <1>1, <1>6
  <2>14. QED BY <1>1, <2>11, <2>12, <2>13 DEF SliceInv, LoopInvariant
<1>7. QED BY <1>5, <1>6 DEF reverse_slice_batches

\* Every step keeps SliceInv.
LEMMA SliceStepInv == SliceInv /\ [Next]_vars => SliceInv'
<1> SUFFICES ASSUME SliceInv, [Next]_vars PROVE SliceInv' OBVIOUS
<1>1. CASE execute BY <1>1, SliceExecute
<1>2. CASE slice BY <1>2, SliceTurn, ReverseTurn DEF slice
<1>3. ASSUME UNCHANGED <<sliceVars, stmt>>, pc \in {"done", "send", "sent"}, pc' \in {"send", "sent"}
      PROVE  SliceInv'
  BY <1>3 DEF sliceVars, SliceInv, SliceLists, LoopInvariant, ReverseInvariant, SliceFound, InitSlice
<1>4. CASE respond BY <1>3, <1>4 DEF respond
<1>5. CASE send BY <1>3, <1>5 DEF send
<1>6. CASE UNCHANGED vars
  BY <1>6 DEF vars, resultVars, sliceVars, SliceInv, SliceLists, LoopInvariant, ReverseInvariant, SliceFound, InitSlice
<1>7. QED BY <1>1, <1>2, <1>4, <1>5, <1>6 DEF Next, Sent

(****************************************************************************)
(* The way of a statement: outcome, response and what is sent.              *)
(****************************************************************************)

\* What the statement is answered with.
Answers(st) == [arrow |-> arrow_execute(st), websocket |-> websocket_execute(st)]

\* The response that is built of an answer.
Built(oc) ==
  CASE stmt.how = "cursor"  -> fetch_cursor(oc)
    [] stmt.how = "columns" -> JdbcColumns(oc)
    [] OTHER                -> map_exasol_result(oc, stmt.fold, stmt.how = "write")

Nones == [t \in Transports |-> None]

\* Where a statement is on its way.
ResultInv ==
  /\ outcome = IF pc = "execute" THEN Nones ELSE Answers(stmt)
  /\ response = IF pc \in {"send", "sent"} THEN [t \in Transports |-> Built(Answers(stmt)[t])] ELSE Nones
  /\ sent = IF pc = "sent" THEN [t \in Transports |-> try_from(Built(Answers(stmt)[t]))] ELSE Nones
  /\ pc \in {"done", "send", "sent"} /\ stmt.how = "cursor" =>
       batches = [i \in DOMAIN arrow_execute(stmt).batches |-> arrow_execute(stmt).batches[i].rows]
  /\ pc \in {"slice", "reverse"} =>
       stmt.how = "cursor" /\ batches = [i \in DOMAIN arrow_execute(stmt).batches |-> arrow_execute(stmt).batches[i].rows]

\* ResultInv holds at first ...
LEMMA ResultInit == Init => ResultInv
  BY DEF Init, ResultInv, Nones

\* ... and every step keeps it: a response that has been built stays what it was, for
\* the slices it is made of are not touched any more.
LEMMA ResultStep == SliceInv /\ ResultInv /\ [Next]_vars => ResultInv'
<1> SUFFICES ASSUME SliceInv, ResultInv, [Next]_vars PROVE ResultInv' OBVIOUS
<1>1. pc \in {"execute", "slice", "reverse", "done", "send", "sent"} BY DEF SliceInv
<1>2. CASE execute
  <2>1. stmt' = stmt /\ outcome' = Answers(stmt) /\ pc = "execute" /\ pc' \in {"slice", "done"}
        /\ response' = response /\ sent' = sent
    BY <1>2 DEF execute, Answers
  <2>2. outcome'["arrow"] = arrow_execute(stmt) BY <1>2 DEF execute
  <2>3. IF stmt.how = "cursor"
        THEN batches' = [i \in DOMAIN arrow_execute(stmt).batches |-> arrow_execute(stmt).batches[i].rows]
        ELSE pc' = "done"
    BY <1>2, <2>2 DEF execute
  <2>4. QED BY <2>1, <2>3 DEF ResultInv
<1>3. CASE slice
  <2>1. UNCHANGED <<stmt, outcome, response, sent, batches>> /\ pc \in {"slice", "reverse"} /\ pc' \in {"slice", "reverse", "done"}
    BY <1>3 DEF slice, slice_batches, reverse_slice_batches, resultVars
  <2>2. QED BY <2>1 DEF ResultInv
<1>4. CASE respond
  <2>1. /\ UNCHANGED <<stmt, outcome, sent, batches, out, reversed, start, end, backward>>
        /\ pc = "done" /\ pc' = "send"
        /\ response' = [t \in Transports |-> Built(outcome[t])]
    BY <1>4 DEF respond, sliceVars, Built
  <2>2. \A oc : Built(oc)' = Built(oc)
    BY <2>1 DEF Built, fetch_cursor, Slices
  <2>3. outcome = Answers(stmt) BY <2>1 DEF ResultInv
  <2>4. QED BY <2>1, <2>2, <2>3 DEF ResultInv
<1>5. CASE send
  <2>1. /\ UNCHANGED <<stmt, outcome, response, batches, out, reversed, start, end, backward>>
        /\ pc = "send" /\ pc' = "sent"
        /\ sent' = [t \in Transports |-> try_from(response[t])]
    BY <1>5 DEF send, sliceVars
  <2>2. \A oc : Built(oc)' = Built(oc)
    BY <2>1 DEF Built, fetch_cursor, Slices
  <2>3. QED BY <2>1, <2>2 DEF ResultInv
<1>6. CASE UNCHANGED vars
  <2>1. UNCHANGED <<pc, stmt, outcome, response, sent, batches, out, reversed, start, end, backward>>
    BY <1>6 DEF vars, resultVars, sliceVars
  <2>2. \A oc : Built(oc)' = Built(oc)
    BY <2>1 DEF Built, fetch_cursor, Slices
  <2>3. QED BY <2>1, <2>2 DEF ResultInv
<1>7. QED BY <1>2, <1>3, <1>4, <1>5, <1>6 DEF Next, Sent

\* An answer, and the response that is built of it, by their tags.
LEMMA Tags ==
  ASSUME NEW st \in Statements
  PROVE  /\ Answers(st)["arrow"] = arrow_execute(st) /\ Answers(st)["websocket"] = websocket_execute(st)
         /\ st.how = "write" => \A t \in Transports : Answers(st)[t] = [tag |-> "RowCount", count |-> st.count]
         /\ st.how # "write" => arrow_execute(st).tag = "ArrowRows" /\ websocket_execute(st).tag = "TypedRows"
<1>1. Answers(st)["arrow"] = arrow_execute(st) /\ Answers(st)["websocket"] = websocket_execute(st) BY DEF Answers
<1>2. st.how = "write" => arrow_execute(st) = [tag |-> "RowCount", count |-> st.count]
                         /\ websocket_execute(st) = [tag |-> "RowCount", count |-> st.count]
  BY DEF arrow_execute, websocket_execute
<1>3. st.how # "write" => arrow_execute(st).tag = "ArrowRows" /\ websocket_execute(st).tag = "TypedRows"
  BY DEF arrow_execute, websocket_execute
<1>4. QED BY <1>1, <1>2, <1>3 DEF Transports

\* The response to a query, a FETCH, a question for columns and a write.
LEMMA Responses ==
  ASSUME NEW oc
  PROVE  /\ oc.tag = "ArrowRows" => fetch_cursor(oc).tag = "ArrowQuery"
         /\ oc.tag = "TypedRows" => fetch_cursor(oc).tag = "TypedQuery"
         /\ JdbcColumns(oc).tag = "Query"
         /\ \A fold, include :
              /\ oc.tag = "ArrowRows" => map_exasol_result(oc, fold, include).tag = "ArrowQuery"
              /\ oc.tag = "TypedRows" => map_exasol_result(oc, fold, include).tag = "TypedQuery"
              /\ oc.tag = "RowCount" => map_exasol_result(oc, fold, include).tag = "Execution"
<1>1. /\ oc.tag = "ArrowRows" => fetch_cursor(oc).tag = "ArrowQuery"
      /\ oc.tag = "TypedRows" => fetch_cursor(oc).tag = "TypedQuery"
  BY DEF fetch_cursor
<1>2. JdbcColumns(oc).tag = "Query" BY DEF JdbcColumns
<1>3. ASSUME NEW fold, NEW include
      PROVE  /\ oc.tag = "ArrowRows" => map_exasol_result(oc, fold, include).tag = "ArrowQuery"
             /\ oc.tag = "TypedRows" => map_exasol_result(oc, fold, include).tag = "TypedQuery"
             /\ oc.tag = "RowCount" => map_exasol_result(oc, fold, include).tag = "Execution"
  BY DEF map_exasol_result
<1>4. QED BY <1>1, <1>2, <1>3

\* The kinds of answer and of response there are.
LEMMA BuiltTags ==
  ASSUME SliceInv, NEW t \in Transports
  PROVE  /\ Answers(stmt)[t].tag \in {"ArrowRows", "TypedRows", "RowCount"}
         /\ Built(Answers(stmt)[t]).tag \in {"ArrowQuery", "TypedQuery", "Query", "Execution"}
<1> DEFINE oc == Answers(stmt)[t]
<1>1. stmt \in Statements /\ stmt.how \in {"query", "cursor", "columns", "write"}
  BY StatementsAssumption DEF SliceInv
<1>2. t \in {"arrow", "websocket"} BY DEF Transports
<1>3. IF stmt.how = "write" THEN oc.tag = "RowCount" ELSE oc.tag \in {"ArrowRows", "TypedRows"}
  <2>1. CASE stmt.how = "write"
    <3>1. oc = [tag |-> "RowCount", count |-> stmt.count] BY <1>1, <2>1, Tags
    <3>2. QED BY <2>1, <3>1
  <2>2. CASE stmt.how # "write"
    <3>1. arrow_execute(stmt).tag = "ArrowRows" /\ websocket_execute(stmt).tag = "TypedRows" BY <1>1, <2>2, Tags
    <3>2. oc \in {arrow_execute(stmt), websocket_execute(stmt)} BY <1>1, <1>2, Tags
    <3>3. QED BY <2>2, <3>1, <3>2
  <2>3. QED BY <2>1, <2>2
<1> HIDE DEF oc
<1>4. oc.tag \in {"ArrowRows", "TypedRows", "RowCount"} BY <1>3
<1>5. Built(oc).tag \in {"ArrowQuery", "TypedQuery", "Query", "Execution"}
  <2>1. CASE stmt.how = "cursor"
    <3>1. Built(oc) = fetch_cursor(oc) BY <2>1 DEF Built
    <3>2. QED BY <1>3, <2>1, <3>1, Responses
  <2>2. CASE stmt.how = "columns"
    <3>1. Built(oc) = JdbcColumns(oc) BY <2>2 DEF Built
    <3>2. QED BY <3>1, Responses
  <2>3. CASE stmt.how \notin {"cursor", "columns"}
    <3>1. Built(oc) = map_exasol_result(oc, stmt.fold, stmt.how = "write") BY <2>3 DEF Built
    <3>2. \A fold, include :
              /\ oc.tag = "ArrowRows" => map_exasol_result(oc, fold, include).tag = "ArrowQuery"
              /\ oc.tag = "TypedRows" => map_exasol_result(oc, fold, include).tag = "TypedQuery"
              /\ oc.tag = "RowCount" => map_exasol_result(oc, fold, include).tag = "Execution"
      BY Responses
    <3>3. QED BY <1>4, <3>1, <3>2
  <2>4. QED BY <2>1, <2>2, <2>3
<1>6. QED BY <1>4, <1>5 DEF oc

\* Something is sent for every response.
LEMMA SomethingSent ==
  ASSUME NEW r, r.tag \in {"ArrowQuery", "TypedQuery", "Query", "Execution"}
  PROVE  try_from(r) # None
<1>1. CASE r.tag = "ArrowQuery"
  <2>1. try_from(r) = query_response_arrow(r.schema, r.batches, r.fold) BY <1>1 DEF try_from
  <2>2. DOMAIN query_response_arrow(r.schema, r.batches, r.fold) = {"fields", "rows"} BY DEF query_response_arrow
  <2>3. DOMAIN None = {"tag"} BY DEF None
  <2>4. QED BY <2>1, <2>2, <2>3
<1>2. CASE r.tag = "TypedQuery"
  <2>1. try_from(r) = query_response_typed(r.columns, r.rows, r.fold) BY <1>2 DEF try_from
  <2>2. DOMAIN query_response_typed(r.columns, r.rows, r.fold) = {"fields", "rows"} BY DEF query_response_typed
  <2>3. DOMAIN None = {"tag"} BY DEF None
  <2>4. QED BY <2>1, <2>2, <2>3
<1>3. CASE r.tag \in {"Query", "Execution"}
  <2>1. try_from(r) = r BY <1>3 DEF try_from
  <2>2. QED BY <1>3, <2>1 DEF None
<1>4. QED BY <1>1, <1>2, <1>3

\* The invariants imply type correctness.
LEMMA TypeOfInv == SliceInv /\ ResultInv => TypeOK
<1> SUFFICES ASSUME SliceInv, ResultInv PROVE TypeOK OBVIOUS
<1>1. SliceTypeOK
  <2>1. stmt.from \in 0 .. Bound /\ stmt.to \in 0 .. Bound /\ stmt.backward \in BOOLEAN
    BY StatementsAssumption DEF SliceInv
  <2>2. QED BY <2>1 DEF SliceInv, SliceTypeOK
<1>2. pc \in {"execute", "slice", "reverse", "done", "send", "sent"} BY DEF SliceInv
<1>3. ASSUME NEW t \in Transports
      PROVE  /\ outcome[t].tag \in {"None", "ArrowRows", "TypedRows", "RowCount"}
             /\ response[t].tag \in {"None", "ArrowQuery", "TypedQuery", "Query", "Execution"}
             /\ pc = "sent" <=> sent[t] # None
  <2>1. Nones[t] = None /\ None.tag = "None" BY DEF Nones, None
  <2>2. /\ Answers(stmt)[t].tag \in {"ArrowRows", "TypedRows", "RowCount"}
        /\ Built(Answers(stmt)[t]).tag \in {"ArrowQuery", "TypedQuery", "Query", "Execution"}
    BY BuiltTags
  <2>3. try_from(Built(Answers(stmt)[t])) # None BY <2>2, SomethingSent
  <2>4. outcome[t].tag \in {"None", "ArrowRows", "TypedRows", "RowCount"} BY <2>1, <2>2 DEF ResultInv
  <2>5. response[t].tag \in {"None", "ArrowQuery", "TypedQuery", "Query", "Execution"}
    BY <2>1, <2>2 DEF ResultInv
  <2>6. pc = "sent" <=> sent[t] # None BY <2>1, <2>3 DEF ResultInv
  <2>7. QED BY <2>4, <2>5, <2>6
<1>4. QED BY <1>1, <1>2, <1>3 DEF TypeOK

(****************************************************************************)
(* The type table.                                                          *)
(****************************************************************************)

\* The type of an Arrow field whose metadata tells nothing.
LEMMA ArrowTypes ==
  ASSUME NEW dt
  PROVE  LET type == pg_type_for_arrow_data_type(dt)
         IN /\ dt.id = "Boolean" => type = "BOOL"
            /\ dt.id = "Float64" => type = "FLOAT8"
            /\ dt.id = "Date32"  => type = "DATE"
            /\ dt.id = "Utf8"    => type = "VARCHAR"
            /\ dt.id = "Timestamp" => type = IF dt.zone THEN "TIMESTAMPTZ" ELSE "TIMESTAMP"
            /\ dt.id = "Decimal128" => type = decimal_pg_type(dt.precision, dt.scale)
  BY DEF pg_type_for_arrow_data_type

\* What the metadata tells.
LEMMA MetadataTypes ==
  ASSUME NEW m, NEW dt, "type" \in DOMAIN m
  PROVE  LET told == pg_type_from_exasol_metadata(m, dt)
             name == m["type"]
         IN /\ name = "BOOLEAN" => told = {"BOOL"}
            /\ name = "DOUBLE"  => told = {"FLOAT8"}
            /\ name = "DATE"    => told = {"DATE"}
            /\ name \in {"CHAR", "VARCHAR", "HASHTYPE"} => told = {"VARCHAR"}
            /\ name = "TIMESTAMP" /\ dt.id = "Timestamp" => told = {IF dt.zone THEN "TIMESTAMPTZ" ELSE "TIMESTAMP"}
            /\ name \in {"GEOMETRY", "INTERVAL_DAY_TO_SECOND", "INTERVAL_YEAR_TO_MONTH", "TIMESTAMP_WITH_LOCAL_TIME_ZONE"} => told = {}
            /\ name = "DECIMAL" /\ {"precision", "scale"} \subseteq DOMAIN m =>
                 told = {decimal_pg_type(m["precision"], m["scale"])}
  BY DEF pg_type_from_exasol_metadata, Get

\* The type by the JSON of the WebSocket protocol.
LEMMA JsonTypes ==
  ASSUME NEW j, "type" \in DOMAIN j, "str" \notin DOMAIN j
  PROVE  LET type == pg_type_for_exasol_data_type(j)
             name == j["type"]
         IN /\ name = "BOOLEAN" => type = "BOOL"
            /\ name = "DOUBLE"  => type = "FLOAT8"
            /\ name = "DATE"    => type = "DATE"
            /\ name \in {"CHAR", "VARCHAR", "HASHTYPE"} => type = "VARCHAR"
            /\ name = "TIMESTAMP" => type = "TIMESTAMP"
            /\ name = "TIMESTAMP_WITH_LOCAL_TIME_ZONE" => type = "TIMESTAMPTZ"
            /\ name = "DECIMAL" /\ {"precision", "scale"} \subseteq DOMAIN j =>
                 type = decimal_pg_type(j["precision"], j["scale"])
            /\ name \in {"GEOMETRY", "INTERVAL_DAY_TO_SECOND", "INTERVAL_YEAR_TO_MONTH"} => type = "TEXT"
<1> DEFINE r == Rendered(j)
<1>1. r.base = "json_text" /\ r.args = << >> /\ r.tail = "none" BY DEF Rendered, Get
<1> HIDE DEF r
<1>2. map_exasol_column_type(r).oid = 25 BY <1>1 DEF map_exasol_column_type, PgTypeInfo, TimeZones
<1>3. j["type"] \in {"GEOMETRY", "INTERVAL_DAY_TO_SECOND", "INTERVAL_YEAR_TO_MONTH"} => pg_type_for_exasol_data_type(j) = "TEXT"
  BY <1>2 DEF pg_type_for_exasol_data_type, Get, r
<1>4. QED BY <1>3 DEF pg_type_for_exasol_data_type, Get, decimal_pg_type

\* The type by COLUMN_TYPE.
LEMMA CatalogTypes ==
  ASSUME NEW t
  PROVE  LET oid == map_exasol_column_type(t).oid
         IN /\ t.base = "BOOLEAN" /\ t.args = << >> => oid = 16
            /\ t.base = "DOUBLE" /\ t.args = << >>  => oid = 701
            /\ t.base = "DATE" /\ t.args = << >>    => oid = 1082
            /\ t.base = "CHAR" /\ Len(t.args) = 1   => oid = 1042
            /\ t.base = "VARCHAR" /\ Len(t.args) = 1 => oid = 1043
            /\ t.base \in {"HASHTYPE", "GEOMETRY", "INTERVAL_DAY", "INTERVAL_YEAR"} => oid = 25
            /\ t.base = "TIMESTAMP" /\ t.tail = "none" => oid = 1114
            /\ t.base = "TIMESTAMP" /\ t.tail = "WITH_LOCAL_TIME_ZONE" => oid = 1184
            /\ t.base = "DECIMAL" /\ Len(t.args) = 2 /\ t.tail = "none" => oid = 1700
  BY DEF map_exasol_column_type, PgTypeInfo, TimeZones

\* A field is typed by what its metadata tells, else by its Arrow type.
LEMMA FieldTypes ==
  ASSUME NEW field
  PROVE  LET told == pg_type_from_exasol_metadata(field.metadata, field.data_type)
         IN /\ \A type : told = {type} => pg_type_for_arrow_field(field) = type
            /\ told = {} => pg_type_for_arrow_field(field) = pg_type_for_arrow_data_type(field.data_type)
  BY DEF pg_type_for_arrow_field

\* Metadata without a type tells nothing.
LEMMA Untold ==
  ASSUME NEW dt
  PROVE  pg_type_from_exasol_metadata([none |-> TRUE], dt) = {}
<1>1. "type" \notin DOMAIN [none |-> TRUE] OBVIOUS
<1>2. QED BY <1>1 DEF pg_type_from_exasol_metadata, Get

\* The types the gateway gives to a column.
ArrowType(column) == pg_type_for_arrow_field(column.field)
JsonType(column) == pg_type_for_exasol_data_type(column.data_type)
CatalogOid(column) == map_exasol_column_type(column.text).oid

\* The base of a column's type and what the gateway makes of it.
TypeRow(column, base, arrow, json, oid) ==
  /\ column.text.base = base
  /\ ArrowType(column) = arrow /\ JsonType(column) = json /\ CatalogOid(column) = oid

\* The three readings of each type beside each other.
Tabled(column) ==
  \/ TypeRow(column, "BOOLEAN", "BOOL", "BOOL", 16)
  \/ TypeRow(column, "DOUBLE", "FLOAT8", "FLOAT8", 701)
  \/ TypeRow(column, "DATE", "DATE", "DATE", 1082)
  \/ TypeRow(column, "CHAR", "VARCHAR", "VARCHAR", 1042)
  \/ TypeRow(column, "VARCHAR", "VARCHAR", "VARCHAR", 1043)
  \/ TypeRow(column, "HASHTYPE", "VARCHAR", "VARCHAR", 25)
  \/ TypeRow(column, "GEOMETRY", "VARCHAR", "TEXT", 25)
  \/ TypeRow(column, "INTERVAL_DAY", "VARCHAR", "TEXT", 25)
  \/ TypeRow(column, "INTERVAL_YEAR", "VARCHAR", "TEXT", 25)
  \/ TypeRow(column, "TIMESTAMP", "TIMESTAMP", "TIMESTAMP", 1114)
  \/ TypeRow(column, "TIMESTAMP", "TIMESTAMPTZ", "TIMESTAMPTZ", 1184)
  \/ TypeRow(column, "DECIMAL", "INT4", "INT4", 1700)
  \/ TypeRow(column, "DECIMAL", "NUMERIC", "NUMERIC", 1700)

\* Every column of a type of Exasol is in the table.
LEMMA TypeTable ==
  ASSUME NEW column, ExasolType(column)
  PROVE  Tabled(column)
<1> DEFINE json == column.data_type
           text == column.text
           arrow == column.field.data_type
           metadata == column.field.metadata
<1>1. metadata \in {json, [none |-> TRUE]} BY DEF ExasolType
<1>2. ASSUME NEW type, pg_type_for_arrow_data_type(arrow) = type,
             pg_type_from_exasol_metadata(json, arrow) \in {{type}, {}}
      PROVE  ArrowType(column) = type
  <2>1. CASE metadata = json
    <3>1. pg_type_from_exasol_metadata(metadata, arrow) \in {{type}, {}} BY <1>2, <2>1
    <3>2. QED BY <1>2, <3>1, FieldTypes DEF ArrowType
  <2>2. CASE metadata = [none |-> TRUE]
    <3>1. pg_type_from_exasol_metadata(metadata, arrow) = {} BY <2>2, Untold
    <3>2. QED BY <1>2, <3>1, FieldTypes DEF ArrowType
  <2>3. QED BY <1>1, <2>1, <2>2
<1>3. ASSUME NEW name, json = [type |-> name]
      PROVE  "type" \in DOMAIN json /\ "str" \notin DOMAIN json /\ json["type"] = name
  <2> HIDE DEF json
  <2>1. QED BY <1>3
<1>4. ASSUME NEW id, arrow = [id |-> id] PROVE arrow.id = id
  <2> HIDE DEF arrow
  <2>1. QED BY <1>4
<1> HIDE DEF json, text, arrow, metadata
<1>5. ASSUME NEW name, NEW base, NEW sized \in BOOLEAN, NEW id, Named(column, name, base, sized, id)
      PROVE  /\ json = [type |-> name] /\ arrow = [id |-> id] /\ text.base = base
             /\ ~sized => text.args = << >>
             /\ sized => Len(text.args) = 1
             /\ "type" \in DOMAIN json /\ "str" \notin DOMAIN json /\ json["type"] = name /\ arrow.id = id
  <2>1. /\ json = [type |-> name] /\ arrow = [id |-> id] /\ text.base = base
        /\ ~sized => text.args = << >>
        /\ sized => Len(text.args) = 1
    BY <1>5 DEF Named, json, arrow, text
  <2>2. QED BY <1>3, <1>4, <2>1
<1>6. ASSUME NEW base, NEW a, NEW j, NEW oid, text.base = base,
             pg_type_for_arrow_data_type(arrow) = a, pg_type_from_exasol_metadata(json, arrow) \in {{a}, {}},
             pg_type_for_exasol_data_type(json) = j, map_exasol_column_type(text).oid = oid
      PROVE  TypeRow(column, base, a, j, oid)
  <2>1. ArrowType(column) = a BY <1>2, <1>6
  <2>2. QED BY <1>6, <2>1 DEF TypeRow, JsonType, CatalogOid, json, text
<1>7. CASE Named(column, "BOOLEAN", "BOOLEAN", FALSE, "Boolean")
  <2>1. /\ text.base = "BOOLEAN" /\ text.args = << >> /\ arrow.id = "Boolean"
        /\ "type" \in DOMAIN json /\ "str" \notin DOMAIN json /\ json["type"] = "BOOLEAN"
    BY <1>5, <1>7
  <2>2. pg_type_for_arrow_data_type(arrow) = "BOOL" BY <2>1, ArrowTypes
  <2>3. pg_type_from_exasol_metadata(json, arrow) \in {{"BOOL"}, {}} BY <2>1, MetadataTypes
  <2>4. pg_type_for_exasol_data_type(json) = "BOOL" BY <2>1, JsonTypes
  <2>5. map_exasol_column_type(text).oid = 16 BY <2>1, CatalogTypes
  <2>6. TypeRow(column, "BOOLEAN", "BOOL", "BOOL", 16) BY <1>6, <2>1, <2>2, <2>3, <2>4, <2>5
  <2>7. QED BY <2>6 DEF Tabled
<1>8. CASE Named(column, "DOUBLE", "DOUBLE", FALSE, "Float64")
  <2>1. /\ text.base = "DOUBLE" /\ text.args = << >> /\ arrow.id = "Float64"
        /\ "type" \in DOMAIN json /\ "str" \notin DOMAIN json /\ json["type"] = "DOUBLE"
    BY <1>5, <1>8
  <2>2. pg_type_for_arrow_data_type(arrow) = "FLOAT8" BY <2>1, ArrowTypes
  <2>3. pg_type_from_exasol_metadata(json, arrow) \in {{"FLOAT8"}, {}} BY <2>1, MetadataTypes
  <2>4. pg_type_for_exasol_data_type(json) = "FLOAT8" BY <2>1, JsonTypes
  <2>5. map_exasol_column_type(text).oid = 701 BY <2>1, CatalogTypes
  <2>6. TypeRow(column, "DOUBLE", "FLOAT8", "FLOAT8", 701) BY <1>6, <2>1, <2>2, <2>3, <2>4, <2>5
  <2>7. QED BY <2>6 DEF Tabled
<1>9. CASE Named(column, "DATE", "DATE", FALSE, "Date32")
  <2>1. /\ text.base = "DATE" /\ text.args = << >> /\ arrow.id = "Date32"
        /\ "type" \in DOMAIN json /\ "str" \notin DOMAIN json /\ json["type"] = "DATE"
    BY <1>5, <1>9
  <2>2. pg_type_for_arrow_data_type(arrow) = "DATE" BY <2>1, ArrowTypes
  <2>3. pg_type_from_exasol_metadata(json, arrow) \in {{"DATE"}, {}} BY <2>1, MetadataTypes
  <2>4. pg_type_for_exasol_data_type(json) = "DATE" BY <2>1, JsonTypes
  <2>5. map_exasol_column_type(text).oid = 1082 BY <2>1, CatalogTypes
  <2>6. TypeRow(column, "DATE", "DATE", "DATE", 1082) BY <1>6, <2>1, <2>2, <2>3, <2>4, <2>5
  <2>7. QED BY <2>6 DEF Tabled
<1>10. CASE Named(column, "CHAR", "CHAR", TRUE, "Utf8")
  <2>1. /\ text.base = "CHAR" /\ Len(text.args) = 1 /\ arrow.id = "Utf8"
        /\ "type" \in DOMAIN json /\ "str" \notin DOMAIN json /\ json["type"] = "CHAR"
    BY <1>5, <1>10
  <2>2. pg_type_for_arrow_data_type(arrow) = "VARCHAR" BY <2>1, ArrowTypes
  <2>3. pg_type_from_exasol_metadata(json, arrow) \in {{"VARCHAR"}, {}} BY <2>1, MetadataTypes
  <2>4. pg_type_for_exasol_data_type(json) = "VARCHAR" BY <2>1, JsonTypes
  <2>5. map_exasol_column_type(text).oid = 1042 BY <2>1, CatalogTypes
  <2>6. TypeRow(column, "CHAR", "VARCHAR", "VARCHAR", 1042) BY <1>6, <2>1, <2>2, <2>3, <2>4, <2>5
  <2>7. QED BY <2>6 DEF Tabled
<1>11. CASE Named(column, "VARCHAR", "VARCHAR", TRUE, "Utf8")
  <2>1. /\ text.base = "VARCHAR" /\ Len(text.args) = 1 /\ arrow.id = "Utf8"
        /\ "type" \in DOMAIN json /\ "str" \notin DOMAIN json /\ json["type"] = "VARCHAR"
    BY <1>5, <1>11
  <2>2. pg_type_for_arrow_data_type(arrow) = "VARCHAR" BY <2>1, ArrowTypes
  <2>3. pg_type_from_exasol_metadata(json, arrow) \in {{"VARCHAR"}, {}} BY <2>1, MetadataTypes
  <2>4. pg_type_for_exasol_data_type(json) = "VARCHAR" BY <2>1, JsonTypes
  <2>5. map_exasol_column_type(text).oid = 1043 BY <2>1, CatalogTypes
  <2>6. TypeRow(column, "VARCHAR", "VARCHAR", "VARCHAR", 1043) BY <1>6, <2>1, <2>2, <2>3, <2>4, <2>5
  <2>7. QED BY <2>6 DEF Tabled
<1>12. CASE Named(column, "HASHTYPE", "HASHTYPE", TRUE, "Utf8")
  <2>1. /\ text.base = "HASHTYPE" /\ Len(text.args) = 1 /\ arrow.id = "Utf8"
        /\ "type" \in DOMAIN json /\ "str" \notin DOMAIN json /\ json["type"] = "HASHTYPE"
    BY <1>5, <1>12
  <2>2. pg_type_for_arrow_data_type(arrow) = "VARCHAR" BY <2>1, ArrowTypes
  <2>3. pg_type_from_exasol_metadata(json, arrow) \in {{"VARCHAR"}, {}} BY <2>1, MetadataTypes
  <2>4. pg_type_for_exasol_data_type(json) = "VARCHAR" BY <2>1, JsonTypes
  <2>5. map_exasol_column_type(text).oid = 25 BY <2>1, CatalogTypes
  <2>6. TypeRow(column, "HASHTYPE", "VARCHAR", "VARCHAR", 25) BY <1>6, <2>1, <2>2, <2>3, <2>4, <2>5
  <2>7. QED BY <2>6 DEF Tabled
<1>13. CASE Named(column, "GEOMETRY", "GEOMETRY", FALSE, "Utf8")
  <2>1. /\ text.base = "GEOMETRY" /\ text.args = << >> /\ arrow.id = "Utf8"
        /\ "type" \in DOMAIN json /\ "str" \notin DOMAIN json /\ json["type"] = "GEOMETRY"
    BY <1>5, <1>13
  <2>2. pg_type_for_arrow_data_type(arrow) = "VARCHAR" BY <2>1, ArrowTypes
  <2>3. pg_type_from_exasol_metadata(json, arrow) \in {{"VARCHAR"}, {}} BY <2>1, MetadataTypes
  <2>4. pg_type_for_exasol_data_type(json) = "TEXT" BY <2>1, JsonTypes
  <2>5. map_exasol_column_type(text).oid = 25 BY <2>1, CatalogTypes
  <2>6. TypeRow(column, "GEOMETRY", "VARCHAR", "TEXT", 25) BY <1>6, <2>1, <2>2, <2>3, <2>4, <2>5
  <2>7. QED BY <2>6 DEF Tabled
<1>14. CASE Named(column, "INTERVAL_DAY_TO_SECOND", "INTERVAL_DAY", TRUE, "Utf8")
  <2>1. /\ text.base = "INTERVAL_DAY" /\ Len(text.args) = 1 /\ arrow.id = "Utf8"
        /\ "type" \in DOMAIN json /\ "str" \notin DOMAIN json /\ json["type"] = "INTERVAL_DAY_TO_SECOND"
    BY <1>5, <1>14
  <2>2. pg_type_for_arrow_data_type(arrow) = "VARCHAR" BY <2>1, ArrowTypes
  <2>3. pg_type_from_exasol_metadata(json, arrow) \in {{"VARCHAR"}, {}} BY <2>1, MetadataTypes
  <2>4. pg_type_for_exasol_data_type(json) = "TEXT" BY <2>1, JsonTypes
  <2>5. map_exasol_column_type(text).oid = 25 BY <2>1, CatalogTypes
  <2>6. TypeRow(column, "INTERVAL_DAY", "VARCHAR", "TEXT", 25) BY <1>6, <2>1, <2>2, <2>3, <2>4, <2>5
  <2>7. QED BY <2>6 DEF Tabled
<1>15. ASSUME json = [type |-> "TIMESTAMP_WITH_LOCAL_TIME_ZONE"], text.base = "TIMESTAMP", text.tail = "WITH_LOCAL_TIME_ZONE",
             arrow = [id |-> "Timestamp", zone |-> TRUE]
      PROVE  TypeRow(column, "TIMESTAMP", "TIMESTAMPTZ", "TIMESTAMPTZ", 1184)
  <2>1. /\ text.base = "TIMESTAMP" /\ text.tail = "WITH_LOCAL_TIME_ZONE" /\ arrow.id = "Timestamp" /\ arrow.zone = TRUE
        /\ "type" \in DOMAIN json /\ "str" \notin DOMAIN json /\ json["type"] = "TIMESTAMP_WITH_LOCAL_TIME_ZONE"
    BY <1>15
  <2>2. pg_type_for_arrow_data_type(arrow) = "TIMESTAMPTZ" BY <2>1, ArrowTypes
  <2>3. pg_type_from_exasol_metadata(json, arrow) \in {{"TIMESTAMPTZ"}, {}} BY <2>1, MetadataTypes
  <2>4. pg_type_for_exasol_data_type(json) = "TIMESTAMPTZ" BY <2>1, JsonTypes
  <2>5. map_exasol_column_type(text).oid = 1184 BY <2>1, CatalogTypes
  <2>6. TypeRow(column, "TIMESTAMP", "TIMESTAMPTZ", "TIMESTAMPTZ", 1184) BY <1>6, <2>1, <2>2, <2>3, <2>4, <2>5
  <2>7. QED BY <2>6
<1>16. ASSUME json = [type |-> "TIMESTAMP"], text.base = "TIMESTAMP", text.tail = "none",
             arrow = [id |-> "Timestamp", zone |-> FALSE]
      PROVE  TypeRow(column, "TIMESTAMP", "TIMESTAMP", "TIMESTAMP", 1114)
  <2>1. /\ text.base = "TIMESTAMP" /\ text.tail = "none" /\ arrow.id = "Timestamp" /\ arrow.zone = FALSE
        /\ "type" \in DOMAIN json /\ "str" \notin DOMAIN json /\ json["type"] = "TIMESTAMP"
    BY <1>16
  <2>2. pg_type_for_arrow_data_type(arrow) = "TIMESTAMP" BY <2>1, ArrowTypes
  <2>3. pg_type_from_exasol_metadata(json, arrow) \in {{"TIMESTAMP"}, {}} BY <2>1, MetadataTypes
  <2>4. pg_type_for_exasol_data_type(json) = "TIMESTAMP" BY <2>1, JsonTypes
  <2>5. map_exasol_column_type(text).oid = 1114 BY <2>1, CatalogTypes
  <2>6. TypeRow(column, "TIMESTAMP", "TIMESTAMP", "TIMESTAMP", 1114) BY <1>6, <2>1, <2>2, <2>3, <2>4, <2>5
  <2>7. QED BY <2>6
<1>17. ASSUME NEW p, NEW s, text.base = "DECIMAL", Len(text.args) = 2, text.tail = "none",
             json = [type |-> "DECIMAL", precision |-> p, scale |-> s],
             arrow = [id |-> "Decimal128", precision |-> p, scale |-> s]
      PROVE  \/ TypeRow(column, "DECIMAL", "INT4", "INT4", 1700)
             \/ TypeRow(column, "DECIMAL", "NUMERIC", "NUMERIC", 1700)
  <2> DEFINE d == decimal_pg_type(p, s)
  <2>1. /\ arrow.id = "Decimal128" /\ arrow.precision = p /\ arrow.scale = s
        /\ {"precision", "scale"} \subseteq DOMAIN json /\ json["precision"] = p /\ json["scale"] = s
        /\ "type" \in DOMAIN json /\ "str" \notin DOMAIN json /\ json["type"] = "DECIMAL"
    BY <1>17
  <2>2. d \in {"INT4", "NUMERIC"} BY DEF decimal_pg_type
  <2> HIDE DEF d
  <2>3. pg_type_for_arrow_data_type(arrow) = d BY <2>1, ArrowTypes DEF d
  <2>4. pg_type_from_exasol_metadata(json, arrow) \in {{d}, {}} BY <2>1, MetadataTypes DEF d
  <2>5. pg_type_for_exasol_data_type(json) = d BY <2>1, JsonTypes DEF d
  <2>6. map_exasol_column_type(text).oid = 1700 BY <1>17, CatalogTypes
  <2>7. TypeRow(column, "DECIMAL", d, d, 1700) BY <1>6, <1>17, <2>3, <2>4, <2>5, <2>6
  <2>8. QED BY <2>2, <2>7
<1>18. ASSUME NEW zone \in BOOLEAN,
             json = [type |-> IF zone THEN "TIMESTAMP_WITH_LOCAL_TIME_ZONE" ELSE "TIMESTAMP"],
             text.base = "TIMESTAMP", text.tail = IF zone THEN "WITH_LOCAL_TIME_ZONE" ELSE "none",
             arrow = [id |-> "Timestamp", zone |-> zone]
      PROVE  \/ TypeRow(column, "TIMESTAMP", "TIMESTAMP", "TIMESTAMP", 1114)
             \/ TypeRow(column, "TIMESTAMP", "TIMESTAMPTZ", "TIMESTAMPTZ", 1184)
  <2>1. CASE zone = TRUE
    <3>1. /\ json = [type |-> "TIMESTAMP_WITH_LOCAL_TIME_ZONE"] /\ text.tail = "WITH_LOCAL_TIME_ZONE"
          /\ arrow = [id |-> "Timestamp", zone |-> TRUE]
      BY <1>18, <2>1
    <3>2. QED BY <1>15, <1>18, <3>1, ZenonT(60)
  <2>2. CASE zone = FALSE
    <3>1. /\ json = [type |-> "TIMESTAMP"] /\ text.tail = "none"
          /\ arrow = [id |-> "Timestamp", zone |-> FALSE]
      BY <1>18, <2>2
    <3>2. QED BY <1>16, <1>18, <3>1, ZenonT(60)
  <2>3. QED BY <2>1, <2>2, ZenonT(60)
<1>19. \/ \E zone \in BOOLEAN :
             /\ json = [type |-> IF zone THEN "TIMESTAMP_WITH_LOCAL_TIME_ZONE" ELSE "TIMESTAMP"]
             /\ text.base = "TIMESTAMP" /\ text.tail = IF zone THEN "WITH_LOCAL_TIME_ZONE" ELSE "none"
             /\ arrow = [id |-> "Timestamp", zone |-> zone]
        \/ /\ text.base = "DECIMAL" /\ Len(text.args) = 2 /\ text.tail = "none"
           /\ json = [type |-> "DECIMAL", precision |-> text.args[1], scale |-> text.args[2]]
           /\ arrow = [id |-> "Decimal128", precision |-> text.args[1], scale |-> text.args[2]]
        \/ Named(column, "BOOLEAN", "BOOLEAN", FALSE, "Boolean")
        \/ Named(column, "DOUBLE", "DOUBLE", FALSE, "Float64")
        \/ Named(column, "DATE", "DATE", FALSE, "Date32")
        \/ Named(column, "CHAR", "CHAR", TRUE, "Utf8")
        \/ Named(column, "VARCHAR", "VARCHAR", TRUE, "Utf8")
        \/ Named(column, "HASHTYPE", "HASHTYPE", TRUE, "Utf8")
        \/ Named(column, "GEOMETRY", "GEOMETRY", FALSE, "Utf8")
        \/ Named(column, "INTERVAL_DAY_TO_SECOND", "INTERVAL_DAY", TRUE, "Utf8")
        \/ Named(column, "INTERVAL_YEAR_TO_MONTH", "INTERVAL_YEAR", TRUE, "Utf8")
  BY Zenon DEF ExasolType, json, text, arrow
<1>20. CASE \E zone \in BOOLEAN :
             /\ json = [type |-> IF zone THEN "TIMESTAMP_WITH_LOCAL_TIME_ZONE" ELSE "TIMESTAMP"]
             /\ text.base = "TIMESTAMP" /\ text.tail = IF zone THEN "WITH_LOCAL_TIME_ZONE" ELSE "none"
             /\ arrow = [id |-> "Timestamp", zone |-> zone]
  <2>1. \/ TypeRow(column, "TIMESTAMP", "TIMESTAMP", "TIMESTAMP", 1114)
        \/ TypeRow(column, "TIMESTAMP", "TIMESTAMPTZ", "TIMESTAMPTZ", 1184)
    BY <1>18, <1>20, SMTT(60)
  <2>2. QED BY <2>1 DEF Tabled
<1>21. CASE /\ text.base = "DECIMAL" /\ Len(text.args) = 2 /\ text.tail = "none"
            /\ json = [type |-> "DECIMAL", precision |-> text.args[1], scale |-> text.args[2]]
            /\ arrow = [id |-> "Decimal128", precision |-> text.args[1], scale |-> text.args[2]]
  <2>1. \/ TypeRow(column, "DECIMAL", "INT4", "INT4", 1700)
        \/ TypeRow(column, "DECIMAL", "NUMERIC", "NUMERIC", 1700)
    BY <1>17, <1>21
  <2>2. QED BY <2>1 DEF Tabled
<1>22. CASE Named(column, "INTERVAL_YEAR_TO_MONTH", "INTERVAL_YEAR", TRUE, "Utf8")
  <2>1. /\ text.base = "INTERVAL_YEAR" /\ Len(text.args) = 1 /\ arrow.id = "Utf8"
        /\ "type" \in DOMAIN json /\ "str" \notin DOMAIN json /\ json["type"] = "INTERVAL_YEAR_TO_MONTH"
    BY <1>5, <1>22
  <2>2. pg_type_for_arrow_data_type(arrow) = "VARCHAR" BY <2>1, ArrowTypes
  <2>3. pg_type_from_exasol_metadata(json, arrow) \in {{"VARCHAR"}, {}} BY <2>1, MetadataTypes
  <2>4. pg_type_for_exasol_data_type(json) = "TEXT" BY <2>1, JsonTypes
  <2>5. map_exasol_column_type(text).oid = 25 BY <2>1, CatalogTypes
  <2>6. TypeRow(column, "INTERVAL_YEAR", "VARCHAR", "TEXT", 25) BY <1>6, <2>1, <2>2, <2>3, <2>4, <2>5
  <2>7. QED BY <2>6 DEF Tabled
<1>23. QED
  BY <1>7, <1>8, <1>9, <1>10, <1>11, <1>12, <1>13, <1>14, <1>19, <1>20, <1>21, <1>22

(****************************************************************************)
(* The rows of an answer over each transport.                               *)
(****************************************************************************)

\* A row as each transport spells it.
ArrowRow(row) == [c \in DOMAIN row |-> ArrowText(row[c])]
TypedRow(row) == [c \in DOMAIN row |-> value_to_text(row[c])]

ArrowRowOf(st) == [row \in RowsOf(st) |-> ArrowRow(row)]
TypedRowOf(st) == [row \in RowsOf(st) |-> TypedRow(row)]
ArrowRowsOf(st) == {ArrowRow(row) : row \in RowsOf(st)}
TypedRowsOf(st) == {TypedRow(row) : row \in RowsOf(st)}

\* Both spellings are functions of a row.
LEMMA RowMaps ==
  ASSUME NEW st
  PROVE  /\ IsMap(ArrowRowOf(st), RowsOf(st), ArrowRowsOf(st))
         /\ IsMap(TypedRowOf(st), RowsOf(st), TypedRowsOf(st))
         /\ \A row \in RowsOf(st) : ArrowRowOf(st)[row] = ArrowRow(row) /\ TypedRowOf(st)[row] = TypedRow(row)
<1> DEFINE X == RowsOf(st)
<1> HIDE DEF X
<1>1. [row \in X |-> ArrowRow(row)] \in [X -> {ArrowRow(row) : row \in X}] OBVIOUS
<1>2. [row \in X |-> TypedRow(row)] \in [X -> {TypedRow(row) : row \in X}] OBVIOUS
<1>3. QED BY <1>1, <1>2 DEF X, IsMap, ArrowRowOf, TypedRowOf, ArrowRowsOf, TypedRowsOf

\* A row is as wide as the list of the columns.
LEMMA RowWidth ==
  ASSUME NEW st \in Statements, NEW row \in RowsOf(st)
  PROVE  Len(row) = Len(st.columns) /\ DOMAIN row = 1 .. Len(row) /\ Len(row) \in Nat \ {0}
         /\ \A c \in DOMAIN row : row[c].kind = "null" => row[c].v = 0
<1>1. row \in Seq(ToSet(row)) /\ row # << >> /\ Len(row) = Len(st.columns)
      /\ \A cell \in ToSet(row) : cell.kind = "null" => cell.v = 0
  BY StatementsAssumption
<1>2. DOMAIN row = 1 .. Len(row) /\ Len(row) \in Nat /\ \A c \in 1 .. Len(row) : row[c] \in ToSet(row) BY <1>1
<1>3. Len(row) # 0 BY <1>1, EmptySeq
<1>4. QED BY <1>1, <1>2, <1>3

\* The largest of no rows and n rows.
LEMMA MaxOfTwo ==
  ASSUME NEW n \in Nat, NEW S, S = {0, n}
  PROVE  Max(S) = n
  BY DEF Max

\* A message transposed is its rows, each spelled by value_to_text.
LEMMA Transposed ==
  ASSUME NEW st \in Statements, NEW chunk \in Seq(RowsOf(st))
  PROVE  transpose_data(ByColumn(chunk, Len(st.columns))) = Mapped(TypedRowOf(st), chunk)
<1> DEFINE w == Len(st.columns)
           data == ByColumn(chunk, w)
           n == Len(chunk)
           m == Mapped(TypedRowOf(st), chunk)
           row_count == Max({0} \cup {Len(data[c]) : c \in DOMAIN data})
<1>0. st.columns \in Seq(ToSet(st.columns)) BY StatementsAssumption
<1>1. w \in Nat /\ n \in Nat /\ DOMAIN chunk = 1 .. n BY <1>0
<1> HIDE DEF w, n
<1>2. DOMAIN data = 1 .. w /\ \A c \in 1 .. w : data[c] = [r \in 1 .. n |-> chunk[r][c]] BY <1>1 DEF ByColumn
<1>3. \A c \in 1 .. w : Len(data[c]) = n /\ DOMAIN data[c] = 1 .. n BY <1>1, <1>2
<1> HIDE DEF data
<1>4. row_count = n
  <2>1. CASE n = 0
    <3>1. {0} \cup {Len(data[c]) : c \in DOMAIN data} = {0, n} BY <1>2, <1>3, <2>1
    <3>2. QED BY <1>1, <3>1, MaxOfTwo
  <2>2. CASE n # 0
    <3>1. chunk[1] \in RowsOf(st) BY <1>1, <2>2 DEF n
    <3>2. w # 0 BY <3>1, RowWidth DEF w
    <3>3. 1 \in 1 .. w BY <1>1, <3>2
    <3>4. {0} \cup {Len(data[c]) : c \in DOMAIN data} = {0, n} BY <1>2, <1>3, <3>3
    <3>5. QED BY <1>1, <3>4, MaxOfTwo
  <2>3. QED BY <2>1, <2>2
<1>5. transpose_data(data) = [r \in 1 .. n |->
        [c \in 1 .. w |-> IF r \in DOMAIN data[c] THEN value_to_text(data[c][r]) ELSE NoText]]
  BY <1>2, <1>4 DEF transpose_data
<1>6. m = [r \in 1 .. n |-> TypedRowOf(st)[chunk[r]]] BY <1>1 DEF Mapped
<1>7. ASSUME NEW r \in 1 .. n
      PROVE  [c \in 1 .. w |-> IF r \in DOMAIN data[c] THEN value_to_text(data[c][r]) ELSE NoText]
               = TypedRowOf(st)[chunk[r]]
  <2>1. chunk[r] \in RowsOf(st) BY <1>1 DEF n
  <2>2. TypedRowOf(st)[chunk[r]] = TypedRow(chunk[r]) BY <2>1, RowMaps
  <2>3. DOMAIN chunk[r] = 1 .. w BY <2>1, RowWidth DEF w
  <2>4. TypedRow(chunk[r]) = [c \in 1 .. w |-> value_to_text(chunk[r][c])] BY <2>3 DEF TypedRow
  <2>5. ASSUME NEW c \in 1 .. w
        PROVE  (IF r \in DOMAIN data[c] THEN value_to_text(data[c][r]) ELSE NoText) = value_to_text(chunk[r][c])
    <3>1. r \in DOMAIN data[c] BY <1>3
    <3>2. data[c][r] = chunk[r][c] BY <1>2
    <3>3. QED BY <3>1, <3>2
  <2>6. QED BY <2>2, <2>4, <2>5
<1>8. QED BY <1>5, <1>6, <1>7 DEF data, w

\* It is the same to cut the range first and to spell the rows first.
LEMMA SliceMapped ==
  ASSUME NEW X, NEW Y, NEW f, IsMap(f, X, Y), NEW s \in Seq(X), NEW from \in Nat, NEW to \in Nat
  PROVE  /\ typed_slice(s, from, to) \in Seq(X)
         /\ typed_slice(Mapped(f, s), from, to) = Mapped(f, typed_slice(s, from, to))
<1>1. Mapped(f, s) \in Seq(Y) /\ Len(Mapped(f, s)) = Len(s) /\ Len(s) \in Nat BY MappedType
<1>2. CASE from >= to \/ from >= Len(s)
  <2>1. typed_slice(s, from, to) = << >> /\ typed_slice(Mapped(f, s), from, to) = << >>
    BY <1>1, <1>2 DEF typed_slice
  <2>2. QED BY <2>1, MappedEmpty, EmptySeq
<1>3. CASE ~(from >= to \/ from >= Len(s))
  <2> DEFINE j == IF to < Len(s) THEN to ELSE Len(s)
  <2>1. j \in Nat /\ j <= Len(s) BY <1>1
  <2>2. typed_slice(s, from, to) = SubSeq(s, from + 1, j)
        /\ typed_slice(Mapped(f, s), from, to) = SubSeq(Mapped(f, s), from + 1, j)
    BY <1>1, <1>3 DEF typed_slice
  <2> HIDE DEF j
  <2>3. SubSeq(Mapped(f, s), from + 1, j) = Mapped(f, SubSeq(s, from + 1, j)) BY <2>1, SubSeqMapped
  <2>4. SubSeq(s, from + 1, j) \in Seq(X) BY <1>1, <2>1
  <2>5. QED BY <2>2, <2>3, <2>4
<1>4. QED BY <1>2, <1>3

\* ... and backwards.
LEMMA ReverseSliceMapped ==
  ASSUME NEW X, NEW Y, NEW f, IsMap(f, X, Y), NEW s \in Seq(X), NEW from \in Nat, NEW to \in Nat
  PROVE  /\ typed_reverse_slice(s, from, to) \in Seq(X)
         /\ typed_reverse_slice(Mapped(f, s), from, to) = Mapped(f, typed_reverse_slice(s, from, to))
<1> DEFINE p == typed_slice(s, from, to)
<1>1. p \in Seq(X) /\ typed_slice(Mapped(f, s), from, to) = Mapped(f, p)
  <2> HIDE DEF p
  <2>1. IsMap(f, X, Y) /\ s \in Seq(X) /\ from \in Nat /\ to \in Nat OBVIOUS
  <2>2. typed_slice(s, from, to) \in Seq(X) BY <2>1, SliceMapped
  <2>3. typed_slice(Mapped(f, s), from, to) = Mapped(f, typed_slice(s, from, to)) BY <2>1, SliceMapped
  <2>4. QED BY <2>2, <2>3 DEF p
<1> HIDE DEF p
<1>2. Reverse(p) \in Seq(X) BY <1>1, ReverseType
<1>3. Reverse(Mapped(f, p)) = Mapped(f, Reverse(p)) BY <1>1, ReverseMapped
<1>4. QED BY <1>1, <1>2, <1>3 DEF typed_reverse_slice, p

\* The chunks of an answer and the rows in them.
LEMMA Chunks ==
  ASSUME NEW st \in Statements
  PROVE  st.chunks \in Seq(Seq(RowsOf(st))) /\ FlattenSeq(st.chunks) \in Seq(RowsOf(st))
<1>1. st.chunks \in Seq(Seq(RowsOf(st))) BY StatementsAssumption
<1>2. QED BY <1>1, FlattenType

\* The typed rows are the rows of the answer.
LEMMA TypedRows ==
  ASSUME NEW st \in Statements, st.how # "write"
  PROVE  websocket_execute(st).rows = Mapped(TypedRowOf(st), FlattenSeq(st.chunks))
<1> DEFINE X == RowsOf(st)
           f == TypedRowOf(st)
           F == Lifted(f, X)
           chunks == st.chunks
           got == [i \in DOMAIN chunks |-> transpose_data(ByColumn(chunks[i], Len(st.columns)))]
<1>1. websocket_execute(st).rows = FlattenSeq(got) BY DEF websocket_execute
<1>2. chunks \in Seq(Seq(X)) BY Chunks
<1>3. IsMap(f, X, TypedRowsOf(st)) BY RowMaps
<1>4. got = Mapped(F, chunks)
  <2> SUFFICES ASSUME NEW i \in DOMAIN chunks
               PROVE  transpose_data(ByColumn(chunks[i], Len(st.columns))) = F[chunks[i]]
    BY DEF Mapped
  <2>1. chunks[i] \in Seq(X) BY <1>2
  <2>2. F[chunks[i]] = Mapped(f, chunks[i]) BY <2>1 DEF Lifted
  <2>3. QED BY <2>1, <2>2, Transposed
<1>5. FlattenSeq(Mapped(F, chunks)) = Mapped(f, FlattenSeq(chunks))
  <2> HIDE DEF X, f, chunks
  <2>1. QED BY <1>2, <1>3, FlattenMapped
<1>6. QED BY <1>1, <1>4, <1>5

\* The rows of a list of batches.
RowLists(bs) == [i \in DOMAIN bs |-> bs[i].rows]

\* What is sent of a list of batches is their rows.
LEMMA EncodedRows ==
  ASSUME NEW st, NEW bs, RowLists(bs) \in Seq(Seq(RowsOf(st)))
  PROVE  /\ \A schema, fold :
              query_response_arrow(schema, bs, fold).rows = Mapped(ArrowRowOf(st), FlattenSeq(RowLists(bs)))
         /\ render_arrow_batches_as_strings(bs) = Mapped(ArrowRowOf(st), FlattenSeq(RowLists(bs)))
<1> DEFINE X == RowsOf(st)
           f == ArrowRowOf(st)
           F == Lifted(f, X)
           lists == RowLists(bs)
           got == [i \in DOMAIN bs |-> [r \in DOMAIN bs[i].rows |-> ArrowRow(bs[i].rows[r])]]
<1>1. render_arrow_batches_as_strings(bs) = FlattenSeq(got)
  BY DEF render_arrow_batches_as_strings, ArrowRow
<1>2. ASSUME NEW schema, NEW fold PROVE query_response_arrow(schema, bs, fold).rows = FlattenSeq(got)
  BY DEF query_response_arrow, encode_one_row, ArrowRow
<1>3. IsMap(f, X, ArrowRowsOf(st)) /\ \A row \in X : f[row] = ArrowRow(row) BY RowMaps
<1>4. lists \in Seq(Seq(X)) OBVIOUS
<1>5. DOMAIN lists = DOMAIN bs /\ \A i \in DOMAIN bs : lists[i] = bs[i].rows BY DEF RowLists
<1> HIDE DEF lists, X, f
<1>6. got = Mapped(F, lists)
  <2> SUFFICES ASSUME NEW i \in DOMAIN lists
               PROVE  [r \in DOMAIN lists[i] |-> ArrowRow(lists[i][r])] = F[lists[i]]
    BY <1>5 DEF Mapped
  <2>1. lists[i] \in Seq(X) BY <1>4
  <2>2. F[lists[i]] = Mapped(f, lists[i]) BY <2>1 DEF Lifted
  <2>3. \A r \in DOMAIN lists[i] : lists[i][r] \in X BY <2>1
  <2>4. [r \in DOMAIN lists[i] |-> ArrowRow(lists[i][r])] = Mapped(f, lists[i]) BY <1>3, <2>3 DEF Mapped
  <2>5. QED BY <2>2, <2>4
<1>7. FlattenSeq(Mapped(F, lists)) = Mapped(f, FlattenSeq(lists)) BY <1>3, <1>4, FlattenMapped
<1>8. QED BY <1>1, <1>2, <1>6, <1>7 DEF lists, f

\* A list of one empty batch has no rows.
LEMMA FlatBatches ==
  ASSUME NEW st \in Statements, st.how # "write"
  PROVE  /\ RowLists(arrow_execute(st).batches) \in Seq(Seq(RowsOf(st)))
         /\ FlattenSeq(RowLists(arrow_execute(st).batches)) = FlattenSeq(st.chunks)
<1> DEFINE lists == RowLists(arrow_execute(st).batches)
<1>1. lists = IF st.chunks = << >> /\ st.schema THEN << << >> >> ELSE st.chunks
  BY BatchesOfAnswer DEF RowLists
<1>2. st.chunks \in Seq(Seq(RowsOf(st))) BY Chunks
<1> HIDE DEF lists
<1>3. CASE st.chunks = << >> /\ st.schema
  <2>1. << >> \in Seq(Seq(RowsOf(st))) /\ << >> \in Seq(RowsOf(st)) BY EmptySeq
  <2>2. lists = Append(<< >>, << >>) BY <1>1, <1>3
  <2>3. FlattenSeq(Append(<< >>, << >>)) = FlattenSeq(<< >>) \o << >> BY <2>1, FlattenAppend
  <2>4. FlattenSeq(lists) = << >> BY <2>2, <2>3, FlattenEmpty
  <2>5. Append(<< >>, << >>) \in Seq(Seq(RowsOf(st))) BY <2>1
  <2>6. QED BY <1>3, <2>2, <2>4, <2>5, FlattenEmpty DEF lists
<1>4. CASE ~(st.chunks = << >> /\ st.schema) BY <1>1, <1>2, <1>4 DEF lists
<1>5. QED BY <1>3, <1>4

\* The schema that describes a result over Arrow.
LEMMA SchemaOfAnswer ==
  ASSUME NEW st \in Statements, st.how # "write"
  PROVE  cursor_schema_for(arrow_execute(st).batches)
           = IF st.chunks = << >> /\ ~st.schema THEN << >> ELSE [i \in DOMAIN st.columns |-> st.columns[i].field]
<1> DEFINE fields == [i \in DOMAIN st.columns |-> st.columns[i].field]
           bs == [i \in DOMAIN st.chunks |-> [schema |-> fields, rows |-> st.chunks[i]]]
           got == arrow_execute(st).batches
<1>1. got = backfill_schema_when_empty(bs, IF st.schema THEN {fields} ELSE {}) BY DEF arrow_execute
<1>2. st.chunks \in Seq(Seq(RowsOf(st))) BY Chunks
<1>3. CASE st.chunks = << >>
  <2>1. bs = << >> BY <1>3
  <2>2. CASE st.schema
    <3>1. got = << [schema |-> CHOOSE s \in {fields} : TRUE, rows |-> << >>] >>
      BY <1>1, <2>1, <2>2 DEF backfill_schema_when_empty
    <3>2. (CHOOSE s \in {fields} : TRUE) = fields
      <4> HIDE DEF fields
      <4>1. QED OBVIOUS
    <3> HIDE DEF got, fields
    <3>3. got # << >> /\ got[1].schema = fields BY <3>1, <3>2
    <3>4. cursor_schema_for(got) = fields BY <3>3 DEF cursor_schema_for
    <3>5. QED BY <2>2, <3>4 DEF got, fields
  <2>3. CASE ~st.schema
    <3>1. got = << >> BY <1>1, <2>1, <2>3 DEF backfill_schema_when_empty
    <3>2. QED BY <1>3, <2>3, <3>1 DEF cursor_schema_for
  <2>4. QED BY <2>2, <2>3
<1>4. CASE st.chunks # << >>
  <2>1. 1 \in DOMAIN st.chunks
    <3>1. Len(st.chunks) # 0 BY <1>2, <1>4, EmptySeq
    <3>2. QED BY <1>2, <3>1
  <2> HIDE DEF fields
  <2>2. bs # << >> /\ bs[1].schema = fields BY <2>1
  <2>3. got = bs BY <1>1, <2>2 DEF backfill_schema_when_empty
  <2>4. cursor_schema_for(got) = fields BY <2>2, <2>3 DEF cursor_schema_for
  <2>5. QED BY <1>4, <2>4 DEF got, fields
<1>5. QED BY <1>3, <1>4

\* The rows asked for are rows of the answer.
LEMMA WantedType ==
  ASSUME SliceInv
  PROVE  Wanted \in Seq(RowsOf(stmt))
<1> DEFINE rows == FlattenSeq(stmt.chunks)
<1>1. rows \in Seq(RowsOf(stmt)) BY Chunks DEF SliceInv
<1>2. stmt.from \in Nat /\ stmt.to \in Nat BY RangeType DEF SliceInv
<1>3. IsMap(ArrowRowOf(stmt), RowsOf(stmt), ArrowRowsOf(stmt)) BY RowMaps
<1> HIDE DEF rows
<1>4. typed_slice(rows, stmt.from, stmt.to) \in Seq(RowsOf(stmt)) BY <1>1, <1>2, <1>3, SliceMapped
<1>5. typed_reverse_slice(rows, stmt.from, stmt.to) \in Seq(RowsOf(stmt))
  BY <1>1, <1>2, <1>3, ReverseSliceMapped
<1>6. QED BY <1>1, <1>4, <1>5 DEF Wanted, rows

\* A typed row is as wide as its description: no value is filled in, none left out.
LEMMA Unpadded ==
  ASSUME NEW st \in Statements, NEW rows \in Seq(RowsOf(st)), NEW fold,
         NEW columns, DOMAIN columns = DOMAIN st.columns
  PROVE  query_response_typed(columns, Mapped(TypedRowOf(st), rows), fold).rows = Mapped(TypedRowOf(st), rows)
<1> DEFINE m == Mapped(TypedRowOf(st), rows)
           fields == typed_columns(columns, fold)
<1>1. query_response_typed(columns, m, fold).rows =
        [r \in DOMAIN m |-> [c \in DOMAIN fields |-> IF c \in DOMAIN m[r] THEN m[r][c] ELSE NoText]]
  BY DEF query_response_typed
<1>2. DOMAIN fields = DOMAIN st.columns BY DEF typed_columns
<1>3. st.columns \in Seq(ToSet(st.columns)) BY StatementsAssumption
<1>4. DOMAIN st.columns = 1 .. Len(st.columns) BY <1>3
<1>5. m = [r \in DOMAIN rows |-> TypedRowOf(st)[rows[r]]] BY DEF Mapped
<1> HIDE DEF m, fields
<1>6. ASSUME NEW r \in DOMAIN m
      PROVE  [c \in DOMAIN fields |-> IF c \in DOMAIN m[r] THEN m[r][c] ELSE NoText] = m[r]
  <2>1. r \in DOMAIN rows /\ rows[r] \in RowsOf(st) BY <1>5
  <2>2. m[r] = TypedRow(rows[r]) BY <1>5, <2>1, RowMaps
  <2>3. DOMAIN rows[r] = DOMAIN fields BY <1>2, <1>4, <2>1, RowWidth
  <2>4. m[r] = [c \in DOMAIN fields |-> value_to_text(rows[r][c])] BY <2>2, <2>3 DEF TypedRow
  <2>5. QED BY <2>4
<1>7. [r \in DOMAIN m |-> [c \in DOMAIN fields |-> IF c \in DOMAIN m[r] THEN m[r][c] ELSE NoText]]
        = [r \in DOMAIN m |-> m[r]]
  BY <1>6
<1>8. m = [r \in DOMAIN m |-> m[r]] BY <1>5
<1>9. QED BY <1>1, <1>7, <1>8 DEF m

\* Whether the labels are folded.
Folded == IF stmt.how = "cursor" THEN FALSE ELSE stmt.fold

\* What the client gets over WebSocket.
LEMMA SentTyped ==
  ASSUME SliceInv, ResultInv, Answered({"query", "cursor"})
  PROVE  /\ sent["websocket"].rows = Mapped(TypedRowOf(stmt), Wanted)
         /\ sent["websocket"].fields = typed_columns(parse_columns(stmt.columns), Folded)
<1> DEFINE oc == websocket_execute(stmt)
           f == TypedRowOf(stmt)
           rows == FlattenSeq(stmt.chunks)
           r == Built(oc)
<1>1. stmt \in Statements /\ pc = "sent" /\ stmt.how \in {"query", "cursor"} BY DEF Answered, SliceInv
<1>2. start = stmt.from /\ end = stmt.to /\ backward = stmt.backward BY DEF SliceInv
<1>3. oc.tag = "TypedRows" /\ oc.columns = parse_columns(stmt.columns) BY <1>1 DEF websocket_execute
<1>4. oc.rows = Mapped(f, rows) BY <1>1, TypedRows
<1>5. sent["websocket"] = try_from(r)
  <2>1. "websocket" \in Transports BY DEF Transports
  <2>2. sent["websocket"] = try_from(Built(Answers(stmt)["websocket"])) BY <1>1, <2>1 DEF ResultInv
  <2>3. QED BY <1>1, <2>2, Tags
<1> HIDE DEF oc
<1>6. /\ r.tag = "TypedQuery" /\ r.columns = parse_columns(stmt.columns) /\ r.fold = Folded
      /\ r.rows = Mapped(f, Wanted)
  <2>1. CASE stmt.how = "query"
    <3>1. r = map_exasol_result(oc, stmt.fold, stmt.how = "write") BY <2>1 DEF Built
    <3>2. r = [tag |-> "TypedQuery", columns |-> oc.columns, rows |-> oc.rows, fold |-> stmt.fold]
      BY <1>3, <3>1 DEF map_exasol_result
    <3>3. Wanted = rows BY <2>1 DEF Wanted
    <3> HIDE DEF r
    <3>4. QED BY <1>3, <1>4, <2>1, <3>2, <3>3 DEF Folded
  <2>2. CASE stmt.how = "cursor"
    <3>1. r = fetch_cursor(oc) BY <2>2 DEF Built
    <3>2. r = [tag |-> "TypedQuery", columns |-> oc.columns, fold |-> FALSE,
               rows |-> IF backward THEN typed_reverse_slice(oc.rows, start, end)
                        ELSE typed_slice(oc.rows, start, end)]
      BY <1>3, <3>1 DEF fetch_cursor
    <3>3. rows \in Seq(RowsOf(stmt)) BY <1>1, Chunks
    <3>4. IsMap(f, RowsOf(stmt), TypedRowsOf(stmt)) BY RowMaps
    <3>5. start \in Nat /\ end \in Nat BY <1>1, <1>2, RangeType
    <3> HIDE DEF r, f, rows
    <3>6. typed_slice(Mapped(f, rows), start, end) = Mapped(f, typed_slice(rows, start, end))
      BY <3>3, <3>4, <3>5, SliceMapped
    <3>7. typed_reverse_slice(Mapped(f, rows), start, end) = Mapped(f, typed_reverse_slice(rows, start, end))
      BY <3>3, <3>4, <3>5, ReverseSliceMapped
    <3>8. Wanted = IF backward THEN typed_reverse_slice(rows, start, end) ELSE typed_slice(rows, start, end)
      BY <1>2, <2>2 DEF Wanted, rows
    <3>9. QED BY <1>3, <1>4, <2>2, <3>2, <3>6, <3>7, <3>8 DEF Folded
  <2>3. QED BY <1>1, <2>1, <2>2
<1> HIDE DEF r
<1>7. try_from(r) = query_response_typed(parse_columns(stmt.columns), Mapped(f, Wanted), Folded)
  BY <1>6 DEF try_from
<1>8. query_response_typed(parse_columns(stmt.columns), Mapped(f, Wanted), Folded).fields
        = typed_columns(parse_columns(stmt.columns), Folded)
  BY DEF query_response_typed
<1>9. query_response_typed(parse_columns(stmt.columns), Mapped(f, Wanted), Folded).rows = Mapped(f, Wanted)
  <2>1. Wanted \in Seq(RowsOf(stmt)) BY WantedType
  <2>2. DOMAIN parse_columns(stmt.columns) = DOMAIN stmt.columns BY DEF parse_columns
  <2>3. QED BY <1>1, <2>1, <2>2, Unpadded
<1>10. QED BY <1>5, <1>7, <1>8, <1>9

\* What the client gets over Arrow.
LEMMA SentArrow ==
  ASSUME SliceInv, ResultInv, Answered({"query", "cursor"})
  PROVE  /\ sent["arrow"].rows = Mapped(ArrowRowOf(stmt), Wanted)
         /\ sent["arrow"].fields = map_exasol_columns(cursor_schema_for(arrow_execute(stmt).batches), Folded)
<1> DEFINE oc == arrow_execute(stmt)
           f == ArrowRowOf(stmt)
           rows == FlattenSeq(stmt.chunks)
           schema == cursor_schema_for(oc.batches)
           r == Built(oc)
<1>1. stmt \in Statements /\ pc = "sent" /\ stmt.how \in {"query", "cursor"} BY DEF Answered, SliceInv
<1>2. start = stmt.from /\ end = stmt.to /\ backward = stmt.backward BY DEF SliceInv
<1>3. oc.tag = "ArrowRows" BY <1>1, Tags
<1>4. RowLists(oc.batches) \in Seq(Seq(RowsOf(stmt))) /\ FlattenSeq(RowLists(oc.batches)) = rows
  BY <1>1, FlatBatches
<1>5. sent["arrow"] = try_from(r)
  <2>1. "arrow" \in Transports BY DEF Transports
  <2>2. sent["arrow"] = try_from(Built(Answers(stmt)["arrow"])) BY <1>1, <2>1 DEF ResultInv
  <2>3. QED BY <1>1, <2>2, Tags
<1>6. stmt.how = "cursor" => batches = RowLists(oc.batches) BY <1>1 DEF ResultInv, RowLists
<1>7. SliceFound /\ SliceLists BY <1>1 DEF SliceInv
<1> HIDE DEF oc
<1>8. /\ r.tag = "ArrowQuery" /\ r.schema = schema /\ r.fold = Folded
      /\ RowLists(r.batches) \in Seq(Seq(RowsOf(stmt))) /\ FlattenSeq(RowLists(r.batches)) = Wanted
  <2>1. CASE stmt.how = "query"
    <3>1. r = map_exasol_result(oc, stmt.fold, stmt.how = "write") BY <2>1 DEF Built
    <3>2. r = [tag |-> "ArrowQuery", schema |-> schema, batches |-> oc.batches, fold |-> stmt.fold]
      BY <1>3, <3>1 DEF map_exasol_result
    <3>3. Wanted = rows BY <2>1 DEF Wanted
    <3> HIDE DEF r, schema
    <3>4. QED BY <1>4, <2>1, <3>2, <3>3 DEF Folded
  <2>2. CASE stmt.how = "cursor"
    <3> DEFINE bs == [i \in DOMAIN Slices |-> [schema |-> schema, rows |-> Slices[i]]]
    <3>1. r = fetch_cursor(oc) BY <2>2 DEF Built
    <3>2. r = [tag |-> "ArrowQuery", schema |-> schema, fold |-> FALSE, batches |-> bs]
      BY <1>3, <3>1 DEF fetch_cursor
    <3>3. Slices \in Seq(Seq(RowsOf(stmt))) BY <1>7 DEF Slices, SliceLists
    <3> HIDE DEF r, schema
    <3>4. RowLists(bs) = Slices
      <4>1. DOMAIN bs = DOMAIN Slices /\ \A i \in DOMAIN Slices : bs[i].rows = Slices[i] OBVIOUS
      <4>2. Slices = [i \in DOMAIN Slices |-> Slices[i]] BY <3>3
      <4> HIDE DEF bs
      <4>3. QED BY <4>1, <4>2 DEF RowLists
    <3>5. FlattenSeq(Slices) = Wanted
      BY <1>2, <1>4, <1>6, <1>7, <2>2 DEF SliceFound, Slices, Wanted
    <3> HIDE DEF bs
    <3>6. QED BY <2>2, <3>2, <3>3, <3>4, <3>5 DEF Folded
  <2>3. QED BY <1>1, <2>1, <2>2
<1> HIDE DEF r, schema
<1>9. try_from(r) = query_response_arrow(schema, r.batches, Folded) BY <1>8 DEF try_from
<1>10. query_response_arrow(schema, r.batches, Folded).fields = map_exasol_columns(schema, Folded)
  BY DEF query_response_arrow
<1>11. \A s, fold : query_response_arrow(s, r.batches, fold).rows = Mapped(f, FlattenSeq(RowLists(r.batches)))
  <2> DEFINE bs == r.batches
  <2> HIDE DEF bs, f
  <2>1. RowLists(bs) \in Seq(Seq(RowsOf(stmt))) BY <1>8 DEF bs
  <2>2. QED BY <2>1, EncodedRows DEF bs, f
<1>12. QED BY <1>5, <1>8, <1>9, <1>10, <1>11 DEF schema, oc

\* The columns of a statement and how they are described over each transport.
LEMMA Described ==
  ASSUME NEW st \in Statements, st.how # "write", NEW fold
  PROVE  LET typed == typed_columns(parse_columns(st.columns), fold)
             arrow == map_exasol_columns(cursor_schema_for(arrow_execute(st).batches), fold)
             w     == Len(st.columns)
         IN /\ DOMAIN typed = 1 .. w /\ Len(typed) = w
            /\ \A i \in 1 .. w : typed[i].name = maybe_fold_label(st.columns[i].name, fold)
                                 /\ typed[i].type = JsonType(st.columns[i])
            /\ IF st.chunks = << >> /\ ~st.schema THEN arrow = << >>
               ELSE /\ DOMAIN arrow = 1 .. w /\ Len(arrow) = w
                    /\ \A i \in 1 .. w : arrow[i].name = maybe_fold_label(st.columns[i].name, fold)
                                         /\ arrow[i].type = ArrowType(st.columns[i])
<1> DEFINE typed == typed_columns(parse_columns(st.columns), fold)
           schema == cursor_schema_for(arrow_execute(st).batches)
           arrow == map_exasol_columns(schema, fold)
           w == Len(st.columns)
<1>1. st.columns \in Seq(ToSet(st.columns)) /\ \A i \in DOMAIN st.columns : st.columns[i].field.name = st.columns[i].name
  BY StatementsAssumption
<1>2. DOMAIN st.columns = 1 .. w /\ w \in Nat BY <1>1
<1>3. schema = IF st.chunks = << >> /\ ~st.schema THEN << >> ELSE [i \in 1 .. w |-> st.columns[i].field]
  BY <1>2, SchemaOfAnswer
<1> HIDE DEF schema, w
<1>4. typed = [i \in 1 .. w |-> [name |-> maybe_fold_label(st.columns[i].name, fold),
                                type |-> pg_type_for_exasol_data_type(st.columns[i].data_type)]]
  BY <1>2 DEF typed_columns, parse_columns
<1> HIDE DEF typed
<1>5. DOMAIN typed = 1 .. w /\ Len(typed) = w BY <1>2, <1>4
<1>6. \A i \in 1 .. w : typed[i].name = maybe_fold_label(st.columns[i].name, fold)
                        /\ typed[i].type = JsonType(st.columns[i])
  BY <1>4 DEF JsonType
<1>7. CASE st.chunks = << >> /\ ~st.schema
  <2>1. arrow = << >> BY <1>3, <1>7 DEF map_exasol_columns
  <2>2. QED BY <1>5, <1>6, <1>7, <2>1 DEF typed, schema, w
<1>8. CASE ~(st.chunks = << >> /\ ~st.schema)
  <2>1. schema = [i \in 1 .. w |-> st.columns[i].field] BY <1>3, <1>8
  <2>2. arrow = [i \in 1 .. w |-> [name |-> maybe_fold_label(st.columns[i].name, fold),
                                  type |-> ArrowType(st.columns[i])]]
    BY <1>1, <1>2, <2>1 DEF map_exasol_columns, ArrowType
  <2> HIDE DEF arrow
  <2>3. DOMAIN arrow = 1 .. w /\ Len(arrow) = w BY <1>2, <2>2
  <2>4. \A i \in 1 .. w : arrow[i].name = maybe_fold_label(st.columns[i].name, fold)
                          /\ arrow[i].type = ArrowType(st.columns[i])
    BY <2>2
  <2>5. QED BY <1>5, <1>6, <1>8, <2>3, <2>4 DEF typed, arrow, schema, w
<1>9. QED BY <1>7, <1>8

\* A text is null exactly if the cell is, and has the cell's value.
LEMMA CellTexts ==
  ASSUME NEW cell, cell.kind = "null" => cell.v = 0
  PROVE  /\ ArrowText(cell).form = "null" <=> cell.kind = "null"
         /\ ArrowText(cell).v = cell.v
         /\ value_to_text(cell).form = "null" <=> cell.kind = "null"
         /\ value_to_text(cell).v = cell.v
         /\ SameText(ArrowText(cell), value_to_text(cell))
<1>1. CASE cell.kind = "null"
  <2>1. ArrowText(cell) = [form |-> "null", v |-> 0] /\ value_to_text(cell) = [form |-> "null", v |-> 0]
    BY <1>1 DEF ArrowText, value_to_text, NoText
  <2>2. QED BY <1>1, <2>1 DEF SameText
<1>2. CASE cell.kind = "bool"
  <2>1. ArrowText(cell) = [form |-> "true_or_false", v |-> cell.v] /\ value_to_text(cell) = [form |-> "t_or_f", v |-> cell.v]
    BY <1>2 DEF ArrowText, value_to_text
  <2>2. QED BY <1>2, <2>1 DEF SameText, Respelled
<1>3. CASE cell.kind = "time"
  <2>1. ArrowText(cell) = [form |-> "T_between_date_and_time", v |-> cell.v] /\ value_to_text(cell) = [form |-> "plain", v |-> cell.v]
    BY <1>3 DEF ArrowText, value_to_text
  <2>2. QED BY <1>3, <2>1 DEF SameText, Respelled
<1>4. CASE cell.kind \notin {"null", "bool", "time"}
  <2>1. ArrowText(cell) = [form |-> "plain", v |-> cell.v] /\ value_to_text(cell) = [form |-> "plain", v |-> cell.v]
    BY <1>4 DEF ArrowText, value_to_text
  <2>2. QED BY <1>4, <2>1 DEF SameText
<1>5. QED BY <1>1, <1>2, <1>3, <1>4

\* The rows asked for, cell by cell.
LEMMA WantedCells ==
  ASSUME SliceInv
  PROVE  /\ DOMAIN Wanted = 1 .. Len(Wanted) /\ Len(Wanted) \in Nat
         /\ \A r \in 1 .. Len(Wanted) :
              /\ Wanted[r] \in RowsOf(stmt)
              /\ DOMAIN Wanted[r] = 1 .. Len(stmt.columns)
              /\ \A c \in 1 .. Len(stmt.columns) : Wanted[r][c].kind = "null" => Wanted[r][c].v = 0
<1>1. stmt \in Statements BY DEF SliceInv
<1>2. Wanted \in Seq(RowsOf(stmt)) BY WantedType
<1>3. DOMAIN Wanted = 1 .. Len(Wanted) /\ Len(Wanted) \in Nat BY <1>2
<1>4. ASSUME NEW r \in 1 .. Len(Wanted)
      PROVE  /\ Wanted[r] \in RowsOf(stmt)
             /\ DOMAIN Wanted[r] = 1 .. Len(stmt.columns)
             /\ \A c \in 1 .. Len(stmt.columns) : Wanted[r][c].kind = "null" => Wanted[r][c].v = 0
  <2>1. Wanted[r] \in RowsOf(stmt) BY <1>2
  <2> DEFINE row == Wanted[r]
  <2> HIDE DEF row
  <2>2. row \in RowsOf(stmt) BY <2>1 DEF row
  <2>3. Len(row) = Len(stmt.columns) /\ DOMAIN row = 1 .. Len(row)
        /\ \A c \in DOMAIN row : row[c].kind = "null" => row[c].v = 0
    BY <1>1, <2>2, RowWidth
  <2>4. QED BY <2>1, <2>3 DEF row
<1>5. QED BY <1>3, <1>4

\* The rows as they are sent, cell by cell.
LEMMA ArrowCells ==
  ASSUME SliceInv
  PROVE  LET rows == Mapped(ArrowRowOf(stmt), Wanted)
             w    == Len(stmt.columns)
         IN /\ Len(rows) = Len(Wanted) /\ DOMAIN rows = 1 .. Len(Wanted)
            /\ \A r \in 1 .. Len(Wanted) :
                 /\ DOMAIN rows[r] = 1 .. w /\ Len(rows[r]) = w
                 /\ \A c \in 1 .. w : rows[r][c] = ArrowText(Wanted[r][c])
<1> DEFINE f == ArrowRowOf(stmt)
           rows == Mapped(f, Wanted)
           w == Len(stmt.columns)
<1>1. Wanted \in Seq(RowsOf(stmt)) BY WantedType
<1>2. IsMap(f, RowsOf(stmt), ArrowRowsOf(stmt)) /\ \A row \in RowsOf(stmt) : f[row] = ArrowRow(row) BY RowMaps
<1>3. w \in Nat
  <2>1. stmt.columns \in Seq(ToSet(stmt.columns)) BY StatementsAssumption DEF SliceInv
  <2>2. QED BY <2>1
<1>4. Len(rows) = Len(Wanted) /\ DOMAIN rows = DOMAIN Wanted /\ \A r \in 1 .. Len(Wanted) : rows[r] = f[Wanted[r]]
  <2> HIDE DEF f
  <2>1. QED BY <1>1, <1>2, MappedType
<1> HIDE DEF rows, f, w
<1>5. ASSUME NEW r \in 1 .. Len(Wanted)
      PROVE  /\ DOMAIN rows[r] = 1 .. w /\ Len(rows[r]) = w
             /\ \A c \in 1 .. w : rows[r][c] = ArrowText(Wanted[r][c])
  <2>1. Wanted[r] \in RowsOf(stmt) /\ DOMAIN Wanted[r] = 1 .. w BY WantedCells DEF w
  <2>2. rows[r] = ArrowRow(Wanted[r]) BY <1>2, <1>4, <2>1
  <2>3. rows[r] = [c \in 1 .. w |-> ArrowText(Wanted[r][c])] BY <2>1, <2>2 DEF ArrowRow
  <2>4. QED BY <1>3, <2>3
<1>6. DOMAIN Wanted = 1 .. Len(Wanted) BY WantedCells
<1>7. QED BY <1>4, <1>5, <1>6 DEF rows, f, w

\* ... and over WebSocket.
LEMMA TypedCells ==
  ASSUME SliceInv
  PROVE  LET rows == Mapped(TypedRowOf(stmt), Wanted)
             w    == Len(stmt.columns)
         IN /\ Len(rows) = Len(Wanted) /\ DOMAIN rows = 1 .. Len(Wanted)
            /\ \A r \in 1 .. Len(Wanted) :
                 /\ DOMAIN rows[r] = 1 .. w /\ Len(rows[r]) = w
                 /\ \A c \in 1 .. w : rows[r][c] = value_to_text(Wanted[r][c])
<1> DEFINE f == TypedRowOf(stmt)
           rows == Mapped(f, Wanted)
           w == Len(stmt.columns)
<1>1. Wanted \in Seq(RowsOf(stmt)) BY WantedType
<1>2. IsMap(f, RowsOf(stmt), TypedRowsOf(stmt)) /\ \A row \in RowsOf(stmt) : f[row] = TypedRow(row) BY RowMaps
<1>3. w \in Nat
  <2>1. stmt.columns \in Seq(ToSet(stmt.columns)) BY StatementsAssumption DEF SliceInv
  <2>2. QED BY <2>1
<1>4. Len(rows) = Len(Wanted) /\ DOMAIN rows = DOMAIN Wanted /\ \A r \in 1 .. Len(Wanted) : rows[r] = f[Wanted[r]]
  <2> HIDE DEF f
  <2>1. QED BY <1>1, <1>2, MappedType
<1> HIDE DEF rows, f, w
<1>5. ASSUME NEW r \in 1 .. Len(Wanted)
      PROVE  /\ DOMAIN rows[r] = 1 .. w /\ Len(rows[r]) = w
             /\ \A c \in 1 .. w : rows[r][c] = value_to_text(Wanted[r][c])
  <2>1. Wanted[r] \in RowsOf(stmt) /\ DOMAIN Wanted[r] = 1 .. w BY WantedCells DEF w
  <2>2. rows[r] = TypedRow(Wanted[r]) BY <1>2, <1>4, <2>1
  <2>3. rows[r] = [c \in 1 .. w |-> value_to_text(Wanted[r][c])] BY <2>1, <2>2 DEF TypedRow
  <2>4. QED BY <1>3, <2>3
<1>6. DOMAIN Wanted = 1 .. Len(Wanted) BY WantedCells
<1>7. QED BY <1>4, <1>5, <1>6 DEF rows, f, w

\* Without a chunk there is no row.
LEMMA NoneWanted ==
  ASSUME SliceInv, stmt.chunks = << >>
  PROVE  Wanted = << >>
<1>1. stmt.from \in Nat BY RangeType DEF SliceInv
<1>2. FlattenSeq(stmt.chunks) = << >> BY FlattenEmpty
<1>3. QED BY <1>1, <1>2, SliceOfNone DEF Wanted

\* The invariants imply that a result is described as it is answered: each row sent is
\* the row asked for, spelled cell by cell.
LEMMA DescribedOfInv == SliceInv /\ ResultInv => DescribedAsAnswered
<1> SUFFICES ASSUME SliceInv, ResultInv, Answered({"query", "cursor"}), NEW t \in Transports
             PROVE  LET fields == sent[t].fields
                        rows   == sent[t].rows
                    IN /\ IF ColumnsUnknown(t) THEN fields = << >>
                          ELSE /\ Len(fields) = Len(stmt.columns)
                               /\ \A i \in DOMAIN fields : LabelKept(fields[i], stmt.columns[i])
                       /\ Len(rows) = Len(Wanted)
                       /\ \A r \in DOMAIN rows :
                            /\ Len(rows[r]) = Len(fields)
                            /\ \A c \in DOMAIN fields :
                                 /\ rows[r][c].form = "null" <=> Wanted[r][c].kind = "null"
                                 /\ rows[r][c].v = Wanted[r][c].v
  BY DEF DescribedAsAnswered
<1> DEFINE fields == sent[t].fields
           rows == sent[t].rows
           w == Len(stmt.columns)
           Kept(cell, text) == /\ text.form = "null" <=> cell.kind = "null"
                               /\ text.v = cell.v
<1>1. stmt \in Statements /\ stmt.how \in {"query", "cursor"} /\ stmt.how # "write" BY DEF SliceInv, Answered
<1>2. t \in {"arrow", "websocket"} BY DEF Transports
<1>3. /\ DOMAIN Wanted = 1 .. Len(Wanted)
      /\ \A r \in 1 .. Len(Wanted) : \A c \in 1 .. w : Wanted[r][c].kind = "null" => Wanted[r][c].v = 0
  BY WantedCells
<1>4. \A i : maybe_fold_label(stmt.columns[i].name, Folded)
              = IF stmt.how = "cursor" THEN stmt.columns[i].name ELSE maybe_fold_label(stmt.columns[i].name, stmt.fold)
  BY DEF Folded, maybe_fold_label
<1>5. CASE t = "websocket"
  <2>1. rows = Mapped(TypedRowOf(stmt), Wanted) /\ fields = typed_columns(parse_columns(stmt.columns), Folded)
    BY <1>5, SentTyped
  <2>2. /\ Len(rows) = Len(Wanted) /\ DOMAIN rows = 1 .. Len(Wanted)
        /\ \A r \in 1 .. Len(Wanted) :
             Len(rows[r]) = w /\ \A c \in 1 .. w : rows[r][c] = value_to_text(Wanted[r][c])
    BY <2>1, TypedCells
  <2>3. DOMAIN fields = 1 .. w /\ Len(fields) = w
        /\ \A i \in 1 .. w : fields[i].name = maybe_fold_label(stmt.columns[i].name, Folded)
    <3> DEFINE typed == typed_columns(parse_columns(stmt.columns), Folded)
    <3>1. /\ DOMAIN typed = 1 .. w /\ Len(typed) = w
          /\ \A i \in 1 .. w : typed[i].name = maybe_fold_label(stmt.columns[i].name, Folded)
                               /\ typed[i].type = JsonType(stmt.columns[i])
      BY <1>1, Described
    <3> HIDE DEF typed, fields, w
    <3>2. fields = typed BY <2>1 DEF typed
    <3>3. QED BY <3>1, <3>2
  <2>4. ~ColumnsUnknown(t) BY <1>5 DEF ColumnsUnknown
  <2> HIDE DEF rows, fields, w
  <2>5. \A i \in DOMAIN fields : LabelKept(fields[i], stmt.columns[i]) BY <1>4, <2>3 DEF LabelKept
  <2>6. ASSUME NEW r \in DOMAIN rows
        PROVE  Len(rows[r]) = Len(fields) /\ \A c \in DOMAIN fields : Kept(Wanted[r][c], rows[r][c])
    <3>1. Len(rows[r]) = Len(fields) BY <2>2, <2>3
    <3>2. ASSUME NEW c \in DOMAIN fields PROVE Kept(Wanted[r][c], rows[r][c])
      <4> DEFINE cell == Wanted[r][c]
      <4>1. rows[r][c] = value_to_text(cell) /\ (cell.kind = "null" => cell.v = 0) BY <1>3, <2>2, <2>3
      <4> HIDE DEF cell
      <4>2. QED BY <4>1, CellTexts DEF cell
    <3>3. QED BY <3>1, <3>2
  <2>7. QED BY <2>2, <2>3, <2>4, <2>5, <2>6 DEF rows, fields, w
<1>6. CASE t = "arrow"
  <2>1. /\ rows = Mapped(ArrowRowOf(stmt), Wanted)
        /\ fields = map_exasol_columns(cursor_schema_for(arrow_execute(stmt).batches), Folded)
    BY <1>6, SentArrow
  <2>2. /\ Len(rows) = Len(Wanted) /\ DOMAIN rows = 1 .. Len(Wanted)
        /\ \A r \in 1 .. Len(Wanted) :
             Len(rows[r]) = w /\ \A c \in 1 .. w : rows[r][c] = ArrowText(Wanted[r][c])
    BY <2>1, ArrowCells
  <2>3. IF stmt.chunks = << >> /\ ~stmt.schema THEN fields = << >>
        ELSE /\ DOMAIN fields = 1 .. w /\ Len(fields) = w
             /\ \A i \in 1 .. w : fields[i].name = maybe_fold_label(stmt.columns[i].name, Folded)
    BY <1>1, <2>1, Described
  <2> HIDE DEF rows, fields, w
  <2>4. CASE stmt.chunks = << >> /\ ~stmt.schema
    <3>1. ColumnsUnknown(t) /\ fields = << >> BY <1>6, <2>3, <2>4 DEF ColumnsUnknown
    <3>2. Len(Wanted) = 0 BY <2>4, NoneWanted
    <3>3. DOMAIN rows = {} BY <2>2, <3>2
    <3>4. QED BY <2>2, <3>1, <3>3 DEF rows, fields
  <2>5. CASE ~(stmt.chunks = << >> /\ ~stmt.schema)
    <3>1. ~ColumnsUnknown(t) BY <1>6, <2>5 DEF ColumnsUnknown
    <3>2. /\ DOMAIN fields = 1 .. w /\ Len(fields) = w
          /\ \A i \in 1 .. w : fields[i].name = maybe_fold_label(stmt.columns[i].name, Folded)
      BY <2>3, <2>5
    <3>3. \A i \in DOMAIN fields : LabelKept(fields[i], stmt.columns[i]) BY <1>4, <3>2 DEF LabelKept
    <3>4. ASSUME NEW r \in DOMAIN rows
          PROVE  Len(rows[r]) = Len(fields) /\ \A c \in DOMAIN fields : Kept(Wanted[r][c], rows[r][c])
      <4>1. Len(rows[r]) = Len(fields) BY <2>2, <3>2
      <4>2. ASSUME NEW c \in DOMAIN fields PROVE Kept(Wanted[r][c], rows[r][c])
        <5> DEFINE cell == Wanted[r][c]
        <5>1. rows[r][c] = ArrowText(cell) /\ (cell.kind = "null" => cell.v = 0) BY <1>3, <2>2, <3>2
        <5> HIDE DEF cell
        <5>2. QED BY <5>1, CellTexts DEF cell
      <4>3. QED BY <4>1, <4>2
    <3>5. QED BY <2>2, <3>1, <3>2, <3>3, <3>4 DEF rows, fields, w
  <2>6. QED BY <2>4, <2>5
<1>7. QED BY <1>2, <1>5, <1>6

\* The two types a result may give a column are the same but for two of the types.
LEMMA SameTypes ==
  ASSUME NEW column, ExasolType(column)
  PROVE  \/ ArrowType(column) = JsonType(column)
         \/ column.text.base \in {"GEOMETRY", "INTERVAL_DAY", "INTERVAL_YEAR"} /\ ArrowType(column) = "VARCHAR" /\ JsonType(column) = "TEXT"
<1>1. Tabled(column) BY TypeTable
<1>2. QED BY <1>1 DEF Tabled, TypeRow

\* The invariants imply that both transports send the same.
LEMMA SameOfInv == SliceInv /\ ResultInv => SameOverEitherTransport
<1> SUFFICES ASSUME SliceInv, ResultInv PROVE SameOverEitherTransport OBVIOUS
<1>0. stmt \in Statements BY DEF SliceInv
<1>1. ASSUME Answered({"write"}) PROVE sent["arrow"] = sent["websocket"]
  <2>1. pc = "sent" /\ stmt.how = "write" BY <1>1 DEF Answered
  <2>2. "arrow" \in Transports /\ "websocket" \in Transports BY DEF Transports
  <2>3. Answers(stmt)["arrow"] = Answers(stmt)["websocket"] BY <1>0, <2>1, <2>2, Tags
  <2>4. sent["arrow"] = try_from(Built(Answers(stmt)["arrow"]))
        /\ sent["websocket"] = try_from(Built(Answers(stmt)["websocket"]))
    BY <2>1, <2>2 DEF ResultInv
  <2>5. QED BY <2>3, <2>4
<1>2. ASSUME Answered({"query", "cursor"})
      PROVE  LET arrow == sent["arrow"]
                 ws    == sent["websocket"]
             IN /\ \/ Len(arrow.fields) = Len(ws.fields)
                   \/ ColumnsUnknown("arrow") /\ arrow.fields = << >>
                /\ \A i \in DOMAIN arrow.fields : SameField(arrow.fields[i], ws.fields[i], stmt.columns[i])
                /\ Len(arrow.rows) = Len(ws.rows)
                /\ \A r \in DOMAIN ws.rows : \A c \in DOMAIN ws.rows[r] :
                     SameText(arrow.rows[r][c], ws.rows[r][c])
  <2> DEFINE a == sent["arrow"].rows
             b == sent["websocket"].rows
             af == sent["arrow"].fields
             bf == sent["websocket"].fields
             w == Len(stmt.columns)
  <2>1. stmt.how \in {"query", "cursor"} /\ stmt.how # "write" BY <1>2 DEF Answered
  <2>2. a = Mapped(ArrowRowOf(stmt), Wanted) /\ b = Mapped(TypedRowOf(stmt), Wanted) BY <1>2, SentArrow, SentTyped
  <2>3. /\ Len(a) = Len(Wanted)
        /\ \A r \in 1 .. Len(Wanted) : \A c \in 1 .. w : a[r][c] = ArrowText(Wanted[r][c])
    BY <2>2, ArrowCells
  <2>4. /\ Len(b) = Len(Wanted) /\ DOMAIN b = 1 .. Len(Wanted)
        /\ \A r \in 1 .. Len(Wanted) : DOMAIN b[r] = 1 .. w /\ \A c \in 1 .. w : b[r][c] = value_to_text(Wanted[r][c])
    BY <2>2, TypedCells
  <2>5. \A r \in 1 .. Len(Wanted) : \A c \in 1 .. w : Wanted[r][c].kind = "null" => Wanted[r][c].v = 0
    BY WantedCells
  <2>6. ASSUME NEW i \in DOMAIN af PROVE SameField(af[i], bf[i], stmt.columns[i])
    <3> DEFINE typed == typed_columns(parse_columns(stmt.columns), Folded)
               arrow == map_exasol_columns(cursor_schema_for(arrow_execute(stmt).batches), Folded)
               column == stmt.columns[i]
    <3>1. af = arrow /\ bf = typed BY <1>2, SentArrow, SentTyped
    <3>2. \A j \in 1 .. w : typed[j].name = maybe_fold_label(stmt.columns[j].name, Folded)
                           /\ typed[j].type = JsonType(stmt.columns[j])
      BY <1>0, <2>1, Described
    <3>3. IF stmt.chunks = << >> /\ ~stmt.schema THEN arrow = << >>
          ELSE /\ DOMAIN arrow = 1 .. w
               /\ \A j \in 1 .. w : arrow[j].name = maybe_fold_label(stmt.columns[j].name, Folded)
                                    /\ arrow[j].type = ArrowType(stmt.columns[j])
      BY <1>0, <2>1, Described
    <3> HIDE DEF typed, arrow, w, af, bf
    <3>4. ~(stmt.chunks = << >> /\ ~stmt.schema) BY <3>1, <3>3
    <3>5. i \in 1 .. w BY <3>1, <3>3, <3>4
    <3>6. /\ af[i].name = bf[i].name
          /\ af[i].type = ArrowType(column) /\ bf[i].type = JsonType(column)
      BY <3>1, <3>2, <3>3, <3>4, <3>5
    <3>7. ExasolType(column)
      <4>1. stmt.columns \in Seq(ToSet(stmt.columns)) BY <1>0, StatementsAssumption
      <4>2. column \in ToSet(stmt.columns) BY <3>5, <4>1 DEF w
      <4>3. QED BY <1>0, <4>2, StatementsAssumption
    <3> HIDE DEF column
    <3>8. \/ ArrowType(column) = JsonType(column)
          \/ column.text.base \in {"GEOMETRY", "INTERVAL_DAY", "INTERVAL_YEAR"} /\ ArrowType(column) = "VARCHAR" /\ JsonType(column) = "TEXT"
      BY <3>7, SameTypes
    <3>9. SameField(af[i], bf[i], column) BY <3>6, <3>8 DEF SameField
    <3>10. QED BY <3>9 DEF column
  <2>10. Len(af) = Len(bf) \/ (ColumnsUnknown("arrow") /\ af = << >>)
    <3> DEFINE typed == typed_columns(parse_columns(stmt.columns), Folded)
               arrow == map_exasol_columns(cursor_schema_for(arrow_execute(stmt).batches), Folded)
    <3>1. af = arrow /\ bf = typed BY <1>2, SentArrow, SentTyped
    <3>2. Len(typed) = w BY <1>0, <2>1, Described
    <3>3. IF stmt.chunks = << >> /\ ~stmt.schema THEN arrow = << >> ELSE Len(arrow) = w
      BY <1>0, <2>1, Described
    <3> HIDE DEF typed, arrow, w, af, bf
    <3>4. QED BY <3>1, <3>2, <3>3 DEF ColumnsUnknown
  <2> HIDE DEF a, b, af, bf, w
  <2>7. ASSUME NEW r \in DOMAIN b, NEW c \in DOMAIN b[r] PROVE SameText(a[r][c], b[r][c])
    <3> DEFINE cell == Wanted[r][c]
    <3>1. r \in 1 .. Len(Wanted) /\ c \in 1 .. w BY <2>4
    <3>2. a[r][c] = ArrowText(cell) /\ b[r][c] = value_to_text(cell) /\ (cell.kind = "null" => cell.v = 0)
      BY <2>3, <2>4, <2>5, <3>1
    <3> HIDE DEF cell
    <3>3. QED BY <3>2, CellTexts
  <2>8. Len(a) = Len(b) BY <2>3, <2>4
  <2>9. QED BY <2>6, <2>7, <2>8, <2>10 DEF a, b, af, bf
<1>3. QED BY <1>1, <1>2 DEF SameOverEitherTransport

\* A driver is told the type of results, but for the types listed.
LEMMA ToldTypes ==
  ASSUME NEW column, ExasolType(column), NEW t \in Transports
  PROVE  \/ CatalogOid(column) = Oid[ResultType(t, column)]
         \/ << CatalogOid(column), ResultType(t, column) >> \in TwoTypes(t, column)
<1> DEFINE base == column.text.base
           oid == CatalogOid(column)
           type == ResultType(t, column)
           Agree == oid = Oid[type] \/ << oid, type >> \in TwoTypes(t, column)
<1>1. Tabled(column) BY TypeTable
<1>2. t \in {"arrow", "websocket"} BY DEF Transports
<1>3. type = IF t = "arrow" THEN ArrowType(column) ELSE JsonType(column) BY DEF ResultType, ArrowType, JsonType
<1> SUFFICES Agree OBVIOUS
<1> HIDE DEF oid, type
<1>4. ASSUME NEW b, NEW x, NEW o, TypeRow(column, b, x, x, o) PROVE base = b /\ type = x /\ oid = o
  BY <1>3, <1>4 DEF TypeRow, oid
<1>5. ASSUME NEW b, TypeRow(column, b, "VARCHAR", "TEXT", 25)
      PROVE  base = b /\ oid = 25 /\ type = IF t = "arrow" THEN "VARCHAR" ELSE "TEXT"
  BY <1>3, <1>5 DEF TypeRow, oid
<1>6. CASE TypeRow(column, "BOOLEAN", "BOOL", "BOOL", 16) BY <1>4, <1>6 DEF Oid
<1>7. CASE TypeRow(column, "DOUBLE", "FLOAT8", "FLOAT8", 701) BY <1>4, <1>7 DEF Oid
<1>8. CASE TypeRow(column, "DATE", "DATE", "DATE", 1082) BY <1>4, <1>8 DEF Oid
<1>9. CASE TypeRow(column, "CHAR", "VARCHAR", "VARCHAR", 1042) BY <1>4, <1>9 DEF TwoTypes
<1>10. CASE TypeRow(column, "VARCHAR", "VARCHAR", "VARCHAR", 1043) BY <1>4, <1>10 DEF Oid
<1>11. CASE TypeRow(column, "HASHTYPE", "VARCHAR", "VARCHAR", 25) BY <1>4, <1>11 DEF TwoTypes
<1>12. ASSUME NEW b \in {"GEOMETRY", "INTERVAL_DAY", "INTERVAL_YEAR"}, TypeRow(column, b, "VARCHAR", "TEXT", 25) PROVE Agree
  <2>1. base \in {"GEOMETRY", "INTERVAL_DAY", "INTERVAL_YEAR"} /\ oid = 25 /\ type = IF t = "arrow" THEN "VARCHAR" ELSE "TEXT" BY <1>5, <1>12
  <2>2. CASE t = "arrow"
    <3>1. TwoTypes(t, column) = {<< 25, "VARCHAR" >>} BY <2>1, <2>2 DEF TwoTypes
    <3>2. QED BY <2>1, <2>2, <3>1
  <2>3. CASE t = "websocket" BY <2>1, <2>3 DEF Oid
  <2>4. QED BY <1>2, <2>2, <2>3
<1>13. CASE TypeRow(column, "TIMESTAMP", "TIMESTAMP", "TIMESTAMP", 1114) BY <1>4, <1>13 DEF Oid
<1>14. CASE TypeRow(column, "TIMESTAMP", "TIMESTAMPTZ", "TIMESTAMPTZ", 1184) BY <1>4, <1>14 DEF Oid
<1>15. CASE TypeRow(column, "DECIMAL", "INT4", "INT4", 1700) BY <1>4, <1>15 DEF TwoTypes
<1>16. CASE TypeRow(column, "DECIMAL", "NUMERIC", "NUMERIC", 1700) BY <1>4, <1>16 DEF Oid
<1> HIDE DEF Agree
<1>17. \/ TypeRow(column, "GEOMETRY", "VARCHAR", "TEXT", 25)
       \/ TypeRow(column, "INTERVAL_DAY", "VARCHAR", "TEXT", 25)
       \/ TypeRow(column, "INTERVAL_YEAR", "VARCHAR", "TEXT", 25)
       => Agree
  BY <1>12
<1>18. QED
  BY <1>1, <1>6, <1>7, <1>8, <1>9, <1>10, <1>11, <1>13, <1>14, <1>15, <1>16, <1>17 DEF Tabled

\* The rows the gateway works with when a driver asks for columns.
LEMMA AskedRows ==
  ASSUME NEW st \in Statements, st.how # "write"
  PROVE  /\ fetch_query_rows(arrow_execute(st)) = Mapped(ArrowRowOf(st), FlattenSeq(st.chunks))
         /\ fetch_query_rows(websocket_execute(st)) = Mapped(TypedRowOf(st), FlattenSeq(st.chunks))
<1>1. arrow_execute(st).tag = "ArrowRows" /\ websocket_execute(st).tag = "TypedRows" BY Tags
<1>2. fetch_query_rows(websocket_execute(st)) = Mapped(TypedRowOf(st), FlattenSeq(st.chunks))
  BY <1>1, TypedRows DEF fetch_query_rows
<1> DEFINE bs == arrow_execute(st).batches
<1>3. RowLists(bs) \in Seq(Seq(RowsOf(st))) /\ FlattenSeq(RowLists(bs)) = FlattenSeq(st.chunks) BY FlatBatches
<1>4. fetch_query_rows(arrow_execute(st)) = render_arrow_batches_as_strings(bs) BY <1>1 DEF fetch_query_rows
<1> HIDE DEF bs
<1>5. render_arrow_batches_as_strings(bs) = Mapped(ArrowRowOf(st), FlattenSeq(RowLists(bs))) BY <1>3, EncodedRows
<1>6. QED BY <1>2, <1>3, <1>4, <1>5

\* What a driver is told of a column, by the texts of its row in the catalog.
LEMMA ToldOf ==
  ASSUME NEW row, NEW text, NEW not_null, NEW form,
         row[1] = [form |-> "plain", v |-> text],
         row[2] = [form |-> form, v |-> IF not_null THEN 0 ELSE 1]
  PROVE  /\ jdbc_column(row).atttypid = map_exasol_column_type(text).oid
         /\ jdbc_column(row).attnotnull = (not_null /\ form = "true_or_false")
<1>1. jdbc_column(row).atttypid = map_exasol_column_type(text).oid BY DEF jdbc_column
<1>2. jdbc_column(row).attnotnull = IsFalse(row[2]) BY DEF jdbc_column
<1>3. IsFalse(row[2]) = (not_null /\ form = "true_or_false")
  <2>1. CASE not_null
    <3>1. row[2] = [form |-> form, v |-> 0] BY <2>1
    <3>2. QED BY <2>1, <3>1 DEF IsFalse
  <2>2. CASE ~not_null
    <3>1. row[2] = [form |-> form, v |-> 1] BY <2>2
    <3>2. QED BY <2>2, <3>1 DEF IsFalse
  <2>3. QED BY <2>1, <2>2
<1>4. QED BY <1>1, <1>2, <1>3

\* The invariants imply that the catalog matches the results.
LEMMA CatalogOfInv == SliceInv /\ ResultInv => CatalogMatchesResults
<1> SUFFICES ASSUME SliceInv, ResultInv, Answered({"columns"}), NEW t \in Transports
             PROVE  /\ Len(sent[t].rows) = Len(stmt.table)
                    /\ \A i \in DOMAIN stmt.table :
                         LET column == stmt.table[i]
                             told   == sent[t].rows[i]
                         IN /\ \/ told.atttypid = Oid[ResultType(t, column)]
                               \/ << told.atttypid, ResultType(t, column) >> \in TwoTypes(t, column)
                            /\ told.attnotnull => column.not_null
                            /\ t = "arrow" => (column.not_null => told.attnotnull)
  BY DEF CatalogMatchesResults
<1> DEFINE all == FlattenSeq(stmt.chunks)
           X == RowsOf(stmt)
           n == Len(stmt.table)
           f == IF t = "arrow" THEN ArrowRowOf(stmt) ELSE TypedRowOf(stmt)
           Y == IF t = "arrow" THEN ArrowRowsOf(stmt) ELSE TypedRowsOf(stmt)
           oc == Answers(stmt)[t]
           rows == Mapped(f, all)
           got == sent[t].rows
<1>1. stmt \in Statements /\ pc = "sent" /\ stmt.how = "columns" /\ stmt.how # "write" BY DEF Answered, SliceInv
<1>2. t \in {"arrow", "websocket"} BY DEF Transports
<1>3. fetch_query_rows(oc) = rows
  <2>1. oc = IF t = "arrow" THEN arrow_execute(stmt) ELSE websocket_execute(stmt) BY <1>1, <1>2, Tags
  <2>2. QED BY <1>1, <1>2, <2>1, AskedRows
<1>4. all \in Seq(X) BY <1>1, Chunks
<1>5. IsMap(f, X, Y)
  <2>1. CASE t = "arrow" BY <2>1, RowMaps
  <2>2. CASE t # "arrow" BY <2>2, RowMaps
  <2>3. QED BY <2>1, <2>2
<1>6. /\ stmt.table \in Seq(ToSet(stmt.table)) /\ Len(stmt.columns) >= 2 /\ Len(all) = n
      /\ \A i \in DOMAIN stmt.table :
           /\ all[i][1] = [kind |-> "text", v |-> stmt.table[i].text]
           /\ all[i][2] = [kind |-> "bool", v |-> IF stmt.table[i].not_null THEN 0 ELSE 1]
      /\ stmt.columns \in Seq(ToSet(stmt.columns))
  BY <1>1, StatementsAssumption
<1>7. DOMAIN stmt.table = 1 .. n /\ n \in Nat BY <1>6
<1>8. got = [r \in DOMAIN rows |-> jdbc_column(rows[r])]
  <2>1. sent[t] = try_from(Built(oc)) BY <1>1 DEF ResultInv
  <2>2. Built(oc) = JdbcColumns(oc) BY <1>1 DEF Built
  <2>3. JdbcColumns(oc) = [tag |-> "Query", rows |-> [r \in DOMAIN rows |-> jdbc_column(rows[r])]]
    BY <1>3 DEF JdbcColumns
  <2> HIDE DEF rows, oc
  <2>4. JdbcColumns(oc).tag = "Query" /\ JdbcColumns(oc).rows = [r \in DOMAIN rows |-> jdbc_column(rows[r])] BY <2>3
  <2>5. try_from(JdbcColumns(oc)) = JdbcColumns(oc) BY <2>4 DEF try_from
  <2>6. QED BY <2>1, <2>2, <2>4, <2>5
<1> HIDE DEF f, Y, X, all
<1>9. Len(rows) = n /\ DOMAIN rows = 1 .. n /\ \A i \in 1 .. n : rows[i] = f[all[i]] /\ all[i] \in X
  <2>1. rows \in Seq(Y) /\ Len(rows) = Len(all) /\ DOMAIN rows = DOMAIN all /\ \A i \in 1 .. Len(all) : rows[i] = f[all[i]]
    BY <1>4, <1>5, MappedType
  <2>2. DOMAIN all = 1 .. Len(all) /\ \A i \in 1 .. Len(all) : all[i] \in X BY <1>4
  <2>3. QED BY <1>6, <2>1, <2>2
<1> HIDE DEF rows, got, n
<1>10. Len(got) = n /\ DOMAIN got = 1 .. n /\ \A i \in 1 .. n : got[i] = jdbc_column(rows[i]) BY <1>7, <1>8, <1>9
<1>11. ASSUME NEW i \in 1 .. n
       PROVE  LET column == stmt.table[i]
              IN /\ \/ got[i].atttypid = Oid[ResultType(t, column)]
                    \/ << got[i].atttypid, ResultType(t, column) >> \in TwoTypes(t, column)
                 /\ got[i].attnotnull => column.not_null
                 /\ t = "arrow" => (column.not_null => got[i].attnotnull)
  <2> DEFINE column == stmt.table[i]
             row == all[i]
             form == IF t = "arrow" THEN "true_or_false" ELSE "t_or_f"
  <2>1. ExasolType(column)
    <3>1. column \in ToSet(stmt.table) BY <1>6, <1>7
    <3>2. QED BY <1>1, <3>1, StatementsAssumption
  <2>2. row[1] = [kind |-> "text", v |-> column.text] /\ row[2] = [kind |-> "bool", v |-> IF column.not_null THEN 0 ELSE 1]
    BY <1>6, <1>7
  <2>3. rows[i] = f[row] /\ row \in X BY <1>9
  <2>4. 1 \in DOMAIN row /\ 2 \in DOMAIN row
    <3>1. Len(row) = Len(stmt.columns) /\ DOMAIN row = 1 .. Len(row) /\ Len(row) \in Nat
      BY <1>1, <2>3, RowWidth DEF X
    <3>2. Len(row) >= 2 BY <1>6, <3>1
    <3>3. QED BY <3>1, <3>2
  <2> HIDE DEF row, column
  <2>5. rows[i][1] = [form |-> "plain", v |-> column.text]
        /\ rows[i][2] = [form |-> form, v |-> IF column.not_null THEN 0 ELSE 1]
    <3>1. CASE t = "arrow"
      <4>1. rows[i] = ArrowRow(row) BY <2>3, <3>1, RowMaps DEF f, X
      <4>2. rows[i][1] = ArrowText(row[1]) /\ rows[i][2] = ArrowText(row[2]) BY <2>4, <4>1 DEF ArrowRow
      <4>3. ArrowText(row[1]) = [form |-> "plain", v |-> column.text] BY <2>2 DEF ArrowText
      <4>4. ArrowText(row[2]) = [form |-> "true_or_false", v |-> IF column.not_null THEN 0 ELSE 1] BY <2>2 DEF ArrowText
      <4>5. QED BY <3>1, <4>2, <4>3, <4>4
    <3>2. CASE t = "websocket"
      <4>1. rows[i] = TypedRow(row) BY <2>3, <3>2, RowMaps DEF f, X
      <4>2. rows[i][1] = value_to_text(row[1]) /\ rows[i][2] = value_to_text(row[2]) BY <2>4, <4>1 DEF TypedRow
      <4>3. value_to_text(row[1]) = [form |-> "plain", v |-> column.text] BY <2>2 DEF value_to_text
      <4>4. value_to_text(row[2]) = [form |-> "t_or_f", v |-> IF column.not_null THEN 0 ELSE 1] BY <2>2 DEF value_to_text
      <4>5. QED BY <3>2, <4>2, <4>3, <4>4
    <3>3. QED BY <1>2, <3>1, <3>2
  <2>6. /\ jdbc_column(rows[i]).atttypid = map_exasol_column_type(column.text).oid
        /\ jdbc_column(rows[i]).attnotnull = (column.not_null /\ form = "true_or_false")
    <3> DEFINE r == rows[i]
               text == column.text
               not_null == column.not_null
    <3>1. r[1] = [form |-> "plain", v |-> text] /\ r[2] = [form |-> form, v |-> IF not_null THEN 0 ELSE 1] BY <2>5
    <3> HIDE DEF r, text, not_null, form
    <3>2. /\ jdbc_column(r).atttypid = map_exasol_column_type(text).oid
          /\ jdbc_column(r).attnotnull = (not_null /\ form = "true_or_false")
      BY <3>1, ToldOf
    <3>3. QED BY <3>2 DEF r, text, not_null
  <2>7. (form = "true_or_false") = (t = "arrow") BY <1>2
  <2>8. got[i].atttypid = CatalogOid(column) BY <1>10, <2>6 DEF CatalogOid
  <2>9. /\ got[i].attnotnull => column.not_null
        /\ t = "arrow" => (column.not_null => got[i].attnotnull)
    <3>1. got[i].attnotnull = (column.not_null /\ t = "arrow") BY <1>10, <2>6, <2>7
    <3>2. QED BY <3>1
  <2>10. \/ CatalogOid(column) = Oid[ResultType(t, column)]
         \/ << CatalogOid(column), ResultType(t, column) >> \in TwoTypes(t, column)
    BY <2>1, ToldTypes
  <2>11. QED BY <2>8, <2>9, <2>10 DEF column
<1>12. QED BY <1>7, <1>10, <1>11 DEF got, n

(***************************************************************************)
(* Theorems.                                                               *)
(***************************************************************************)

\* Both invariants hold always.
LEMMA Invariance == Spec => [](SliceInv /\ ResultInv)
<1>1. Init => SliceInv /\ ResultInv BY SliceInit, ResultInit
<1>2. (SliceInv /\ ResultInv) /\ [Next]_vars => (SliceInv /\ ResultInv)' BY SliceStepInv, ResultStep
<1>3. QED BY <1>1, <1>2, PTL DEF Spec

\* Type correctness: the loop's variables, in particular that offset counts the rows of
\* the batches passed, and which answers, responses and messages there are when.
THEOREM TypeCorrect == Spec => []TypeOK
  BY Invariance, TypeOfInv, PTL

\* slice_batches: at every turn the slices are the rows of the range in the batches
\* passed, whatever the sizes of the batches and the range.
THEOREM LoopTheorem == Spec => []LoopInvariant
<1>1. SliceInv => LoopInvariant BY DEF SliceInv
<1>2. QED BY <1>1, Invariance, PTL

\* A FETCH gets the same rows in the same order from slice_batches and from
\* typed_slice, and backwards from reverse_slice_batches.
THEOREM SlicesTheorem == Spec => []SlicesAgree
<1>1. SliceInv => SlicesAgree BY DEF SliceInv, SlicesAgree, SliceFound
<1>2. QED BY <1>1, Invariance, PTL

\* What is described is what is sent and what Exasol has answered, over either
\* transport, for queries and FETCH.
THEOREM DescribedTheorem == Spec => []DescribedAsAnswered
  BY Invariance, DescribedOfInv, PTL

\* The client gets the same command, as many columns, with the same names and types,
\* and the same rows over either transport, but for the spellings and types that
\* SameText and SameField name and for an Arrow result whose columns are unknown.
THEOREM SameTheorem == Spec => []SameOverEitherTransport
  BY Invariance, SameOfInv, PTL

\* The columns of a table are reported to a driver with the types its results have, but
\* for those that TwoTypes names, whatever their precision, scale and size; none that
\* may be null is reported NOT NULL, and over Arrow none that may not is missed.
THEOREM CatalogTheorem == Spec => []CatalogMatchesResults
  BY Invariance, CatalogOfInv, PTL
=============================================================================
