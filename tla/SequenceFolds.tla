--------------------------- MODULE SequenceFolds ---------------------------
(***************************************************************************)
(* Lemmas about lists that the proofs about results need: what FlattenSeq, *)
(* Reverse and folds do when a list grows, and that they keep what is      *)
(* taken member by member.  Induction is over a set of numbers or of lists *)
(* (SetInduction, SeqInduction), never over an operator.                   *)
(***************************************************************************)
EXTENDS Integers, SequencesExt, SequenceTheorems, WellFoundedInduction, TLAPS

\* Induction over the natural numbers, for a set.
LEMMA SetInduction ==
  ASSUME NEW S, 0 \in S, \A n \in Nat : n \in S => n + 1 \in S
  PROVE  Nat \subseteq S
<1> DEFINE T == Nat \ S
           R == OpToRel(<, Nat)
<1> SUFFICES ASSUME T # {} PROVE FALSE OBVIOUS
<1>1. IsWellFoundedOn(R, Nat) BY NatLessThanWellFounded
<1>2. PICK x \in T : \A y \in T : ~(<<y, x>> \in R)
  <2> HIDE DEF R
  <2>1. T \subseteq Nat OBVIOUS
  <2> HIDE DEF T
  <2>2. QED BY <1>1, <2>1, WFMin
<1>3. x \in Nat /\ x # 0 OBVIOUS
<1>4. x - 1 \in Nat /\ x - 1 < x /\ (x - 1) + 1 = x BY <1>3
<1>5. <<x - 1, x>> \in R BY <1>3, <1>4 DEF OpToRel
<1>6. x - 1 \in S BY <1>2, <1>4, <1>5
<1>7. x \in S BY <1>4, <1>6
<1>8. QED BY <1>7

\* g starts with c and goes on by step.
Iterates(g, n, c, step) == g = [i \in 1 .. n |-> IF i = 1 THEN c ELSE step[<<g[i - 1], i>>]]

\* A function defined by recursion over an interval exists.
LEMMA Recursion ==
  ASSUME NEW V, NEW c \in V, NEW n \in Nat, NEW step \in [V \X Int -> V]
  PROVE  \E g \in [1 .. n -> V] : Iterates(g, n, c, step)
<1> DEFINE Good(k, g) == Iterates(g, k, c, step)
           S == {k \in Nat : \E g \in [1 .. k -> V] : Good(k, g)}
<1>1. 0 \in S
  <2>1. [i \in 1 .. 0 |-> c] \in [1 .. 0 -> V] /\ Good(0, [i \in 1 .. 0 |-> c])
    BY DEF Iterates
  <2>2. QED BY <2>1
<1>2. ASSUME NEW k \in Nat, k \in S PROVE k + 1 \in S
  <2>1. PICK g \in [1 .. k -> V] : Good(k, g) BY <1>2
  <2> DEFINE v == IF k = 0 THEN c ELSE step[<<g[k], k + 1>>]
             h == [i \in 1 .. (k + 1) |-> IF i = k + 1 THEN v ELSE g[i]]
  <2>2. v \in V OBVIOUS
  <2>3. h \in [1 .. (k + 1) -> V] BY <2>2
  <2>4. Good(k + 1, h)
    <3> SUFFICES ASSUME NEW i \in 1 .. (k + 1)
                 PROVE  h[i] = IF i = 1 THEN c ELSE step[<<h[i - 1], i>>]
      BY <2>3 DEF Iterates
    <3>1. CASE i = k + 1 
      <4>1. h[i] = v BY <3>1
      <4>2. CASE i = 1 BY <3>1, <4>1, <4>2
      <4>3. CASE i # 1
        <5>1. i - 1 \in 1 .. (k + 1) /\ i - 1 = k /\ k # 0 BY <3>1, <4>3
        <5>2. h[i - 1] = g[k] BY <5>1
        <5>3. QED BY <3>1, <4>1, <4>3, <5>1, <5>2
      <4>4. QED BY <4>2, <4>3
    <3>2. CASE i # k + 1
      <4>1. i \in 1 .. k /\ h[i] = g[i] BY <3>2
      <4>2. i # 1 => h[i - 1] = g[i - 1] BY <3>2
      <4>3. g[i] = IF i = 1 THEN c ELSE step[<<g[i - 1], i>>] BY <2>1, <4>1 DEF Iterates
      <4>4. QED BY <4>1, <4>2, <4>3
    <3>3. QED BY <3>1, <3>2
  <2> HIDE DEF h, Good
  <2>5. QED BY <2>3, <2>4
<1> HIDE DEF S
<1>3. Nat \subseteq S BY <1>1, <1>2, SetInduction
<1>4. n \in S BY <1>3
<1>5. QED BY <1>4 DEF S
-----------------------------------------------------------------------------
\* Induction over sequences, for a set: what holds of the empty sequence and is
\* kept when an element is appended holds of all.
LEMMA SeqInduction ==
  ASSUME NEW X, NEW P, << >> \in P,
         \A s \in Seq(X), e \in X : s \in P => Append(s, e) \in P
  PROVE  Seq(X) \subseteq P
<1> DEFINE S == {k \in Nat : \A s \in Seq(X) : Len(s) = k => s \in P}
<1>1. 0 \in S
  <2>1. \A s \in Seq(X) : Len(s) = 0 => s = << >> BY EmptySeq
  <2>2. QED BY <2>1
<1>2. ASSUME NEW k \in Nat, k \in S PROVE k + 1 \in S
  <2> SUFFICES ASSUME NEW s \in Seq(X), Len(s) = k + 1 PROVE s \in P OBVIOUS
  <2>1. s # << >> OBVIOUS
  <2> DEFINE f == SubSeq(s, 1, Len(s) - 1)
             e == s[Len(s)]
  <2>2. f \in Seq(X) /\ e \in X /\ Len(f) = k OBVIOUS
  <2>3. s = Append(f, e) OBVIOUS
  <2>4. f \in P BY <1>2, <2>2
  <2> HIDE DEF f, e
  <2>5. QED BY <2>2, <2>3, <2>4
<1> HIDE DEF S
<1>3. Nat \subseteq S BY <1>1, <1>2, SetInduction
<1>4. QED
  <2> SUFFICES ASSUME NEW s \in Seq(X) PROVE s \in P OBVIOUS
  <2>1. Len(s) \in S BY <1>3
  <2>2. QED BY <2>1 DEF S

-----------------------------------------------------------------------------
\* What FlattenSeq computes, turn by turn.
Flattens(g, s) ==
  g = [i \in 1 .. Len(s) |-> IF i = 1 THEN s[i] ELSE g[i - 1] \o s[i]]

\* The turns of a concatenation exist.
LEMMA FlattensExists ==
  ASSUME NEW X, NEW s \in Seq(Seq(X)), Len(s) # 0
  PROVE  \E g : Flattens(g, s)
<1> DEFINE V == Seq(X)
           step == [p \in V \X Int |-> IF p[2] \in 1 .. Len(s) THEN p[1] \o s[p[2]] ELSE p[1]]
<1>1. step \in [V \X Int -> V]
  <2> SUFFICES ASSUME NEW p \in V \X Int
               PROVE  (IF p[2] \in 1 .. Len(s) THEN p[1] \o s[p[2]] ELSE p[1]) \in V
    OBVIOUS
  <2>1. p[1] \in Seq(X) OBVIOUS
  <2>2. p[2] \in 1 .. Len(s) => s[p[2]] \in Seq(X) OBVIOUS
  <2>3. QED BY <2>1, <2>2, ConcatProperties
<1>2. s[1] \in V OBVIOUS
<1>3. Len(s) \in Nat OBVIOUS
<1>4. PICK g \in [1 .. Len(s) -> V] :
        g = [i \in 1 .. Len(s) |-> IF i = 1 THEN s[1] ELSE step[<<g[i - 1], i>>]]
  <2> HIDE DEF V, step
  <2>1. \E g \in [1 .. Len(s) -> V] : Iterates(g, Len(s), s[1], step)
    BY <1>1, <1>2, <1>3, Recursion
  <2>2. QED BY <2>1 DEF Iterates
<1>5. \A i \in 1 .. Len(s) : i # 1 => step[<<g[i - 1], i>>] = g[i - 1] \o s[i]
  <2> SUFFICES ASSUME NEW i \in 1 .. Len(s), i # 1
               PROVE  step[<<g[i - 1], i>>] = g[i - 1] \o s[i]
    OBVIOUS
  <2>1. i - 1 \in 1 .. Len(s) OBVIOUS
  <2>2. g[i - 1] \in V BY <1>4, <2>1
  <2> HIDE DEF V
  <2>3. <<g[i - 1], i>> \in V \X Int BY <2>2
  <2>4. QED BY <2>3
<1>6. \A i \in 1 .. Len(s) : g[i] = IF i = 1 THEN s[i] ELSE g[i - 1] \o s[i]
  <2> HIDE DEF step
  <2>1. QED BY <1>4, <1>5
<1>7. Flattens(g, s)
  <2> HIDE DEF step
  <2>1. QED BY <1>4, <1>6 DEF Flattens
<1>8. QED BY <1>7

\* The turns for two lists that agree on their first k members agree.
LEMMA FlattensAgree ==
  ASSUME NEW X, NEW s \in Seq(Seq(X)), NEW t \in Seq(Seq(X)), NEW k \in Nat,
         k <= Len(s), k <= Len(t), \A i \in 1 .. k : s[i] = t[i],
         NEW g, NEW h, Flattens(g, s), Flattens(h, t)
  PROVE  \A i \in 1 .. k : g[i] = h[i] /\ g[i] \in Seq(X)
<1> DEFINE S == {i \in Nat : i + 1 \in 1 .. k => g[i + 1] = h[i + 1] /\ g[i + 1] \in Seq(X)}
<1>0. /\ \A i \in 1 .. Len(s) : g[i] = IF i = 1 THEN s[i] ELSE g[i - 1] \o s[i]
      /\ \A i \in 1 .. Len(t) : h[i] = IF i = 1 THEN t[i] ELSE h[i - 1] \o t[i]
  BY Zenon DEF Flattens
<1>1. 0 \in S
  <2> SUFFICES ASSUME 0 + 1 \in 1 .. k PROVE g[0 + 1] = h[0 + 1] /\ g[0 + 1] \in Seq(X) OBVIOUS
  <2>1. 0 + 1 = 1 /\ 1 \in 1 .. Len(s) /\ 1 \in 1 .. Len(t) /\ s[1] = t[1] OBVIOUS
  <2>2. g[1] = s[1] /\ h[1] = t[1] /\ s[1] \in Seq(X) BY <1>0, <2>1
  <2>3. QED BY <2>1, <2>2
<1>2. ASSUME NEW n \in Nat, n \in S PROVE n + 1 \in S
  <2> DEFINE m == (n + 1) + 1
  <2> SUFFICES ASSUME m \in 1 .. k PROVE g[m] = h[m] /\ g[m] \in Seq(X) OBVIOUS
  <2>1. m # 1 /\ m - 1 = n + 1 /\ n + 1 \in 1 .. k /\ m \in 1 .. Len(s) /\ m \in 1 .. Len(t) OBVIOUS
  <2>2. g[n + 1] = h[n + 1] /\ g[n + 1] \in Seq(X) BY <1>2, <2>1
  <2>3. s[m] = t[m] /\ s[m] \in Seq(X) BY <2>1
  <2> HIDE DEF m
  <2>4. g[m] = g[n + 1] \o s[m] /\ h[m] = h[n + 1] \o t[m] BY <1>0, <2>1
  <2>5. QED BY <2>2, <2>3, <2>4, ConcatProperties
<1> HIDE DEF S
<1>3. Nat \subseteq S BY <1>1, <1>2, SetInduction
<1>4. QED
  <2> SUFFICES ASSUME NEW i \in 1 .. k PROVE g[i] = h[i] /\ g[i] \in Seq(X) OBVIOUS
  <2>1. i - 1 \in Nat /\ (i - 1) + 1 = i OBVIOUS
  <2>2. i - 1 \in S BY <1>3, <2>1
  <2>3. QED BY <2>1, <2>2 DEF S

\* FlattenSeq is the last of them.
LEMMA FlattenTurns ==
  ASSUME NEW X, NEW s \in Seq(Seq(X)), Len(s) # 0
  PROVE  \E g : Flattens(g, s) /\ FlattenSeq(s) = g[Len(s)]
<1> DEFINE g == CHOOSE h : Flattens(h, s)
<1>1. Flattens(g, s) BY FlattensExists
<1>2. FlattenSeq(s) = g[Len(s)] BY DEF FlattenSeq, Flattens
<1>3. QED BY <1>1, <1>2

\* FlattenSeq, without its loop.
LEMMA FlattenEmpty == FlattenSeq(<< >>) = << >>
  BY DEF FlattenSeq

\* A concatenation is a list of the members of its lists.
LEMMA FlattenType ==
  ASSUME NEW X, NEW s \in Seq(Seq(X))
  PROVE  FlattenSeq(s) \in Seq(X)
<1>1. CASE Len(s) = 0
  <2>1. s = << >> /\ << >> \in Seq(X) BY <1>1, EmptySeq
  <2>2. QED BY <2>1, FlattenEmpty, Zenon
<1>2. CASE Len(s) # 0
  <2>1. PICK g : Flattens(g, s) /\ FlattenSeq(s) = g[Len(s)] BY <1>2, FlattenTurns
  <2>2. Len(s) \in Nat /\ Len(s) \in 1 .. Len(s) BY <1>2
  <2>3. \A i \in 1 .. Len(s) : g[i] \in Seq(X) BY <2>1, <2>2, FlattensAgree
  <2>4. QED BY <2>1, <2>2, <2>3
<1>3. QED BY <1>1, <1>2

\* One list more is put behind.
LEMMA FlattenAppend ==
  ASSUME NEW X, NEW s \in Seq(Seq(X)), NEW x \in Seq(X)
  PROVE  FlattenSeq(Append(s, x)) = FlattenSeq(s) \o x
<1> DEFINE t == Append(s, x)
           n == Len(s) + 1
<1>1. t \in Seq(Seq(X)) /\ Len(t) = n /\ n # 0 /\ n \in 1 .. Len(t) /\ t[n] = x
      /\ Len(s) \in Nat /\ \A i \in 1 .. Len(s) : t[i] = s[i]
  OBVIOUS
<1> HIDE DEF t
<1>2. PICK h : Flattens(h, t) /\ FlattenSeq(t) = h[n] BY <1>1, FlattenTurns
<1>3. h[n] = IF n = 1 THEN t[n] ELSE h[n - 1] \o t[n] BY <1>1, <1>2, Zenon DEF Flattens
<1>4. CASE Len(s) = 0
  <2>1. s = << >> /\ n = 1 BY <1>4, EmptySeq
  <2>2. FlattenSeq(t) = x BY <1>1, <1>2, <1>3, <2>1
  <2>3. QED BY <2>1, <2>2, FlattenEmpty DEF t
<1>5. CASE Len(s) # 0
  <2>1. PICK g : Flattens(g, s) /\ FlattenSeq(s) = g[Len(s)] BY <1>5, FlattenTurns
  <2>2. Len(s) \in 1 .. Len(s) /\ Len(s) <= Len(t) /\ n # 1 /\ n - 1 = Len(s) BY <1>1, <1>5
  <2>3. g[Len(s)] = h[Len(s)]
    <3> HIDE DEF n
    <3> DEFINE k == Len(s)
    <3>1. k \in Nat /\ k <= Len(s) /\ k <= Len(t) /\ \A i \in 1 .. k : s[i] = t[i] BY <1>1, <2>2
    <3> HIDE DEF k
    <3>2. Flattens(g, s) /\ Flattens(h, t) /\ t \in Seq(Seq(X)) BY <1>1, <1>2, <2>1
    <3>4. \A i \in 1 .. k : g[i] = h[i] /\ g[i] \in Seq(X) BY <3>1, <3>2, FlattensAgree
    <3> USE DEF k
    <3>3. QED BY <2>2, <3>4
  <2>4. QED BY <1>1, <1>2, <1>3, <2>1, <2>2, <2>3 DEF t
<1>6. QED BY <1>4, <1>5
-----------------------------------------------------------------------------
\* The largest member of a set of numbers up to n.
LEMMA MaxIsLast ==
  ASSUME NEW n \in Nat, NEW x \in SUBSET (1 .. n), n \in x
  PROVE  Max(x) = n
<1>1. \A y \in x : y \in Int /\ y <= n /\ n >= y OBVIOUS
<1>2. \E y \in x : \A z \in x : y >= z BY <1>1
<1>3. Max(x) \in x /\ \A z \in x : Max(x) >= z BY <1>2, Zenon DEF Max
<1>4. Max(x) >= n /\ Max(x) <= n /\ Max(x) \in Int BY <1>1, <1>3
<1>5. QED BY <1>4

\* The largest of some numbers up to n is one of them.
LEMMA MaxInSet ==
  ASSUME NEW n \in Nat, NEW x \in SUBSET (1 .. n), x # {}
  PROVE  Max(x) \in x
<1> DEFINE S == {k \in Nat : \A y \in SUBSET (1 .. k) : y # {} => Max(y) \in y}
<1>1. 0 \in S
  <2>1. \A y \in SUBSET (1 .. 0) : y = {} OBVIOUS
  <2>2. QED BY <2>1
<1>2. ASSUME NEW k \in Nat, k \in S PROVE k + 1 \in S
  <2> SUFFICES ASSUME NEW y \in SUBSET (1 .. (k + 1)), y # {} PROVE Max(y) \in y OBVIOUS
  <2>1. CASE k + 1 \in y BY <2>1, MaxIsLast
  <2>2. CASE k + 1 \notin y
    <3>1. y \in SUBSET (1 .. k) BY <2>2
    <3>2. QED BY <1>2, <3>1
  <2>3. QED BY <2>1, <2>2
<1> HIDE DEF S
<1>3. Nat \subseteq S BY <1>1, <1>2, SetInduction
<1>4. n \in S BY <1>3
<1>5. QED BY <1>4 DEF S

\* The iteration of a left fold over 1 .. n, from the largest index down.
Folds(it, n, base, step) ==
  it = [x \in SUBSET (1 .. n) |->
          IF x = {} THEN base ELSE step[<<it[x \ {Max(x)}], Max(x)>>]]

\* A fold over the numbers up to n, the largest taken last, exists.
LEMMA FoldExists ==
  ASSUME NEW V, NEW base \in V, NEW n \in Nat, NEW step \in [V \X Int -> V]
  PROVE  \E it \in [SUBSET (1 .. n) -> V] : Folds(it, n, base, step)
<1> DEFINE S == {k \in Nat : \E it \in [SUBSET (1 .. k) -> V] : Folds(it, k, base, step)}
<1>1. 0 \in S
  <2> DEFINE it == [x \in SUBSET (1 .. 0) |-> base]
  <2>1. it \in [SUBSET (1 .. 0) -> V] OBVIOUS
  <2>2. \A x \in SUBSET (1 .. 0) : x = {} OBVIOUS
  <2>3. Folds(it, 0, base, step) BY <2>2 DEF Folds
  <2> HIDE DEF it
  <2>4. QED BY <2>1, <2>3
<1>2. ASSUME NEW k \in Nat, k \in S PROVE k + 1 \in S
  <2>1. PICK it \in [SUBSET (1 .. k) -> V] : Folds(it, k, base, step) BY <1>2
  <2> DEFINE n1 == k + 1
             new == [x \in SUBSET (1 .. n1) |->
                       IF n1 \in x THEN step[<<it[x \ {n1}], n1>>] ELSE it[x]]
  <2>0. n1 \in Nat /\ n1 \in Int OBVIOUS
  <2>2. \A x \in SUBSET (1 .. n1) : x \ {n1} \in SUBSET (1 .. k) OBVIOUS
  <2> HIDE DEF n1
  <2>3. new \in [SUBSET (1 .. n1) -> V]
    <3> SUFFICES ASSUME NEW x \in SUBSET (1 .. n1)
                 PROVE  (IF n1 \in x THEN step[<<it[x \ {n1}], n1>>] ELSE it[x]) \in V
      OBVIOUS
    <3>1. it[x \ {n1}] \in V BY <2>1, <2>2
    <3>2. n1 \notin x => x = x \ {n1} OBVIOUS
    <3>3. <<it[x \ {n1}], n1>> \in V \X Int BY <2>0, <3>1
    <3>4. QED BY <3>1, <3>2, <3>3
  <2>4. ASSUME NEW x \in SUBSET (1 .. n1)
        PROVE  new[x] = IF x = {} THEN base ELSE step[<<new[x \ {Max(x)}], Max(x)>>]
    <3>1. CASE n1 \in x
      <4>1. Max(x) = n1 BY <2>0, <3>1, MaxIsLast
      <4>2. x \ {n1} \in SUBSET (1 .. n1) /\ new[x \ {n1}] = it[x \ {n1}] OBVIOUS
      <4>3. QED BY <3>1, <4>1, <4>2
    <3>2. CASE n1 \notin x
      <4>1. x \in SUBSET (1 .. k) /\ new[x] = it[x]
        <5>1. x = x \ {n1} BY <3>2
        <5>2. QED BY <2>2, <3>2, <5>1
      <4>2. new[x \ {Max(x)}] = it[x \ {Max(x)}]
        <5>1. x \ {Max(x)} \in SUBSET (1 .. n1) /\ n1 \notin x \ {Max(x)} BY <3>2
        <5>2. QED BY <5>1
      <4>3. it[x] = IF x = {} THEN base ELSE step[<<it[x \ {Max(x)}], Max(x)>>]
        BY <2>1, <4>1, Zenon DEF Folds
      <4>4. QED BY <4>1, <4>2, <4>3
    <3>3. QED BY <3>1, <3>2
  <2>5. Folds(new, n1, base, step) BY <2>3, <2>4 DEF Folds
  <2> HIDE DEF new
  <2>6. QED BY <2>0, <2>3, <2>5 DEF n1
<1> HIDE DEF S
<1>3. Nat \subseteq S BY <1>1, <1>2, SetInduction
<1>4. n \in S BY <1>3
<1>5. QED BY <1>4 DEF S
-----------------------------------------------------------------------------

\* The first k members and the next one.
LEMMA PrefixNext ==
  ASSUME NEW X, NEW s \in Seq(X), NEW k \in Nat, k < Len(s)
  PROVE  /\ SubSeq(s, 1, k) \in Seq(X) /\ s[k + 1] \in X
         /\ SubSeq(s, 1, k + 1) = Append(SubSeq(s, 1, k), s[k + 1])
<1>1. Len(s) \in Nat OBVIOUS
<1>2. SubSeq(s, 1, k) \in Seq(X) /\ Len(SubSeq(s, 1, k)) = k /\ s[k + 1] \in X
      /\ \A i \in 1 .. k : SubSeq(s, 1, k)[i] = s[i]
  BY <1>1
<1>3. SubSeq(s, 1, k + 1) \in Seq(X) /\ Len(SubSeq(s, 1, k + 1)) = k + 1
      /\ \A i \in 1 .. (k + 1) : SubSeq(s, 1, k + 1)[i] = s[i]
  BY <1>1
<1>4. Append(SubSeq(s, 1, k), s[k + 1]) \in Seq(X)
      /\ Len(Append(SubSeq(s, 1, k), s[k + 1])) = k + 1
      /\ \A i \in 1 .. (k + 1) : Append(SubSeq(s, 1, k), s[k + 1])[i] = s[i]
  BY <1>2
<1>5. QED BY <1>2, <1>3, <1>4, SeqEqual

\* The concatenation of a list of lists goes on behind that of its first k members
\* with the next one.
LEMMA FlattenNext ==
  ASSUME NEW X, NEW s \in Seq(Seq(X)), NEW k \in Nat, k < Len(s)
  PROVE  /\ FlattenSeq(SubSeq(s, 1, k)) \in Seq(X)
         /\ FlattenSeq(SubSeq(s, 1, k + 1)) = FlattenSeq(SubSeq(s, 1, k)) \o s[k + 1]
<1>1. /\ SubSeq(s, 1, k) \in Seq(Seq(X)) /\ s[k + 1] \in Seq(X)
      /\ SubSeq(s, 1, k + 1) = Append(SubSeq(s, 1, k), s[k + 1])
  BY PrefixNext
<1>2. QED BY <1>1, FlattenType, FlattenAppend

\* What begins a list begins every longer one.
LEMMA PrefixKept ==
  ASSUME NEW X, NEW p \in Seq(X), NEW q \in Seq(X), NEW r \in Seq(X),
         Len(p) <= Len(q), \A i \in 1 .. Len(p) : p[i] = q[i]
  PROVE  Len(p) <= Len(q \o r) /\ \A i \in 1 .. Len(p) : p[i] = (q \o r)[i]
<1>1. /\ Len(q \o r) = Len(q) + Len(r)
      /\ \A i \in 1 .. Len(q) + Len(r) : (q \o r)[i] = IF i <= Len(q) THEN q[i] ELSE r[i - Len(q)]
  BY ConcatProperties
<1>2. Len(p) \in Nat /\ Len(q) \in Nat /\ Len(r) \in Nat OBVIOUS
<1>3. QED BY <1>1, <1>2

\* ... and agrees with the whole.
LEMMA FlattenPrefix ==
  ASSUME NEW X, NEW s \in Seq(Seq(X)), NEW k \in 0 .. Len(s)
  PROVE  /\ Len(FlattenSeq(SubSeq(s, 1, k))) <= Len(FlattenSeq(s))
         /\ \A i \in 1 .. Len(FlattenSeq(SubSeq(s, 1, k))) :
              FlattenSeq(SubSeq(s, 1, k))[i] = FlattenSeq(s)[i]
<1> DEFINE F(j) == FlattenSeq(SubSeq(s, 1, j))
           S == {d \in Nat : d <= Len(s) - k =>
                   Len(F(k)) <= Len(F(k + d)) /\ \A i \in 1 .. Len(F(k)) : F(k)[i] = F(k + d)[i]}
<1>0. \A j \in 0 .. Len(s) : F(j) \in Seq(X)
  <2> SUFFICES ASSUME NEW j \in 0 .. Len(s) PROVE F(j) \in Seq(X) OBVIOUS
  <2>1. SubSeq(s, 1, j) \in Seq(Seq(X)) OBVIOUS
  <2>2. QED BY <2>1, FlattenType
<1>1. 0 \in S 
  <2>1. k + 0 = k OBVIOUS
  <2>2. Len(F(k)) \in Nat BY <1>0
  <2> HIDE DEF F
  <2>3. QED BY <2>1, <2>2
<1>2. ASSUME NEW d \in Nat, d \in S PROVE d + 1 \in S
  <2> SUFFICES ASSUME d + 1 <= Len(s) - k
               PROVE  Len(F(k)) <= Len(F(k + (d + 1)))
                      /\ \A i \in 1 .. Len(F(k)) : F(k)[i] = F(k + (d + 1))[i]
    OBVIOUS
  <2>1. k + d \in Nat /\ k + d < Len(s) /\ k + (d + 1) = (k + d) + 1 /\ d <= Len(s) - k
        /\ k + d \in 0 .. Len(s) /\ s[(k + d) + 1] \in Seq(X)
    OBVIOUS
  <2>2. F((k + d) + 1) = F(k + d) \o s[(k + d) + 1] BY <2>1, FlattenNext
  <2>3. Len(F(k)) <= Len(F(k + d)) /\ \A i \in 1 .. Len(F(k)) : F(k)[i] = F(k + d)[i] BY <1>2, <2>1
  <2>4. F(k) \in Seq(X) /\ F(k + d) \in Seq(X) BY <1>0, <2>1
  <2> HIDE DEF F
  <2> DEFINE p == F(k)
             q == F(k + d)
             r == s[(k + d) + 1]
  <2>5. Len(p) <= Len(q \o r) /\ \A i \in 1 .. Len(p) : p[i] = (q \o r)[i]
    <3>1. p \in Seq(X) /\ q \in Seq(X) /\ r \in Seq(X) /\ Len(p) <= Len(q)
          /\ \A i \in 1 .. Len(p) : p[i] = q[i]
      BY <2>1, <2>3, <2>4
    <3> HIDE DEF p, q, r
    <3>2. QED BY <3>1, PrefixKept
  <2>6. F(k + (d + 1)) = F(k + d) \o s[(k + d) + 1] BY <2>1, <2>2
  <2>7. QED BY <2>5, <2>6
<1> HIDE DEF S
<1>3. Nat \subseteq S BY <1>1, <1>2, SetInduction
<1>4. Len(s) - k \in S /\ k + (Len(s) - k) = Len(s) BY <1>3
<1>5. F(Len(s)) = FlattenSeq(s) BY SubSeqFull
<1>6. Len(s) - k <= Len(s) - k OBVIOUS
<1>7. QED BY <1>4, <1>5, <1>6 DEF S

\* A reversed list, member by member.
LEMMA ReverseType ==
  ASSUME NEW X, NEW s \in Seq(X)
  PROVE  /\ Reverse(s) \in Seq(X) /\ Len(Reverse(s)) = Len(s)
         /\ \A i \in 1 .. Len(s) : Reverse(s)[i] = s[(Len(s) - i) + 1]
  BY DEF Reverse

\* What stands last comes first.
LEMMA ReverseConcat ==
  ASSUME NEW X, NEW s \in Seq(X), NEW t \in Seq(X)
  PROVE  Reverse(s \o t) = Reverse(t) \o Reverse(s)
<1> DEFINE u == s \o t
           rs == Reverse(s)
           rt == Reverse(t)
           v == rt \o rs
           n == Len(s)
           m == Len(t)
           ru == Reverse(u)
<1>1. u \in Seq(X) /\ Len(u) = n + m /\ n \in Nat /\ m \in Nat
      /\ \A i \in 1 .. n + m : u[i] = IF i <= n THEN s[i] ELSE t[i - n]
  BY ConcatProperties
<1>2. rs \in Seq(X) /\ rt \in Seq(X) /\ Len(rs) = n /\ Len(rt) = m
      /\ (\A i \in 1 .. n : rs[i] = s[(n - i) + 1])
      /\ (\A i \in 1 .. m : rt[i] = t[(m - i) + 1])
  BY ReverseType
<1> HIDE DEF rs, rt
<1>3. v \in Seq(X) /\ Len(v) = m + n
      /\ \A i \in 1 .. m + n : v[i] = IF i <= m THEN rt[i] ELSE rs[i - m]
  <2> HIDE DEF n, m
  <2>1. QED BY <1>2, ConcatProperties, ZenonT(60)
<1> HIDE DEF u, v
<1>4. ru \in Seq(X) /\ Len(ru) = Len(u) /\ \A i \in 1 .. Len(u) : ru[i] = u[(Len(u) - i) + 1]
  BY <1>1, ReverseType
<1> HIDE DEF ru, n, m
<1>5. ASSUME NEW i \in 1 .. Len(ru) PROVE ru[i] = v[i]
  <2> DEFINE j == ((n + m) - i) + 1
  <2>1. n \in Nat /\ m \in Nat /\ i \in 1 .. n + m /\ i \in 1 .. m + n BY <1>1, <1>4
  <2>2. j \in 1 .. n + m BY <2>1
  <2>3. ru[i] = u[j] BY <1>1, <1>4, <2>1
  <2>4. CASE i <= m
    <3>1. ~(j <= n) /\ j - n = (m - i) + 1 /\ i \in 1 .. m BY <2>1, <2>4
    <3>2. u[j] = t[(m - i) + 1]
      <4> HIDE DEF j
      <4>1. QED BY <1>1, <2>2, <3>1
    <3>3. v[i] = t[(m - i) + 1] BY <1>2, <1>3, <2>1, <2>4, <3>1
    <3>4. QED BY <2>3, <3>2, <3>3
  <2>5. CASE ~(i <= m)
    <3>1. j <= n /\ i - m \in 1 .. n /\ (n - (i - m)) + 1 = j BY <2>1, <2>5
    <3> HIDE DEF j
    <3>2. u[j] = s[j] BY <1>1, <2>2, <3>1
    <3>3. v[i] = rs[i - m] BY <1>3, <2>1, <2>5
    <3>4. rs[i - m] = s[j] BY <1>2, <3>1
    <3>5. QED BY <2>3, <3>2, <3>3, <3>4
  <2>6. QED BY <2>4, <2>5
<1>6. Len(ru) = Len(v) BY <1>1, <1>3, <1>4
<1>7. ru = v BY <1>3, <1>4, <1>5, <1>6, SeqEqual
<1>8. QED BY <1>7 DEF ru, v, u, rs, rt

\* A list is its front and its last member.
LEMMA FrontLast ==
  ASSUME NEW X, NEW s \in Seq(X), s # << >>
  PROVE  Front(s) \in Seq(X) /\ Last(s) \in X /\ s = Append(Front(s), Last(s))
<1>1. Len(s) \in Nat /\ Len(s) # 0 BY EmptySeq
<1>2. QED BY <1>1 DEF Front, Last

(***************************************************************************)
(* Lists of the values of a function.                                      *)
(***************************************************************************)

\* f is a function from X to Y; written so, the provers can match it.
IsMap(f, X, Y) == f \in [X -> Y]

\* The list of the values of f at the members of s.
Mapped(f, s) == [i \in DOMAIN s |-> f[s[i]]]

\* The list of the values has the length of the list.
LEMMA MappedType ==
  ASSUME NEW X, NEW Y, NEW f, IsMap(f, X, Y), NEW s \in Seq(X)
  PROVE  /\ Mapped(f, s) \in Seq(Y) /\ Len(Mapped(f, s)) = Len(s)
         /\ DOMAIN Mapped(f, s) = DOMAIN s
         /\ \A i \in 1 .. Len(s) : Mapped(f, s)[i] = f[s[i]]
<1>1. DOMAIN s = 1 .. Len(s) /\ Len(s) \in Nat /\ \A i \in 1 .. Len(s) : s[i] \in X OBVIOUS
<1>2. QED BY <1>1 DEF Mapped, IsMap

\* It is empty for an empty list.
LEMMA MappedEmpty == ASSUME NEW f PROVE Mapped(f, << >>) = << >>
  BY DEF Mapped

\* The list of a list that goes on goes on.
LEMMA MappedConcat ==
  ASSUME NEW X, NEW Y, NEW f, IsMap(f, X, Y), NEW s \in Seq(X), NEW t \in Seq(X)
  PROVE  Mapped(f, s \o t) = Mapped(f, s) \o Mapped(f, t)
<1> DEFINE u == s \o t
           ms == Mapped(f, s)
           mt == Mapped(f, t)
           mu == Mapped(f, u)
           v == ms \o mt
           n == Len(s)
           m == Len(t)
<1>1. u \in Seq(X) /\ Len(u) = n + m /\ n \in Nat /\ m \in Nat
      /\ \A i \in 1 .. n + m : u[i] = IF i <= n THEN s[i] ELSE t[i - n]
  BY ConcatProperties
<1>2. ms \in Seq(Y) /\ mt \in Seq(Y) /\ Len(ms) = n /\ Len(mt) = m
      /\ (\A i \in 1 .. n : ms[i] = f[s[i]]) /\ (\A i \in 1 .. m : mt[i] = f[t[i]])
  BY MappedType
<1> HIDE DEF u
<1>3. mu \in Seq(Y) /\ Len(mu) = Len(u) /\ \A i \in 1 .. Len(u) : mu[i] = f[u[i]]
  BY <1>1, MappedType
<1> HIDE DEF ms, mt, mu
<1>4. v \in Seq(Y) /\ Len(v) = n + m /\ \A i \in 1 .. n + m : v[i] = IF i <= n THEN ms[i] ELSE mt[i - n]
  <2> HIDE DEF n, m
  <2>1. ms \o mt \in Seq(Y) /\ Len(ms \o mt) = Len(ms) + Len(mt)
        /\ \A i \in 1 .. Len(ms) + Len(mt) : (ms \o mt)[i] = IF i <= Len(ms) THEN ms[i] ELSE mt[i - Len(ms)]
    BY <1>2, ConcatProperties
  <2>2. QED BY <1>2, <2>1
<1> HIDE DEF v, n, m
<1>5. ASSUME NEW i \in 1 .. Len(mu) PROVE mu[i] = v[i]
  <2>1. i \in 1 .. n + m BY <1>1, <1>3
  <2>2. CASE i <= n
    <3>1. i \in 1 .. n BY <1>1, <2>1, <2>2
    <3>2. mu[i] = f[s[i]] BY <1>1, <1>3, <2>1, <2>2
    <3>3. v[i] = f[s[i]] BY <1>2, <1>4, <2>1, <2>2, <3>1
    <3>4. QED BY <3>2, <3>3
  <2>3. CASE ~(i <= n)
    <3>1. i - n \in 1 .. m BY <1>1, <2>1, <2>3
    <3>2. mu[i] = f[t[i - n]] BY <1>1, <1>3, <2>1, <2>3
    <3>3. v[i] = f[t[i - n]] BY <1>2, <1>4, <2>1, <2>3, <3>1
    <3>4. QED BY <3>2, <3>3
  <2>4. QED BY <2>2, <2>3
<1>6. Len(mu) = Len(v) BY <1>1, <1>3, <1>4
<1>7. mu = v BY <1>3, <1>4, <1>5, <1>6, SeqEqual
<1>8. QED BY <1>7 DEF mu, v, u, ms, mt

\* One member more is one value more.
LEMMA MappedAppend ==
  ASSUME NEW X, NEW Y, NEW f, IsMap(f, X, Y), NEW s \in Seq(X), NEW x \in X
  PROVE  Mapped(f, Append(s, x)) = Append(Mapped(f, s), f[x])
<1>1. << x >> \in Seq(X) /\ Append(s, x) = s \o << x >> BY AppendIsConcat
<1>2. Mapped(f, Append(s, x)) = Mapped(f, s) \o Mapped(f, << x >>)
  <2> DEFINE t == << x >>
  <2>1. t \in Seq(X) BY <1>1
  <2>2. Append(s, x) = s \o t BY <1>1
  <2> HIDE DEF t
  <2>3. Mapped(f, s \o t) = Mapped(f, s) \o Mapped(f, t) BY <2>1, MappedConcat
  <2>4. QED BY <2>2, <2>3 DEF t
<1>3. Mapped(f, << x >>) = << f[x] >> BY DEF Mapped
<1>4. Mapped(f, s) \in Seq(Y) /\ f[x] \in Y BY MappedType DEF IsMap
<1>5. Append(Mapped(f, s), f[x]) = Mapped(f, s) \o << f[x] >> BY <1>4, AppendIsConcat
<1>6. QED BY <1>2, <1>3, <1>5

\* f at every member of every list.
Lifted(f, X) == [b \in Seq(X) |-> Mapped(f, b)]

\* It makes lists of Y of lists of X.
LEMMA LiftedType ==
  ASSUME NEW X, NEW Y, NEW f, IsMap(f, X, Y)
  PROVE  IsMap(Lifted(f, X), Seq(X), Seq(Y)) /\ \A b \in Seq(X) : Lifted(f, X)[b] = Mapped(f, b)
<1>1. \A b \in Seq(X) : Mapped(f, b) \in Seq(Y) BY MappedType
<1>2. QED BY <1>1 DEF Lifted, IsMap

\* It is the same to concatenate first and to take the values of f first.
LEMMA FlattenMapped ==
  ASSUME NEW X, NEW Y, NEW f, IsMap(f, X, Y), NEW s \in Seq(Seq(X))
  PROVE  FlattenSeq(Mapped(Lifted(f, X), s)) = Mapped(f, FlattenSeq(s))
<1> DEFINE F == Lifted(f, X)
           P == {r \in Seq(Seq(X)) : FlattenSeq(Mapped(F, r)) = Mapped(f, FlattenSeq(r))}
<1>0. IsMap(F, Seq(X), Seq(Y)) /\ \A b \in Seq(X) : F[b] = Mapped(f, b) BY LiftedType
<1> HIDE DEF F
<1>1. << >> \in P
  <2>1. << >> \in Seq(Seq(X)) BY EmptySeq
  <2>2. Mapped(F, << >>) = << >> /\ Mapped(f, << >>) = << >> BY MappedEmpty
  <2>3. FlattenSeq(Mapped(F, << >>)) = Mapped(f, FlattenSeq(<< >>)) BY <2>2, FlattenEmpty
  <2>4. QED BY <2>1, <2>3
<1>2. ASSUME NEW r \in Seq(Seq(X)), NEW b \in Seq(X), r \in P PROVE Append(r, b) \in P
  <2>1. Append(r, b) \in Seq(Seq(X)) OBVIOUS
  <2>2. Mapped(F, Append(r, b)) = Append(Mapped(F, r), F[b]) BY <1>0, MappedAppend
  <2>3. Mapped(F, r) \in Seq(Seq(Y)) BY <1>0, MappedType
  <2>4. F[b] = Mapped(f, b) /\ F[b] \in Seq(Y) BY <1>0 DEF IsMap
  <2>5. FlattenSeq(Mapped(F, Append(r, b))) = FlattenSeq(Mapped(F, r)) \o Mapped(f, b)
    <3> DEFINE m == Mapped(F, r)
    <3> HIDE DEF m
    <3>1. m \in Seq(Seq(Y)) BY <2>3 DEF m
    <3>2. FlattenSeq(Append(m, F[b])) = FlattenSeq(m) \o F[b] BY <2>4, <3>1, FlattenAppend
    <3>3. QED BY <2>2, <2>4, <3>2 DEF m
  <2>6. FlattenSeq(Mapped(F, r)) = Mapped(f, FlattenSeq(r)) BY <1>2
  <2>7. FlattenSeq(r) \in Seq(X) /\ FlattenSeq(Append(r, b)) = FlattenSeq(r) \o b BY FlattenType, FlattenAppend
  <2>8. Mapped(f, FlattenSeq(r) \o b) = Mapped(f, FlattenSeq(r)) \o Mapped(f, b) BY <2>7, MappedConcat
  <2>9. FlattenSeq(Mapped(F, Append(r, b))) = Mapped(f, FlattenSeq(Append(r, b))) BY <2>5, <2>6, <2>7, <2>8
  <2>10. QED BY <2>1, <2>9
<1> HIDE DEF P
<1>3. Seq(Seq(X)) \subseteq P BY <1>1, <1>2, SeqInduction
<1>4. QED BY <1>3 DEF P, F

\* ... to reverse first ...
LEMMA ReverseMapped ==
  ASSUME NEW X, NEW Y, NEW f, IsMap(f, X, Y), NEW s \in Seq(X)
  PROVE  Reverse(Mapped(f, s)) = Mapped(f, Reverse(s))
<1> DEFINE m == Mapped(f, s)
           r == Reverse(s)
           n == Len(s)
<1>1. m \in Seq(Y) /\ Len(m) = n /\ (\A i \in 1 .. n : m[i] = f[s[i]]) /\ n \in Nat BY MappedType
<1>2. r \in Seq(X) /\ Len(r) = n /\ (\A i \in 1 .. n : r[i] = s[(n - i) + 1]) BY ReverseType
<1> HIDE DEF m, r, n
<1>3. Reverse(m) \in Seq(Y) /\ Len(Reverse(m)) = Len(m) /\ \A i \in 1 .. Len(m) : Reverse(m)[i] = m[(Len(m) - i) + 1]
  BY <1>1, ReverseType
<1>4. Mapped(f, r) \in Seq(Y) /\ Len(Mapped(f, r)) = Len(r) /\ \A i \in 1 .. Len(r) : Mapped(f, r)[i] = f[r[i]]
  BY <1>2, MappedType
<1>5. \A i \in 1 .. n : (n - i) + 1 \in 1 .. n BY <1>1
<1>6. \A i \in 1 .. Len(Reverse(m)) : Reverse(m)[i] = Mapped(f, r)[i] BY <1>1, <1>2, <1>3, <1>4, <1>5
<1>7. Reverse(m) = Mapped(f, r) BY <1>1, <1>2, <1>3, <1>4, <1>6, SeqEqual
<1>8. QED BY <1>7 DEF m, r

\* ... or to take a part first.
LEMMA SubSeqMapped ==
  ASSUME NEW X, NEW Y, NEW f, IsMap(f, X, Y), NEW s \in Seq(X), NEW i \in Nat, NEW j \in Nat, j <= Len(s)
  PROVE  SubSeq(Mapped(f, s), i + 1, j) = Mapped(f, SubSeq(s, i + 1, j))
<1> DEFINE m == Mapped(f, s)
           p == SubSeq(s, i + 1, j)
           q == SubSeq(m, i + 1, j)
           n == IF i < j THEN j - i ELSE 0
<1>1. m \in Seq(Y) /\ Len(m) = Len(s) /\ (\A k \in 1 .. Len(s) : m[k] = f[s[k]]) BY MappedType
<1>0. Len(s) \in Nat /\ n \in Nat /\ \A k \in 1 .. n : i + k \in 1 .. Len(s) OBVIOUS
<1>2. p \in Seq(X) /\ Len(p) = n /\ \A k \in 1 .. n : p[k] = s[i + k] BY <1>0
<1> HIDE DEF m, p
<1>3. q \in Seq(Y) /\ Len(q) = n /\ \A k \in 1 .. n : q[k] = m[i + k] BY <1>0, <1>1
<1> HIDE DEF q, n
<1>4. Mapped(f, p) \in Seq(Y) /\ Len(Mapped(f, p)) = Len(p) /\ \A k \in 1 .. Len(p) : Mapped(f, p)[k] = f[p[k]]
  BY <1>2, MappedType
<1>5. \A k \in 1 .. Len(q) : q[k] = Mapped(f, p)[k] BY <1>0, <1>1, <1>2, <1>3, <1>4
<1>6. q = Mapped(f, p) BY <1>2, <1>3, <1>4, <1>5, SeqEqual
<1>7. QED BY <1>6 DEF q, p, m
=============================================================================
