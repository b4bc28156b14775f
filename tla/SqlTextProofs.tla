---------------------------- MODULE SqlTextProofs -----------------------------
(***************************************************************************)
(* Theorems about the loops over SQL text, for every text, statement,      *)
(* parameter list and script.  SplitInv: the two flags of                  *)
(* split_simple_query are never both set and agree with the mode the       *)
(* quotes of SQL give the characters read, although the flags skip a       *)
(* doubled quote in one turn and Mode is a fold over characters (ModeNext, *)
(* OneCharacter).  RenderInv: the parameters render_portal_sql has gone    *)
(* past are well formed.  FoundInv: what the loops have found is trimmed   *)
(* and not empty.  PiecesInv: the statements found are the pieces of the   *)
(* text that begin before the current one, which begins behind the last    *)
(* semicolon outside quotes.  BindInv: the text render_portal_sql has so   *)
(* far is Put(text, Literals, idx, Len(text)), the statement with the      *)
(* placeholders above the idx-th replaced, part by part; PutReplaced is    *)
(* one turn, in which $1 finds no $10 because it has been replaced, and no *)
(* placeholder across two parts or in a value.  SameAll compares the       *)
(* quotes, comments and semicolons of the text rendered with the           *)
(* statement's, part by part.  ScriptInv: the loop of split_exasol_sql is  *)
(* in some item of the script, none before it leads it astray, it has      *)
(* found the statements of those, and the lines it keeps are the ones of   *)
(* the current statement it has read; or it has met an item that leads it  *)
(* astray and has found the statements of those before.                    *)
(***************************************************************************)
EXTENDS SqlText, SequenceFolds

(***************************************************************************)
(* Mode, character by character                                            *)
(***************************************************************************)

\* What Mode can be.
Modes == {"plain", "dash", "string", "name", "comment"}

\* A character leads from a mode to a mode.
LEMMA AfterType == ASSUME NEW m \in Modes, NEW c PROVE After(m, c) \in Modes
  BY DEF Modes, After

\* What Mode computes, turn by turn.
Scans(it, s) ==
  it = [x \in SUBSET (DOMAIN s) |-> IF x = {} THEN "plain" ELSE After(it[x \ {Max(x)}], s[Max(x)])]

\* The turns exist.
LEMMA ScansExists ==
  ASSUME NEW X, NEW s \in Seq(X)
  PROVE  \E it : Scans(it, s)
<1> DEFINE n == Len(s)
           step == [p \in Modes \X Int |-> IF p[2] \in 1 .. n THEN After(p[1], s[p[2]]) ELSE p[1]]
<1>0. n \in Nat /\ DOMAIN s = 1 .. n OBVIOUS
<1> HIDE DEF n
<1>1. step \in [Modes \X Int -> Modes]
  <2> SUFFICES ASSUME NEW p \in Modes \X Int
               PROVE  (IF p[2] \in 1 .. n THEN After(p[1], s[p[2]]) ELSE p[1]) \in Modes
    OBVIOUS
  <2>1. p[1] \in Modes OBVIOUS
  <2>2. QED BY <2>1, AfterType
<1>2. PICK it \in [SUBSET (1 .. n) -> Modes] : Folds(it, n, "plain", step)
  <2>1. "plain" \in Modes BY DEF Modes
  <2> HIDE DEF step
  <2>2. QED BY <1>0, <1>1, <2>1, FoldExists
<1>3. ASSUME NEW x \in SUBSET (1 .. n)
      PROVE  it[x] = IF x = {} THEN "plain" ELSE After(it[x \ {Max(x)}], s[Max(x)])
  <2>1. it[x] = IF x = {} THEN "plain" ELSE step[<<it[x \ {Max(x)}], Max(x)>>]
    BY <1>2, Zenon DEF Folds
  <2>2. CASE x # {}
    <3>1. Max(x) \in 1 .. n BY <1>0, <2>2, MaxInSet
    <3>2. it[x \ {Max(x)}] \in Modes BY <1>2
    <3>3. <<it[x \ {Max(x)}], Max(x)>> \in Modes \X Int
      <4>1. Max(x) \in Int BY <1>0, <3>1
      <4>2. QED BY <3>2, <4>1
    <3>4. step[<<it[x \ {Max(x)}], Max(x)>>] = After(it[x \ {Max(x)}], s[Max(x)]) BY <3>1, <3>3
    <3>5. QED BY <2>1, <2>2, <3>4
  <2>3. QED BY <2>1, <2>2
<1>4. Scans(it, s) BY <1>0, <1>2, <1>3 DEF Scans
<1>5. QED BY <1>4

\* The turns for two texts that agree on their first k characters agree.
LEMMA ScansAgree ==
  ASSUME NEW X, NEW s \in Seq(X), NEW t \in Seq(X), NEW k \in Nat,
         k <= Len(s), k <= Len(t), \A i \in 1 .. k : s[i] = t[i],
         NEW g, NEW h, Scans(g, s), Scans(h, t)
  PROVE  g[1 .. k] = h[1 .. k] /\ g[1 .. k] \in Modes
<1> DEFINE S == {j \in Nat : j <= k => g[1 .. j] = h[1 .. j] /\ g[1 .. j] \in Modes}
<1>0. /\ \A x \in SUBSET (DOMAIN s) : g[x] = IF x = {} THEN "plain" ELSE After(g[x \ {Max(x)}], s[Max(x)])
      /\ \A x \in SUBSET (DOMAIN t) : h[x] = IF x = {} THEN "plain" ELSE After(h[x \ {Max(x)}], t[Max(x)])
  BY Zenon DEF Scans
<1>1. DOMAIN s = 1 .. Len(s) /\ DOMAIN t = 1 .. Len(t) OBVIOUS
<1>2. 0 \in S
  <2>1. 1 .. 0 = {} OBVIOUS
  <2>2. g[{}] = "plain" /\ h[{}] = "plain" BY <1>0
  <2>3. QED BY <2>1, <2>2 DEF Modes
<1>3. ASSUME NEW j \in Nat, j \in S PROVE j + 1 \in S
  <2> DEFINE m == j + 1
             x == 1 .. m
  <2> SUFFICES ASSUME m <= k PROVE g[x] = h[x] /\ g[x] \in Modes OBVIOUS
  <2>0. Len(s) \in Nat /\ Len(t) \in Nat OBVIOUS
  <2>1. /\ j <= k /\ m \in Nat /\ x \in SUBSET (1 .. m) /\ m \in x /\ x # {} /\ x \ {m} = 1 .. j
        /\ x \in SUBSET (1 .. Len(s)) /\ x \in SUBSET (1 .. Len(t)) /\ s[m] = t[m]
    <3>0. j <= k /\ m \in Nat /\ m \in 1 .. k OBVIOUS
    <3>7. m \in x BY <3>0
    <3>1. j <= k /\ m \in Nat /\ m \in x /\ x # {} /\ m \in 1 .. k BY <3>0, <3>7
    <3>2. x \in SUBSET (1 .. m) /\ x \ {m} = 1 .. j OBVIOUS
    <3>3. x \in SUBSET (1 .. Len(s)) /\ x \in SUBSET (1 .. Len(t)) BY <2>0
    <3>4. s[m] = t[m] BY <2>0, <3>1
    <3>6. QED BY <3>1, <3>2, <3>3, <3>4
  <2> HIDE DEF m, x
  <2>2. Max(x) = m BY <2>1, MaxIsLast
  <2>3. g[1 .. j] = h[1 .. j] /\ g[1 .. j] \in Modes BY <1>3, <2>1
  <2>4. g[x] = After(g[1 .. j], s[m]) /\ h[x] = After(h[1 .. j], t[m]) BY <1>0, <1>1, <2>1, <2>2
  <2>5. QED BY <2>1, <2>3, <2>4, AfterType
<1> HIDE DEF S
<1>4. Nat \subseteq S BY <1>2, <1>3, SetInduction
<1>5. k \in S BY <1>4
<1>6. QED BY <1>5 DEF S

\* Mode is the last of the turns.
LEMMA ModeTurns ==
  ASSUME NEW X, NEW s \in Seq(X)
  PROVE  \E g : Scans(g, s) /\ Mode(s) = g[1 .. Len(s)]
<1> DEFINE g == CHOOSE h : Scans(h, s)
<1>1. Scans(g, s) BY ScansExists
<1>2. Mode(s) = g[DOMAIN s] BY DEF Mode, FoldLeft, MapThenFoldSet, Scans
<1>3. DOMAIN s = 1 .. Len(s) OBVIOUS
<1>4. QED BY <1>1, <1>2, <1>3

\* Nothing is quoted at first.
LEMMA ModeEmpty == Mode(<< >>) = "plain"
<1>0. << >> \in Seq({}) /\ Len(<< >>) = 0 BY EmptySeq
<1>1. PICK g : Scans(g, << >>) /\ Mode(<< >>) = g[1 .. 0] BY <1>0, ModeTurns
<1>2. g[{}] = "plain" BY <1>1, Zenon DEF Scans
<1>3. 1 .. 0 = {} OBVIOUS
<1>4. QED BY <1>1, <1>2, <1>3

\* One character more.
LEMMA ModeAppend ==
  ASSUME NEW X, NEW s \in Seq(X), NEW c \in X
  PROVE  Mode(Append(s, c)) = After(Mode(s), c) /\ Mode(s) \in Modes
<1> DEFINE t == Append(s, c)
           n == Len(s)
           m == n + 1
           x == 1 .. m
<1>1. t \in Seq(X) /\ Len(t) = m /\ t[m] = c /\ DOMAIN t = x
      /\ n \in Nat /\ n <= Len(s) /\ n <= Len(t) /\ \A i \in 1 .. n : s[i] = t[i]
  OBVIOUS
<1>2. m \in Nat /\ x \in SUBSET (1 .. m) /\ m \in x /\ x # {} /\ x \ {m} = 1 .. n
  <2>1. n \in Nat OBVIOUS
  <2> HIDE DEF n
  <2>2. m \in Nat /\ x \in SUBSET (1 .. m) /\ m \in x BY <2>1
  <2>3. x \ {m} = 1 .. n BY <2>1
  <2>4. QED BY <2>2, <2>3
<1> HIDE DEF t, x, m, n
<1>3. PICK g : Scans(g, s) /\ Mode(s) = g[1 .. n] BY ModeTurns DEF n
<1>4. PICK h : Scans(h, t) /\ Mode(t) = h[x] BY <1>1, ModeTurns DEF x
<1>5. Max(x) = m BY <1>2, MaxIsLast
<1>6. h[x] = After(h[1 .. n], t[m])
  <2>1. \A y \in SUBSET (DOMAIN t) : h[y] = IF y = {} THEN "plain" ELSE After(h[y \ {Max(y)}], t[Max(y)])
    BY <1>4, Zenon DEF Scans
  <2>2. QED BY <1>1, <1>2, <1>5, <2>1
<1>7. g[1 .. n] = h[1 .. n] /\ g[1 .. n] \in Modes
  <2>1. Scans(g, s) /\ Scans(h, t) /\ t \in Seq(X) BY <1>1, <1>3, <1>4
  <2>2. n \in Nat /\ n <= Len(s) /\ n <= Len(t) /\ \A i \in 1 .. n : s[i] = t[i] BY <1>1
  <2>3. g[1 .. n] = h[1 .. n] /\ g[1 .. n] \in Modes BY <2>1, <2>2, ScansAgree
  <2>4. QED BY <2>3
<1>8. QED BY <1>1, <1>3, <1>4, <1>6, <1>7 DEF t

(***************************************************************************)
(* split_simple_query                                                      *)
(***************************************************************************)

\* A quote or a semicolon in a comment among the first k characters.
Misled(k) == \E i \in 1 .. k : text[i] \in {"'", "\"", ";"} /\ Mode(SubSeq(text, 1, i - 1)) = "comment"

\* The text is a list.
TextType == text \in Seq(ToSet(text))

\* The beginning of a beginning.
LEMMA PrefixOfPrefix ==
  ASSUME NEW X, NEW s \in Seq(X), NEW k \in 0 .. Len(s), NEW i \in 1 .. k
  PROVE  SubSeq(SubSeq(s, 1, k), 1, i - 1) = SubSeq(s, 1, i - 1)
<1> DEFINE p == SubSeq(s, 1, k)
           q == SubSeq(p, 1, i - 1)
           r == SubSeq(s, 1, i - 1)
<1>1. Len(s) \in Nat /\ k \in Nat /\ i - 1 \in Nat /\ i - 1 <= k /\ k <= Len(s) OBVIOUS
<1>2. p \in Seq(X) /\ Len(p) = k /\ \A j \in 1 .. k : p[j] = s[j] BY <1>1
<1>3. r \in Seq(X) /\ Len(r) = i - 1 /\ \A j \in 1 .. i - 1 : r[j] = s[j] BY <1>1
<1> HIDE DEF p, r
<1>4. q \in Seq(X) /\ Len(q) = i - 1 /\ \A j \in 1 .. i - 1 : q[j] = p[j] BY <1>1, <1>2
<1> HIDE DEF q
<1>5. \A j \in 1 .. Len(q) : q[j] = r[j] BY <1>1, <1>2, <1>3, <1>4
<1>6. q = r BY <1>3, <1>4, <1>5, SeqEqual
<1>7. QED BY <1>6 DEF p, q, r

\* The text read so far misleads if one of its characters does.
LEMMA MisledByRead ==
  ASSUME TextType, NEW k \in 0 .. Len(text)
  PROVE  Misleading(SubSeq(text, 1, k)) <=> Misled(k)
<1> DEFINE X == ToSet(text)
           p == SubSeq(text, 1, k)
<1>1. text \in Seq(X) BY DEF TextType
<1> HIDE DEF X
<1>2. Len(text) \in Nat /\ k \in Nat /\ k <= Len(text) BY <1>1
<1>3. DOMAIN p = 1 .. k /\ \A j \in 1 .. k : p[j] = text[j] BY <1>1, <1>2
<1>4. \A i \in 1 .. k : SubSeq(p, 1, i - 1) = SubSeq(text, 1, i - 1) BY <1>1, PrefixOfPrefix
<1> HIDE DEF p
<1>5. QED BY <1>3, <1>4 DEF Misleading, Misled, p

\* The mode after one character more.
LEMMA ModeNext ==
  ASSUME TextType, NEW k \in Nat, k < Len(text)
  PROVE  /\ Mode(SubSeq(text, 1, k + 1)) = After(Mode(SubSeq(text, 1, k)), text[k + 1])
         /\ Mode(SubSeq(text, 1, k)) \in Modes
<1> DEFINE X == ToSet(text)
           p == SubSeq(text, 1, k)
           c == text[k + 1]
<1>1. text \in Seq(X) BY DEF TextType
<1> HIDE DEF X
<1>2. p \in Seq(X) /\ c \in X /\ SubSeq(text, 1, k + 1) = Append(p, c) BY <1>1, PrefixNext
<1> HIDE DEF p, c
<1>3. Mode(Append(p, c)) = After(Mode(p), c) /\ Mode(p) \in Modes BY <1>2, ModeAppend
<1>4. QED BY <1>2, <1>3 DEF p, c

\* What the flags say.
ModesOf(single, double) ==
  IF single THEN {"string"} ELSE IF double THEN {"name"} ELSE {"plain", "dash", "comment"}

\* The first k characters of the text are in a mode the flags stand for.
Agrees(single, double, k) == Mode(SubSeq(text, 1, k)) \in ModesOf(single, double) \/ Misled(k)

\* The flags agree with the quotes of the text read; no other call changes them.
SplitInv ==
  /\ TextType
  /\ in_single_quote \in BOOLEAN /\ in_double_quote \in BOOLEAN
  /\ ~(in_single_quote /\ in_double_quote)
  /\ call \in {"split", "render", "script"}
  /\ call = "split" => idx \in 0 .. Len(text) /\ Agrees(in_single_quote, in_double_quote, idx)

\* One character read by flags that agree.
LEMMA OneCharacter ==
  ASSUME TextType, NEW k \in Nat, k < Len(text),
         NEW single \in BOOLEAN, NEW double \in BOOLEAN, ~(single /\ double), Agrees(single, double, k)
  PROVE  /\ text[k + 1] = "'" /\ ~double => Agrees(~single, double, k + 1)
         /\ text[k + 1] = "\"" /\ ~single => Agrees(single, ~double, k + 1)
         /\ text[k + 1] = ";" => Agrees(single, double, k + 1)
         /\ text[k + 1] = "'" /\ double => Agrees(single, double, k + 1)
         /\ text[k + 1] = "\"" /\ single => Agrees(single, double, k + 1)
         /\ text[k + 1] \notin {"'", "\"", ";"} => Agrees(single, double, k + 1)
<1> DEFINE c == text[k + 1]
           m == Mode(SubSeq(text, 1, k))
           n == Mode(SubSeq(text, 1, k + 1))
<1>1. n = After(m, c) /\ m \in Modes BY ModeNext
<1>2. CASE Misled(k)
  <2>0. \A i \in 1 .. k : i \in 1 .. k + 1 OBVIOUS
  <2>1. Misled(k + 1) BY <1>2, <2>0, Zenon DEF Misled
  <2>2. QED BY <2>1 DEF Agrees
<1>3. CASE m = "comment" /\ c \in {"'", "\"", ";"}
  <2>1. k + 1 \in 1 .. k + 1 /\ (k + 1) - 1 = k OBVIOUS
  <2>2. Misled(k + 1) BY <1>3, <2>1 DEF Misled
  <2>3. QED BY <2>2 DEF Agrees
<1>4. CASE ~Misled(k) /\ ~(m = "comment" /\ c \in {"'", "\"", ";"})
  <2>1. m \in ModesOf(single, double) BY <1>4 DEF Agrees
  <2> HIDE DEF c, m, n
  <2>2. /\ c = "'" /\ ~double => n \in ModesOf(~single, double)
        /\ c = "\"" /\ ~single => n \in ModesOf(single, ~double)
        /\ c = ";" => n \in ModesOf(single, double)
        /\ c = "'" /\ double => n \in ModesOf(single, double)
        /\ c = "\"" /\ single => n \in ModesOf(single, double)
        /\ c \notin {"'", "\"", ";"} => n \in ModesOf(single, double)
    BY <1>1, <1>4, <2>1 DEF ModesOf, After, Modes
  <2>3. QED BY <2>2 DEF Agrees, c, n
<1>5. QED BY <1>2, <1>3, <1>4

\* Everything holds at first.
LEMMA SplitInit == Init => SplitInv
<1> SUFFICES ASSUME Init PROVE SplitInv OBVIOUS
<1>1. text \in Queries \cup Statements \cup Scripts BY DEF Init, InitSplit, InitRender, InitScript
<1>2. TextType BY <1>1, TextsAssumption DEF TextType
<1>3. in_single_quote = FALSE /\ in_double_quote = FALSE /\ call \in {"split", "render", "script"}
  BY DEF Init, InitSplit, InitRender, InitScript
<1>4. ASSUME call = "split" PROVE idx \in 0 .. Len(text) /\ Agrees(in_single_quote, in_double_quote, idx)
  <2>1. idx = 0 BY <1>4 DEF Init, InitSplit, InitRender, InitScript
  <2>2. Len(text) \in Nat BY <1>2 DEF TextType
  <2>3. SubSeq(text, 1, 0) = << >> BY SubSeqEmpty
  <2>4. Mode(SubSeq(text, 1, 0)) = "plain" BY <2>3, ModeEmpty
  <2>5. QED BY <1>3, <2>1, <2>2, <2>4 DEF Agrees, ModesOf
<1>5. QED BY <1>2, <1>3, <1>4 DEF SplitInv

\* The text is never changed.
LEMMA SplitFrame ==
  ASSUME SplitInv, UNCHANGED <<call, text, in_single_quote, in_double_quote>>, call # "split" \/ UNCHANGED idx
  PROVE  SplitInv'
<1>1. \A s, d, k : Agrees(s, d, k)' <=> Agrees(s, d, k) BY DEF Agrees, Misled
<1>2. QED BY <1>1 DEF SplitInv, TextType

\* Every step keeps the flags in step with the quotes.
LEMMA SplitStep == SplitInv /\ [Next]_vars => SplitInv'
<1> SUFFICES ASSUME SplitInv, [Next]_vars PROVE SplitInv' OBVIOUS
<1>1. TextType /\ in_single_quote \in BOOLEAN /\ in_double_quote \in BOOLEAN /\ ~(in_single_quote /\ in_double_quote)
  BY DEF SplitInv
<1>2. Len(text) \in Nat BY <1>1 DEF TextType
<1>3. ASSUME Scanning
      PROVE  idx \in Nat /\ idx < Len(text) /\ idx + 1 \in 0 .. Len(text) /\ call = "split"
             /\ Agrees(in_single_quote, in_double_quote, idx)
  <2>1. call = "split" /\ idx < Len(text) BY <1>3 DEF Scanning
  <2>2. idx \in 0 .. Len(text) /\ Agrees(in_single_quote, in_double_quote, idx) BY <2>1 DEF SplitInv
  <2>3. QED BY <1>2, <2>1, <2>2
<1>4. ASSUME UNCHANGED <<call, text>>, in_single_quote' \in BOOLEAN, in_double_quote' \in BOOLEAN,
             ~(in_single_quote' /\ in_double_quote'), call = "split",
             idx' \in 0 .. Len(text), Agrees(in_single_quote', in_double_quote', idx')
      PROVE  SplitInv'
  <2>1. Agrees(in_single_quote, in_double_quote, idx)' BY <1>4 DEF Agrees, Misled
  <2>2. QED BY <1>1, <1>4, <2>1 DEF SplitInv, TextType
<1>5. CASE SingleQuote
  <2>1. Scanning /\ text[idx + 1] = "'" /\ ~in_double_quote /\ UNCHANGED <<call, text, in_double_quote>>
    BY <1>5 DEF SingleQuote, ch
  <2>2. Agrees(~in_single_quote, in_double_quote, idx + 1) BY <1>1, <1>3, <2>1, OneCharacter
  <2>3. CASE in_single_quote /\ idx + 1 < Len(text) /\ text[idx + 2] = "'"
    <3>1. idx' = idx + 2 /\ in_single_quote' = in_single_quote BY <1>5, <2>3 DEF SingleQuote
    <3> DEFINE k == idx + 1
               single == ~in_single_quote
    <3>2. k \in Nat /\ k + 1 = idx + 2 /\ k < Len(text) /\ single \in BOOLEAN /\ ~(single /\ in_double_quote)
      BY <1>1, <1>3, <2>1, <2>3
    <3>3. Agrees(single, in_double_quote, k) /\ text[k + 1] = "'" BY <2>2, <2>3, <3>2
    <3> HIDE DEF k, single
    <3>4. Agrees(~single, in_double_quote, k + 1) BY <1>1, <2>1, <3>2, <3>3, OneCharacter
    <3>5. (~single) = in_single_quote BY <1>1 DEF single
    <3>6. k + 1 \in 0 .. Len(text) BY <1>2, <3>2
    <3>7. QED BY <1>1, <1>3, <1>4, <2>1, <3>1, <3>2, <3>4, <3>5, <3>6
  <2>4. CASE ~(in_single_quote /\ idx + 1 < Len(text) /\ text[idx + 2] = "'")
    <3>1. idx' = idx + 1 /\ in_single_quote' = ~in_single_quote BY <1>5, <2>4 DEF SingleQuote
    <3>2. QED BY <1>1, <1>3, <1>4, <2>1, <2>2, <3>1
  <2>5. QED BY <2>3, <2>4
<1>6. CASE DoubleQuote
  <2>1. Scanning /\ text[idx + 1] = "\"" /\ ~in_single_quote /\ UNCHANGED <<call, text, in_single_quote>>
        /\ in_double_quote' = ~in_double_quote /\ idx' = idx + 1
    BY <1>6 DEF DoubleQuote, ch
  <2>2. Agrees(in_single_quote, ~in_double_quote, idx + 1) BY <1>1, <1>3, <2>1, OneCharacter
  <2>3. QED BY <1>1, <1>3, <1>4, <2>1, <2>2
<1>7. CASE Semicolon
  <2>1. Scanning /\ text[idx + 1] = ";" /\ UNCHANGED <<call, text, in_single_quote, in_double_quote>> /\ idx' = idx + 1
    BY <1>7 DEF Semicolon, ch
  <2>2. Agrees(in_single_quote, in_double_quote, idx + 1) BY <1>1, <1>3, <2>1, OneCharacter
  <2>3. QED BY <1>1, <1>3, <1>4, <2>1, <2>2
<1>8. CASE Other
  <2>1. Scanning /\ UNCHANGED <<call, text, in_single_quote, in_double_quote>> /\ idx' = idx + 1
    BY <1>8 DEF Other, splitVars
  <2>2. \/ text[idx + 1] \notin {"'", "\"", ";"}
        \/ text[idx + 1] = "'" /\ in_double_quote
        \/ text[idx + 1] = "\"" /\ in_single_quote
        \/ text[idx + 1] = ";"
    BY <1>8 DEF Other, ch
  <2>3. Agrees(in_single_quote, in_double_quote, idx + 1) BY <1>1, <1>3, <2>1, <2>2, OneCharacter
  <2>4. QED BY <1>1, <1>3, <1>4, <2>1, <2>3
<1>9. CASE ReturnStatements BY <1>9, SplitFrame DEF ReturnStatements
<1>10. CASE Replace \/ ReturnSql BY <1>10, SplitFrame DEF Replace, ReturnSql, Rendering, splitVars
<1>11. CASE SkipLine \/ KeepLine \/ EndStatement \/ EndCompound \/ ReturnScript
  BY <1>11, SplitFrame DEF SkipLine, KeepLine, EndStatement, EndCompound, ReturnScript, Reading, splitVars
<1>12. CASE UNCHANGED vars BY <1>12, SplitFrame DEF vars, splitVars
<1>13. QED BY <1>5, <1>6, <1>7, <1>8, <1>9, <1>10, <1>11, <1>12 DEF Next

(***************************************************************************)
(* render_portal_sql                                                       *)
(***************************************************************************)

\* A parameter that can be rendered.
Accepted(p) == WellFormed(p) \/ TakenForText(p)

\* What is rendered is well formed, or of a type that is taken for text.
LEMMA RenderedIsAccepted ==
  ASSUME NEW p, {p.null, p.binary, p.utf8} \subseteq BOOLEAN, render_portal_parameter(p) # Error
  PROVE  Accepted(p)
<1>1. CASE p.null BY <1>1 DEF Accepted, WellFormed
<1>2. CASE ~p.null /\ p.binary
  <2>1. render_portal_parameter(p) = render_binary_parameter(p) BY <1>2 DEF render_portal_parameter
  <2>2. CASE p.type \in DOMAIN Size
    <3>1. Len(p.bytes) = Size[p.type] BY <2>1, <2>2 DEF render_binary_parameter
    <3>2. QED BY <1>2, <2>2, <3>1 DEF Accepted, WellFormed
  <2>3. CASE p.type \notin DOMAIN Size
    <3>1. p.utf8 BY <2>1, <2>3 DEF render_binary_parameter
    <3>2. QED BY <1>2, <2>3, <3>1 DEF Accepted, WellFormed, TakenForText
  <2>4. QED BY <2>2, <2>3
<1>3. CASE ~p.null /\ ~p.binary
  <2>1. render_portal_parameter(p) = IF p.utf8 THEN sql_string_literal(p.bytes) ELSE Error
    BY <1>3 DEF render_portal_parameter
  <2>2. QED BY <1>3, <2>1 DEF Accepted, WellFormed
<1>4. QED BY <1>1, <1>2, <1>3

\* A portal is a list of parameters.
LEMMA PortalType ==
  ASSUME NEW ps \in Portals
  PROVE  /\ Len(ps) \in 0 .. 99 /\ DOMAIN ps = 1 .. Len(ps)
         /\ \A i \in 1 .. Len(ps) : {ps[i].null, ps[i].binary, ps[i].utf8} \subseteq BOOLEAN
<1> DEFINE X == ToSet(ps)
<1>1. ps \in Seq(X) /\ Len(ps) <= 99 BY PortalsAssumption
<1> HIDE DEF X
<1>2. Len(ps) \in Nat /\ DOMAIN ps = 1 .. Len(ps) BY <1>1
<1>3. Len(ps) \in 0 .. 99
  <2> DEFINE n == Len(ps)
  <2>1. n \in Nat /\ n <= 99 BY <1>1, <1>2
  <2> HIDE DEF n
  <2>2. n \in 0 .. 99 BY <2>1
  <2>3. QED BY <2>2 DEF n
<1>4. QED BY <1>2, <1>3, PortalsAssumption

\* The parameters whose placeholders have been replaced are well formed.
RenderInv ==
  call = "render" =>
    /\ parameters \in Portals /\ idx \in 0 .. Len(parameters)
    /\ outcome \in {"running", "returned"} => \A i \in idx + 1 .. Len(parameters) : Accepted(parameters[i])
    /\ outcome = "returned" => idx = 0

\* No parameter has been rendered at first.
LEMMA RenderInit == Init => RenderInv
<1> SUFFICES ASSUME Init, call = "render" PROVE RenderInv BY DEF RenderInv
<1>1. InitRender /\ outcome = "running" BY DEF Init, InitSplit, InitScript
<1>2. parameters \in Portals /\ idx = Len(parameters) BY <1>1 DEF InitRender
<1>3. Len(parameters) \in Nat BY <1>2, PortalType
<1>4. QED BY <1>1, <1>2, <1>3 DEF RenderInv

\* Replace stops at a malformed parameter and goes on past a well-formed one.
LEMMA RenderStep == RenderInv /\ [Next]_vars => RenderInv'
<1> SUFFICES ASSUME RenderInv, [Next]_vars PROVE RenderInv' OBVIOUS
<1>1. CASE Replace
  <2> DEFINE n == Len(parameters)
  <2>1. /\ call = "render" /\ outcome = "running" /\ idx > 0 /\ idx' = idx - 1
        /\ UNCHANGED <<call, parameters>>
        /\ outcome' = IF render_portal_parameter(parameters[idx]) = Error THEN "error" ELSE "running"
    BY <1>1 DEF Replace, Rendering
  <2>2. parameters \in Portals /\ idx \in 0 .. n /\ \A i \in idx + 1 .. n : Accepted(parameters[i])
    BY <2>1 DEF RenderInv
  <2>5. n \in Nat /\ \A i \in 1 .. n : {parameters[i].null, parameters[i].binary, parameters[i].utf8} \subseteq BOOLEAN
    BY <2>2, PortalType
  <2>6. UNCHANGED n BY <2>1
  <2> HIDE DEF n
  <2>7. idx \in 1 .. n /\ idx' \in 0 .. n /\ idx' + 1 = idx BY <2>1, <2>2, <2>5
  <2>3. CASE render_portal_parameter(parameters[idx]) = Error
    <3>1. outcome' = "error" BY <2>1, <2>3
    <3>2. QED BY <2>1, <2>2, <2>6, <2>7, <3>1 DEF RenderInv, n
  <2>4. CASE render_portal_parameter(parameters[idx]) # Error
    <3>1. Accepted(parameters[idx]) BY <2>4, <2>5, <2>7, RenderedIsAccepted
    <3>2. \A i \in idx .. n : i = idx \/ i \in idx + 1 .. n BY <2>5, <2>7
    <3>3. \A i \in idx' + 1 .. n : Accepted(parameters[i]) BY <2>2, <2>7, <3>1, <3>2
    <3>4. outcome' = "running" BY <2>1, <2>4
    <3>5. QED BY <2>1, <2>2, <2>6, <2>7, <3>3, <3>4 DEF RenderInv, Accepted, n
  <2>8. QED BY <2>3, <2>4
<1>2. CASE ReturnSql
  <2>1. call = "render" /\ outcome = "running" /\ idx = 0 /\ UNCHANGED <<call, parameters, idx>> /\ outcome' = "returned"
    BY <1>2 DEF ReturnSql
  <2>2. QED BY <2>1 DEF RenderInv, Accepted
<1>3. ASSUME call # "render", UNCHANGED call PROVE RenderInv' BY <1>3 DEF RenderInv
<1>4. CASE SingleQuote \/ DoubleQuote \/ Semicolon \/ Other \/ ReturnStatements
  BY <1>3, <1>4 DEF SingleQuote, DoubleQuote, Semicolon, Other, ReturnStatements, Scanning
<1>5. CASE SkipLine \/ KeepLine \/ EndStatement \/ EndCompound \/ ReturnScript
  BY <1>3, <1>5 DEF SkipLine, KeepLine, EndStatement, EndCompound, ReturnScript, Reading
<1>6. CASE UNCHANGED vars BY <1>6 DEF vars, RenderInv, Accepted
<1>7. QED BY <1>1, <1>2, <1>4, <1>5, <1>6 DEF Next

(***************************************************************************)
(* trim                                                                    *)
(***************************************************************************)

\* The smallest of some numbers, 1 among them.
LEMMA MinIsFirst ==
  ASSUME NEW n \in Nat, NEW x \in SUBSET (1 .. n), 1 \in x
  PROVE  Min(x) = 1
<1>1. \A y \in x : 1 <= y /\ y \in Int OBVIOUS
<1>2. \E y \in x : \A z \in x : y <= z BY <1>1
<1>3. Min(x) \in x /\ \A z \in x : Min(x) <= z BY <1>2 DEF Min
<1>4. Min(x) \in Int /\ 1 <= Min(x) /\ Min(x) <= 1 BY <1>1, <1>3
<1>5. QED BY <1>4

\* The smallest of some numbers up to n is one of them.
LEMMA MinInSet ==
  ASSUME NEW n \in Nat, NEW x \in SUBSET (1 .. n), x # {}
  PROVE  Min(x) \in x /\ \A z \in x : Min(x) <= z
<1>1. \E y \in x : \A z \in x : y <= z
  <2> DEFINE S == {k \in Nat : (\E y \in x : y <= k) => \E y \in x : \A z \in x : y <= z}
  <2>1. 0 \in S
    <3>1. \A y \in x : ~(y <= 0) OBVIOUS
    <3>2. QED BY <3>1
  <2>2. ASSUME NEW k \in Nat, k \in S PROVE k + 1 \in S
    <3> SUFFICES ASSUME NEW y \in x, y <= k + 1 PROVE \E w \in x : \A z \in x : w <= z OBVIOUS
    <3>1. \A z \in x : z \in Int OBVIOUS
    <3>2. CASE \E w \in x : w <= k BY <2>2, <3>2
    <3>3. CASE ~\E w \in x : w <= k
      <4>1. \A z \in x : y <= z BY <3>1, <3>3
      <4>2. QED BY <4>1
    <3>4. QED BY <3>2, <3>3
  <2> HIDE DEF S
  <2>3. Nat \subseteq S BY <2>1, <2>2, SetInduction
  <2>4. n \in S BY <2>3
  <2>5. \E y \in x : y <= n
    <3>1. PICK y \in x : TRUE OBVIOUS
    <3>2. y \in 1 .. n OBVIOUS
    <3>3. y <= n BY <3>2
    <3>4. QED BY <3>3
  <2>6. QED BY <2>4, <2>5 DEF S
<1>2. QED BY <1>1 DEF Min

\* What is left between white space, and that trimming once is enough.
LEMMA Trimmed ==
  ASSUME NEW X, NEW s \in Seq(X)
  PROVE  trim(s) \in Seq(X) /\ trim(trim(s)) = trim(s)
<1> DEFINE kept == {i \in DOMAIN s : s[i] \notin {" ", NL}}
           n == Len(s)
<1>0. n \in Nat /\ DOMAIN s = 1 .. n OBVIOUS
<1>1. CASE kept = {}
  <2>1. trim(s) = << >> BY <1>1 DEF trim
  <2>2. {i \in DOMAIN << >> : << >>[i] \notin {" ", NL}} = {} OBVIOUS
  <2>3. trim(<< >>) = << >> BY <2>2 DEF trim
  <2>4. QED BY <2>1, <2>3, EmptySeq
<1>2. CASE kept # {}
  <2> DEFINE a == Min(kept)
             b == Max(kept)
             r == SubSeq(s, a, b)
             left == {i \in DOMAIN r : r[i] \notin {" ", NL}}
             m == (b - a) + 1
  <2>1. kept \in SUBSET (1 .. n) BY <1>0
  <2>2. trim(s) = r BY <1>2 DEF trim
  <2>3. a \in kept /\ \A z \in kept : a <= z
    <3> HIDE DEF kept, n
    <3>1. QED BY <1>0, <1>2, <2>1, MinInSet
  <2>4. b \in kept
    <3> HIDE DEF kept, n
    <3>1. QED BY <1>0, <1>2, <2>1, MaxInSet
  <2>51. a \in 1 .. n /\ b \in 1 .. n /\ a <= b BY <1>0, <2>3, <2>4
  <2>5. s[a] \notin {" ", NL} /\ s[b] \notin {" ", NL} BY <1>0, <2>3, <2>4
  <2> HIDE DEF a, b, kept, n
  <2>0. n \in Nat BY <1>0
  <2>6. m \in Nat /\ 1 <= m /\ (a + 1) - 1 = a /\ (a + m) - 1 = b
    <3>1. a \in Int /\ b \in Int /\ a <= b BY <2>0, <2>51
    <3>2. QED BY <3>1
  <2>7. r \in Seq(X) /\ Len(r) = m /\ \A i \in 1 .. m : r[i] = s[(a + i) - 1]
    <3>1. a \in Int /\ b \in Int /\ a <= b /\ 1 <= a /\ b <= Len(s) BY <2>0, <2>51 DEF n
    <3>2. QED BY <3>1
  <2> HIDE DEF r, m
  <2>8. DOMAIN r = 1 .. m /\ 1 \in 1 .. m /\ m \in 1 .. m BY <2>6, <2>7
  <2>9. r[1] = s[a] /\ r[m] = s[b] BY <2>6, <2>7, <2>8
  <2>10. 1 \in left /\ m \in left /\ left \in SUBSET (1 .. m) BY <2>5, <2>8, <2>9
  <2>11. trim(r) = SubSeq(r, Min(left), Max(left)) BY <2>10 DEF trim
  <2> HIDE DEF left
  <2>12. Min(left) = 1 /\ Max(left) = m BY <2>6, <2>10, MinIsFirst, MaxIsLast
  <2>13. SubSeq(r, 1, m) = r BY <2>7, SubSeqFull
  <2>14. QED BY <2>2, <2>7, <2>11, <2>12, <2>13
<1>3. QED BY <1>1, <1>2

(***************************************************************************)
(* What the loops have found                                               *)
(***************************************************************************)

\* Statements that are neither empty nor surrounded by white space.
Found(X) == {x \in Seq(X) : x # << >> /\ trim(x) = x}

\* What ended lines are without their semicolons.
EndedLines == {Ended[l] : l \in DOMAIN Ended}

\* The characters and lines of the argument.
Members == ToSet(text) \cup ToSet(Lines) \cup EndedLines

\* A list is a list of its members.
LEMMA ItsMembers ==
  ASSUME NEW X, NEW s \in Seq(X)
  PROVE  s \in Seq(ToSet(s))
<1>1. \A i \in 1 .. Len(s) : s[i] \in ToSet(s) BY DEF ToSet
<1>2. s = [i \in 1 .. Len(s) |-> s[i]] /\ Len(s) \in Nat OBVIOUS
<1> DEFINE Y == ToSet(s)
<1> HIDE DEF Y
<1>3. \A i \in 1 .. Len(s) : s[i] \in Y BY <1>1 DEF Y
<1>4. s \in Seq(Y) BY <1>2, <1>3
<1>5. QED BY <1>4 DEF Y

\* A list of members of a set is one of members of a larger set.
LEMMA MoreMembers ==
  ASSUME NEW X, NEW Y, X \subseteq Y, NEW s \in Seq(X)
  PROVE  s \in Seq(Y)
<1>1. \A i \in 1 .. Len(s) : s[i] \in Y OBVIOUS
<1>2. s = [i \in 1 .. Len(s) |-> s[i]] /\ Len(s) \in Nat OBVIOUS
<1>3. QED BY <1>1, <1>2

\* The lines of a script are a list.
LEMMA LinesType == ASSUME text \in Scripts PROVE Lines \in Seq(ToSet(Lines))
<1> DEFINE items == ToSet(text)
           X == UNION {ToSet(item.lines) : item \in items}
           s == [i \in DOMAIN text |-> text[i].lines]
<1>1. text \in Seq(items) /\ \A item \in items : item.lines \in Seq(ToSet(item.lines)) BY TextsAssumption
<1>2. \A item \in items : item.lines \in Seq(X)
  <2> SUFFICES ASSUME NEW item \in items PROVE item.lines \in Seq(X) OBVIOUS
  <2>1. ToSet(item.lines) \subseteq X OBVIOUS
  <2> HIDE DEF X
  <2>2. QED BY <1>1, <2>1, MoreMembers
<1> HIDE DEF X, items
<1>3. DOMAIN text = 1 .. Len(text) /\ Len(text) \in Nat /\ \A i \in DOMAIN text : text[i] \in items BY <1>1
<1>4. s \in Seq(Seq(X))
  <2>1. \A i \in 1 .. Len(text) : text[i].lines \in Seq(X) BY <1>2, <1>3
  <2> DEFINE Y == Seq(X)
  <2> HIDE DEF Y
  <2>2. \A i \in 1 .. Len(text) : text[i].lines \in Y BY <2>1 DEF Y
  <2>3. s \in Seq(Y) BY <1>3, <2>2
  <2>4. QED BY <2>3 DEF Y
<1>5. FlattenSeq(s) \in Seq(X)
  <2> HIDE DEF s
  <2>1. QED BY <1>4, FlattenType
<1>6. Lines \in Seq(X) BY <1>5 DEF Lines
<1>7. QED BY <1>6, ItsMembers

\* A trimmed statement may be pushed.
LEMMA PushedFound ==
  ASSUME NEW X, NEW s \in Seq(X), trim(s) = s, NEW list \in Seq(Found(X))
  PROVE  (IF s = << >> THEN list ELSE Append(list, s)) \in Seq(Found(X))
<1>1. CASE s = << >> BY <1>1
<1>2. CASE s # << >>
  <2>1. s \in Found(X) BY <1>2 DEF Found
  <2> DEFINE Y == Found(X)
  <2> HIDE DEF Y
  <2>2. s \in Y /\ list \in Seq(Y) BY <2>1 DEF Y
  <2>3. Append(list, s) \in Seq(Y) BY <2>2
  <2>4. QED BY <1>2, <2>3 DEF Y
<1>3. QED BY <1>1, <1>2

\* The lines of a statement without its semicolon.
LEMMA UnendedType ==
  ASSUME NEW X, EndedLines \subseteq X, NEW lines \in Seq(X)
  PROVE  Unended(lines) \in Seq(X) /\ trim(Unended(lines)) = Unended(lines)
<1> DEFINE kept == trim(lines)
           last == Last(kept)
           rest == Append(Front(kept), Ended[last])
<1>1. kept \in Seq(X) /\ trim(kept) = kept BY Trimmed
<1>2. CASE kept # << >> /\ last \in DOMAIN Ended
  <2>1. Unended(lines) = trim(rest) BY <1>2 DEF Unended
  <2>2. Ended[last] \in X BY <1>2 DEF EndedLines
  <2> DEFINE e == Ended[last]
  <2> HIDE DEF kept, e
  <2>3. Front(kept) \in Seq(X) BY <1>1, <1>2 DEF Front
  <2>4. rest \in Seq(X)
    <3> DEFINE f == Front(kept)
    <3> HIDE DEF f
    <3>1. f \in Seq(X) /\ e \in X BY <2>2, <2>3 DEF e, f
    <3>2. Append(f, e) \in Seq(X) BY <3>1
    <3>3. QED BY <3>2 DEF e, f
  <2> HIDE DEF rest
  <2>5. QED BY <2>1, <2>4, Trimmed
<1>3. CASE ~(kept # << >> /\ last \in DOMAIN Ended)
  <2>1. Unended(lines) = kept BY <1>3 DEF Unended
  <2>2. QED BY <1>1, <2>1
<1>4. QED BY <1>2, <1>3

\* What the loops keep besides their positions: the statements found so far, the
\* lines of the current one and where it starts.
FoundInv ==
  /\ outcome \in {"running", "returned", "error"} /\ in_compound_statement \in BOOLEAN
  /\ IF call = "split" THEN start \in 0 .. idx ELSE start = 0
  /\ call = "script" => Lines \in Seq(Members) /\ idx \in 0 .. Len(Lines)
  /\ buffer \in Seq(Members) /\ statements \in Seq(Found(Members))

\* Nothing has been found at first.
LEMMA FoundInit == Init => FoundInv
<1> SUFFICES ASSUME Init PROVE FoundInv OBVIOUS
<1>1. /\ outcome = "running" /\ in_compound_statement = FALSE /\ start = 0
      /\ buffer = << >> /\ statements = << >>
  BY DEF Init
<1>2. call = "split" => idx = 0 BY DEF Init, InitSplit, InitRender, InitScript
<1>3. ASSUME call = "script" PROVE Lines \in Seq(Members) /\ idx \in 0 .. Len(Lines)
  <2>1. idx = 0 /\ text \in Scripts BY <1>3 DEF Init, InitSplit, InitRender, InitScript
  <2>2. Lines \in Seq(ToSet(Lines)) BY <2>1, LinesType
  <2>3. ToSet(Lines) \subseteq Members BY DEF Members
  <2>4. Lines \in Seq(Members) BY <2>2, <2>3, MoreMembers
  <2>5. Len(Lines) \in Nat
    <3> DEFINE s == Lines
               X == Members
    <3> HIDE DEF s, X
    <3>1. s \in Seq(X) BY <2>4 DEF s, X
    <3>2. Len(s) \in Nat BY <3>1
    <3>3. QED BY <3>2 DEF s
  <2>6. QED BY <2>1, <2>4, <2>5
<1>4. << >> \in Seq(Members) /\ << >> \in Seq(Found(Members)) BY EmptySeq
<1>5. IF call = "split" THEN start \in 0 .. idx ELSE start = 0 BY <1>1, <1>2
<1>6. buffer \in Seq(Members) /\ statements \in Seq(Found(Members)) BY <1>1, <1>4
<1>7. outcome \in {"running", "returned", "error"} /\ in_compound_statement \in BOOLEAN BY <1>1
<1>8. QED BY <1>3, <1>5, <1>6, <1>7 DEF FoundInv

\* Every step keeps it.
LEMMA FoundStep == SplitInv /\ FoundInv /\ [Next]_vars => FoundInv'
<1> SUFFICES ASSUME SplitInv, FoundInv, [Next]_vars PROVE FoundInv' OBVIOUS
<1>1. UNCHANGED <<call, text>>
  BY DEF Next, vars, SingleQuote, DoubleQuote, Semicolon, Other, ReturnStatements, Replace, ReturnSql,
         SkipLine, KeepLine, EndStatement, EndCompound, ReturnScript
<1>2. Lines' = Lines /\ Members' = Members BY <1>1 DEF Lines, Members
<1>3. Found(Members)' = Found(Members) BY <1>2 DEF Found
<1> DEFINE M == Members
           L == Lines
<1>4. /\ outcome \in {"running", "returned", "error"} /\ in_compound_statement \in BOOLEAN
      /\ IF call = "split" THEN start \in 0 .. idx ELSE start = 0
      /\ call = "script" => L \in Seq(M) /\ idx \in 0 .. Len(L)
      /\ buffer \in Seq(M) /\ statements \in Seq(Found(M))
  BY DEF FoundInv
<1>5. ASSUME outcome' \in {"running", "returned", "error"}, in_compound_statement' \in BOOLEAN,
             IF call = "split" THEN start' \in 0 .. idx' ELSE start' = 0,
             call = "script" => idx' \in 0 .. Len(L),
             buffer' \in Seq(M), statements' \in Seq(Found(M))
      PROVE  FoundInv'
  BY <1>1, <1>2, <1>3, <1>4, <1>5 DEF FoundInv
<1>6. EndedLines \subseteq M /\ ToSet(text) \subseteq M BY DEF Members
<1>7. text \in Seq(ToSet(text)) BY DEF SplitInv, TextType
<1>8. text \in Seq(M) BY <1>6, <1>7, MoreMembers
<1>9. Len(text) \in Nat BY <1>7
<1>10. ASSUME NEW end \in 0 .. Len(text), start \in 0 .. end PROVE Pushed(end) \in Seq(Found(M))
  <2> HIDE DEF M
  <2> DEFINE piece == SubSeq(text, start + 1, end)
             statement == trim(piece)
  <2>1. piece \in Seq(M)
    <3>1. start + 1 \in Int /\ end \in Int /\ 1 <= start + 1 /\ end <= Len(text) BY <1>9, <1>10
    <3>2. QED BY <1>8, <3>1
  <2> HIDE DEF piece
  <2>2. statement \in Seq(M) /\ trim(statement) = statement BY <2>1, Trimmed
  <2> HIDE DEF statement
  <2>3. (IF statement = << >> THEN statements ELSE Append(statements, statement)) \in Seq(Found(M))
    BY <1>4, <2>2, PushedFound
  <2>4. QED BY <2>3 DEF Pushed, statement, piece
<1>11. ASSUME NEW lines \in Seq(M), trim(lines) = lines PROVE PushedLines(lines) \in Seq(Found(M))
  <2> HIDE DEF M
  <2>1. (IF lines = << >> THEN statements ELSE Append(statements, lines)) \in Seq(Found(M))
    BY <1>4, <1>11, PushedFound
  <2>2. QED BY <2>1 DEF PushedLines
<1>12. call = "split" => idx \in 0 .. Len(text) /\ start \in 0 .. idx BY <1>4 DEF SplitInv
<1>13. ASSUME Reading PROVE call = "script" /\ idx + 1 \in 0 .. Len(L) /\ line \in M /\ start = 0
  <2>1. call = "script" /\ idx < Len(L) BY <1>13 DEF Reading
  <2>2. L \in Seq(M) /\ idx \in 0 .. Len(L) /\ start = 0 BY <1>4, <2>1
  <2> HIDE DEF L, M
  <2>3. Len(L) \in Nat BY <2>2
  <2>4. idx + 1 \in 1 .. Len(L) BY <2>1, <2>2, <2>3
  <2>5. L[idx + 1] \in M BY <2>2, <2>4
  <2>6. QED BY <2>1, <2>2, <2>3, <2>4, <2>5 DEF line, L
<1> HIDE DEF M, L
<1>14. CASE SingleQuote \/ DoubleQuote \/ Other
  <2>1. Scanning /\ UNCHANGED <<outcome, in_compound_statement, start, buffer, statements>>
        /\ idx' \in {idx + 1, idx + 2}
    BY <1>14 DEF SingleQuote, DoubleQuote, Other, splitVars, scriptVars
  <2>2. call = "split" BY <2>1 DEF Scanning
  <2>3. start \in 0 .. idx' BY <1>9, <1>12, <2>1, <2>2
  <2>4. QED BY <1>4, <1>5, <2>1, <2>2, <2>3
<1>15. CASE Semicolon
  <2>1. Scanning /\ UNCHANGED <<outcome, in_compound_statement, buffer>> /\ start' = idx + 1 /\ idx' = idx + 1
        /\ statements' = Pushed(idx)
    BY <1>15 DEF Semicolon, scriptVars
  <2>2. call = "split" BY <2>1 DEF Scanning
  <2>3. start' \in 0 .. idx' BY <1>9, <1>12, <2>1, <2>2
  <2>4. Pushed(idx) \in Seq(Found(M)) BY <1>10, <1>12, <2>2
  <2>5. QED BY <1>4, <1>5, <2>1, <2>2, <2>3, <2>4
<1>16. CASE ReturnStatements
  <2>1. /\ call = "split" /\ idx = Len(text) /\ UNCHANGED <<in_compound_statement, buffer, start, idx>>
        /\ outcome' = "returned" /\ statements' = Pushed(Len(text))
    BY <1>16 DEF ReturnStatements, scriptVars
  <2>2. Pushed(Len(text)) \in Seq(Found(M)) BY <1>10, <1>12, <2>1
  <2>3. QED BY <1>4, <1>5, <2>1, <2>2
<1>17. CASE Replace \/ ReturnSql
  <2>1. /\ call = "render" /\ UNCHANGED <<in_compound_statement, buffer, start, statements>>
        /\ outcome' \in {"running", "returned", "error"}
    BY <1>17 DEF Replace, ReturnSql, Rendering, scriptVars, splitVars
  <2>2. QED BY <1>4, <1>5, <2>1
<1>18. CASE SkipLine
  <2>1. Reading /\ UNCHANGED <<outcome, in_compound_statement, buffer, start, statements>> /\ idx' = idx + 1
    BY <1>18 DEF SkipLine, scriptVars, splitVars
  <2>2. QED BY <1>4, <1>5, <1>13, <2>1
<1>19. CASE KeepLine
  <2>1. Reading /\ UNCHANGED <<outcome, start, statements>> /\ idx' = idx + 1
        /\ buffer' = Append(buffer, line) /\ in_compound_statement' = Compound
    BY <1>19 DEF KeepLine, splitVars
  <2>2. Compound \in BOOLEAN BY <1>4 DEF Compound, StartsCompound
  <2>3. Append(buffer, line) \in Seq(M)
    <3> DEFINE l == line
    <3> HIDE DEF l
    <3>1. l \in M BY <1>13, <2>1 DEF l
    <3>2. Append(buffer, l) \in Seq(M) BY <1>4, <3>1
    <3>3. QED BY <3>2 DEF l
  <2>4. QED BY <1>4, <1>5, <1>13, <2>1, <2>2, <2>3
<1>20. CASE EndStatement
  <2>1. Reading /\ UNCHANGED <<outcome, start, in_compound_statement>> /\ idx' = idx + 1
        /\ buffer' = << >> /\ statements' = PushedLines(Unended(Append(buffer, line)))
    BY <1>20 DEF EndStatement
  <2> DEFINE lines == Append(buffer, line)
  <2>2. lines \in Seq(M)
    <3> DEFINE l == line
    <3> HIDE DEF l
    <3>1. l \in M BY <1>13, <2>1 DEF l
    <3>2. Append(buffer, l) \in Seq(M) BY <1>4, <3>1
    <3>3. QED BY <3>2 DEF l
  <2> HIDE DEF lines
  <2>3. Unended(lines) \in Seq(M) /\ trim(Unended(lines)) = Unended(lines) BY <1>6, <2>2, UnendedType
  <2>4. PushedLines(Unended(lines)) \in Seq(Found(M)) BY <1>11, <2>3
  <2>5. statements' \in Seq(Found(M)) BY <2>1, <2>4 DEF lines
  <2>6. << >> \in Seq(M) BY EmptySeq
  <2>7. QED BY <1>4, <1>5, <1>13, <2>1, <2>5, <2>6
<1>21. CASE EndCompound
  <2>1. Reading /\ UNCHANGED <<outcome, start>> /\ idx' = idx + 1
        /\ buffer' = << >> /\ in_compound_statement' = FALSE /\ statements' = PushedLines(trim(buffer))
    BY <1>21 DEF EndCompound
  <2>2. trim(buffer) \in Seq(M) /\ trim(trim(buffer)) = trim(buffer) BY <1>4, Trimmed
  <2>3. PushedLines(trim(buffer)) \in Seq(Found(M)) BY <1>11, <2>2
  <2>4. << >> \in Seq(M) BY EmptySeq
  <2>5. QED BY <1>4, <1>5, <1>13, <2>1, <2>3, <2>4
<1>22. CASE ReturnScript
  <2>1. call = "script" /\ UNCHANGED <<idx, start, buffer, in_compound_statement>>
        /\ outcome' = "returned" /\ statements' = PushedLines(Unended(buffer))
    BY <1>22 DEF ReturnScript, scriptVars
  <2>2. Unended(buffer) \in Seq(M) /\ trim(Unended(buffer)) = Unended(buffer) BY <1>4, <1>6, UnendedType
  <2>3. PushedLines(Unended(buffer)) \in Seq(Found(M)) BY <1>11, <2>2
  <2>4. QED BY <1>4, <1>5, <2>1, <2>3
<1>23. CASE UNCHANGED vars
  <2>1. UNCHANGED <<idx, outcome, in_compound_statement, buffer, start, statements>>
    BY <1>23 DEF vars, scriptVars, splitVars
  <2>2. QED BY <1>4, <1>5, <2>1
<1>24. QED BY <1>14, <1>15, <1>16, <1>17, <1>18, <1>19, <1>20, <1>21, <1>22, <1>23 DEF Next

(***************************************************************************)
(* The statements split_simple_query returns                               *)
(***************************************************************************)

\* A member of a set of numbers that none is below.
LEMMA MinIs ==
  ASSUME NEW x, NEW e \in x, \A z \in x : z \in Int /\ e <= z
  PROVE  Min(x) = e
<1>1. \E y \in x : \A z \in x : y <= z OBVIOUS
<1>2. Min(x) \in x /\ \A z \in x : Min(x) <= z BY <1>1 DEF Min
<1>3. Min(x) \in Int /\ e \in Int /\ Min(x) <= e /\ e <= Min(x) BY <1>2
<1>4. QED BY <1>3

\* The ends of the pieces of the text are positions in it or the one behind.
LEMMA EndsType ==
  ASSUME TextType
  PROVE  /\ Len(text) \in Nat /\ DOMAIN text = 1 .. Len(text)
         /\ Ends(text) \in SUBSET (1 .. Len(text) + 1) /\ Len(text) + 1 \in Ends(text)
<1>1. Len(text) \in Nat /\ DOMAIN text = 1 .. Len(text) BY DEF TextType
<1> DEFINE n == Len(text)
           P == Plain(text, ";")
<1>2. P \subseteq DOMAIN text BY DEF Plain
<1>3. Ends(text) = P \cup {n + 1} BY DEF Ends
<1> HIDE DEF n, P
<1>4. n \in Nat /\ P \subseteq 1 .. n BY <1>1, <1>2 DEF n
<1>5. P \cup {n + 1} \in SUBSET (1 .. n + 1) /\ n + 1 \in P \cup {n + 1}
  <2>1. \A i \in 1 .. n : i \in 1 .. n + 1 BY <1>4
  <2>2. n + 1 \in 1 .. n + 1 BY <1>4
  <2>3. QED BY <1>4, <2>1, <2>2
<1>6. QED BY <1>1, <1>3, <1>5 DEF n

\* A piece is a list of characters.
LEMMA PieceType ==
  ASSUME TextType, NEW k \in 1 .. Len(text) + 1
  PROVE  PieceFrom(text, k) \in Seq(Seq(ToSet(text)))
<1> DEFINE X == ToSet(text)
           n == Len(text)
           x == {e \in Ends(text) : e >= k}
           piece == trim(SubSeq(text, k, Min(x) - 1))
<1>1. text \in Seq(X) BY DEF TextType
<1>2. n \in Nat /\ Ends(text) \in SUBSET (1 .. n + 1) /\ n + 1 \in Ends(text) BY EndsType
<1> HIDE DEF X
<1>3. k \in 1 .. n + 1 OBVIOUS
<1>4. n + 1 \in x /\ x \in SUBSET (1 .. n + 1) /\ n + 1 \in Nat
  <2> HIDE DEF n
  <2>1. n + 1 >= k BY <1>2, <1>3
  <2>2. QED BY <1>2, <2>1
<1> HIDE DEF x
<1>5. Min(x) \in 1 .. n + 1
  <2>1. x # {} BY <1>4
  <2> HIDE DEF n
  <2>2. Min(x) \in x BY <1>4, <2>1, MinInSet
  <2>3. QED BY <1>4, <2>2
<1>6. SubSeq(text, k, Min(x) - 1) \in Seq(X)
  <2> DEFINE b == Min(x) - 1
  <2>1. k \in Int /\ b \in Int /\ 1 <= k /\ b <= Len(text) BY <1>2, <1>3, <1>5
  <2> HIDE DEF b
  <2>2. SubSeq(text, k, b) \in Seq(X) BY <1>1, <2>1
  <2>3. QED BY <2>2 DEF b
<1>7. piece \in Seq(X) BY <1>6, Trimmed
<1>8. PieceFrom(text, k) \in {<< piece >>, << >>} BY DEF PieceFrom, x
<1> HIDE DEF piece
<1> DEFINE Y == Seq(X)
<1> HIDE DEF Y
<1>9. piece \in Y BY <1>7 DEF Y
<1>10. << piece >> \in Seq(Y) BY <1>9
<1>11. << >> \in Seq(Y) BY EmptySeq
<1>12. PieceFrom(text, k) \in Seq(Y) BY <1>8, <1>10, <1>11
<1>13. QED BY <1>12 DEF Y, X

\* No piece begins behind a character that is not an end.
LEMMA NoPiece ==
  ASSUME TextType, NEW k, k # 1, k - 1 \notin Ends(text)
  PROVE  PieceFrom(text, k) = << >>
  BY DEF PieceFrom

\* A piece ends at the first end behind its beginning.
LEMMA PieceHere ==
  ASSUME TextType, NEW k \in 1 .. Len(text) + 1, k = 1 \/ k - 1 \in Ends(text),
         NEW e \in Ends(text), k <= e, \A z \in Ends(text) : k <= z => e <= z
  PROVE  PieceFrom(text, k) = IF trim(SubSeq(text, k, e - 1)) = << >> THEN << >> ELSE << trim(SubSeq(text, k, e - 1)) >>
<1> DEFINE n == Len(text)
           x == {z \in Ends(text) : z >= k}
<1>1. n \in Nat /\ Ends(text) \in SUBSET (1 .. n + 1) BY EndsType
<1>2. \A z \in Ends(text) : z \in Int BY <1>1
<1>3. k \in Int BY <1>1
<1>4. e \in x /\ \A z \in x : z \in Int /\ e <= z BY <1>2, <1>3
<1> HIDE DEF x
<1>5. Min(x) = e BY <1>4, MinIs
<1>6. QED BY <1>5 DEF PieceFrom, x

\* The piece that begins at each position, and those that begin at the first k.
Pieces == [k \in 1 .. (Len(text) + 1) |-> PieceFrom(text, k)]
Done(k) == FlattenSeq(SubSeq(Pieces, 1, k))

\* The pieces are listed one after the other.
LEMMA DoneNext ==
  ASSUME TextType, NEW k \in 0 .. Len(text)
  PROVE  Done(k) \in Seq(Seq(ToSet(text))) /\ Done(k + 1) = Done(k) \o PieceFrom(text, k + 1)
<1> DEFINE Y == Seq(ToSet(text))
           n == Len(text) + 1
           s == Pieces
<1>1. Len(text) \in Nat BY EndsType
<1>2. \A i \in 1 .. n : PieceFrom(text, i) \in Seq(Y) BY PieceType
<1> HIDE DEF Y
<1>3. s \in Seq(Seq(Y)) /\ Len(s) = n /\ s[k + 1] = PieceFrom(text, k + 1)
  <2> DEFINE Z == Seq(Y)
  <2>1. \A i \in 1 .. n : PieceFrom(text, i) \in Z BY <1>2
  <2> HIDE DEF Z
  <2>2. n \in Nat /\ k + 1 \in 1 .. n BY <1>1
  <2> HIDE DEF n
  <2>4. s = [i \in 1 .. n |-> PieceFrom(text, i)] BY DEF Pieces, n
  <2> HIDE DEF s
  <2>3. s \in Seq(Z) /\ Len(s) = n /\ s[k + 1] = PieceFrom(text, k + 1) BY <2>1, <2>2, <2>4
  <2>5. QED BY <2>3 DEF Z
<1>4. k \in Nat /\ k < n BY <1>1
<1> HIDE DEF s, n
<1>5. /\ FlattenSeq(SubSeq(s, 1, k)) \in Seq(Y)
      /\ FlattenSeq(SubSeq(s, 1, k + 1)) = FlattenSeq(SubSeq(s, 1, k)) \o s[k + 1]
  BY <1>3, <1>4, FlattenNext
<1>6. QED BY <1>3, <1>5 DEF Done, s, Y

\* Characters behind which no piece begins add none.
LEMMA DoneSame ==
  ASSUME TextType, NEW a \in 0 .. Len(text) + 1, NEW b \in a .. Len(text) + 1,
         \A k \in a + 1 .. b : PieceFrom(text, k) = << >>
  PROVE  Done(b) = Done(a)
<1> DEFINE S == {d \in Nat : a + d <= b => Done(a + d) = Done(a)}
<1>0. Len(text) \in Nat BY EndsType
<1>1. 0 \in S
  <2>1. a + 0 = a BY <1>0
  <2>2. QED BY <2>1
<1>2. ASSUME NEW d \in Nat, d \in S PROVE d + 1 \in S
  <2> SUFFICES ASSUME a + (d + 1) <= b PROVE Done(a + (d + 1)) = Done(a) OBVIOUS
  <2> DEFINE k == a + d
  <2>1. k \in 0 .. Len(text) /\ k + 1 = a + (d + 1) /\ k <= b /\ k + 1 \in a + 1 .. b BY <1>0
  <2>2. Done(k) = Done(a) BY <1>2, <2>1
  <2> HIDE DEF k
  <2>3. Done(k) \in Seq(Seq(ToSet(text))) /\ Done(k + 1) = Done(k) \o PieceFrom(text, k + 1) BY <2>1, DoneNext
  <2>4. PieceFrom(text, k + 1) = << >> BY <2>1
  <2>5. Done(k) \o << >> = Done(k) BY <2>3, ConcatEmptySeq
  <2>6. QED BY <2>1, <2>2, <2>3, <2>4, <2>5
<1> HIDE DEF S
<1>3. Nat \subseteq S BY <1>1, <1>2, SetInduction
<1>4. b - a \in Nat /\ a + (b - a) = b BY <1>0
<1>5. b - a \in S BY <1>3, <1>4
<1>6. b <= b BY <1>0
<1>7. QED BY <1>4, <1>5, <1>6 DEF S

\* What is pushed at an end is the piece that ends there.
LEMMA PushedIsThePiece ==
  ASSUME TextType, start \in 0 .. Len(text), start = 0 \/ start \in Ends(text),
         NEW e \in Ends(text), start < e, \A z \in Ends(text) : start < z => e <= z,
         statements = Done(start)
  PROVE  Pushed(e - 1) = Done(e)
<1> DEFINE n == Len(text)
           k == start + 1
           piece == trim(SubSeq(text, k, e - 1))
<1>1. n \in Nat /\ Ends(text) \in SUBSET (1 .. n + 1) BY EndsType
<1>2. start \in 0 .. n /\ e \in 1 .. n + 1 BY <1>1
<1>3. \A z \in Ends(text) : z \in Int BY <1>1
<1>4. k \in 1 .. n + 1 /\ k - 1 = start /\ k <= e /\ (start = 0 => k = 1)
  <2> HIDE DEF n
  <2>1. QED BY <1>1, <1>2
<1>5. \A z \in Ends(text) : k <= z => e <= z
  <2>1. \A z \in Ends(text) : k <= z => start < z
    <3> HIDE DEF n
    <3>1. start \in Int BY <1>1, <1>2
    <3>2. QED BY <1>3, <3>1
  <2>2. QED BY <2>1
<1>6. PieceFrom(text, k) = IF piece = << >> THEN << >> ELSE << piece >>
  <2>1. k = 1 \/ k - 1 \in Ends(text) BY <1>4
  <2> HIDE DEF k
  <2>2. QED BY <1>4, <1>5, <2>1, PieceHere
<1>7. Done(start) \in Seq(Seq(ToSet(text))) /\ Done(k) = Done(start) \o PieceFrom(text, k)
  BY DoneNext
<1>8. Done(e) = Done(k)
  <2>1. ASSUME NEW i \in k + 1 .. e PROVE PieceFrom(text, i) = << >>
    <3>1. i # 1 /\ start < i - 1 /\ i - 1 < e /\ i - 1 \in Int /\ e \in Int
      <4> HIDE DEF n
      <4>1. start \in Nat /\ e \in Int /\ i \in Int /\ start + 2 <= i /\ i <= e BY <1>1, <1>2, <2>1
      <4>2. QED BY <4>1
    <3> DEFINE j == i - 1
    <3>3. start < j /\ j < e /\ j \in Int /\ e \in Int BY <3>1
    <3> HIDE DEF j
    <3>4. ~(e <= j) BY <3>3
    <3>2. j \notin Ends(text) BY <3>3, <3>4
    <3>5. i - 1 \notin Ends(text) BY <3>2 DEF j
    <3>6. QED BY <3>1, <3>5, NoPiece
  <2>2. k \in 0 .. n + 1 /\ e \in k .. n + 1
    <3> HIDE DEF n
    <3>1. QED BY <1>1, <1>2, <1>4
  <2> HIDE DEF k
  <2>3. QED BY <2>1, <2>2, DoneSame
<1>9. Pushed(e - 1) = IF piece = << >> THEN statements ELSE Append(statements, piece) BY DEF Pushed
<1> HIDE DEF piece, k
<1> DEFINE d == Done(start)
           Y == Seq(ToSet(text))
<1>11. d \in Seq(Y) BY <1>7
<1>12. Pushed(e - 1) = IF piece = << >> THEN d ELSE Append(d, piece) BY <1>9
<1>13. Done(e) = d \o PieceFrom(text, k) BY <1>7, <1>8
<1> HIDE DEF d, Y
<1>14. CASE piece = << >>
  <2>1. d \o << >> = d BY <1>11, ConcatEmptySeq
  <2>2. QED BY <1>6, <1>12, <1>13, <1>14, <2>1
<1>15. CASE piece # << >>
  <2>1. Append(d, piece) = d \o << piece >> BY <1>11, AppendIsConcat
  <2>2. QED BY <1>6, <1>12, <1>13, <1>15, <2>1
<1>16. QED BY <1>14, <1>15

\* What misled the flags has misled them for good.
LEMMA MisledLonger ==
  ASSUME NEW k \in Nat, NEW m \in Nat, k <= m, Misled(k)
  PROVE  Misled(m)
<1>1. \A i \in 1 .. k : i \in 1 .. m OBVIOUS
<1>2. QED BY <1>1, Zenon DEF Misled

\* The flags find the ends of the pieces.
LEMMA EndsAreFound ==
  ASSUME TextType, NEW k \in Nat, k < Len(text),
         NEW single \in BOOLEAN, NEW double \in BOOLEAN, Agrees(single, double, k), ~Misled(k + 1)
  PROVE  k + 1 \in Ends(text) <=> text[k + 1] = ";" /\ ~single /\ ~double
<1> DEFINE n == Len(text)
           m == Mode(SubSeq(text, 1, k))
           j == k + 1
<1>1. n \in Nat /\ DOMAIN text = 1 .. n BY EndsType
<1>2. j \in 1 .. n /\ j # n + 1 /\ j - 1 = k /\ k <= j /\ j \in Nat /\ j \in 1 .. j BY <1>1
<1>3. ~Misled(k) BY <1>2, MisledLonger
<1>4. m \in ModesOf(single, double) BY <1>3 DEF Agrees
<1>5. ~(m = "comment" /\ text[j] = ";")
  <2> HIDE DEF j
  <2>1. ~Misled(j) BY DEF j
  <2>2. QED BY <1>2, <2>1 DEF Misled
<1>6. j \in Ends(text) <=> text[j] = ";" /\ m \in {"plain", "dash"}
  <2> HIDE DEF j, n
  <2>1. j \in Ends(text) <=> j \in Plain(text, ";") BY <1>2 DEF Ends, n
  <2>2. QED BY <1>1, <1>2, <2>1 DEF Plain
<1> HIDE DEF m, j
<1>7. j \in Ends(text) <=> text[j] = ";" /\ ~single /\ ~double BY <1>4, <1>5, <1>6 DEF ModesOf
<1>8. QED BY <1>7 DEF j

\* The text read so far has been cut into its pieces, all but the last of which
\* have been found.
Cut ==
  /\ start = 0 \/ start \in Ends(text)
  /\ \A e \in Ends(text) : e <= idx => e <= start
  /\ statements = Done(IF outcome = "running" THEN start ELSE Len(text) + 1)

\* split_simple_query has cut what it has read, unless a comment misled it.
PiecesInv ==
  call = "split" =>
    /\ outcome \in {"running", "returned"}
    /\ outcome = "returned" => idx = Len(text)
    /\ Misled(idx) \/ Cut

\* Nothing is cut at first.
LEMMA PiecesInit == Init => PiecesInv
<1> SUFFICES ASSUME Init, call = "split" PROVE PiecesInv BY DEF PiecesInv
<1>1. idx = 0 /\ start = 0 /\ outcome = "running" /\ statements = << >>
  BY DEF Init, InitSplit, InitRender, InitScript
<1>2. TextType BY SplitInit DEF SplitInv
<1>3. \A e \in Ends(text) : ~(e <= 0)
  <2>1. Len(text) \in Nat /\ Ends(text) \in SUBSET (1 .. Len(text) + 1) BY <1>2, EndsType
  <2>2. \A e \in Ends(text) : e \in Int /\ 1 <= e BY <2>1
  <2>3. QED BY <2>2
<1>4. Done(0) = << >>
  <2>1. SubSeq(Pieces, 1, 0) = << >> BY SubSeqEmpty
  <2>2. QED BY <2>1, FlattenEmpty DEF Done
<1>5. Cut BY <1>1, <1>3, <1>4 DEF Cut
<1>6. QED BY <1>1, <1>5 DEF PiecesInv

\* Every turn of split_simple_query reads on or pushes the next piece.
LEMMA PiecesStep == SplitInv /\ FoundInv /\ PiecesInv /\ [Next]_vars => PiecesInv'
<1> SUFFICES ASSUME SplitInv, FoundInv, PiecesInv, [Next]_vars PROVE PiecesInv' OBVIOUS
<1>0. call' = call
  BY DEF Next, vars, SingleQuote, DoubleQuote, Semicolon, Other, ReturnStatements, Replace, ReturnSql,
         SkipLine, KeepLine, EndStatement, EndCompound, ReturnScript
<1> SUFFICES ASSUME call = "split" PROVE PiecesInv' BY <1>0 DEF PiecesInv
<1>1. /\ TextType /\ in_single_quote \in BOOLEAN /\ in_double_quote \in BOOLEAN
      /\ idx \in 0 .. Len(text) /\ Agrees(in_single_quote, in_double_quote, idx)
      /\ ~(in_single_quote /\ in_double_quote)
  BY DEF SplitInv
<1>2. Len(text) \in Nat /\ Ends(text) \in SUBSET (1 .. Len(text) + 1) /\ Len(text) + 1 \in Ends(text)
  BY <1>1, EndsType
<1>3. \A e \in Ends(text) : e \in Int BY <1>2
<1>4. start \in 0 .. idx /\ start \in 0 .. Len(text)
  <2>1. start \in 0 .. idx BY DEF FoundInv
  <2>2. QED BY <1>1, <1>2, <2>1
<1>5. outcome \in {"running", "returned"} /\ (outcome = "returned" => idx = Len(text)) /\ (Misled(idx) \/ Cut)
  BY DEF PiecesInv
<1>6. ASSUME UNCHANGED text PROVE Ends(text)' = Ends(text) BY <1>6
<1>7. ASSUME UNCHANGED <<call, text>>, outcome' = "running", Misled(idx') \/ Cut' PROVE PiecesInv'
  <2>1. Misled(idx') => Misled(idx)' BY <1>7 DEF Misled
  <2>2. QED BY <1>7, <2>1 DEF PiecesInv
<1>8. ASSUME Scanning
      PROVE  idx \in Nat /\ idx < Len(text) /\ outcome = "running"
  <2>1. idx < Len(text) /\ outcome = "running" BY <1>8 DEF Scanning
  <2>2. QED BY <1>1, <1>2, <2>1
<1>9. ASSUME Scanning, UNCHANGED <<call, text, start, statements, outcome>>, idx' = idx + 1,
             ~(text[idx + 1] = ";" /\ ~in_single_quote /\ ~in_double_quote)
      PROVE  PiecesInv'
  <2>1. idx \in Nat /\ idx < Len(text) /\ outcome = "running" BY <1>8, <1>9
  <2>2. CASE Misled(idx + 1) BY <1>7, <1>9, <2>1, <2>2
  <2>3. CASE ~Misled(idx + 1)
    <3>1. idx + 1 \notin Ends(text) BY <1>1, <1>9, <2>1, <2>3, EndsAreFound
    <3>2. ~Misled(idx)
      <4>1. idx + 1 \in Nat /\ idx <= idx + 1 BY <2>1
      <4>2. QED BY <2>1, <2>3, <4>1, MisledLonger
    <3>3. Cut BY <1>5, <3>2
    <3>4. \A e \in Ends(text) : e <= idx + 1 => e <= idx
      <4> SUFFICES ASSUME NEW e \in Ends(text), e <= idx + 1 PROVE e <= idx OBVIOUS
      <4>1. e \in Int /\ e # idx + 1 BY <1>3, <3>1
      <4>2. QED BY <2>1, <4>1
    <3>5. Ends(text)' = Ends(text) BY <1>6, <1>9
    <3>6. Done(start)' = Done(start) BY <1>9 DEF Done, Pieces
    <3>7. statements = Done(start) /\ (start = 0 \/ start \in Ends(text))
          /\ \A e \in Ends(text) : e <= idx => e <= start
      BY <2>1, <3>3 DEF Cut
    <3>8. Cut'
      <4>1. outcome' = "running" /\ start' = start /\ statements' = statements /\ idx' = idx + 1 BY <1>9, <2>1
      <4>2. \A e \in Ends(text)' : e <= idx' => e <= start' BY <3>4, <3>5, <3>7, <4>1
      <4>3. start' = 0 \/ start' \in Ends(text)' BY <3>5, <3>7, <4>1
      <4>4. statements' = Done(start)' BY <3>6, <3>7, <4>1
      <4>5. QED BY <4>1, <4>2, <4>3, <4>4 DEF Cut
    <3>9. QED BY <1>7, <1>9, <2>1, <3>8
  <2>4. QED BY <2>2, <2>3
<1>10. CASE SingleQuote
  <2>1. Scanning /\ text[idx + 1] = "'" /\ UNCHANGED <<call, text, start, statements, outcome>> /\ ~in_double_quote
    BY <1>10 DEF SingleQuote, ch
  <2>2. CASE ~(in_single_quote /\ idx + 1 < Len(text) /\ text[idx + 2] = "'")
    <3>1. idx' = idx + 1 BY <1>10, <2>2 DEF SingleQuote
    <3>2. QED BY <1>9, <2>1, <3>1
  <2>3. CASE in_single_quote /\ idx + 1 < Len(text) /\ text[idx + 2] = "'"
    <3>1. idx' = idx + 2 BY <1>10, <2>3 DEF SingleQuote
    <3>2. idx \in Nat /\ idx < Len(text) /\ outcome = "running" BY <1>8, <2>1
    <3> DEFINE k == idx + 1
               single == ~in_single_quote
    <3>3. k \in Nat /\ k + 1 = idx + 2 /\ k < Len(text) /\ idx + 2 \in Nat /\ idx <= k /\ k <= k + 1 BY <1>2, <2>3, <3>2
    <3>4. CASE Misled(idx + 2) BY <1>7, <2>1, <3>1, <3>2, <3>4
    <3>5. CASE ~Misled(idx + 2)
      <4>1. ~Misled(k + 1) BY <3>3, <3>5
      <4>2. ~Misled(k)
        <5> HIDE DEF k
        <5>1. k + 1 \in Nat BY <3>3
        <5>2. QED BY <3>3, <4>1, <5>1, MisledLonger
      <4>3. ~Misled(idx)
        <5> HIDE DEF k
        <5>1. QED BY <3>2, <3>3, <4>2, MisledLonger
      <4>4. Agrees(single, in_double_quote, k) BY <1>1, <2>1, <3>2, OneCharacter
      <4>5. idx + 1 \notin Ends(text) BY <1>1, <2>1, <3>2, <4>2, EndsAreFound
      <4>6. k + 1 \notin Ends(text)
        <5>1. single \in BOOLEAN /\ text[k + 1] # ";" BY <2>3, <3>3
        <5> HIDE DEF single, k
        <5>2. QED BY <1>1, <3>3, <4>1, <4>4, <5>1, EndsAreFound
      <4>7. \A e \in Ends(text) : e <= idx + 2 => e <= idx
        <5> SUFFICES ASSUME NEW e \in Ends(text), e <= idx + 2 PROVE e <= idx OBVIOUS
        <5>1. e \in Int /\ e # idx + 1 /\ e # idx + 2 BY <1>3, <3>3, <4>5, <4>6
        <5>2. QED BY <3>2, <5>1
      <4>8. Cut BY <1>5, <4>3
      <4>9. statements = Done(start) /\ (start = 0 \/ start \in Ends(text))
            /\ \A e \in Ends(text) : e <= idx => e <= start
        BY <3>2, <4>8 DEF Cut
      <4>10. Ends(text)' = Ends(text) /\ Done(start)' = Done(start) BY <2>1 DEF Done, Pieces
      <4>11. Cut'
        <5>1. outcome' = "running" /\ start' = start /\ statements' = statements /\ idx' = idx + 2 BY <2>1, <3>1, <3>2
        <5>2. \A e \in Ends(text)' : e <= idx' => e <= start' BY <4>7, <4>9, <4>10, <5>1
        <5>3. start' = 0 \/ start' \in Ends(text)' BY <4>9, <4>10, <5>1
        <5>4. statements' = Done(start)' BY <4>9, <4>10, <5>1
        <5>5. QED BY <5>1, <5>2, <5>3, <5>4 DEF Cut
      <4>12. QED BY <1>7, <2>1, <3>2, <4>11
    <3>6. QED BY <3>4, <3>5
  <2>4. QED BY <2>2, <2>3
<1>11. CASE DoubleQuote
  <2>1. Scanning /\ text[idx + 1] = "\"" /\ UNCHANGED <<call, text, start, statements, outcome>> /\ idx' = idx + 1
    BY <1>11 DEF DoubleQuote, ch
  <2>2. QED BY <1>9, <2>1
<1>12. CASE Other
  <2>1. Scanning /\ UNCHANGED <<call, text, start, statements, outcome>> /\ idx' = idx + 1
        /\ ~(text[idx + 1] = ";" /\ ~in_single_quote /\ ~in_double_quote)
    BY <1>12 DEF Other, ch, splitVars
  <2>2. QED BY <1>9, <2>1
<1>13. CASE Semicolon
  <2>1. Scanning /\ text[idx + 1] = ";" /\ UNCHANGED <<call, text, outcome>> /\ idx' = idx + 1
        /\ ~in_single_quote /\ ~in_double_quote /\ start' = idx + 1 /\ statements' = Pushed(idx)
    BY <1>13 DEF Semicolon, ch
  <2>2. idx \in Nat /\ idx < Len(text) /\ outcome = "running" BY <1>8, <2>1
  <2>3. CASE Misled(idx + 1) BY <1>7, <2>1, <2>2, <2>3
  <2>4. CASE ~Misled(idx + 1)
    <3> DEFINE e == idx + 1
    <3>1. e \in Ends(text) BY <1>1, <2>1, <2>2, <2>4, EndsAreFound
    <3>2. ~Misled(idx)
      <4>1. idx + 1 \in Nat /\ idx <= idx + 1 BY <2>2
      <4>2. QED BY <2>2, <2>4, <4>1, MisledLonger
    <3>3. Cut BY <1>5, <3>2
    <3>4. statements = Done(start) /\ (start = 0 \/ start \in Ends(text))
          /\ \A z \in Ends(text) : z <= idx => z <= start
      BY <2>2, <3>3 DEF Cut
    <3>5. start < e /\ e - 1 = idx /\ start \in Nat BY <1>4, <2>2
    <3>6. \A z \in Ends(text) : start < z => e <= z
      <4> SUFFICES ASSUME NEW z \in Ends(text), start < z PROVE e <= z OBVIOUS
      <4>1. z \in Int /\ ~(z <= start) BY <1>3, <3>5
      <4>2. ~(z <= idx) BY <3>4, <4>1
      <4>3. QED BY <2>2, <4>1, <4>2
    <3>7. Pushed(idx) = Done(e)
      <4> HIDE DEF e
      <4>1. Pushed(e - 1) = Done(e) BY <1>1, <1>4, <3>1, <3>4, <3>5, <3>6, PushedIsThePiece
      <4>2. QED BY <3>5, <4>1
    <3>8. Ends(text)' = Ends(text) BY <1>6, <2>1
    <3>9. Done(start)' = Done(e) BY <2>1 DEF Done, Pieces
    <3>10. Cut'
      <4>1. outcome' = "running" /\ start' = e /\ statements' = Done(e) /\ idx' = e BY <2>1, <2>2, <3>7
      <4> HIDE DEF e
      <4>2. \A z \in Ends(text)' : z <= idx' => z <= start' BY <4>1
      <4>3. start' = 0 \/ start' \in Ends(text)' BY <3>1, <3>8, <4>1
      <4>4. statements' = Done(start)' BY <3>9, <4>1
      <4>5. QED BY <4>1, <4>2, <4>3, <4>4 DEF Cut
    <3>11. QED BY <1>7, <2>1, <2>2, <3>10
  <2>5. QED BY <2>3, <2>4
<1>14. CASE ReturnStatements
  <2>1. outcome = "running" /\ idx = Len(text) /\ UNCHANGED <<call, text, idx, start>>
        /\ statements' = Pushed(Len(text)) /\ outcome' = "returned"
    BY <1>14 DEF ReturnStatements
  <2>2. CASE Misled(idx)
    <3>1. Misled(idx)' BY <2>1, <2>2 DEF Misled
    <3>2. QED BY <2>1, <3>1 DEF PiecesInv
  <2>3. CASE ~Misled(idx)
    <3> DEFINE e == Len(text) + 1
    <3>1. Cut BY <1>5, <2>3
    <3>2. statements = Done(start) /\ (start = 0 \/ start \in Ends(text))
          /\ \A z \in Ends(text) : z <= idx => z <= start
      BY <2>1, <3>1 DEF Cut
    <3>3. start < e /\ e - 1 = Len(text) /\ start \in Nat BY <1>2, <1>4
    <3>4. \A z \in Ends(text) : start < z => e <= z
      <4> SUFFICES ASSUME NEW z \in Ends(text), start < z PROVE e <= z OBVIOUS
      <4>1. z \in Int /\ ~(z <= start) BY <1>3, <3>3
      <4>2. ~(z <= Len(text)) BY <2>1, <3>2, <4>1
      <4>3. QED BY <1>2, <4>1, <4>2
    <3>5. e \in Ends(text) BY <1>2
    <3>6. Pushed(Len(text)) = Done(e)
      <4> HIDE DEF e
      <4>1. Pushed(e - 1) = Done(e) BY <1>1, <1>4, <3>2, <3>3, <3>4, <3>5, PushedIsThePiece
      <4>2. QED BY <3>3, <4>1
    <3>7. Ends(text)' = Ends(text) /\ Done(e)' = Done(e) /\ Len(text)' = Len(text) BY <2>1 DEF Done, Pieces
    <3>8. Cut'
      <4>1. outcome' = "returned" /\ start' = start /\ statements' = Done(e) /\ idx' = idx BY <2>1, <3>6
      <4>2. \A z \in Ends(text)' : z <= idx' => z <= start' BY <3>2, <3>7, <4>1
      <4>3. start' = 0 \/ start' \in Ends(text)' BY <3>2, <3>7, <4>1
      <4>4. statements' = Done(Len(text) + 1)' BY <3>7, <4>1
      <4>5. QED BY <4>1, <4>2, <4>3, <4>4 DEF Cut
    <3>9. QED BY <2>1, <3>8 DEF PiecesInv
  <2>4. QED BY <2>2, <2>3
<1>15. CASE UNCHANGED vars
  BY <1>15 DEF vars, splitVars, PiecesInv, Cut, Misled, Done, Pieces
<1>16. ~(Replace \/ ReturnSql \/ SkipLine \/ KeepLine \/ EndStatement \/ EndCompound \/ ReturnScript)
  BY DEF Replace, ReturnSql, SkipLine, KeepLine, EndStatement, EndCompound, ReturnScript, Rendering, Reading
<1>17. QED BY <1>10, <1>11, <1>12, <1>13, <1>14, <1>15, <1>16 DEF Next

(***************************************************************************)
(* Digits, numbers and placeholders                                        *)
(***************************************************************************)

\* The digits.
Digit == {"0", "1", "2", "3", "4", "5", "6", "7", "8", "9"}

\* They are the members of Figures.
LEMMA DigitsAre == \A c : IsDigit(c) <=> c \in Digit
<1>1. ToSet(Figures) = Digit
  <2>1. DOMAIN Figures = 1 .. 10 BY DEF Figures
  <2>2. \A i \in 1 .. 10 : Figures[i] \in Digit
    <3> SUFFICES ASSUME NEW i \in 1 .. 10 PROVE Figures[i] \in Digit OBVIOUS
    <3>1. i = 1 \/ i = 2 \/ i = 3 \/ i = 4 \/ i = 5 \/ i = 6 \/ i = 7 \/ i = 8 \/ i = 9 \/ i = 10 OBVIOUS
    <3>2. QED BY <3>1 DEF Figures, Digit
  <2>3. ASSUME NEW c \in Digit PROVE \E i \in 1 .. 10 : Figures[i] = c
    BY <2>1 DEF Figures, Digit
  <2>4. QED BY <2>1, <2>2, <2>3 DEF ToSet
<1>2. QED BY <1>1 DEF IsDigit

\* What a digit is worth, and that Figures has it there.
LEMMA ValueOfDigit ==
  ASSUME NEW c \in Digit
  PROVE  Value(c) \in 0 .. 9 /\ Figures[Value(c) + 1] = c /\ (c # "0" => Value(c) >= 1)
<1>1. \E d \in 0 .. 9 : Figures[d + 1] = c
  <2> DEFINE n(d) == d \in 0 .. 9 /\ Figures[d + 1] = c
  <2>1. n(0) \/ n(1) \/ n(2) \/ n(3) \/ n(4) \/ n(5) \/ n(6) \/ n(7) \/ n(8) \/ n(9) BY DEF Figures, Digit
  <2>2. QED BY <2>1
<1>2. Value(c) \in 0 .. 9 /\ Figures[Value(c) + 1] = c BY <1>1 DEF Value
<1>3. Figures[1] = "0" BY DEF Figures
<1> DEFINE v == Value(c)
<1> HIDE DEF v
<1>4. v \in 0 .. 9 /\ Figures[v + 1] = c BY <1>2 DEF v
<1>5. v # 0 => v >= 1 BY <1>4
<1>6. v = 0 => Figures[v + 1] = "0" BY <1>3
<1>7. QED BY <1>2, <1>4, <1>5, <1>6 DEF v

\* The number some digits are.
Decimal(s) == FoldLeft(LAMBDA n, c : 10 * n + Value(c), 0, s)

\* What Decimal computes, turn by turn.
Counts(it, s) ==
  it = [x \in SUBSET (DOMAIN s) |-> IF x = {} THEN 0 ELSE 10 * it[x \ {Max(x)}] + Value(s[Max(x)])]

\* The turns exist.
LEMMA CountsExists ==
  ASSUME NEW s \in Seq(Digit)
  PROVE  \E it : Counts(it, s)
<1> DEFINE n == Len(s)
           step == [p \in Nat \X Int |-> IF p[2] \in 1 .. n THEN 10 * p[1] + Value(s[p[2]]) ELSE p[1]]
<1>0. n \in Nat /\ DOMAIN s = 1 .. n /\ \A i \in 1 .. n : s[i] \in Digit OBVIOUS
<1> HIDE DEF n
<1>01. \A i \in 1 .. n : Value(s[i]) \in Nat BY <1>0, ValueOfDigit
<1>1. step \in [Nat \X Int -> Nat]
  <2> SUFFICES ASSUME NEW p \in Nat \X Int
               PROVE  (IF p[2] \in 1 .. n THEN 10 * p[1] + Value(s[p[2]]) ELSE p[1]) \in Nat
    OBVIOUS
  <2>1. p[1] \in Nat OBVIOUS
  <2>2. QED BY <1>01, <2>1
<1>2. PICK it \in [SUBSET (1 .. n) -> Nat] : Folds(it, n, 0, step)
  <2> HIDE DEF step
  <2>2. QED BY <1>0, <1>1, FoldExists
<1>3. ASSUME NEW x \in SUBSET (1 .. n)
      PROVE  it[x] = IF x = {} THEN 0 ELSE 10 * it[x \ {Max(x)}] + Value(s[Max(x)])
  <2>1. it[x] = IF x = {} THEN 0 ELSE step[<<it[x \ {Max(x)}], Max(x)>>]
    BY <1>2, Zenon DEF Folds
  <2>2. CASE x # {}
    <3>1. Max(x) \in 1 .. n BY <1>0, <2>2, MaxInSet
    <3>2. it[x \ {Max(x)}] \in Nat BY <1>2
    <3>3. <<it[x \ {Max(x)}], Max(x)>> \in Nat \X Int
      <4>1. Max(x) \in Int BY <1>0, <3>1
      <4>2. QED BY <3>2, <4>1
    <3>4. step[<<it[x \ {Max(x)}], Max(x)>>] = 10 * it[x \ {Max(x)}] + Value(s[Max(x)]) BY <3>1, <3>3
    <3>5. QED BY <2>1, <2>2, <3>4
  <2>3. QED BY <2>1, <2>2
<1>4. Counts(it, s) BY <1>0, <1>2, <1>3 DEF Counts
<1>5. QED BY <1>4

\* The turns for two lists of digits that agree on their first k agree.
LEMMA CountsAgree ==
  ASSUME NEW s \in Seq(Digit), NEW t \in Seq(Digit), NEW k \in Nat,
         k <= Len(s), k <= Len(t), \A i \in 1 .. k : s[i] = t[i],
         NEW g, NEW h, Counts(g, s), Counts(h, t)
  PROVE  g[1 .. k] = h[1 .. k] /\ g[1 .. k] \in Nat
<1> DEFINE S == {j \in Nat : j <= k => g[1 .. j] = h[1 .. j] /\ g[1 .. j] \in Nat}
<1>0. /\ \A x \in SUBSET (DOMAIN s) : g[x] = IF x = {} THEN 0 ELSE 10 * g[x \ {Max(x)}] + Value(s[Max(x)])
      /\ \A x \in SUBSET (DOMAIN t) : h[x] = IF x = {} THEN 0 ELSE 10 * h[x \ {Max(x)}] + Value(t[Max(x)])
  BY Zenon DEF Counts
<1>1. DOMAIN s = 1 .. Len(s) /\ DOMAIN t = 1 .. Len(t) OBVIOUS
<1>2. 0 \in S
  <2>1. 1 .. 0 = {} OBVIOUS
  <2>2. g[{}] = 0 /\ h[{}] = 0 BY <1>0
  <2>3. QED BY <2>1, <2>2
<1>3. ASSUME NEW j \in Nat, j \in S PROVE j + 1 \in S
  <2> DEFINE m == j + 1
             x == 1 .. m
  <2> SUFFICES ASSUME m <= k PROVE g[x] = h[x] /\ g[x] \in Nat OBVIOUS
  <2>0. Len(s) \in Nat /\ Len(t) \in Nat OBVIOUS
  <2>1. /\ j <= k /\ m \in Nat /\ x \in SUBSET (1 .. m) /\ m \in x /\ x # {} /\ x \ {m} = 1 .. j
        /\ x \in SUBSET (1 .. Len(s)) /\ x \in SUBSET (1 .. Len(t)) /\ s[m] = t[m] /\ s[m] \in Digit
    <3>0. j <= k /\ m \in Nat /\ m \in 1 .. k OBVIOUS
    <3>7. m \in x BY <3>0
    <3>1. j <= k /\ m \in Nat /\ m \in x /\ x # {} /\ m \in 1 .. k BY <3>0, <3>7
    <3>2. x \in SUBSET (1 .. m) /\ x \ {m} = 1 .. j OBVIOUS
    <3>3. x \in SUBSET (1 .. Len(s)) /\ x \in SUBSET (1 .. Len(t)) BY <2>0
    <3>4. s[m] = t[m] /\ s[m] \in Digit BY <2>0, <3>1
    <3>6. QED BY <3>1, <3>2, <3>3, <3>4
  <2> HIDE DEF m, x
  <2>2. Max(x) = m BY <2>1, MaxIsLast
  <2>3. g[1 .. j] = h[1 .. j] /\ g[1 .. j] \in Nat BY <1>3, <2>1
  <2>4. g[x] = 10 * g[1 .. j] + Value(s[m]) /\ h[x] = 10 * h[1 .. j] + Value(t[m]) BY <1>0, <1>1, <2>1, <2>2
  <2>5. Value(s[m]) \in Nat BY <2>1, ValueOfDigit
  <2>6. QED BY <2>1, <2>3, <2>4, <2>5
<1> HIDE DEF S
<1>4. Nat \subseteq S BY <1>2, <1>3, SetInduction
<1>5. k \in S BY <1>4
<1>6. QED BY <1>5 DEF S

\* Decimal is the last of the turns.
LEMMA DecimalTurns ==
  ASSUME NEW s \in Seq(Digit)
  PROVE  \E g : Counts(g, s) /\ Decimal(s) = g[1 .. Len(s)]
<1> DEFINE g == CHOOSE h : Counts(h, s)
<1>1. Counts(g, s) BY CountsExists
<1>2. Decimal(s) = g[DOMAIN s] BY DEF Decimal, FoldLeft, MapThenFoldSet, Counts
<1>3. DOMAIN s = 1 .. Len(s) OBVIOUS
<1>4. QED BY <1>1, <1>2, <1>3

\* No digits are zero.
LEMMA DecimalEmpty == Decimal(<< >>) = 0
<1>0. << >> \in Seq(Digit) /\ Len(<< >>) = 0 BY EmptySeq
<1>1. PICK g : Counts(g, << >>) /\ Decimal(<< >>) = g[1 .. 0] BY <1>0, DecimalTurns
<1>2. g[{}] = 0 BY <1>1, Zenon DEF Counts
<1>3. 1 .. 0 = {} OBVIOUS
<1>4. QED BY <1>1, <1>2, <1>3

\* One digit more.
LEMMA DecimalAppend ==
  ASSUME NEW s \in Seq(Digit), NEW c \in Digit
  PROVE  Decimal(Append(s, c)) = 10 * Decimal(s) + Value(c) /\ Decimal(s) \in Nat
<1> DEFINE t == Append(s, c)
           n == Len(s)
           m == n + 1
           x == 1 .. m
<1>1. t \in Seq(Digit) /\ Len(t) = m /\ t[m] = c /\ DOMAIN t = x
      /\ n \in Nat /\ n <= Len(s) /\ n <= Len(t) /\ \A i \in 1 .. n : s[i] = t[i]
  OBVIOUS
<1>2. m \in Nat /\ x \in SUBSET (1 .. m) /\ m \in x /\ x # {} /\ x \ {m} = 1 .. n
  <2>1. n \in Nat OBVIOUS
  <2> HIDE DEF n
  <2>2. m \in Nat /\ x \in SUBSET (1 .. m) /\ m \in x BY <2>1
  <2>3. x \ {m} = 1 .. n BY <2>1
  <2>4. QED BY <2>2, <2>3
<1> HIDE DEF t, x, m, n
<1>3. PICK g : Counts(g, s) /\ Decimal(s) = g[1 .. n] BY DecimalTurns DEF n
<1>4. PICK h : Counts(h, t) /\ Decimal(t) = h[x] BY <1>1, DecimalTurns DEF x
<1>5. Max(x) = m BY <1>2, MaxIsLast
<1>6. h[x] = 10 * h[1 .. n] + Value(t[m])
  <2>1. \A y \in SUBSET (DOMAIN t) : h[y] = IF y = {} THEN 0 ELSE 10 * h[y \ {Max(y)}] + Value(t[Max(y)])
    BY <1>4, Zenon DEF Counts
  <2>2. QED BY <1>1, <1>2, <1>5, <2>1
<1>7. g[1 .. n] = h[1 .. n] /\ g[1 .. n] \in Nat
  <2>1. Counts(g, s) /\ Counts(h, t) /\ t \in Seq(Digit) BY <1>1, <1>3, <1>4
  <2>2. n \in Nat /\ n <= Len(s) /\ n <= Len(t) /\ \A i \in 1 .. n : s[i] = t[i] BY <1>1
  <2>3. QED BY <2>1, <2>2, CountsAgree
<1>8. QED BY <1>1, <1>3, <1>4, <1>6, <1>7 DEF t

\* Where the digits behind a position end.
LEMMA DigitsEndIs ==
  ASSUME NEW X, NEW s \in Seq(X), NEW i \in 1 .. Len(s)
  PROVE  /\ DigitsEnd(s, i) \in i .. Len(s)
         /\ \A j \in (i + 1) .. DigitsEnd(s, i) : IsDigit(s[j])
         /\ DigitsEnd(s, i) < Len(s) => ~IsDigit(s[DigitsEnd(s, i) + 1])
<1> DEFINE n == Len(s)
           stops == {e \in i .. n : e < n => ~IsDigit(s[e + 1])}
           a == Min(stops)
<1>0. n \in Nat /\ i \in Nat /\ i <= n OBVIOUS
<1> HIDE DEF n
<1>1. n \in stops BY <1>0
<1>2. stops \in SUBSET (1 .. n) BY <1>0
<1>3. a \in stops /\ \A z \in stops : a <= z
  <2> HIDE DEF stops
  <2>1. QED BY <1>0, <1>1, <1>2, MinInSet
<1>4. a \in i .. n /\ (a < n => ~IsDigit(s[a + 1])) BY <1>3
<1>5. ASSUME NEW j \in (i + 1) .. a PROVE IsDigit(s[j])
  <2> SUFFICES ASSUME ~IsDigit(s[j]) PROVE FALSE OBVIOUS
  <2> DEFINE k == j - 1
  <2>0. j \in Int /\ a \in Int /\ i + 1 <= j /\ j <= a /\ a <= n BY <1>0, <1>4
  <2>1. k \in i .. n /\ k + 1 = j /\ k < a BY <1>0, <2>0
  <2>2. k \in stops BY <2>1
  <2> HIDE DEF k, stops
  <2>3. a <= k BY <1>3, <2>2
  <2>4. QED BY <1>0, <1>4, <2>1, <2>3
<1> HIDE DEF a
<1>6. \E e \in i .. Len(s) : /\ \A j \in (i + 1) .. e : IsDigit(s[j])
                             /\ e < Len(s) => ~IsDigit(s[e + 1])
  BY <1>4, <1>5 DEF n
<1>7. QED BY <1>6, Zenon DEF DigitsEnd

\* They end there and nowhere else.
LEMMA DigitsEndAt ==
  ASSUME NEW X, NEW s \in Seq(X), NEW i \in 1 .. Len(s), NEW e \in i .. Len(s),
         \A j \in (i + 1) .. e : IsDigit(s[j]), e < Len(s) => ~IsDigit(s[e + 1])
  PROVE  DigitsEnd(s, i) = e
<1> DEFINE d == DigitsEnd(s, i)
<1>1. d \in i .. Len(s) /\ (\A j \in (i + 1) .. d : IsDigit(s[j])) /\ (d < Len(s) => ~IsDigit(s[d + 1]))
  BY DigitsEndIs
<1> HIDE DEF d
<1>2. Len(s) \in Nat OBVIOUS
<1>3. i \in Int /\ d \in Int /\ e \in Int /\ i <= d /\ i <= e /\ d <= Len(s) /\ e <= Len(s) BY <1>1, <1>2
<1>4. ~(d < e)
  <2> SUFFICES ASSUME d < e PROVE FALSE OBVIOUS
  <2>1. d + 1 \in (i + 1) .. e /\ d < Len(s) BY <1>2, <1>3
  <2>2. QED BY <1>1, <2>1
<1>5. ~(e < d)
  <2> SUFFICES ASSUME e < d PROVE FALSE OBVIOUS
  <2>1. e + 1 \in (i + 1) .. d /\ e < Len(s) BY <1>2, <1>3
  <2>2. QED BY <1>1, <2>1
<1>6. d = e BY <1>3, <1>4, <1>5
<1>7. QED BY <1>6 DEF d

\* A number without a leading zero is at least as long as it is large.
LEMMA DecimalGrows ==
  ASSUME NEW s \in Seq(Digit), s # << >>, s[1] # "0"
  PROVE  /\ Decimal(s) \in Nat /\ Decimal(s) >= 1
         /\ Len(s) >= 2 => Decimal(s) >= 10
         /\ Len(s) >= 3 => Decimal(s) >= 100
<1> DEFINE Large(t) == /\ Decimal(t) \in Nat
                       /\ Len(t) >= 1 /\ t[1] # "0" =>
                            /\ Decimal(t) >= 1
                            /\ Len(t) >= 2 => Decimal(t) >= 10
                            /\ Len(t) >= 3 => Decimal(t) >= 100
           P == {t \in Seq(Digit) : Large(t)}
<1>1. << >> \in P
  <2>1. << >> \in Seq(Digit) /\ Len(<< >>) = 0 BY EmptySeq
  <2>2. QED BY <2>1, DecimalEmpty
<1>2. ASSUME NEW t \in Seq(Digit), NEW c \in Digit, t \in P PROVE Append(t, c) \in P
  <2> DEFINE u == Append(t, c)
             d == Decimal(t)
             v == Value(c)
             n == Len(t)
  <2>1. u \in Seq(Digit) /\ Len(u) = n + 1 /\ n \in Nat /\ (n >= 1 => u[1] = t[1]) /\ (n = 0 => u[1] = c) OBVIOUS
  <2>2. Decimal(u) = 10 * d + v /\ d \in Nat BY DecimalAppend
  <2>3. v \in Nat /\ (c # "0" => v >= 1) BY ValueOfDigit
  <2>4. Large(t) BY <1>2
  <2>7. n = 0 => t = << >> OBVIOUS
  <2>5. n = 0 => d = 0 BY <2>7, DecimalEmpty
  <2>6. /\ n >= 1 /\ t[1] # "0" => d >= 1
        /\ n >= 2 /\ t[1] # "0" => d >= 10
    BY <2>1, <2>4
  <2> HIDE DEF d, v, n, u
  <2>8. Large(u)
    <3>1. Decimal(u) \in Nat BY <2>2, <2>3
    <3>2. CASE n = 0 BY <2>1, <2>2, <2>3, <2>5, <3>1, <3>2
    <3>3. CASE n = 1 BY <2>1, <2>2, <2>3, <2>6, <3>1, <3>3
    <3>4. CASE n >= 2 BY <2>1, <2>2, <2>3, <2>6, <3>1, <3>4
    <3>5. QED BY <2>1, <3>2, <3>3, <3>4
  <2>9. u \in P BY <2>1, <2>8
  <2>10. QED BY <2>9 DEF u
<1> HIDE DEF P
<1>3. Seq(Digit) \subseteq P BY <1>1, <1>2, SeqInduction
<1>4. Large(s) BY <1>3 DEF P
<1>5. Len(s) >= 1 OBVIOUS
<1>6. QED BY <1>4, <1>5

\* Some digits are a natural number.
LEMMA DecimalType == ASSUME NEW s \in Seq(Digit) PROVE Decimal(s) \in Nat
<1>1. "0" \in Digit BY DEF Digit
<1>2. QED BY <1>1, DecimalAppend

\* A list of two is one of one with another behind it.
LEMMA PairIsAppend == ASSUME NEW c, NEW d PROVE Append(<< c >>, d) = << c, d >>
<1> DEFINE X == {c, d}
           t == << c >>
           w == Append(t, d)
<1>1. t \in Seq(X) /\ d \in X OBVIOUS
<1>2. Len(t) = 1 /\ t[1] = c OBVIOUS
<1> HIDE DEF X, t
<1>3. w \in Seq(X) /\ Len(w) = Len(t) + 1 /\ (\A i \in 1 .. Len(t) : w[i] = t[i]) /\ w[Len(t) + 1] = d BY <1>1
<1> HIDE DEF w
<1>4. w \in Seq(X) /\ Len(w) = 2 /\ w[1] = c /\ w[2] = d BY <1>2, <1>3
<1>5. w = << c, d >> BY <1>4
<1>6. QED BY <1>5 DEF w, t

\* One digit, and two.
LEMMA DecimalShort ==
  /\ \A c \in Digit : Decimal(<< c >>) = Value(c)
  /\ \A c, d \in Digit : Decimal(<< c, d >>) = 10 * Value(c) + Value(d)
<1>1. ASSUME NEW c \in Digit PROVE Decimal(<< c >>) = Value(c)
  <2>1. << >> \in Seq(Digit) /\ Append(<< >>, c) = << c >> BY EmptySeq
  <2>2. Decimal(Append(<< >>, c)) = 10 * Decimal(<< >>) + Value(c) BY <2>1, DecimalAppend
  <2>3. Value(c) \in Int BY ValueOfDigit
  <2>4. QED BY <2>1, <2>2, <2>3, DecimalEmpty
<1>2. ASSUME NEW c \in Digit, NEW d \in Digit PROVE Decimal(<< c, d >>) = 10 * Value(c) + Value(d)
  <2>1. << c >> \in Seq(Digit) /\ Append(<< c >>, d) = << c, d >>
    <3> DEFINE Y == Digit
    <3> HIDE DEF Y
    <3>1. c \in Y BY DEF Y
    <3>2. << c >> \in Seq(Y) BY <3>1
    <3>3. Append(<< c >>, d) = << c, d >> BY PairIsAppend
    <3>4. QED BY <3>2, <3>3 DEF Y
  <2>2. Decimal(Append(<< c >>, d)) = 10 * Decimal(<< c >>) + Value(d) BY <2>1, DecimalAppend
  <2>3. QED BY <1>1, <2>1, <2>2
<1>3. QED BY <1>1, <1>2

\* A placeholder: a $ and one digit or two.
Mark(part) ==
  /\ part \in Seq(Digit \cup {"$"}) /\ Len(part) \in {2, 3} /\ part[1] = "$"
  /\ \A j \in 2 .. Len(part) : part[j] \in Digit

\* What Placeholder makes is one.
LEMMA PlaceholderIsMark == ASSUME NEW k \in 1 .. 99 PROVE Mark(Placeholder(k))
<1>0. \A d \in 0 .. 9 : Figures[d + 1] \in Digit
  <2> SUFFICES ASSUME NEW d \in 0 .. 9 PROVE Figures[d + 1] \in Digit OBVIOUS
  <2>1. d = 0 \/ d = 1 \/ d = 2 \/ d = 3 \/ d = 4 \/ d = 5 \/ d = 6 \/ d = 7 \/ d = 8 \/ d = 9 OBVIOUS
  <2>2. QED BY <2>1 DEF Figures, Digit
<1>1. CASE k < 10
  <2> DEFINE a == Figures[k + 1]
  <2>1. Placeholder(k) = << "$", a >> BY <1>1 DEF Placeholder
  <2>2. k \in 0 .. 9 BY <1>1
  <2>3. a \in Digit BY <1>0, <2>2
  <2> HIDE DEF a
  <2>4. QED BY <2>1, <2>3 DEF Mark
<1>2. CASE ~(k < 10)
  <2> DEFINE a == Figures[(k \div 10) + 1]
             b == Figures[(k % 10) + 1]
  <2>1. Placeholder(k) = << "$", a, b >> BY <1>2 DEF Placeholder
  <2>2. k \div 10 \in 0 .. 9 /\ k % 10 \in 0 .. 9 BY <1>2
  <2>3. a \in Digit /\ b \in Digit BY <1>0, <2>2
  <2> HIDE DEF a, b
  <2>4. QED BY <2>1, <2>3 DEF Mark
<1>3. QED BY <1>1, <1>2

\* The placeholder of a number is written with its digits.
LEMMA PlaceholderOfDigits ==
  ASSUME NEW r \in Seq(Digit), r # << >>, r[1] # "0", Decimal(r) <= 99
  PROVE  /\ Len(Placeholder(Decimal(r))) = Len(r) + 1
         /\ Placeholder(Decimal(r))[1] = "$"
         /\ \A j \in 1 .. Len(r) : Placeholder(Decimal(r))[j + 1] = r[j]
<1> DEFINE k == Decimal(r)
<1>1. k \in Nat /\ k >= 1 /\ (Len(r) >= 2 => k >= 10) /\ (Len(r) >= 3 => k >= 100) BY DecimalGrows
<1> HIDE DEF k
<1>2. k <= 99 BY DEF k
<1>3. Len(r) = 1 \/ Len(r) = 2
  <2> DEFINE n == Len(r)
  <2>1. n \in Nat /\ n >= 1 OBVIOUS
  <2>2. (n >= 3 => k >= 100) BY <1>1
  <2> HIDE DEF n
  <2>3. n = 1 \/ n = 2 BY <1>1, <1>2, <2>1, <2>2
  <2>4. QED BY <2>3 DEF n
<1>4. CASE Len(r) = 1
  <2> DEFINE c == r[1]
  <2>1. r = << c >> /\ c \in Digit BY <1>4
  <2> HIDE DEF c
  <2>2. k = Value(c) BY <2>1, DecimalShort DEF k
  <2>3. k \in 0 .. 9 /\ Figures[k + 1] = c BY <2>1, <2>2, ValueOfDigit
  <2>4. Placeholder(k) = << "$", c >> BY <2>3 DEF Placeholder
  <2>5. QED BY <1>4, <2>1, <2>4 DEF k
<1>5. CASE Len(r) = 2
  <2> DEFINE c == r[1]
             d == r[2]
             v == Value(c)
             w == Value(d)
  <2>1. r = << c, d >> /\ c \in Digit /\ d \in Digit BY <1>5
  <2> HIDE DEF c, d
  <2>2. k = 10 * v + w BY <2>1, DecimalShort DEF k
  <2>3. v \in 0 .. 9 /\ Figures[v + 1] = c /\ w \in 0 .. 9 /\ Figures[w + 1] = d BY <2>1, ValueOfDigit
  <2> HIDE DEF v, w
  <2>4. ~(k < 10) BY <1>1, <1>5
  <2>5. k \div 10 = v /\ k % 10 = w BY <2>2, <2>3
  <2>6. Placeholder(k) = << "$", c, d >> BY <2>3, <2>4, <2>5 DEF Placeholder
  <2>7. QED BY <1>5, <2>1, <2>6 DEF k
<1>6. QED BY <1>3, <1>4, <1>5

\* Where a part stands in a text, character by character.
LEMMA OccursAt ==
  ASSUME NEW X, NEW s \in Seq(X), NEW Y, NEW part \in Seq(Y), Len(part) \in {2, 3}, NEW i
  PROVE  i \in Occurrences(s, part) <=>
           /\ i \in 1 .. Len(s) /\ (i + Len(part)) - 1 <= Len(s)
           /\ \A j \in 1 .. Len(part) : s[(i + j) - 1] = part[j]
<1> DEFINE n == Len(s)
           m == Len(part)
<1>0. n \in Nat /\ m \in {2, 3} OBVIOUS
<1>1. i \in Occurrences(s, part) <=> i \in 1 .. (n + 1 - m) /\ SubSeq(s, i, (i + m) - 1) = part BY DEF Occurrences
<1> HIDE DEF n, m
<1>2. i \in 1 .. (n + 1 - m) <=> i \in 1 .. n /\ (i + m) - 1 <= n BY <1>0
<1>3. ASSUME i \in 1 .. n, (i + m) - 1 <= n
      PROVE  SubSeq(s, i, (i + m) - 1) = part <=> \A j \in 1 .. m : s[(i + j) - 1] = part[j]
  <2> DEFINE e == (i + m) - 1
             r == SubSeq(s, i, e)
  <2>0. i \in Nat /\ e \in Nat /\ 1 <= i /\ i <= e /\ e <= n /\ (e - i) + 1 = m BY <1>0, <1>3
  <2> HIDE DEF e
  <2>1. r \in Seq(X) /\ Len(r) = (e - i) + 1 /\ \A j \in 1 .. ((e - i) + 1) : r[j] = s[(i + j) - 1] BY <2>0 DEF n
  <2> HIDE DEF r
  <2>2. Len(r) = m /\ \A j \in 1 .. m : r[j] = s[(i + j) - 1] BY <2>0, <2>1
  <2>3. ASSUME \A j \in 1 .. m : s[(i + j) - 1] = part[j] PROVE r = part
    <3>1. \A j \in 1 .. Len(r) : r[j] = part[j] BY <2>2, <2>3
    <3>2. Len(r) = Len(part) BY <2>2 DEF m
    <3> DEFINE Z == X \cup Y
    <3>3. X \subseteq Z /\ Y \subseteq Z OBVIOUS
    <3> HIDE DEF Z
    <3>4. r \in Seq(Z) /\ part \in Seq(Z) BY <2>1, <3>3, MoreMembers
    <3>5. QED BY <3>1, <3>2, <3>4, SeqEqual
  <2>4. QED BY <2>2, <2>3 DEF r, e
<1>4. QED BY <1>1, <1>2, <1>3 DEF n, m

\* A $ and the digits behind it are a placeholder, if there are any.
LEMMA RunIsPlaceholder ==
  ASSUME NEW X, NEW s \in Seq(X), Canonical(s), NEW i \in 1 .. Len(s), s[i] = "$"
  PROVE  /\ NumberAt(s, i) \in Nat
         /\ NumberAt(s, i) = 0 => DigitsEnd(s, i) = i
         /\ NumberAt(s, i) \in 1 .. 99 => SubSeq(s, i, DigitsEnd(s, i)) = Placeholder(NumberAt(s, i))
<1> DEFINE n == Len(s)
           e == DigitsEnd(s, i)
           r == SubSeq(s, i + 1, e)
           k == Decimal(r)
<1>0. n \in Nat OBVIOUS
<1>1. /\ e \in i .. n /\ (\A j \in (i + 1) .. e : IsDigit(s[j])) BY DigitsEndIs
<1> HIDE DEF n, e
<1>2. i \in Nat /\ e \in Nat /\ 1 <= i /\ i <= e /\ e <= n BY <1>0, <1>1 DEF n
<1>3. NumberAt(s, i) = k BY DEF NumberAt, Decimal, e
<1>4. r \in Seq(X) /\ Len(r) = e - i /\ \A j \in 1 .. (e - i) : r[j] = s[i + j]
  <2> DEFINE a == i + 1
  <2>1. a \in Nat /\ 1 <= a /\ e <= n /\ a <= e + 1 /\ (e - a) + 1 = e - i BY <1>2
  <2>2. \A j \in 1 .. (e - i) : (a + j) - 1 = i + j BY <1>2
  <2> HIDE DEF a
  <2>3. CASE a <= e
    <3>1. SubSeq(s, a, e) \in Seq(X) /\ Len(SubSeq(s, a, e)) = (e - a) + 1
          /\ \A j \in 1 .. ((e - a) + 1) : SubSeq(s, a, e)[j] = s[(a + j) - 1] BY <1>2, <2>1, <2>3 DEF n
    <3>2. QED BY <2>1, <2>2, <3>1 DEF a
  <2>4. CASE a = e + 1
    <3>1. SubSeq(s, a, e) = << >> BY <1>2, <2>1, <2>4, SubSeqEmpty
    <3>2. e - i = 0 BY <1>2, <2>4 DEF a
    <3>3. r = << >> BY <3>1 DEF a
    <3>4. r \in Seq(X) /\ Len(r) = 0 BY <3>3, EmptySeq
    <3> HIDE DEF r
    <3>5. QED BY <3>2, <3>4
  <2>5. QED BY <1>2, <2>1, <2>3, <2>4
<1> HIDE DEF r
<1>5. r \in Seq(Digit)
  <2>1. \A j \in 1 .. (e - i) : i + j \in (i + 1) .. e BY <1>2
  <2>2. \A j \in 1 .. (e - i) : IsDigit(r[j]) BY <1>1, <1>4, <2>1
  <2>3. \A j \in 1 .. Len(r) : r[j] \in Digit BY <1>4, <2>2, DigitsAre
  <2>4. r = [j \in 1 .. Len(r) |-> r[j]] /\ Len(r) \in Nat BY <1>4
  <2> DEFINE Y == Digit
  <2> HIDE DEF Y
  <2>5. \A j \in 1 .. Len(r) : r[j] \in Y BY <2>3 DEF Y
  <2>6. r \in Seq(Y) BY <2>4, <2>5
  <2>7. QED BY <2>6 DEF Y
<1>6. k \in Nat BY <1>5, DecimalType
<1>7. CASE e = i
  <2>1. r = << >> BY <1>2, <1>4, <1>7
  <2>2. k = 0 BY <2>1, DecimalEmpty
  <2>3. QED BY <1>3, <1>7, <2>2 DEF e
<1>8. CASE e # i
  <2>1. Len(r) \in Nat /\ Len(r) >= 1 /\ r[1] = s[i + 1] /\ i + 1 <= n
    <3>0. i < e BY <1>2, <1>8
    <3>1. e - i \in Nat /\ e - i >= 1 /\ i + 1 <= n BY <1>0, <1>2, <3>0
    <3>2. 1 \in 1 .. (e - i) BY <3>1
    <3>3. QED BY <1>4, <3>1, <3>2
  <2>2. r # << >> BY <2>1
  <2>3. r[1] # "0"
    <3> SUFFICES ASSUME r[1] = "0" PROVE FALSE OBVIOUS
    <3> DEFINE part == << "$", "0" >>
    <3>1. part \in Seq({"$", "0"}) /\ Len(part) \in {2, 3} /\ Len(part) = 2 /\ part[1] = "$" /\ part[2] = "0" OBVIOUS
    <3> HIDE DEF part
    <3>2. (i + Len(part)) - 1 <= Len(s) BY <1>2, <2>1, <3>1 DEF n
    <3>3. \A j \in 1 .. Len(part) : s[(i + j) - 1] = part[j]
      <4>1. \A j \in 1 .. 2 : j = 1 \/ j = 2 OBVIOUS
      <4>2. (i + 1) - 1 = i /\ (i + 2) - 1 = i + 1 BY <1>2
      <4>3. QED BY <2>1, <3>1, <4>1, <4>2
    <3>4. i \in Occurrences(s, part) BY <3>1, <3>2, <3>3, OccursAt
    <3>5. QED BY <3>4 DEF Canonical, part
  <2>4. k >= 1 BY <1>5, <2>2, <2>3, DecimalGrows
  <2>5. ASSUME k <= 99 PROVE SubSeq(s, i, e) = Placeholder(k)
    <3> DEFINE p == Placeholder(k)
               q == SubSeq(s, i, e)
               m == (e - i) + 1
    <3>1. Len(p) = Len(r) + 1 /\ p[1] = "$" /\ \A j \in 1 .. Len(r) : p[j + 1] = r[j]
      BY <1>5, <2>2, <2>3, <2>5, PlaceholderOfDigits
    <3>2. p \in Seq(Digit \cup {"$"})
      <4>0. k \in Nat /\ 1 <= k /\ k <= 99 BY <1>6, <2>4, <2>5
      <4> HIDE DEF k
      <4>1. k \in 1 .. 99 BY <4>0
      <4>2. QED BY <4>1, PlaceholderIsMark DEF Mark
    <3>3. q \in Seq(X) /\ Len(q) = m /\ \A j \in 1 .. m : q[j] = s[(i + j) - 1]
      BY <1>2 DEF n
    <3> HIDE DEF p, q, k
    <3>4. m \in Nat /\ Len(p) = m BY <1>2, <1>4, <3>1
    <3>5. ASSUME NEW j \in 1 .. m PROVE q[j] = p[j]
      <4>1. CASE j = 1
        <5>1. (i + 1) - 1 = i BY <1>2
        <5>2. QED BY <3>1, <3>3, <3>5, <4>1, <5>1
      <4>2. CASE j # 1
        <5> DEFINE l == j - 1
        <5>1. l \in 1 .. (e - i) /\ l + 1 = j /\ (i + j) - 1 = i + l BY <1>2, <3>4, <4>2
        <5> HIDE DEF l
        <5>2. p[l + 1] = r[l] /\ r[l] = s[i + l] BY <1>4, <3>1, <5>1
        <5>3. QED BY <3>3, <3>5, <5>1, <5>2
      <4>3. QED BY <4>1, <4>2
    <3> DEFINE D == Digit \cup {"$"}
               Z == X \cup D
    <3>6. X \subseteq Z /\ D \subseteq Z /\ p \in Seq(D) BY <3>2
    <3> HIDE DEF Z, D, m
    <3>7. q \in Seq(Z) /\ p \in Seq(Z) BY <3>3, <3>6, MoreMembers
    <3>8. q = p BY <3>3, <3>4, <3>5, <3>7, SeqEqual
    <3>9. QED BY <3>8 DEF p, q
  <2> HIDE DEF k
  <2>6. k # 0 BY <1>6, <2>4
  <2>7. k \in 1 .. 99 => k <= 99 BY <1>6
  <2>8. QED BY <1>3, <1>6, <2>5, <2>6, <2>7 DEF e
<1> HIDE DEF k
<1>9. QED BY <1>3, <1>6, <1>7, <1>8

(***************************************************************************)
(* replace, part by part                                                   *)
(***************************************************************************)

\* Two lists of lists, one behind the other.
LEMMA FlattenConcat ==
  ASSUME NEW X, NEW s \in Seq(Seq(X)), NEW t \in Seq(Seq(X))
  PROVE  FlattenSeq(s \o t) = FlattenSeq(s) \o FlattenSeq(t)
<1> DEFINE Y == Seq(X)
           P == {r \in Seq(Y) : FlattenSeq(s \o r) = FlattenSeq(s) \o FlattenSeq(r)}
<1>1. FlattenSeq(s) \in Seq(X) BY FlattenType
<1>2. << >> \in P
  <2>1. << >> \in Seq(Y) BY EmptySeq
  <2> HIDE DEF Y
  <2>2. s \o << >> = s BY DEF Y
  <2> DEFINE f == FlattenSeq(s)
  <2>3. f \in Seq(X) BY <1>1
  <2> HIDE DEF f
  <2>4. f \o << >> = f BY <2>3
  <2>5. QED BY <2>1, <2>2, <2>4, FlattenEmpty DEF f
<1>3. ASSUME NEW r \in Seq(Y), NEW e \in Y, r \in P PROVE Append(r, e) \in P
  <2> DEFINE f == FlattenSeq(s)
             g == FlattenSeq(r)
  <2>1. f \in Seq(X) /\ g \in Seq(X) /\ e \in Seq(X) BY <1>1, FlattenType
  <2>2. FlattenSeq(s \o r) = f \o g BY <1>3
  <2>3. FlattenSeq(Append(r, e)) = g \o e BY FlattenAppend
  <2>4. s \o r \in Seq(Y) /\ s \o Append(r, e) = Append(s \o r, e) /\ Append(r, e) \in Seq(Y)
    <3> HIDE DEF Y
    <3>1. s \in Seq(Y) BY DEF Y
    <3>2. QED BY <3>1
  <2>5. FlattenSeq(Append(s \o r, e)) = FlattenSeq(s \o r) \o e
    <3> DEFINE q == s \o r
    <3>1. q \in Seq(Seq(X)) BY <2>4
    <3> HIDE DEF q
    <3>2. FlattenSeq(Append(q, e)) = FlattenSeq(q) \o e BY <2>1, <3>1, FlattenAppend
    <3>3. QED BY <3>2 DEF q
  <2> HIDE DEF f, g
  <2>6. (f \o g) \o e = f \o (g \o e) BY <2>1, SMTT(60)
  <2>7. FlattenSeq(s \o Append(r, e)) = f \o FlattenSeq(Append(r, e)) BY <2>2, <2>3, <2>4, <2>5, <2>6
  <2>8. QED BY <2>4, <2>7 DEF f
<1> HIDE DEF P
<1>4. Seq(Y) \subseteq P BY <1>2, <1>3, SeqInduction
<1>5. t \in P BY <1>4
<1>6. QED BY <1>5 DEF P

\* Every member in a list of its own.
Singles(s) == [i \in DOMAIN s |-> << s[i] >>]

\* Put together again they are the list.
LEMMA FlattenSingles ==
  ASSUME NEW X, NEW s \in Seq(X)
  PROVE  Singles(s) \in Seq(Seq(X)) /\ FlattenSeq(Singles(s)) = s
<1> DEFINE Y == Seq(X)
           P == {t \in Seq(X) : Singles(t) \in Seq(Y) /\ FlattenSeq(Singles(t)) = t}
<1>1. << >> \in P
  <2>1. Singles(<< >>) = << >> BY DEF Singles
  <2>2. << >> \in Seq(X) /\ << >> \in Seq(Y) BY EmptySeq
  <2>3. QED BY <2>1, <2>2, FlattenEmpty
<1>2. ASSUME NEW t \in Seq(X), NEW e \in X, t \in P PROVE Append(t, e) \in P
  <2> DEFINE u == Append(t, e)
             a == Singles(t)
             b == Append(a, << e >>)
             c == Singles(u)
             n == Len(t)
  <2>1. << e >> \in Y OBVIOUS
  <2>2. a \in Seq(Y) /\ FlattenSeq(a) = t BY <1>2
  <2>3. n \in Nat /\ u \in Seq(X) /\ Len(u) = n + 1 /\ (\A i \in 1 .. n : u[i] = t[i]) /\ u[n + 1] = e /\ DOMAIN t = 1 .. n
        /\ DOMAIN u = 1 .. (n + 1)
    OBVIOUS
  <2>4. Len(a) = n /\ \A i \in 1 .. n : a[i] = << t[i] >>
    <3>1. DOMAIN a = 1 .. n /\ \A i \in 1 .. n : a[i] = << t[i] >> BY <2>3 DEF Singles
    <3> HIDE DEF a, Y, n
    <3>2. QED BY <2>2, <2>3, <3>1
  <2>5. c = [i \in 1 .. (n + 1) |-> << u[i] >>] BY <2>3 DEF Singles
  <2> HIDE DEF u, a, n, Y
  <2>6. b \in Seq(Y) /\ Len(b) = n + 1 /\ (\A i \in 1 .. n : b[i] = a[i]) /\ b[n + 1] = << e >>
    BY <2>1, <2>2, <2>3, <2>4
  <2> HIDE DEF b, c
  <2>7. \A i \in 1 .. (n + 1) : << u[i] >> = b[i]
    <3> SUFFICES ASSUME NEW i \in 1 .. (n + 1) PROVE << u[i] >> = b[i] OBVIOUS
    <3>1. CASE i = n + 1 BY <2>3, <2>6, <3>1
    <3>2. CASE i # n + 1
      <4>1. i \in 1 .. n BY <2>3, <3>2
      <4>2. QED BY <2>3, <2>4, <2>6, <4>1
    <3>3. QED BY <3>1, <3>2
  <2>8. c = b
    <3>1. b = [i \in 1 .. (n + 1) |-> b[i]] BY <2>3, <2>6
    <3>2. QED BY <2>5, <2>7, <3>1, Zenon
  <2>9. FlattenSeq(b) = t \o << e >>
    <3>1. a \in Seq(Seq(X)) /\ << e >> \in Seq(X) BY <2>1, <2>2 DEF Y
    <3>2. FlattenSeq(b) = FlattenSeq(a) \o << e >> BY <3>1, FlattenAppend DEF b
    <3>3. QED BY <2>2, <3>2
  <2>10. t \o << e >> = u BY DEF u
  <2>11. u \in P BY <2>3, <2>6, <2>8, <2>9, <2>10 DEF c
  <2>12. QED BY <2>11 DEF u
<1> HIDE DEF P
<1>3. Seq(X) \subseteq P BY <1>1, <1>2, SeqInduction
<1>4. QED BY <1>3 DEF P

(***************************************************************************)
(* replace                                                                 *)
(***************************************************************************)

\* Position i is inside an occurrence that begins before it.
Inside(s, part, i) == \E j \in Occurrences(s, part) : j < i /\ i < j + Len(part)

\* What replace puts at each position.
Cuts(s, part, value) ==
  [i \in DOMAIN s |-> IF i \in Occurrences(s, part) THEN value
                      ELSE IF Inside(s, part, i) THEN << >> ELSE << s[i] >>]

LEMMA ReplaceIsCuts == \A s, part, value : replace(s, part, value) = FlattenSeq(Cuts(s, part, value))
  BY DEF replace, Cuts, Inside

\* What is put there are lists.
LEMMA CutsType ==
  ASSUME NEW X, NEW s \in Seq(X), NEW part, NEW value \in Seq(X)
  PROVE  /\ Cuts(s, part, value) \in Seq(Seq(X)) /\ Len(Cuts(s, part, value)) = Len(s)
         /\ DOMAIN Cuts(s, part, value) = 1 .. Len(s)
         /\ \A i \in 1 .. Len(s) :
              Cuts(s, part, value)[i] = IF i \in Occurrences(s, part) THEN value
                                        ELSE IF Inside(s, part, i) THEN << >> ELSE << s[i] >>
<1> DEFINE Y == Seq(X)
           n == Len(s)
           c(i) == IF i \in Occurrences(s, part) THEN value
                   ELSE IF Inside(s, part, i) THEN << >> ELSE << s[i] >>
<1>1. n \in Nat /\ DOMAIN s = 1 .. n OBVIOUS
<1>2. \A i \in 1 .. n : << s[i] >> \in Y OBVIOUS
<1>3. << >> \in Y BY EmptySeq
<1> HIDE DEF Y, n
<1>4. \A i \in 1 .. n : c(i) \in Y BY <1>2, <1>3 DEF Y
<1>5. Cuts(s, part, value) = [i \in 1 .. n |-> c(i)] BY <1>1 DEF Cuts
<1> HIDE DEF c
<1>6. [i \in 1 .. n |-> c(i)] \in Seq(Y) /\ Len([i \in 1 .. n |-> c(i)]) = n BY <1>1, <1>4
<1>7. QED BY <1>5, <1>6 DEF Y, n, c

\* s ends in a $ with or without digits.
Open(s) == \E p \in 1 .. Len(s) : s[p] = "$" /\ \A q \in (p + 1) .. Len(s) : s[q] \in Digit

\* No placeholder can begin in s and end in t.
Apart(s, t) == t = << >> \/ t[1] \notin Digit \/ ~Open(s)

\* The placeholders of two texts apart are those of their concatenation.
LEMMA OccurConcat ==
  ASSUME NEW X, NEW s \in Seq(X), NEW t \in Seq(X), NEW part, Mark(part), Apart(s, t)
  PROVE  /\ \A i \in 1 .. Len(s) : i \in Occurrences(s \o t, part) <=> i \in Occurrences(s, part)
         /\ \A i \in 1 .. Len(t) : Len(s) + i \in Occurrences(s \o t, part) <=> i \in Occurrences(t, part)
<1> DEFINE u == s \o t
           a == Len(s)
           b == Len(t)
           m == Len(part)
           D == Digit \cup {"$"}
<1>0. part \in Seq(D) /\ Len(part) \in {2, 3} /\ part[1] = "$" /\ \A j \in 2 .. Len(part) : part[j] \in Digit
  BY DEF Mark
<1> HIDE DEF D
<1>1. a \in Nat /\ b \in Nat /\ m \in {2, 3} BY <1>0
<1>2. u \in Seq(X) /\ Len(u) = a + b
      /\ (\A i \in 1 .. a : u[i] = s[i]) /\ \A i \in 1 .. b : u[a + i] = t[i]
  <2>1. u \in Seq(X) /\ Len(u) = a + b OBVIOUS
  <2>2. \A i \in 1 .. a : u[i] = s[i] OBVIOUS
  <2>3. ASSUME NEW i \in 1 .. b PROVE u[a + i] = t[i]
    <3>1. a + i \in 1 .. (a + b) /\ ~(a + i <= a) /\ (a + i) - a = i BY <1>1
    <3>2. \A k \in 1 .. (a + b) : u[k] = IF k <= a THEN s[k] ELSE t[k - a] BY ConcatProperties
    <3>3. QED BY <3>1, <3>2
  <2>4. QED BY <2>1, <2>2, <2>3
<1>3. \A i : /\ i \in Occurrences(u, part) <=> /\ i \in 1 .. (a + b) /\ (i + m) - 1 <= a + b
                                               /\ \A j \in 1 .. m : u[(i + j) - 1] = part[j]
             /\ i \in Occurrences(s, part) <=> /\ i \in 1 .. a /\ (i + m) - 1 <= a
                                               /\ \A j \in 1 .. m : s[(i + j) - 1] = part[j]
             /\ i \in Occurrences(t, part) <=> /\ i \in 1 .. b /\ (i + m) - 1 <= b
                                               /\ \A j \in 1 .. m : t[(i + j) - 1] = part[j]
  <2> TAKE i
  <2> DEFINE At(r) == i \in Occurrences(r, part) <=>
                        /\ i \in 1 .. Len(r) /\ (i + Len(part)) - 1 <= Len(r)
                        /\ \A j \in 1 .. Len(part) : r[(i + j) - 1] = part[j]
  <2> HIDE DEF u
  <2>0. u \in Seq(X) BY <1>2
  <2>1. At(u) BY <1>0, <2>0, OccursAt
  <2>2. At(s) BY <1>0, OccursAt
  <2>3. At(t) BY <1>0, OccursAt
  <2>4. QED BY <1>2, <2>1, <2>2, <2>3
<1> HIDE DEF u, a, b, m
<1>4. ASSUME NEW i \in 1 .. a, (i + m) - 1 <= a
      PROVE  i \in Occurrences(u, part) <=> i \in Occurrences(s, part)
  <2>1. \A j \in 1 .. m : (i + j) - 1 \in 1 .. a BY <1>1, <1>4
  <2>2. \A j \in 1 .. m : u[(i + j) - 1] = s[(i + j) - 1] BY <1>2, <2>1
  <2>3. i \in 1 .. (a + b) /\ (i + m) - 1 <= a + b BY <1>1, <1>4
  <2>4. QED BY <1>3, <1>4, <2>2, <2>3
<1>5. ASSUME NEW i \in 1 .. a, ~((i + m) - 1 <= a)
      PROVE  i \notin Occurrences(u, part) /\ i \notin Occurrences(s, part)
  <2>1. i \notin Occurrences(s, part) BY <1>3, <1>5
  <2>2. SUFFICES ASSUME i \in Occurrences(u, part) PROVE FALSE BY <2>1
  <2>3. (i + m) - 1 <= a + b /\ \A j \in 1 .. m : u[(i + j) - 1] = part[j] BY <1>3, <2>2
  <2>4. b >= 1 /\ (a + 2) - i \in 2 .. m /\ (a + 2) - i \in 1 .. m /\ (i + ((a + 2) - i)) - 1 = a + 1 BY <1>1, <1>5, <2>3
  <2>5. t[1] \in Digit
    <3>1. u[a + 1] = part[(a + 2) - i] BY <2>3, <2>4
    <3>2. 1 \in 1 .. b BY <1>1, <2>4
    <3>3. u[a + 1] = t[1] BY <1>2, <3>2
    <3>4. part[(a + 2) - i] \in Digit BY <1>0, <2>4 DEF m
    <3>5. QED BY <3>1, <3>3, <3>4
  <2>6. t # << >> BY <2>4 DEF b
  <2>7. ~Open(s) BY <2>5, <2>6 DEF Apart
  <2>8. s[i] = "$"
    <3>1. 1 \in 1 .. m /\ (i + 1) - 1 = i BY <1>1
    <3>2. u[i] = part[1] BY <2>3, <3>1
    <3>3. QED BY <1>0, <1>2, <3>2
  <2>9. ASSUME NEW q \in (i + 1) .. a PROVE s[q] \in Digit
    <3> DEFINE j == (q - i) + 1
    <3>1. j \in 2 .. m /\ j \in 1 .. m /\ (i + j) - 1 = q /\ q \in 1 .. a BY <1>1, <1>5
    <3> HIDE DEF j
    <3>2. u[q] = part[j] BY <2>3, <3>1
    <3>3. part[j] \in Digit BY <1>0, <3>1 DEF m
    <3>4. u[q] = s[q] BY <1>2, <3>1
    <3>5. QED BY <3>2, <3>3, <3>4
  <2>10. Open(s) BY <2>8, <2>9 DEF Open, a
  <2>11. QED BY <2>7, <2>10
<1>6. ASSUME NEW i \in 1 .. b
      PROVE  a + i \in Occurrences(u, part) <=> i \in Occurrences(t, part)
  <2>1. a + i \in 1 .. (a + b) /\ (((a + i) + m) - 1 <= a + b <=> (i + m) - 1 <= b) BY <1>1
  <2>2. ASSUME (i + m) - 1 <= b, NEW j \in 1 .. m PROVE u[((a + i) + j) - 1] = t[(i + j) - 1]
    <3>1. (i + j) - 1 \in 1 .. b /\ a + ((i + j) - 1) = ((a + i) + j) - 1 BY <1>1, <2>2
    <3>2. QED BY <1>2, <3>1
  <2> DEFINE k == a + i
  <2>3. k \in 1 .. (a + b) /\ ((k + m) - 1 <= a + b <=> (i + m) - 1 <= b) BY <2>1
  <2>4. (i + m) - 1 <= b => \A j \in 1 .. m : u[(k + j) - 1] = t[(i + j) - 1] BY <2>2
  <2> HIDE DEF k
  <2>5. k \in Occurrences(u, part) <=> i \in Occurrences(t, part) BY <1>3, <1>6, <2>3, <2>4, ZenonT(60)
  <2>6. QED BY <2>5 DEF k
<1>7. QED BY <1>4, <1>5, <1>6 DEF u, a, b

\* Where the placeholders of two texts apart stand, positions inside them included.
LEMMA InsideConcat ==
  ASSUME NEW X, NEW s \in Seq(X), NEW t \in Seq(X), NEW part, Mark(part), Apart(s, t)
  PROVE  /\ \A i \in 1 .. Len(s) : Inside(s \o t, part, i) <=> Inside(s, part, i)
         /\ \A i \in 1 .. Len(t) : Inside(s \o t, part, Len(s) + i) <=> Inside(t, part, i)
<1> DEFINE u == s \o t
           a == Len(s)
           b == Len(t)
           m == Len(part)
           O(r) == Occurrences(r, part)
<1>0. m \in {2, 3} /\ a \in Nat /\ b \in Nat BY DEF Mark
<1>1. /\ \A i \in 1 .. a : i \in O(u) <=> i \in O(s)
      /\ \A i \in 1 .. b : a + i \in O(u) <=> i \in O(t)
  BY OccurConcat
<1>2. Len(u) = a + b OBVIOUS
<1>3. \A r : \A j \in O(r) : j \in 1 .. (Len(r) + 1 - m) BY DEF Occurrences
<1>4. /\ \A j \in O(s) : j \in Nat /\ 1 <= j /\ (j + m) - 1 <= a
      /\ \A j \in O(t) : j \in Nat /\ 1 <= j /\ j <= b
      /\ \A j \in O(u) : j \in Nat /\ 1 <= j /\ j <= a + b
  <2> HIDE DEF u, m, a, b, O
  <2>1. /\ \A j \in O(s) : j \in 1 .. (a + 1 - m)
        /\ \A j \in O(t) : j \in 1 .. (b + 1 - m)
        /\ \A j \in O(u) : j \in 1 .. ((a + b) + 1 - m)
    BY <1>2, <1>3 DEF a, b
  <2>2. QED BY <1>0, <2>1
<1>5. \A r, i : Inside(r, part, i) <=> \E j \in O(r) : j < i /\ i < j + m BY DEF Inside
<1> HIDE DEF u, a, b, m, O
<1>6. ASSUME NEW i \in 1 .. a PROVE Inside(u, part, i) <=> Inside(s, part, i)
  <2>1. ASSUME NEW j \in O(u), j < i, i < j + m PROVE \E k \in O(s) : k < i /\ i < k + m
    <3>1. j \in 1 .. a BY <1>0, <1>4, <2>1
    <3>2. j \in O(s) BY <1>1, <2>1, <3>1
    <3>3. QED BY <2>1, <3>2
  <2>2. ASSUME NEW j \in O(s), j < i, i < j + m PROVE \E k \in O(u) : k < i /\ i < k + m
    <3>1. j \in 1 .. a BY <1>0, <1>4, <2>2
    <3>2. j \in O(u) BY <1>1, <2>2, <3>1
    <3>3. QED BY <2>2, <3>2
  <2>3. QED BY <1>5, <2>1, <2>2
<1>7. ASSUME NEW i \in 1 .. b PROVE Inside(u, part, a + i) <=> Inside(t, part, i)
  <2>1. ASSUME NEW j \in O(u), j < a + i, a + i < j + m PROVE \E k \in O(t) : k < i /\ i < k + m
    <3>1. CASE j <= a
      <4>1. j \in 1 .. a BY <1>0, <1>4, <2>1, <3>1
      <4>2. j \in O(s) BY <1>1, <2>1, <4>1
      <4>3. (j + m) - 1 <= a /\ j \in Nat BY <1>4, <4>2
      <4>4. QED BY <1>0, <2>1, <4>3
    <3>2. CASE ~(j <= a)
      <4> DEFINE k == j - a
      <4>1. k \in 1 .. b /\ a + k = j /\ k < i /\ i < k + m BY <1>0, <1>4, <2>1, <3>2
      <4> HIDE DEF k
      <4>2. k \in O(t) BY <1>1, <2>1, <4>1
      <4>3. QED BY <4>1, <4>2
    <3>3. QED BY <3>1, <3>2
  <2>2. ASSUME NEW j \in O(t), j < i, i < j + m PROVE \E k \in O(u) : k < a + i /\ a + i < k + m
    <3>1. j \in 1 .. b BY <1>0, <1>4, <2>2
    <3>2. a + j \in O(u) BY <1>1, <2>2, <3>1
    <3>3. a + j < a + i /\ a + i < (a + j) + m BY <1>0, <2>2, <3>1
    <3>4. QED BY <3>2, <3>3
  <2>3. QED BY <1>5, <2>1, <2>2
<1>8. QED BY <1>6, <1>7 DEF u, a, b

\* Replacing in two texts apart.
LEMMA ReplaceConcat ==
  ASSUME NEW X, NEW s \in Seq(X), NEW t \in Seq(X), NEW part, Mark(part), Apart(s, t), NEW value \in Seq(X)
  PROVE  replace(s \o t, part, value) = replace(s, part, value) \o replace(t, part, value)
<1> DEFINE Y == Seq(X)
           u == s \o t
           a == Len(s)
           b == Len(t)
           cs == Cuts(s, part, value)
           ct == Cuts(t, part, value)
           cu == Cuts(u, part, value)
           cc == cs \o ct
           At(r, i) == IF i \in Occurrences(r, part) THEN value ELSE IF Inside(r, part, i) THEN << >> ELSE << r[i] >>
<1>1. a \in Nat /\ b \in Nat OBVIOUS
<1>2. u \in Seq(X) /\ Len(u) = a + b /\ \A i \in 1 .. (a + b) : u[i] = IF i <= a THEN s[i] ELSE t[i - a]
  BY ConcatProperties
<1>3. cs \in Seq(Y) /\ Len(cs) = a /\ \A i \in 1 .. a : cs[i] = At(s, i) BY CutsType
<1>4. ct \in Seq(Y) /\ Len(ct) = b /\ \A i \in 1 .. b : ct[i] = At(t, i) BY CutsType
<1>5. /\ \A i \in 1 .. a : i \in Occurrences(u, part) <=> i \in Occurrences(s, part)
      /\ \A i \in 1 .. b : a + i \in Occurrences(u, part) <=> i \in Occurrences(t, part)
  BY OccurConcat
<1>6. /\ \A i \in 1 .. a : Inside(u, part, i) <=> Inside(s, part, i)
      /\ \A i \in 1 .. b : Inside(u, part, a + i) <=> Inside(t, part, i)
  BY InsideConcat
<1> HIDE DEF u
<1>7. cu \in Seq(Y) /\ Len(cu) = Len(u) /\ \A i \in 1 .. Len(u) : cu[i] = At(u, i)
  <2>1. u \in Seq(X) BY <1>2
  <2>2. QED BY <2>1, CutsType
<1> HIDE DEF cs, ct, cu, Y, a, b
<1>8. cc \in Seq(Y) /\ Len(cc) = a + b /\ \A i \in 1 .. (a + b) : cc[i] = IF i <= a THEN cs[i] ELSE ct[i - a]
  BY <1>3, <1>4, ConcatProperties, ZenonT(60)
<1> HIDE DEF cc
<1>9. ASSUME NEW i \in 1 .. (a + b) PROVE cu[i] = cc[i]
  <2>1. cu[i] = At(u, i) BY <1>2, <1>7
  <2>2. CASE i <= a
    <3>1. i \in 1 .. a BY <1>1, <2>2
    <3>2. At(u, i) = At(s, i) BY <1>2, <1>5, <1>6, <2>2, <3>1
    <3>3. QED BY <1>3, <1>8, <2>1, <2>2, <3>1, <3>2
  <2>3. CASE ~(i <= a)
    <3> DEFINE k == i - a
    <3>1. k \in 1 .. b /\ a + k = i BY <1>1, <2>3
    <3>3. u[i] = t[k] /\ cc[i] = ct[k] BY <1>2, <1>8, <2>3
    <3> HIDE DEF k
    <3>2. At(u, i) = At(t, k) BY <1>5, <1>6, <3>1, <3>3
    <3>4. QED BY <1>4, <2>1, <3>1, <3>2, <3>3
  <2>4. QED BY <2>2, <2>3
<1>10. cu = cc BY <1>1, <1>2, <1>7, <1>8, <1>9, SeqEqual
<1>11. FlattenSeq(cs \o ct) = FlattenSeq(cs) \o FlattenSeq(ct)
  <2>1. cs \in Seq(Seq(X)) /\ ct \in Seq(Seq(X)) BY <1>3, <1>4 DEF Y
  <2>2. QED BY <2>1, FlattenConcat
<1>12. FlattenSeq(cu) = FlattenSeq(cs) \o FlattenSeq(ct) BY <1>10, <1>11 DEF cc
<1>13. QED BY <1>12, ReplaceIsCuts DEF cs, ct, cu, u

\* Nothing to replace.
LEMMA ReplaceNothing ==
  ASSUME NEW X, NEW s \in Seq(X), NEW part, NEW value, Occurrences(s, part) = {}
  PROVE  replace(s, part, value) = s
<1>1. \A i \in DOMAIN s : i \notin Occurrences(s, part) /\ ~Inside(s, part, i) BY DEF Inside
<1>2. Cuts(s, part, value) = Singles(s) BY <1>1 DEF Cuts, Singles
<1>3. QED BY <1>2, FlattenSingles, ReplaceIsCuts

\* A value is a list of characters that begins with one.
LEMMA ReplaceType ==
  ASSUME NEW X, NEW s \in Seq(X), NEW part, NEW value \in Seq(X)
  PROVE  replace(s, part, value) \in Seq(X)
<1>1. Cuts(s, part, value) \in Seq(Seq(X)) BY CutsType
<1> DEFINE c == Cuts(s, part, value)
<1> HIDE DEF c
<1>2. FlattenSeq(c) \in Seq(X) BY <1>1, FlattenType DEF c
<1>3. QED BY <1>2, ReplaceIsCuts DEF c

\* A list whose other members are empty is its first.
LEMMA FlattenFirst ==
  ASSUME NEW X, NEW c \in Seq(Seq(X)), Len(c) >= 1, \A i \in 2 .. Len(c) : c[i] = << >>
  PROVE  FlattenSeq(c) = c[1]
<1> DEFINE n == Len(c)
           F(k) == FlattenSeq(SubSeq(c, 1, k))
           S == {k \in Nat : k + 1 <= n => F(k + 1) = c[1]}
<1>0. n \in Nat /\ n >= 1 OBVIOUS
<1>00. \A i \in 1 .. n : c[i] \in Seq(X) OBVIOUS
<1> HIDE DEF n
<1>1. 0 \in S
  <2>1. F(0) = << >>
    <3>1. SubSeq(c, 1, 0) = << >> BY SubSeqEmpty
    <3>2. QED BY <3>1, FlattenEmpty
  <2>2. F(1) = F(0) \o c[1]
    <3> DEFINE z == 0
    <3>1. z \in Nat /\ z < Len(c) /\ z + 1 = 1 BY <1>0 DEF n
    <3> HIDE DEF z
    <3>2. F(z + 1) = F(z) \o c[z + 1] BY <3>1, FlattenNext
    <3>3. QED BY <3>1, <3>2 DEF z
  <2>3. c[1] \in Seq(X) BY <1>0, <1>00
  <2> DEFINE d == c[1]
  <2> HIDE DEF d
  <2>4. << >> \o d = d BY <2>3 DEF d
  <2>5. F(1) = c[1]
    <3> HIDE DEF F
    <3>1. QED BY <2>1, <2>2, <2>4 DEF d
  <2>6. QED BY <2>5
<1>2. ASSUME NEW k \in Nat, k \in S PROVE k + 1 \in S
  <2> DEFINE j == k + 1
  <2> SUFFICES ASSUME j + 1 <= n PROVE F(j + 1) = c[1] OBVIOUS
  <2>1. j \in Nat /\ j < n /\ j + 1 \in 2 .. n /\ 1 \in 1 .. n BY <1>0
  <2>2. F(j) = c[1] BY <1>0, <1>2, <2>1
  <2> HIDE DEF j
  <2>3. F(j + 1) = F(j) \o c[j + 1] BY <2>1, FlattenNext DEF n
  <2>4. c[j + 1] = << >> BY <2>1 DEF n
  <2> DEFINE d == c[1]
  <2>5. d \in Seq(X) BY <1>00, <2>1
  <2> HIDE DEF d
  <2>6. d \o << >> = d BY <2>5
  <2>7. QED BY <2>2, <2>3, <2>4, <2>6 DEF d
<1> HIDE DEF S
<1>3. Nat \subseteq S BY <1>1, <1>2, SetInduction
<1>4. n - 1 \in Nat /\ (n - 1) + 1 = n BY <1>0
<1>5. n - 1 \in S BY <1>3, <1>4
<1>6. F(n) = c[1] BY <1>4, <1>5 DEF S
<1>7. SubSeq(c, 1, n) = c
  <2> DEFINE Y == Seq(X)
  <2> HIDE DEF Y
  <2>1. c \in Seq(Y) BY DEF Y
  <2>2. QED BY <2>1, SubSeqFull DEF n
<1>8. QED BY <1>6, <1>7

\* A placeholder itself is replaced as a whole.
LEMMA ReplaceWhole ==
  ASSUME NEW X, Digit \cup {"$"} \subseteq X, NEW part, Mark(part), NEW value \in Seq(X)
  PROVE  replace(part, part, value) = value
<1> DEFINE m == Len(part)
           D == Digit \cup {"$"}
           c == Cuts(part, part, value)
<1>0. part \in Seq(D) /\ m \in {2, 3} /\ part[1] = "$" /\ \A j \in 2 .. m : part[j] \in Digit
  BY DEF Mark
<1>1. part \in Seq(X)
  <2> HIDE DEF D
  <2>1. D \subseteq X BY DEF D
  <2>2. QED BY <1>0, <2>1, MoreMembers
<1> HIDE DEF m, D
<1>2. c \in Seq(Seq(X)) /\ Len(c) = m
      /\ \A i \in 1 .. m : c[i] = IF i \in Occurrences(part, part) THEN value
                                  ELSE IF Inside(part, part, i) THEN << >> ELSE << part[i] >>
  BY <1>1, CutsType DEF m
<1>3. 1 \in Occurrences(part, part)
  <2>1. 1 \in 1 .. Len(part) /\ (1 + Len(part)) - 1 <= Len(part) BY <1>0 DEF m
  <2>2. \A j \in 1 .. Len(part) : part[(1 + j) - 1] = part[j]
    <3>1. \A j \in 1 .. m : (1 + j) - 1 = j BY <1>0
    <3>2. QED BY <3>1 DEF m
  <2>3. Len(part) \in {2, 3} BY <1>0 DEF m
  <2>4. QED BY <1>1, <2>1, <2>2, <2>3, OccursAt
<1>4. \A i \in 2 .. m : i \notin Occurrences(part, part)
  <2>1. \A i \in 2 .. m : i \notin 1 .. (m + 1 - m) BY <1>0
  <2>2. QED BY <2>1 DEF Occurrences, m
<1>5. \A i \in 2 .. m : Inside(part, part, i)
  <2>1. \A i \in 2 .. m : 1 < i /\ i < 1 + m BY <1>0
  <2>2. QED BY <1>3, <2>1 DEF Inside, m
<1> HIDE DEF c
<1>6. 1 \in 1 .. m /\ m >= 1 /\ \A i \in 2 .. m : i \in 1 .. m BY <1>0
<1>7. c[1] = value /\ \A i \in 2 .. m : c[i] = << >> BY <1>2, <1>3, <1>4, <1>5, <1>6
<1>8. FlattenSeq(c) = c[1]
  <2>1. c \in Seq(Seq(X)) /\ Len(c) >= 1 /\ \A i \in 2 .. Len(c) : c[i] = << >> BY <1>2, <1>6, <1>7
  <2>2. QED BY <2>1, FlattenFirst
<1>9. QED BY <1>7, <1>8, ReplaceIsCuts DEF c

\* A lower placeholder has no higher one in it.
LEMMA NoOtherPlaceholder ==
  ASSUME NEW k \in 1 .. 99, NEW m \in 1 .. 99, m < k
  PROVE  Occurrences(Placeholder(m), Placeholder(k)) = {}
<1> DEFINE p == Placeholder(m)
           q == Placeholder(k)
<1>1. Mark(p) /\ Mark(q) BY PlaceholderIsMark
<1>2. SUFFICES ASSUME NEW i \in Occurrences(p, q) PROVE FALSE OBVIOUS
<1>3. Figures[1] = "0" /\ Figures[2] = "1" /\ Figures[3] = "2" /\ Figures[4] = "3" /\ Figures[5] = "4"
      /\ Figures[6] = "5" /\ Figures[7] = "6" /\ Figures[8] = "7" /\ Figures[9] = "8" /\ Figures[10] = "9"
  BY DEF Figures
<1>4. \A a, b \in 0 .. 9 : Figures[a + 1] = Figures[b + 1] => a = b
  <2> SUFFICES ASSUME NEW a \in 0 .. 9, NEW b \in 0 .. 9, Figures[a + 1] = Figures[b + 1] PROVE a = b OBVIOUS
  <2>1. \A c \in 0 .. 9 : Value(Figures[c + 1]) = c
    <3> SUFFICES ASSUME NEW c \in 0 .. 9 PROVE Value(Figures[c + 1]) = c OBVIOUS
    <3> DEFINE f == Figures[c + 1]
    <3>1. c = 0 \/ c = 1 \/ c = 2 \/ c = 3 \/ c = 4 \/ c = 5 \/ c = 6 \/ c = 7 \/ c = 8 \/ c = 9 OBVIOUS
    <3>2. f \in Digit BY <3>1 DEF Figures, Digit
    <3>3. Value(f) \in 0 .. 9 /\ Figures[Value(f) + 1] = f BY <3>2, ValueOfDigit
    <3> DEFINE v == Value(f)
    <3> HIDE DEF v
    <3>4. v = 0 \/ v = 1 \/ v = 2 \/ v = 3 \/ v = 4 \/ v = 5 \/ v = 6 \/ v = 7 \/ v = 8 \/ v = 9 BY <3>3 DEF v
    <3>5. Figures[v + 1] = Figures[c + 1] BY <3>3 DEF v
    <3>6. v = c BY <1>3, <3>1, <3>4, <3>5
    <3>7. QED BY <3>6 DEF v
  <2>2. QED BY <2>1
<1>5. Len(p) = (IF m < 10 THEN 2 ELSE 3) /\ Len(q) = (IF k < 10 THEN 2 ELSE 3) BY DEF Placeholder
<1> HIDE DEF p, q
<1>6. /\ i \in 1 .. Len(p) /\ (i + Len(q)) - 1 <= Len(p)
      /\ \A j \in 1 .. Len(q) : p[(i + j) - 1] = q[j]
  BY <1>1, OccursAt DEF Mark
<1>7. i = 1 /\ Len(p) = Len(q) BY <1>5, <1>6
<1>8. \A j \in 1 .. Len(q) : p[j] = q[j]
  <2>1. Len(q) \in Nat BY <1>5
  <2>2. \A j \in 1 .. Len(q) : (i + j) - 1 = j BY <1>7, <2>1
  <2>3. QED BY <1>6, <2>2
<1>9. CASE k < 10
  <2>1. m < 10 /\ Len(q) = 2 BY <1>5, <1>9
  <2>2. p[2] = Figures[m + 1] /\ q[2] = Figures[k + 1] BY <1>9, <2>1 DEF p, q, Placeholder
  <2>3. p[2] = q[2] BY <1>8, <2>1
  <2>4. m \in 0 .. 9 /\ k \in 0 .. 9 BY <1>9
  <2>5. m = k BY <1>4, <2>2, <2>3, <2>4
  <2>6. QED BY <2>5
<1>10. CASE ~(k < 10)
  <2>1. ~(m < 10) /\ Len(q) = 3 BY <1>5, <1>7, <1>10
  <2>2. /\ p[2] = Figures[(m \div 10) + 1] /\ q[2] = Figures[(k \div 10) + 1]
        /\ p[3] = Figures[(m % 10) + 1] /\ q[3] = Figures[(k % 10) + 1]
    BY <1>10, <2>1 DEF p, q, Placeholder
  <2>3. p[2] = q[2] /\ p[3] = q[3] BY <1>8, <2>1
  <2>4. m \div 10 \in 0 .. 9 /\ k \div 10 \in 0 .. 9 /\ m % 10 \in 0 .. 9 /\ k % 10 \in 0 .. 9 BY <1>10, <2>1
  <2>5. m \div 10 = k \div 10 /\ m % 10 = k % 10 BY <1>4, <2>2, <2>3, <2>4
  <2>6. m = 10 * (m \div 10) + (m % 10) /\ k = 10 * (k \div 10) + (k % 10) OBVIOUS
  <2>7. m = k BY <2>5, <2>6
  <2>8. QED BY <2>7
<1>11. QED BY <1>9, <1>10

(***************************************************************************)
(* The text after some turns of render_portal_sql                          *)
(***************************************************************************)

\* What stands at position i of T, with its digits, once the parameters above
\* the k-th have been replaced by their values.
PartAt(T, v, k, i) ==
  IF i > 1 /\ IsDigit(T[i]) THEN << >>
  ELSE IF IsPlaceholder(T, i) /\ NumberAt(T, i) > k THEN v[NumberAt(T, i)]
  ELSE SubSeq(T, i, DigitsEnd(T, i))

Parts(T, v, k) == [i \in 1 .. Len(T) |-> PartAt(T, v, k, i)]

\* The first i of the parts, put together.
Put(T, v, k, i) == FlattenSeq(SubSeq(Parts(T, v, k), 1, i))

\* A statement with n values, which has no placeholder above them.
Bindable(X, T, v, n) ==
  /\ T \in Seq(X) /\ Digit \cup {"$"} \subseteq X /\ Canonical(T) /\ n \in 0 .. 99
  /\ \A m \in 1 .. n : v[m] \in Seq(X) /\ v[m] # << >>
  /\ \A i \in 1 .. Len(T) : T[i] = "$" => NumberAt(T, i) <= n

\* No value that is used has a lower placeholder in it.
Kept(T, v, n) ==
  \A m \in 1 .. n : \A k \in 1 .. (m - 1) :
    Occurrences(T, Placeholder(m)) # {} => Occurrences(v[m], Placeholder(k)) = {}

\* No $ stands directly before a value that begins with a digit.
Unjoined(T, v) ==
  \A i, j \in 1 .. Len(T) :
    ~(T[i] = "$" /\ j = DigitsEnd(T, i) + 1 /\ IsPlaceholder(T, j) /\ IsDigit(v[NumberAt(T, j)][1]))

LEMMA DollarIsNoDigit == "$" \notin Digit
  BY DEF Digit

\* The three kinds of parts.
LEMMA PartIs ==
  ASSUME NEW X, NEW T, NEW v, NEW n, Bindable(X, T, v, n), NEW k \in 0 .. n, NEW i \in 1 .. Len(T)
  PROVE  \/ i > 1 /\ T[i] \in Digit /\ PartAt(T, v, k, i) = << >>
         \/ /\ T[i] = "$" /\ NumberAt(T, i) \in 1 .. n
            /\ SubSeq(T, i, DigitsEnd(T, i)) = Placeholder(NumberAt(T, i))
            /\ PartAt(T, v, k, i) = IF NumberAt(T, i) > k THEN v[NumberAt(T, i)] ELSE Placeholder(NumberAt(T, i))
         \/ /\ i = 1 \/ T[i] \notin Digit
            /\ T[i] = "$" => DigitsEnd(T, i) = i
            /\ ~IsPlaceholder(T, i)
            /\ PartAt(T, v, k, i) = SubSeq(T, i, DigitsEnd(T, i))
<1> DEFINE m == NumberAt(T, i)
<1>1. T \in Seq(X) /\ Canonical(T) /\ n \in Nat /\ n <= 99 /\ (T[i] = "$" => m <= n) BY DEF Bindable
<1>2. T[i] = "$" => /\ m \in Nat
                    /\ m = 0 => DigitsEnd(T, i) = i
                    /\ m \in 1 .. 99 => SubSeq(T, i, DigitsEnd(T, i)) = Placeholder(m)
  BY <1>1, RunIsPlaceholder
<1>3. IsDigit(T[i]) <=> T[i] \in Digit BY DigitsAre
<1>4. i \in Int /\ i >= 1 BY <1>1
<1> HIDE DEF m
<1>5. IsPlaceholder(T, i) <=> T[i] = "$" /\ m > 0 BY DEF IsPlaceholder, m
<1>6. CASE i > 1 /\ T[i] \in Digit BY <1>3, <1>6 DEF PartAt
<1>7. CASE T[i] = "$" /\ m > 0
  <2>0. m \in Nat BY <1>2, <1>7
  <2>1. m \in 1 .. n /\ m \in 1 .. 99 BY <1>1, <1>7, <2>0
  <2>2. SubSeq(T, i, DigitsEnd(T, i)) = Placeholder(m) BY <1>2, <1>7, <2>1
  <2>3. ~IsDigit(T[i]) BY <1>3, <1>7, DollarIsNoDigit
  <2>4. PartAt(T, v, k, i) = IF m > k THEN v[m] ELSE Placeholder(m) BY <1>5, <1>7, <2>2, <2>3 DEF PartAt, m
  <2>5. QED BY <1>7, <2>1, <2>2, <2>4 DEF m
<1>8. CASE ~(i > 1 /\ T[i] \in Digit) /\ ~(T[i] = "$" /\ m > 0)
  <2>1. i = 1 \/ T[i] \notin Digit BY <1>4, <1>8
  <2>2. ASSUME T[i] = "$" PROVE DigitsEnd(T, i) = i
    <3>1. m \in Nat /\ ~(m > 0) BY <1>2, <1>8, <2>2
    <3>2. m = 0 BY <3>1
    <3>3. QED BY <1>2, <2>2, <3>2
  <2>3. PartAt(T, v, k, i) = SubSeq(T, i, DigitsEnd(T, i)) BY <1>3, <1>5, <1>8 DEF PartAt
  <2>4. QED BY <1>5, <1>8, <2>1, <2>2, <2>3
<1>9. QED BY <1>6, <1>7, <1>8

\* A character with the digits behind it.
LEMMA RunIs ==
  ASSUME NEW X, NEW T \in Seq(X), NEW i \in 1 .. Len(T)
  PROVE  /\ SubSeq(T, i, DigitsEnd(T, i)) \in Seq(X)
         /\ Len(SubSeq(T, i, DigitsEnd(T, i))) = (DigitsEnd(T, i) - i) + 1
         /\ Len(SubSeq(T, i, DigitsEnd(T, i))) \in Nat /\ Len(SubSeq(T, i, DigitsEnd(T, i))) >= 1
         /\ SubSeq(T, i, DigitsEnd(T, i))[1] = T[i]
         /\ \A j \in 2 .. Len(SubSeq(T, i, DigitsEnd(T, i))) : SubSeq(T, i, DigitsEnd(T, i))[j] \in Digit
<1> DEFINE e == DigitsEnd(T, i)
           r == SubSeq(T, i, e)
           n == (e - i) + 1
<1>1. e \in i .. Len(T) /\ \A j \in (i + 1) .. e : IsDigit(T[j]) BY DigitsEndIs
<1> HIDE DEF e
<1>2. Len(T) \in Nat OBVIOUS
<1>3. i \in Nat /\ e \in Nat /\ 1 <= i /\ i <= e /\ e <= Len(T) /\ n \in Nat /\ n >= 1 BY <1>1, <1>2
<1>4. r \in Seq(X) /\ Len(r) = n /\ \A j \in 1 .. n : r[j] = T[(i + j) - 1] BY <1>3
<1>5. r[1] = T[i]
  <2>1. 1 \in 1 .. n /\ (i + 1) - 1 = i BY <1>3
  <2> HIDE DEF r, n
  <2>2. QED BY <1>4, <2>1
<1>6. ASSUME NEW j \in 2 .. n PROVE r[j] \in Digit
  <2>1. j \in 1 .. n /\ (i + j) - 1 \in (i + 1) .. e BY <1>3
  <2> HIDE DEF r, n
  <2>2. r[j] = T[(i + j) - 1] BY <1>4, <2>1
  <2>3. IsDigit(T[(i + j) - 1]) BY <1>1, <2>1
  <2>4. QED BY <2>2, <2>3, DigitsAre
<1> HIDE DEF n
<1>7. QED BY <1>3, <1>4, <1>5, <1>6 DEF r, e, n

\* A part is a list of characters.
LEMMA PartType ==
  ASSUME NEW X, NEW T, NEW v, NEW n, Bindable(X, T, v, n), NEW k \in 0 .. n, NEW i \in 1 .. Len(T)
  PROVE  PartAt(T, v, k, i) \in Seq(X)
<1>1. T \in Seq(X) /\ \A m \in 1 .. n : v[m] \in Seq(X) BY DEF Bindable
<1>2. SubSeq(T, i, DigitsEnd(T, i)) \in Seq(X) BY <1>1, RunIs
<1>3. << >> \in Seq(X) BY EmptySeq
<1> DEFINE p == PartAt(T, v, k, i)
           m == NumberAt(T, i)
           r == SubSeq(T, i, DigitsEnd(T, i))
<1>4. p = << >> \/ (m \in 1 .. n /\ r = Placeholder(m) /\ p = IF m > k THEN v[m] ELSE Placeholder(m)) \/ p = r
  BY PartIs
<1>5. r \in Seq(X) BY <1>2
<1> HIDE DEF p, m, r
<1>6. p = << >> \/ (m \in 1 .. n /\ p = v[m]) \/ p = r BY <1>4
<1>7. p \in Seq(X) BY <1>1, <1>3, <1>5, <1>6
<1>8. QED BY <1>7 DEF p

\* The parts, one more at a time.
LEMMA PutNext ==
  ASSUME NEW X, NEW T, NEW v, NEW n, Bindable(X, T, v, n), NEW k \in 0 .. n, NEW i \in Nat, i < Len(T)
  PROVE  /\ Put(T, v, k, i) \in Seq(X) /\ PartAt(T, v, k, i + 1) \in Seq(X)
         /\ Put(T, v, k, i + 1) = Put(T, v, k, i) \o PartAt(T, v, k, i + 1)
<1> DEFINE s == Parts(T, v, k)
           Y == Seq(X)
<1>1. \A j \in 1 .. Len(T) : PartAt(T, v, k, j) \in Y BY PartType
<1>2. T \in Seq(X) BY DEF Bindable
<1>3. Len(T) \in Nat BY <1>2
<1>4. s = [j \in 1 .. Len(T) |-> PartAt(T, v, k, j)] BY DEF Parts
<1> HIDE DEF s, Y
<1>5. s \in Seq(Y) /\ Len(s) = Len(T) BY <1>1, <1>3, <1>4
<1>6. i + 1 \in 1 .. Len(T) BY <1>3
<1>7. s[i + 1] = PartAt(T, v, k, i + 1) BY <1>4, <1>6
<1>8. /\ FlattenSeq(SubSeq(s, 1, i)) \in Seq(X)
      /\ FlattenSeq(SubSeq(s, 1, i + 1)) = FlattenSeq(SubSeq(s, 1, i)) \o s[i + 1]
  <2>1. s \in Seq(Seq(X)) /\ i < Len(s) BY <1>5 DEF Y
  <2>2. QED BY <2>1, FlattenNext
<1>9. PartAt(T, v, k, i + 1) \in Seq(X) BY <1>1, <1>6 DEF Y
<1>10. QED BY <1>7, <1>8, <1>9 DEF Put, s

\* No parts are nothing.
LEMMA PutNone == \A T, v, k : Put(T, v, k, 0) = << >>
<1> SUFFICES ASSUME NEW T, NEW v, NEW k PROVE Put(T, v, k, 0) = << >> OBVIOUS
<1>1. SubSeq(Parts(T, v, k), 1, 0) = << >> BY SubSeqEmpty
<1>2. QED BY <1>1, FlattenEmpty DEF Put

\* Only behind a $ and its digits does the text so far end in a $ and digits.
LEMMA OpenInText ==
  ASSUME NEW X, NEW T, NEW v, NEW n, Bindable(X, T, v, n), NEW k \in 0 .. n, NEW i \in 0 .. Len(T),
         Open(Put(T, v, k, i))
  PROVE  \E p \in 1 .. i : T[p] = "$" /\ \A q \in (p + 1) .. i : T[q] \in Digit
<1> DEFINE Behind(j) == \E p \in 1 .. j : T[p] = "$" /\ \A q \in (p + 1) .. j : T[q] \in Digit
           P(j) == Put(T, v, k, j)
           S == {j \in Nat : j <= Len(T) /\ Open(P(j)) => Behind(j)}
<1>0. T \in Seq(X) BY DEF Bindable
<1>00. Len(T) \in Nat BY <1>0
<1>1. 0 \in S
  <2>1. P(0) = << >> BY PutNone
  <2>2. ~Open(<< >>) BY DEF Open
  <2>3. QED BY <2>1, <2>2
<1>2. ASSUME NEW j \in Nat, j \in S PROVE j + 1 \in S
  <2> DEFINE m == j + 1
             part == PartAt(T, v, k, m)
             a == P(j)
             u == a \o part
  <2> SUFFICES ASSUME m <= Len(T), Open(P(m)) PROVE Behind(m) OBVIOUS
  <2>1. m \in 1 .. Len(T) /\ j < Len(T) /\ m \in Nat BY <1>00
  <2>2. a \in Seq(X) /\ part \in Seq(X) /\ P(m) = u BY <2>1, PutNext
  <2>3. CASE T[m] = "$"
    <3>1. m \in 1 .. m /\ \A q \in (m + 1) .. m : FALSE BY <2>1
    <3>2. QED BY <2>3, <3>1
  <2>4. CASE m > 1 /\ T[m] \in Digit /\ part = << >>
    <3> HIDE DEF a
    <3>1. a \o << >> = a BY <2>2
    <3>2. P(m) = a BY <2>2, <2>4, <3>1
    <3>3. Behind(j) BY <1>2, <2>1, <3>2 DEF a
    <3>4. PICK p \in 1 .. j : T[p] = "$" /\ \A q \in (p + 1) .. j : T[q] \in Digit BY <3>3
    <3>5. p \in 1 .. m /\ \A q \in (p + 1) .. m : q = m \/ q \in (p + 1) .. j BY <2>1
    <3>6. \A q \in (p + 1) .. m : T[q] \in Digit BY <2>4, <3>4, <3>5
    <3>7. QED BY <3>4, <3>5, <3>6
  <2>5. CASE (m = 1 \/ T[m] \notin Digit) /\ T[m] # "$" /\ part = SubSeq(T, m, DigitsEnd(T, m))
    <3>1. Len(part) \in Nat /\ Len(part) >= 1 /\ part[1] = T[m] /\ \A l \in 2 .. Len(part) : part[l] \in Digit
      <4> DEFINE r == SubSeq(T, m, DigitsEnd(T, m))
      <4>1. m \in 1 .. Len(T) BY <2>1
      <4> HIDE DEF m
      <4>2. Len(r) \in Nat /\ Len(r) >= 1 /\ r[1] = T[m] /\ \A l \in 2 .. Len(r) : r[l] \in Digit BY <1>0, <4>1, RunIs
      <4>3. part = r BY <2>5
      <4> HIDE DEF part, r
      <4>4. QED BY <4>2, <4>3
    <3>2. PICK p \in 1 .. Len(u) : u[p] = "$" /\ \A q \in (p + 1) .. Len(u) : u[q] \in Digit BY <2>2 DEF Open
    <3> DEFINE b == Len(a)
               c == Len(part)
    <3>3. b \in Nat /\ c \in Nat /\ c >= 1 /\ Len(u) = b + c BY <2>2, <3>1
    <3>4. \A l \in 1 .. (b + c) : u[l] = IF l <= b THEN a[l] ELSE part[l - b] BY <2>2, ConcatProperties
    <3>5. CASE p <= b
      <4>1. b # 0 BY <3>2, <3>3, <3>5
      <4>2. m # 1
        <5> SUFFICES ASSUME m = 1 PROVE FALSE OBVIOUS
        <5>1. j = 0 BY <2>1
        <5>2. a = << >> BY <5>1, PutNone
        <5>3. QED BY <4>1, <5>2
      <4>3. T[m] \notin Digit BY <2>5, <4>2
      <4> HIDE DEF u, b, c, part, m
      <4>4. b + 1 \in (p + 1) .. (b + c) /\ b + 1 \in 1 .. (b + c) /\ ~(b + 1 <= b) /\ (b + 1) - b = 1 BY <3>2, <3>3, <3>5
      <4>5. u[b + 1] \in Digit BY <3>2, <3>3, <4>4
      <4>6. u[b + 1] = part[1] BY <3>4, <4>4
      <4>7. QED BY <3>1, <4>3, <4>5, <4>6
    <3>6. CASE ~(p <= b)
      <4> DEFINE l == p - b
      <4> HIDE DEF u, b, c, part, m
      <4>1. l \in 1 .. c /\ p \in 1 .. (b + c) BY <3>2, <3>3, <3>6
      <4>2. u[p] = part[l] BY <3>4, <3>6, <4>1
      <4>3. part[l] = "$" BY <3>2, <4>2
      <4>4. l = 1 \/ l \in 2 .. c BY <3>3, <4>1
      <4>5. part[l] = T[m] \/ part[l] \in Digit BY <3>1, <4>4 DEF c
      <4>6. QED BY <2>5, <4>3, <4>5, DollarIsNoDigit
    <3>7. QED BY <3>5, <3>6
  <2>6. QED
    <3>0. m \in 1 .. Len(T) BY <2>1
    <3> HIDE DEF m
    <3>1. \/ m > 1 /\ T[m] \in Digit /\ part = << >>
          \/ T[m] = "$"
          \/ (m = 1 \/ T[m] \notin Digit) /\ part = SubSeq(T, m, DigitsEnd(T, m))
      BY <3>0, PartIs
    <3>2. QED BY <2>3, <2>4, <2>5, <3>1
<1> HIDE DEF S
<1>3. Nat \subseteq S BY <1>1, <1>2, SetInduction
<1>4. i \in Nat /\ i <= Len(T) BY <1>00
<1>5. i \in S BY <1>3, <1>4
<1>6. QED BY <1>4, <1>5 DEF S

\* No placeholder begins in the text so far and ends in the next part.
LEMMA PartsApart ==
  ASSUME NEW X, NEW T, NEW v, NEW n, Bindable(X, T, v, n), Unjoined(T, v),
         NEW k \in 0 .. n, NEW i \in Nat, i < Len(T)
  PROVE  Apart(Put(T, v, k, i), PartAt(T, v, k, i + 1))
<1> DEFINE j == i + 1
           part == PartAt(T, v, k, j)
           m == NumberAt(T, j)
           run == SubSeq(T, j, DigitsEnd(T, j))
<1>0. T \in Seq(X) /\ \A l \in 1 .. n : v[l] \in Seq(X) /\ v[l] # << >> BY DEF Bindable
<1>1. Len(T) \in Nat BY <1>0
<1>2. j \in 1 .. Len(T) /\ j \in Nat /\ i \in 0 .. Len(T) BY <1>1
<1>3. \/ j > 1 /\ T[j] \in Digit /\ part = << >>
      \/ T[j] = "$" /\ m \in 1 .. n /\ run = Placeholder(m) /\ part = IF m > k THEN v[m] ELSE Placeholder(m)
      \/ (j = 1 \/ T[j] \notin Digit) /\ part = run
  BY <1>2, PartIs
<1>4. run[1] = T[j] BY <1>0, <1>2, RunIs
<1>5. CASE part = << >> BY <1>5 DEF Apart
<1>6. CASE j = 1
  <2>1. i = 0 BY <1>6
  <2>2. Put(T, v, k, i) = << >> BY <2>1, PutNone
  <2>3. ~Open(<< >>) BY DEF Open
  <2>4. QED BY <2>2, <2>3 DEF Apart
<1>7. CASE part = run /\ T[j] \notin Digit
  <2>1. part[1] \notin Digit BY <1>4, <1>7
  <2>2. QED BY <2>1 DEF Apart
<1>8. CASE T[j] = "$" /\ m \in 1 .. n /\ part = v[m]
  <2>1. SUFFICES ASSUME Open(Put(T, v, k, i)), part[1] \in Digit PROVE FALSE BY DEF Apart
  <2>2. PICK p \in 1 .. i : T[p] = "$" /\ \A q \in (p + 1) .. i : T[q] \in Digit BY <1>2, <2>1, OpenInText
  <2>3. DigitsEnd(T, p) = i
    <3>1. p \in 1 .. Len(T) /\ i \in p .. Len(T) BY <1>1, <1>2, <2>2
    <3>2. \A q \in (p + 1) .. i : IsDigit(T[q]) BY <2>2, DigitsAre
    <3>3. ~IsDigit(T[i + 1]) BY <1>8, DigitsAre, DollarIsNoDigit
    <3>4. QED BY <1>0, <3>1, <3>2, <3>3, DigitsEndAt
  <2>4. p \in 1 .. Len(T) BY <1>1, <1>2
  <2>5. IsPlaceholder(T, j)
    <3>1. n \in Nat BY DEF Bindable
    <3>2. m > 0 BY <1>8, <3>1
    <3>3. QED BY <1>8, <3>2 DEF IsPlaceholder
  <2>6. IsDigit(v[m][1]) BY <1>8, <2>1, DigitsAre
  <2>7. QED BY <1>2, <2>2, <2>3, <2>4, <2>5, <2>6 DEF Unjoined
<1>9. CASE T[j] = "$" /\ part = run
  <2>1. QED BY <1>7, <1>9, DollarIsNoDigit
<1> HIDE DEF part, run, m, j
<1>10. QED BY <1>3, <1>5, <1>6, <1>7, <1>8, <1>9 DEF j, part

\* One turn replaces one placeholder, in each part.
LEMMA PartReplaced ==
  ASSUME NEW X, NEW T, NEW v, NEW n, Bindable(X, T, v, n), Kept(T, v, n),
         NEW k \in 1 .. n, NEW i \in 1 .. Len(T)
  PROVE  replace(PartAt(T, v, k, i), Placeholder(k), v[k]) = PartAt(T, v, k - 1, i)
<1> DEFINE m == NumberAt(T, i)
           run == SubSeq(T, i, DigitsEnd(T, i))
           P == Placeholder(k)
           old == PartAt(T, v, k, i)
           new == PartAt(T, v, k - 1, i)
<1>0. /\ T \in Seq(X) /\ Digit \cup {"$"} \subseteq X /\ n \in 0 .. 99
      /\ \A l \in 1 .. n : v[l] \in Seq(X) /\ v[l] # << >>
  BY DEF Bindable
<1>01. n \in 0 .. 99 BY <1>0
<1>1. k \in 1 .. 99 /\ k \in 0 .. n /\ k - 1 \in 0 .. n /\ k \in Nat /\ n \in Nat BY <1>01
<1>2. Mark(P) BY <1>1, PlaceholderIsMark
<1>3. v[k] \in Seq(X) BY <1>0
<1>4. old \in Seq(X) BY <1>1, PartType
<1>5. \/ i > 1 /\ T[i] \in Digit /\ old = << >>
      \/ T[i] = "$" /\ m \in 1 .. n /\ run = Placeholder(m) /\ old = IF m > k THEN v[m] ELSE Placeholder(m)
      \/ (i = 1 \/ T[i] \notin Digit) /\ (T[i] = "$" => DigitsEnd(T, i) = i) /\ ~IsPlaceholder(T, i) /\ old = run
  BY <1>1, PartIs, SMTT(60)
<1>51. \/ i > 1 /\ T[i] \in Digit /\ new = << >>
       \/ T[i] = "$" /\ m \in 1 .. n /\ new = IF m > k - 1 THEN v[m] ELSE Placeholder(m)
       \/ (i = 1 \/ T[i] \notin Digit) /\ ~IsPlaceholder(T, i) /\ new = run
  <2> DEFINE l == k - 1
  <2>1. l \in 0 .. n BY <1>1
  <2> HIDE DEF l
  <2>2. \/ i > 1 /\ T[i] \in Digit /\ PartAt(T, v, l, i) = << >>
        \/ T[i] = "$" /\ m \in 1 .. n /\ PartAt(T, v, l, i) = IF m > l THEN v[m] ELSE Placeholder(m)
        \/ (i = 1 \/ T[i] \notin Digit) /\ ~IsPlaceholder(T, i) /\ PartAt(T, v, l, i) = run
    BY <2>1, PartIs
  <2>3. QED BY <2>2 DEF l
<1>52. IsPlaceholder(T, i) <=> T[i] = "$" /\ m > 0 BY DEF IsPlaceholder
<1>53. \A l \in 1 .. n : l \in Nat /\ l > 0 BY <1>1
<1>6. ASSUME Occurrences(old, P) = {}, new = old PROVE replace(old, P, v[k]) = new
  BY <1>4, <1>6, ReplaceNothing
<1>7. CASE i > 1 /\ T[i] \in Digit
  <2>1. T[i] # "$" /\ i # 1 BY <1>7, DollarIsNoDigit
  <2>2. old = << >> /\ new = << >> BY <1>5, <1>51, <1>7, <2>1
  <2>3. Occurrences(<< >>, P) = {}
    <3>1. Len(P) \in {2, 3} BY <1>2 DEF Mark
    <3>2. Len(<< >>) = 0 OBVIOUS
    <3>3. 1 .. (0 + 1 - Len(P)) = {} BY <3>1
    <3>4. QED BY <3>2, <3>3 DEF Occurrences
  <2>4. QED BY <1>6, <2>2, <2>3
<1>8. CASE T[i] = "$" /\ m \in 1 .. n
  <2>1. T[i] \notin Digit /\ IsPlaceholder(T, i) BY <1>8, <1>52, <1>53, DollarIsNoDigit
  <2>2. /\ run = Placeholder(m) /\ old = IF m > k THEN v[m] ELSE Placeholder(m)
        /\ new = IF m > k - 1 THEN v[m] ELSE Placeholder(m)
    BY <1>5, <1>51, <2>1
  <2>3. m \in 1 .. 99 /\ m \in Nat
    <3>1. m \in 1 .. n BY <1>8
    <3> HIDE DEF m
    <3>2. QED BY <1>01, <3>1
  <2>4. CASE m > k
    <3>1. old = v[m] /\ new = v[m] BY <1>1, <2>2, <2>3, <2>4
    <3>2. Occurrences(T, Placeholder(m)) # {}
      <4> DEFINE e == DigitsEnd(T, i)
                 q == Placeholder(m)
      <4>1. e \in i .. Len(T) BY <1>0, DigitsEndIs
      <4>2. Len(T) \in Nat BY <1>0
      <4>3. Len(run) = (e - i) + 1 BY <1>0, RunIs
      <4>4. run = q BY <2>2
      <4>5. Len(q) = (e - i) + 1 BY <4>3, <4>4
      <4> HIDE DEF q, e
      <4>6. i \in 1 .. (Len(T) + 1 - Len(q)) /\ (i + Len(q)) - 1 = e BY <4>1, <4>2, <4>5
      <4>7. SubSeq(T, i, (i + Len(q)) - 1) = q BY <4>4, <4>6 DEF e
      <4>8. i \in Occurrences(T, q) BY <4>6, <4>7 DEF Occurrences
      <4>9. QED BY <4>8 DEF q
    <3>3. k \in 1 .. (m - 1) BY <1>1, <2>3, <2>4
    <3>4. Occurrences(v[m], P) = {} BY <1>8, <3>2, <3>3 DEF Kept
    <3>5. QED BY <1>6, <3>1, <3>4
  <2>5. CASE m = k
    <3>1. old = P /\ new = v[k] BY <1>1, <2>2, <2>5
    <3>2. QED BY <1>0, <1>2, <1>3, <3>1, ReplaceWhole
  <2>6. CASE m < k
    <3>1. old = Placeholder(m) /\ new = old BY <1>1, <2>2, <2>3, <2>6
    <3>2. Occurrences(old, P) = {} BY <1>1, <2>3, <2>6, <3>1, NoOtherPlaceholder
    <3>3. QED BY <1>6, <3>1, <3>2
  <2>7. QED BY <1>1, <2>3, <2>4, <2>5, <2>6
<1>9. CASE ~(i > 1 /\ T[i] \in Digit) /\ ~(T[i] = "$" /\ m \in 1 .. n)
  <2>1. old = run /\ new = run /\ (T[i] = "$" => DigitsEnd(T, i) = i) BY <1>5, <1>51, <1>9
  <2>2. /\ Len(run) \in Nat /\ Len(run) = (DigitsEnd(T, i) - i) + 1
        /\ run[1] = T[i] /\ \A j \in 2 .. Len(run) : run[j] \in Digit /\ run \in Seq(X)
    BY <1>0, RunIs
  <2>3. ASSUME NEW j \in Occurrences(run, P) PROVE FALSE
    <3> HIDE DEF run, P
    <3>0. run \in Seq(X) BY <1>4, <2>1
    <3>1. /\ j \in 1 .. Len(run) /\ (j + Len(P)) - 1 <= Len(run)
          /\ \A l \in 1 .. Len(P) : run[(j + l) - 1] = P[l]
      BY <1>2, <2>3, <3>0, OccursAt DEF Mark
    <3>2. Len(P) \in {2, 3} /\ P[1] = "$" BY <1>2 DEF Mark
    <3>3. run[j] = "$"
      <4>1. 1 \in 1 .. Len(P) /\ (j + 1) - 1 = j BY <2>2, <3>1, <3>2
      <4>2. QED BY <3>1, <3>2, <4>1
    <3>4. j = 1
      <4>1. j = 1 \/ j \in 2 .. Len(run) BY <2>2, <3>1
      <4>2. QED BY <2>2, <3>3, <4>1, DollarIsNoDigit
    <3>5. DigitsEnd(T, i) = i BY <2>1, <2>2, <3>3, <3>4
    <3>6. Len(run) = 1
      <4>1. i \in Nat BY <1>0
      <4>2. QED BY <2>2, <3>5, <4>1
    <3>7. QED BY <3>1, <3>2, <3>4, <3>6
  <2>4. QED BY <1>6, <2>1, <2>3
<1>10. QED BY <1>7, <1>8, <1>9

\* ... and in all the text.
LEMMA PutReplaced ==
  ASSUME NEW X, NEW T, NEW v, NEW n, Bindable(X, T, v, n), Kept(T, v, n), Unjoined(T, v),
         NEW k \in 1 .. n, NEW i \in 0 .. Len(T)
  PROVE  replace(Put(T, v, k, i), Placeholder(k), v[k]) = Put(T, v, k - 1, i)
<1> DEFINE P == Placeholder(k)
           l == k - 1
           S == {j \in Nat : j <= Len(T) => replace(Put(T, v, k, j), P, v[k]) = Put(T, v, l, j)}
<1>0. T \in Seq(X) /\ n \in 0 .. 99 /\ \A m \in 1 .. n : v[m] \in Seq(X) /\ v[m] # << >> BY DEF Bindable
<1>00. Len(T) \in Nat BY <1>0
<1>1. k \in 1 .. 99 /\ k \in 0 .. n /\ l \in 0 .. n BY <1>0
<1>2. Mark(P) BY <1>1, PlaceholderIsMark
<1>3. v[k] \in Seq(X) BY <1>0
<1>4. 0 \in S
  <2>1. Put(T, v, k, 0) = << >> /\ Put(T, v, l, 0) = << >> BY PutNone
  <2>2. Occurrences(<< >>, P) = {}
    <3>1. Len(P) \in {2, 3} BY <1>2 DEF Mark
    <3>2. Len(<< >>) = 0 OBVIOUS
    <3>3. 1 .. (0 + 1 - Len(P)) = {} BY <3>1
    <3>4. QED BY <3>2, <3>3 DEF Occurrences
  <2>3. << >> \in Seq(X) BY EmptySeq
  <2>4. replace(<< >>, P, v[k]) = << >> BY <2>2, <2>3, ReplaceNothing
  <2>5. QED BY <2>1, <2>4
<1>5. ASSUME NEW j \in Nat, j \in S PROVE j + 1 \in S
  <2> DEFINE a == Put(T, v, k, j)
             p == PartAt(T, v, k, j + 1)
             val == v[k]
  <2> SUFFICES ASSUME j + 1 <= Len(T) PROVE replace(Put(T, v, k, j + 1), P, v[k]) = Put(T, v, l, j + 1) OBVIOUS
  <2>1. j < Len(T) /\ j <= Len(T) /\ j + 1 \in 1 .. Len(T) BY <1>00
  <2>2. a \in Seq(X) /\ p \in Seq(X) /\ Put(T, v, k, j + 1) = a \o p BY <1>1, <2>1, PutNext
  <2>3. Put(T, v, l, j + 1) = Put(T, v, l, j) \o PartAt(T, v, l, j + 1)
    <3> HIDE DEF l
    <3>1. QED BY <1>1, <2>1, PutNext
  <2>4. Apart(a, p) BY <1>1, <2>1, PartsApart
  <2>5. replace(p, P, v[k]) = PartAt(T, v, l, j + 1)
    <3> DEFINE q == j + 1
    <3>1. q \in 1 .. Len(T) BY <2>1
    <3> HIDE DEF q
    <3>2. replace(PartAt(T, v, k, q), P, v[k]) = PartAt(T, v, l, q) BY <3>1, PartReplaced
    <3>3. QED BY <3>2 DEF q
  <2>6. replace(a, P, v[k]) = Put(T, v, l, j) BY <1>5, <2>1
  <2> HIDE DEF a, p, P, l, val
  <2>7. replace(a \o p, P, val) = replace(a, P, val) \o replace(p, P, val)
    <3>1. val \in Seq(X) BY <1>3 DEF val
    <3>2. QED BY <1>2, <2>2, <2>4, <3>1, ReplaceConcat
  <2>8. QED BY <2>2, <2>3, <2>5, <2>6, <2>7 DEF val
<1> HIDE DEF S
<1>6. Nat \subseteq S BY <1>4, <1>5, SetInduction
<1>7. i \in Nat /\ i <= Len(T) BY <1>00
<1>8. i \in S BY <1>6, <1>7
<1>9. QED BY <1>7, <1>8 DEF S

\* The beginning of a list and what comes behind it.
LEMMA BeginningAndRest ==
  ASSUME NEW X, NEW s \in Seq(X), NEW a \in Nat, NEW b \in Nat, a < b, b <= Len(s)
  PROVE  SubSeq(s, 1, a) \o SubSeq(s, a + 1, b) = SubSeq(s, 1, b)
<1> DEFINE p == SubSeq(s, 1, a)
           q == SubSeq(s, a + 1, b)
           r == SubSeq(s, 1, b)
           c == a + 1
           u == p \o q
<1>1. Len(s) \in Nat /\ c \in Nat /\ 1 <= c /\ c <= b /\ (b - c) + 1 = b - a OBVIOUS
<1>2. p \in Seq(X) /\ Len(p) = a /\ \A i \in 1 .. a : p[i] = s[i]
  <2>1. CASE a = 0
    <3>1. p = << >> BY <2>1, SubSeqEmpty
    <3>2. QED BY <2>1, <3>1, EmptySeq
  <2>2. CASE a # 0 BY <1>1, <2>2
  <2>3. QED BY <2>1, <2>2
<1>3. q \in Seq(X) /\ Len(q) = b - a /\ \A i \in 1 .. (b - a) : q[i] = s[a + i]
  <2>1. \A i \in 1 .. (b - a) : (c + i) - 1 = a + i BY <1>1
  <2> HIDE DEF c
  <2>2. SubSeq(s, c, b) \in Seq(X) /\ Len(SubSeq(s, c, b)) = (b - c) + 1
        /\ \A i \in 1 .. ((b - c) + 1) : SubSeq(s, c, b)[i] = s[(c + i) - 1] BY <1>1
  <2>3. QED BY <1>1, <2>1, <2>2 DEF c
<1>4. r \in Seq(X) /\ Len(r) = b /\ \A i \in 1 .. b : r[i] = s[i] BY <1>1
<1> HIDE DEF p, q, r
<1>5. u \in Seq(X) /\ Len(u) = Len(p) + Len(q) /\ \A i \in 1 .. (Len(p) + Len(q)) : u[i] = IF i <= Len(p) THEN p[i] ELSE q[i - Len(p)]
  BY <1>2, <1>3, ConcatProperties
<1>6. Len(u) = b BY <1>2, <1>3, <1>5
<1>7. ASSUME NEW i \in 1 .. b PROVE u[i] = r[i]
  <2>0. i \in 1 .. (Len(p) + Len(q)) BY <1>2, <1>3, <1>5, <1>6
  <2>1. CASE i <= a
    <3>1. i \in 1 .. a BY <2>1
    <3>2. u[i] = p[i] BY <1>2, <1>5, <2>0, <2>1
    <3>3. QED BY <1>2, <1>4, <3>1, <3>2
  <2>2. CASE ~(i <= a)
    <3> DEFINE j == i - a
    <3>1. j \in 1 .. (b - a) /\ a + j = i BY <2>2
    <3>2. u[i] = q[j] BY <1>2, <1>5, <2>0, <2>2
    <3> HIDE DEF j
    <3>3. q[j] = s[i] BY <1>3, <3>1
    <3>4. QED BY <1>4, <3>2, <3>3
  <2>3. QED BY <2>1, <2>2
<1> HIDE DEF u
<1>8. u = r BY <1>4, <1>5, <1>6, <1>7, SeqEqual
<1>9. QED BY <1>8 DEF u, p, q, r

\* The parts before any parameter has been replaced.
LEMMA PartUnbound ==
  ASSUME NEW X, NEW T, NEW v, NEW n, Bindable(X, T, v, n), NEW i \in 1 .. Len(T)
  PROVE  PartAt(T, v, n, i) = IF i > 1 /\ T[i] \in Digit THEN << >> ELSE SubSeq(T, i, DigitsEnd(T, i))
<1> DEFINE m == NumberAt(T, i)
           p == PartAt(T, v, n, i)
           run == SubSeq(T, i, DigitsEnd(T, i))
<1>0. n \in Nat BY DEF Bindable
<1>1. n \in 0 .. n BY <1>0
<1>2. \/ i > 1 /\ T[i] \in Digit /\ p = << >>
      \/ T[i] = "$" /\ m \in 1 .. n /\ run = Placeholder(m) /\ p = IF m > n THEN v[m] ELSE Placeholder(m)
      \/ (i = 1 \/ T[i] \notin Digit) /\ p = run
  BY <1>1, PartIs
<1> HIDE DEF m, p, run
<1>3. \A l \in 1 .. n : ~(l > n) BY <1>0
<1>4. \/ i > 1 /\ T[i] \in Digit /\ p = << >>
      \/ T[i] = "$" /\ p = run
      \/ (i = 1 \/ T[i] \notin Digit) /\ p = run
  BY <1>2, <1>3
<1>5. T \in Seq(X) BY DEF Bindable
<1>6. i \in Nat BY <1>5
<1>7. i = 1 => ~(i > 1) OBVIOUS
<1>8. QED BY <1>4, <1>7, DollarIsNoDigit DEF p, run

\* Put together they are the beginning of the text, up to the digits behind.
LEMMA PutUnbound ==
  ASSUME NEW X, NEW T, NEW v, NEW n, Bindable(X, T, v, n), NEW i \in 1 .. Len(T)
  PROVE  Put(T, v, n, i) = SubSeq(T, 1, DigitsEnd(T, i))
<1> DEFINE E(j) == DigitsEnd(T, j)
           P(j) == Put(T, v, n, j)
           S == {j \in Nat : j + 1 <= Len(T) => P(j + 1) = SubSeq(T, 1, E(j + 1))}
<1>0. T \in Seq(X) BY DEF Bindable
<1>00. n \in Nat BY DEF Bindable
<1>1. Len(T) \in Nat /\ n \in 0 .. n BY <1>0, <1>00
<1>2. 0 \in S
  <2> SUFFICES ASSUME 1 <= Len(T) PROVE P(1) = SubSeq(T, 1, E(1)) OBVIOUS
  <2> DEFINE z == 0
             p == PartAt(T, v, n, 1)
  <2>1. z \in Nat /\ z < Len(T) /\ z + 1 = 1 /\ 1 \in 1 .. Len(T) BY <1>1
  <2>2. P(z) = << >> BY PutNone
  <2> HIDE DEF z
  <2>3. P(z + 1) = P(z) \o PartAt(T, v, n, z + 1) /\ PartAt(T, v, n, z + 1) \in Seq(X) BY <1>1, <2>1, PutNext
  <2>4. p = SubSeq(T, 1, E(1)) BY <2>1, PartUnbound
  <2>5. p \in Seq(X) BY <2>1, <2>3
  <2> HIDE DEF p
  <2>6. << >> \o p = p BY <2>5
  <2>7. QED BY <2>1, <2>2, <2>3, <2>4, <2>6 DEF p
<1>3. ASSUME NEW l \in Nat, l \in S PROVE l + 1 \in S
  <2> DEFINE j == l + 1
             m == j + 1
             p == PartAt(T, v, n, m)
  <2> SUFFICES ASSUME m <= Len(T) PROVE P(m) = SubSeq(T, 1, E(m)) OBVIOUS
  <2>1. j \in Nat /\ j < Len(T) /\ j \in 1 .. Len(T) /\ m \in 1 .. Len(T) /\ m > 1 /\ m \in Nat BY <1>1
  <2>2. P(j) = SubSeq(T, 1, E(j)) BY <1>3, <2>1
  <2> HIDE DEF j
  <2>3. P(m) = P(j) \o p /\ P(j) \in Seq(X) BY <1>1, <2>1, PutNext, ZenonT(60)
  <2>4. p = IF T[m] \in Digit THEN << >> ELSE SubSeq(T, m, E(m)) BY <2>1, PartUnbound
  <2>5. E(m) \in m .. Len(T) /\ (\A q \in (m + 1) .. E(m) : IsDigit(T[q])) /\ (E(m) < Len(T) => ~IsDigit(T[E(m) + 1]))
    BY <1>0, <2>1, DigitsEndIs
  <2> DEFINE e == E(m)
  <2>6. e \in m .. Len(T) /\ (\A q \in (m + 1) .. e : IsDigit(T[q])) /\ (e < Len(T) => ~IsDigit(T[e + 1])) BY <2>5
  <2> HIDE DEF e, p, m
  <2>7. m = j + 1 BY DEF m
  <2>8. e \in Nat /\ m <= e /\ e <= Len(T) BY <1>1, <2>1, <2>6
  <2>9. CASE T[m] \in Digit
    <3>1. e \in j .. Len(T) BY <2>1, <2>7, <2>8
    <3>2. \A q \in (j + 1) .. e : q = m \/ q \in (m + 1) .. e BY <2>1, <2>7, <2>8
    <3>3. \A q \in (j + 1) .. e : IsDigit(T[q]) BY <2>6, <2>9, <3>2, DigitsAre
    <3>4. E(j) = e BY <1>0, <2>1, <2>6, <3>1, <3>3, DigitsEndAt
    <3> DEFINE b == P(j)
    <3>5. b \in Seq(X) BY <2>3
    <3> HIDE DEF b
    <3>6. b \o << >> = b BY <3>5
    <3>7. P(m) = P(j) BY <2>3, <2>4, <2>9, <3>6 DEF b
    <3>8. QED BY <2>2, <3>4, <3>7 DEF e
  <2>10. CASE T[m] \notin Digit
    <3>1. j \in j .. Len(T) /\ \A q \in (j + 1) .. j : FALSE BY <1>1, <2>1
    <3>2. ~IsDigit(T[j + 1]) BY <2>7, <2>10, DigitsAre
    <3>3. E(j) = j BY <1>0, <2>1, <3>1, <3>2, DigitsEndAt
    <3>4. P(m) = SubSeq(T, 1, j) \o SubSeq(T, j + 1, e) BY <2>2, <2>3, <2>4, <2>7, <2>10, <3>3 DEF e
    <3>5. j < e BY <2>1, <2>7, <2>8
    <3>6. SubSeq(T, 1, j) \o SubSeq(T, j + 1, e) = SubSeq(T, 1, e) BY <1>0, <2>1, <2>8, <3>5, BeginningAndRest
    <3>7. QED BY <3>4, <3>6 DEF e
  <2>11. QED BY <2>9, <2>10
<1> HIDE DEF S
<1>4. Nat \subseteq S BY <1>2, <1>3, SetInduction
<1>5. i - 1 \in Nat /\ (i - 1) + 1 = i /\ i <= Len(T) BY <1>1
<1>6. i - 1 \in S BY <1>4, <1>5
<1>7. QED BY <1>5, <1>6 DEF S

\* ... and all of them are the text.
LEMMA PutUnboundAll ==
  ASSUME NEW X, NEW T, NEW v, NEW n, Bindable(X, T, v, n)
  PROVE  Put(T, v, n, Len(T)) = T
<1>0. T \in Seq(X) BY DEF Bindable
<1>1. Len(T) \in Nat BY <1>0
<1>2. CASE Len(T) = 0
  <2>1. T = << >> BY <1>0, <1>2
  <2>2. QED BY <1>2, <2>1, PutNone
<1>3. CASE Len(T) # 0
  <2> DEFINE n0 == Len(T)
             e == DigitsEnd(T, n0)
  <2>1. n0 \in 1 .. Len(T) BY <1>1, <1>3
  <2>2. Put(T, v, n, n0) = SubSeq(T, 1, e) BY <2>1, PutUnbound
  <2>3. e \in n0 .. Len(T) BY <1>0, <2>1, DigitsEndIs
  <2>4. e = Len(T) BY <1>1, <2>3
  <2>5. SubSeq(T, 1, Len(T)) = T BY <1>0, SubSeqFull
  <2>6. QED BY <2>2, <2>4, <2>5
<1>4. QED BY <1>2, <1>3

\* The highest number of a text is one of its numbers, not below the others.
LEMMA HighestInNumbers ==
  ASSUME NEW X, NEW s \in Seq(X), Canonical(s)
  PROVE  /\ max_parameter_index(s) \in Numbers(s) \cup {0}
         /\ \A l \in Numbers(s) : l <= max_parameter_index(s)
<1> DEFINE N == Numbers(s) \cup {0}
           At(j) == j \in 1 .. Len(s) /\ s[j] = "$"
           S == {k \in Nat : \E b \in Nat : \A j \in 1 .. k : At(j) => NumberAt(s, j) <= b}
<1>0. Len(s) \in Nat /\ DOMAIN s = 1 .. Len(s) OBVIOUS
<1>1. \A j : At(j) => NumberAt(s, j) \in Nat BY RunIsPlaceholder
<1>2. 0 \in S
  <2>1. \A j \in 1 .. 0 : At(j) => NumberAt(s, j) <= 0 OBVIOUS
  <2>2. QED BY <2>1
<1>3. ASSUME NEW k \in Nat, k \in S PROVE k + 1 \in S
  <2>1. PICK b \in Nat : \A j \in 1 .. k : At(j) => NumberAt(s, j) <= b BY <1>3
  <2> DEFINE x == NumberAt(s, k + 1)
             c == IF At(k + 1) /\ x > b THEN x ELSE b
  <2>2. At(k + 1) => x \in Nat BY <1>1
  <2>3. c \in Nat /\ b <= c /\ (At(k + 1) => x <= c)
    <3> HIDE DEF x
    <3>1. QED BY <2>2
  <2>4. ASSUME NEW j \in 1 .. (k + 1), At(j) PROVE NumberAt(s, j) <= c
    <3>1. CASE j = k + 1 BY <2>3, <2>4, <3>1
    <3>2. CASE j # k + 1
      <4>1. j \in 1 .. k BY <3>2
      <4>2. NumberAt(s, j) <= b /\ NumberAt(s, j) \in Nat BY <1>1, <2>1, <2>4, <4>1
      <4> DEFINE y == NumberAt(s, j)
      <4> HIDE DEF c, y
      <4>3. y <= b /\ y \in Nat BY <4>2 DEF y
      <4>4. y <= c BY <2>3, <4>3
      <4>5. QED BY <4>4 DEF y
    <3>3. QED BY <3>1, <3>2
  <2> HIDE DEF c, At
  <2>5. QED BY <2>3, <2>4
<1> HIDE DEF S
<1>4. Nat \subseteq S BY <1>2, <1>3, SetInduction
<1>5. Len(s) \in S BY <1>0, <1>4
<1>6. PICK b \in Nat : \A j \in 1 .. Len(s) : At(j) => NumberAt(s, j) <= b BY <1>5 DEF S
<1>7. \A n \in N : n \in Nat /\ n <= b
  <2>1. \A n \in Numbers(s) : \E j \in 1 .. Len(s) : s[j] = "$" /\ n = NumberAt(s, j) BY <1>0 DEF Numbers
  <2>2. \A n \in Numbers(s) : n \in Nat /\ n <= b BY <1>1, <1>6, <2>1
  <2>3. QED BY <2>2
<1>8. \E n \in N : \A l \in N : l <= n
  <2> DEFINE Q == {k \in Nat : (\E l \in N : b - k <= l) => \E n \in N : \A l \in N : l <= n}
  <2>0. \A l \in N : l \in Nat /\ l <= b BY <1>7
  <2>00. 0 \in N OBVIOUS
  <2> HIDE DEF N
  <2>1. 0 \in Q
    <3> SUFFICES ASSUME NEW l \in N, b - 0 <= l PROVE \E n \in N : \A y \in N : y <= n OBVIOUS
    <3>1. l = b BY <2>0
    <3>2. QED BY <2>0, <3>1
  <2>2. ASSUME NEW k \in Nat, k \in Q PROVE k + 1 \in Q
    <3> SUFFICES ASSUME NEW l \in N, b - (k + 1) <= l PROVE \E n \in N : \A y \in N : y <= n OBVIOUS
    <3>1. CASE \E y \in N : b - k <= y BY <2>2, <3>1
    <3>2. CASE ~\E y \in N : b - k <= y
      <4>1. \A y \in N : y <= l BY <2>0, <3>2
      <4>2. QED BY <4>1
    <3>3. QED BY <3>1, <3>2
  <2> HIDE DEF Q
  <2>3. Nat \subseteq Q BY <2>1, <2>2, SetInduction
  <2>4. b \in Q BY <2>3
  <2>5. b - b <= 0 OBVIOUS
  <2>6. QED BY <2>00, <2>4, <2>5 DEF Q
<1>9. \E n \in Numbers(s) \cup {0} : \A l \in Numbers(s) : l <= n
  <2>1. PICK n \in N : \A l \in N : l <= n BY <1>8
  <2>2. \A l \in Numbers(s) : l \in N OBVIOUS
  <2>3. QED BY <2>1, <2>2
<1>10. QED
  <2> DEFINE M == Numbers(s)
  <2> HIDE DEF M
  <2>1. \E n \in M \cup {0} : \A l \in M : l <= n BY <1>9 DEF M
  <2>2. max_parameter_index(s) = CHOOSE n \in M \cup {0} : \A l \in M : l <= n BY DEF max_parameter_index, M
  <2>3. max_parameter_index(s) \in M \cup {0} /\ \A l \in M : l <= max_parameter_index(s) BY <2>1, <2>2, Zenon
  <2>4. QED BY <2>3 DEF M

LEMMA HighestNumber ==
  ASSUME NEW X, NEW s \in Seq(X), Canonical(s), NEW i \in 1 .. Len(s), s[i] = "$"
  PROVE  NumberAt(s, i) <= max_parameter_index(s)
<1>0. DOMAIN s = 1 .. Len(s) OBVIOUS
<1>1. NumberAt(s, i) \in Numbers(s) BY <1>0 DEF Numbers
<1>2. QED BY <1>1, HighestInNumbers

(***************************************************************************)
(* The turns of render_portal_sql                                          *)
(***************************************************************************)

\* The literals of the parameters bound.
Literals == [m \in 1 .. Len(parameters) |-> render_portal_parameter(parameters[m])]

\* The characters of the values of a portal, and of a statement bound to it.
ValueChars(ps) == UNION {ToSet(ps[i].bytes) \cup ToSet(ps[i].number) : i \in 1 .. Len(ps)}
CharsOf(T, ps) == ToSet(T) \cup Digit \cup {"$", "'", "N", "T", "error"} \cup ValueChars(ps)

\* What sql_string_literal makes of a character.
Doubled(c) == IF c = "'" THEN << "'", "'" >> ELSE << c >>

\* A literal is a list of characters between two quotes.
LEMMA LiteralType ==
  ASSUME NEW X, "'" \in X, NEW b \in Seq(X)
  PROVE  /\ FlattenSeq([i \in DOMAIN b |-> Doubled(b[i])]) \in Seq(X)
         /\ [i \in DOMAIN b |-> Doubled(b[i])] \in Seq(Seq(X))
         /\ Len([i \in DOMAIN b |-> Doubled(b[i])]) = Len(b)
         /\ \A i \in 1 .. Len(b) : [j \in DOMAIN b |-> Doubled(b[j])][i] = Doubled(b[i])
         /\ sql_string_literal(b) = (<< "'" >> \o FlattenSeq([i \in DOMAIN b |-> Doubled(b[i])])) \o << "'" >>
         /\ sql_string_literal(b) \in Seq(X) /\ sql_string_literal(b) # << >>
<1> DEFINE n == Len(b)
           Y == Seq(X)
           d == [i \in DOMAIN b |-> Doubled(b[i])]
           f == FlattenSeq(d)
           q == << "'" >>
<1>1. n \in Nat /\ DOMAIN b = 1 .. n OBVIOUS
<1>2. \A i \in 1 .. n : Doubled(b[i]) \in Y
  <2> SUFFICES ASSUME NEW i \in 1 .. n PROVE Doubled(b[i]) \in Y OBVIOUS
  <2>1. b[i] \in X BY <1>1
  <2>2. << "'", "'" >> \in Seq(X) OBVIOUS
  <2>3. << b[i] >> \in Seq(X) BY <2>1
  <2>4. QED BY <2>2, <2>3 DEF Doubled
<1> HIDE DEF Y, n
<1>3. d = [i \in 1 .. n |-> Doubled(b[i])] BY <1>1
<1> HIDE DEF d
<1>4. d \in Seq(Y) /\ Len(d) = n /\ \A i \in 1 .. n : d[i] = Doubled(b[i]) BY <1>1, <1>2, <1>3
<1>5. f \in Seq(X)
  <2>1. d \in Seq(Seq(X)) BY <1>4 DEF Y
  <2>2. QED BY <2>1, FlattenType
<1>6. sql_string_literal(b) = (q \o f) \o q BY DEF sql_string_literal, Doubled, d
<1>7. q \in Seq(X) OBVIOUS
<1>77. Len(q) = 1 OBVIOUS
<1> HIDE DEF f, q
<1>8. (q \o f) \o q \in Seq(X) /\ Len((q \o f) \o q) = (1 + Len(f)) + 1 /\ Len(f) \in Nat
  <2> DEFINE g == q \o f
  <2>1. g \in Seq(X) /\ Len(g) = Len(q) + Len(f) /\ Len(f) \in Nat BY <1>5, <1>7, ConcatProperties, LenProperties
  <2> HIDE DEF g
  <2>2. g \o q \in Seq(X) /\ Len(g \o q) = Len(g) + Len(q) BY <1>7, <2>1, ConcatProperties
  <2>3. Len(g \o q) = (1 + Len(f)) + 1 BY <1>77, <2>1, <2>2
  <2>4. QED BY <2>1, <2>2, <2>3 DEF g
<1>9. (q \o f) \o q # << >>
  <2> DEFINE l == (q \o f) \o q
             m == Len(f)
  <2>1. Len(l) = (1 + m) + 1 /\ m \in Nat BY <1>8
  <2> HIDE DEF l, m
  <2>2. Len(l) # 0 BY <2>1
  <2>3. l # << >> BY <2>2
  <2>4. QED BY <2>3 DEF l
<1>10. QED BY <1>4, <1>5, <1>6, <1>8, <1>9 DEF f, q, d, Y, n

\* The kinds of literals.
LEMMA LiteralIs ==
  ASSUME NEW p, {p.null, p.binary, p.utf8} \subseteq BOOLEAN
  PROVE  render_portal_parameter(p) \in {NULL, Truth, Error, p.number, sql_string_literal(p.bytes)}
<1> DEFINE l == render_portal_parameter(p)
<1>1. CASE p.null
  <2>1. l = NULL BY <1>1 DEF render_portal_parameter
  <2>2. QED BY <2>1
<1>2. CASE ~p.null /\ p.binary
  <2>1. l = render_binary_parameter(p) BY <1>2 DEF render_portal_parameter
  <2>2. QED BY <2>1 DEF render_binary_parameter, Scalar
<1>3. CASE ~p.null /\ ~p.binary
  <2>1. l = IF p.utf8 THEN sql_string_literal(p.bytes) ELSE Error BY <1>3 DEF render_portal_parameter
  <2>2. QED BY <2>1
<1>4. QED BY <1>1, <1>2, <1>3

\* A statement and a portal can be put together.
LEMMA PortalIsBindable ==
  ASSUME NEW T, NEW ps \in Portals, T \in Seq(ToSet(T)), Canonical(T), max_parameter_index(T) <= Len(ps)
  PROVE  Bindable(CharsOf(T, ps), T, [m \in 1 .. Len(ps) |-> render_portal_parameter(ps[m])], Len(ps))
<1> DEFINE X == CharsOf(T, ps)
           n == Len(ps)
           v == [m \in 1 .. n |-> render_portal_parameter(ps[m])]
<1>1. n \in 0 .. 99 /\ DOMAIN ps = 1 .. n /\ \A i \in 1 .. n : {ps[i].null, ps[i].binary, ps[i].utf8} \subseteq BOOLEAN
  BY PortalType
<1>2. ToSet(T) \subseteq X /\ Digit \cup {"$"} \subseteq X /\ {"'", "N", "T", "error"} \subseteq X BY DEF CharsOf
<1>3. \A i \in 1 .. n : ToSet(ps[i].bytes) \subseteq X /\ ToSet(ps[i].number) \subseteq X
  <2> DEFINE B(i) == ToSet(ps[i].bytes)
             D(i) == ToSet(ps[i].number)
             U == UNION {B(i) \cup D(i) : i \in 1 .. n}
  <2>1. ValueChars(ps) \subseteq X BY DEF CharsOf
  <2>2. ValueChars(ps) = U BY DEF ValueChars
  <2> HIDE DEF B, D, X
  <2>3. \A i \in 1 .. n : B(i) \subseteq U /\ D(i) \subseteq U OBVIOUS
  <2> HIDE DEF U
  <2>4. \A i \in 1 .. n : B(i) \subseteq X /\ D(i) \subseteq X BY <2>1, <2>2, <2>3
  <2>5. QED BY <2>4 DEF B, D
<1> HIDE DEF X
<1>4. T \in Seq(X) BY <1>2, MoreMembers
<1>5. ASSUME NEW m \in 1 .. n PROVE v[m] \in Seq(X) /\ v[m] # << >>
  <2> DEFINE p == ps[m]
             l == render_portal_parameter(p)
             b == p.bytes
             d == p.number
  <2>1. b \in Seq(ToSet(b)) /\ IsNumber(d) BY <1>1, PortalsAssumption
  <2>2. d \in Seq(ToSet(d)) /\ d # << >> BY <2>1 DEF IsNumber
  <2>3. ToSet(b) \subseteq X /\ ToSet(d) \subseteq X BY <1>3
  <2>4. l \in {NULL, Truth, Error, d, sql_string_literal(b)} BY <1>1, LiteralIs
  <2> HIDE DEF l, b, d
  <2>5. b \in Seq(X) BY <2>1, <2>3, MoreMembers
  <2>6. d \in Seq(X) BY <2>2, <2>3, MoreMembers
  <2>7. sql_string_literal(b) \in Seq(X) /\ sql_string_literal(b) # << >> BY <1>2, <2>5, LiteralType
  <2>8. NULL \in Seq(X) /\ NULL # << >> BY <1>2 DEF NULL
  <2>9. Truth \in Seq(X) /\ Truth # << >> BY <1>2 DEF Truth
  <2>10. Error \in Seq(X) /\ Error # << >> BY <1>2 DEF Error
  <2>11. l \in Seq(X) /\ l # << >> BY <2>2, <2>4, <2>6, <2>7, <2>8, <2>9, <2>10
  <2>12. v[m] = l BY DEF l
  <2>13. QED BY <2>11, <2>12
<1>6. ASSUME NEW i \in 1 .. Len(T), T[i] = "$" PROVE NumberAt(T, i) <= n
  <2> DEFINE x == NumberAt(T, i)
             y == max_parameter_index(T)
  <2>1. x <= y BY <1>4, <1>6, HighestNumber
  <2>2. x \in Nat BY <1>4, <1>6, RunIsPlaceholder
  <2>3. y \in Nat
    <3> DEFINE N == Numbers(T)
    <3>1. \A l \in N : l \in Nat
      <4>1. \A j \in 1 .. Len(T) : T[j] = "$" => NumberAt(T, j) \in Nat BY <1>4, RunIsPlaceholder
      <4>2. DOMAIN T = 1 .. Len(T) BY <1>4
      <4>3. QED BY <4>1, <4>2 DEF Numbers
    <3>2. y \in N \cup {0} BY <1>4, HighestInNumbers
    <3>3. QED BY <3>1, <3>2
  <2>4. y <= n OBVIOUS
  <2> HIDE DEF x, y
  <2>5. n \in Nat BY <1>1
  <2>6. x <= n BY <2>1, <2>2, <2>3, <2>4, <2>5
  <2>7. QED BY <2>6 DEF x
<1> HIDE DEF v, n
<1>7. Bindable(X, T, v, n) BY <1>1, <1>2, <1>4, <1>5, <1>6 DEF Bindable
<1>8. QED BY <1>7 DEF X, v, n

\* As long as no value is in the way, the text rendered is the statement with
\* the placeholders above idx replaced by the literals of their parameters.
BindInv ==
  call = "render" =>
    /\ Canonical(text) /\ max_parameter_index(text) <= Len(parameters)
    /\ outcome # "error" /\ ~Resubstituted /\ ~Joined => sql = Put(text, Literals, idx, Len(text))

\* What is rendered can be put together.
LEMMA RenderBinds ==
  ASSUME TextType, parameters \in Portals, Canonical(text), max_parameter_index(text) <= Len(parameters)
  PROVE  Bindable(CharsOf(text, parameters), text, Literals, Len(parameters))
<1>1. text \in Seq(ToSet(text)) BY DEF TextType
<1> DEFINE v == [m \in 1 .. Len(parameters) |-> render_portal_parameter(parameters[m])]
<1>2. Bindable(CharsOf(text, parameters), text, v, Len(parameters)) BY <1>1, PortalIsBindable
<1>3. QED BY <1>2 DEF Literals

\* The value a placeholder stands for is the literal of its parameter.
LEMMA ValueOfPlaceholder ==
  ASSUME NEW X, Bindable(X, text, Literals, Len(parameters)), NEW i \in 1 .. Len(text), IsPlaceholder(text, i)
  PROVE  NumberAt(text, i) \in 1 .. Len(parameters) /\ Literals[NumberAt(text, i)] = ValueAt(i)
<1> DEFINE m == NumberAt(text, i)
           n == Len(parameters)
<1>1. n \in 0 .. n
  <2>1. n \in 0 .. 99 BY DEF Bindable
  <2> HIDE DEF n
  <2>2. QED BY <2>1
<1>2. text[i] = "$" BY DEF IsPlaceholder
<1>3. m \in 1 .. n BY <1>1, <1>2, PartIs, DollarIsNoDigit
<1> HIDE DEF m, n
<1>4. Literals[m] = render_portal_parameter(parameters[m]) BY <1>3 DEF Literals, n
<1>5. QED BY <1>3, <1>4 DEF m, n, ValueAt

\* Values without lower placeholders are kept.
LEMMA LiteralsKept ==
  ASSUME parameters \in Portals, ~Resubstituted
  PROVE  Kept(text, Literals, Len(parameters))
<1> DEFINE n == Len(parameters)
<1>1. DOMAIN parameters = 1 .. n BY PortalType
<1> SUFFICES ASSUME NEW m \in 1 .. n, NEW k \in 1 .. (m - 1), Occurrences(text, Placeholder(m)) # {}
             PROVE  Occurrences(Literals[m], Placeholder(k)) = {}
  BY DEF Kept
<1>2. m \in DOMAIN parameters BY <1>1
<1>3. Literals[m] = render_portal_parameter(parameters[m]) BY DEF Literals
<1>4. Occurrences(render_portal_parameter(parameters[m]), Placeholder(k)) = {} BY <1>2 DEF Resubstituted
<1>5. QED BY <1>3, <1>4

\* Values behind no $ are not joined with it.
LEMMA LiteralsUnjoined ==
  ASSUME NEW X, Bindable(X, text, Literals, Len(parameters)), ~Joined
  PROVE  Unjoined(text, Literals)
<1>1. DOMAIN text = 1 .. Len(text)
  <2>1. text \in Seq(X) BY DEF Bindable
  <2>2. QED BY <2>1
<1> SUFFICES ASSUME NEW i \in 1 .. Len(text), NEW j \in 1 .. Len(text),
                    text[i] = "$", j = DigitsEnd(text, i) + 1, IsPlaceholder(text, j), IsDigit(Literals[NumberAt(text, j)][1])
             PROVE  FALSE
  BY DEF Unjoined
<1>2. Literals[NumberAt(text, j)] = ValueAt(j) BY ValueOfPlaceholder
<1>3. IsDigit(ValueAt(j)[1]) BY <1>2
<1>4. QED BY <1>1, <1>3 DEF Joined

\* At first nothing has been replaced.
LEMMA BindInit == Init => BindInv
<1> SUFFICES ASSUME Init, call = "render" PROVE BindInv BY DEF BindInv
<1>1. InitRender BY DEF Init, InitSplit, InitScript
<1>2. /\ parameters \in Portals /\ idx = Len(parameters) /\ sql = text
      /\ Canonical(text) /\ max_parameter_index(text) <= Len(parameters)
  BY <1>1 DEF InitRender
<1>3. TextType BY SplitInit DEF SplitInv
<1>4. Bindable(CharsOf(text, parameters), text, Literals, Len(parameters)) BY <1>2, <1>3, RenderBinds
<1>5. Put(text, Literals, Len(parameters), Len(text)) = text BY <1>4, PutUnboundAll
<1>6. sql = Put(text, Literals, idx, Len(text)) BY <1>2, <1>5
<1>7. QED BY <1>2, <1>6 DEF BindInv

\* Every turn replaces one placeholder, wherever it stands.
LEMMA BindStep == SplitInv /\ RenderInv /\ BindInv /\ [Next]_vars => BindInv'
<1> SUFFICES ASSUME SplitInv, RenderInv, BindInv, [Next]_vars PROVE BindInv' OBVIOUS
<1>1. ASSUME UNCHANGED <<text, parameters>>
      PROVE  /\ Resubstituted' <=> Resubstituted
             /\ Joined' <=> Joined
             /\ Literals' = Literals
  BY <1>1 DEF Resubstituted, Joined, Literals, ValueAt
<1>2. CASE Replace
  <2> DEFINE n == Len(parameters)
             k == idx
             c == Len(text)
             v == Literals
  <2>1. /\ call = "render" /\ outcome = "running" /\ idx > 0 /\ idx' = idx - 1
        /\ UNCHANGED <<call, text, parameters>>
    BY <1>2 DEF Replace, Rendering
  <2>2. /\ outcome' = "error" \/ sql' = replace(sql, Placeholder(idx), render_portal_parameter(parameters[idx]))
    BY <1>2 DEF Replace
  <2>3. parameters \in Portals /\ idx \in 0 .. n BY <2>1 DEF RenderInv
  <2>4. TextType BY DEF SplitInv
  <2>5. Canonical(text) /\ max_parameter_index(text) <= Len(parameters) BY <2>1 DEF BindInv
  <2>6. Bindable(CharsOf(text, parameters), text, v, n) BY <2>3, <2>4, <2>5, RenderBinds
  <2>7. n \in Nat BY <2>3, PortalType
  <2>8. k \in 1 .. n /\ k - 1 = idx' BY <2>1, <2>3, <2>7
  <2>9. c \in 0 .. c BY <2>4 DEF TextType
  <2>10. v[k] = render_portal_parameter(parameters[k]) BY <2>8 DEF Literals
  <2>11. ASSUME outcome' # "error", ~Resubstituted, ~Joined
         PROVE  sql' = Put(text, Literals, idx', Len(text))
    <3>1. sql = Put(text, v, k, c) BY <2>1, <2>11 DEF BindInv
    <3>2. Kept(text, v, n) BY <2>3, <2>11, LiteralsKept
    <3>3. Unjoined(text, v) BY <2>6, <2>11, LiteralsUnjoined
    <3> HIDE DEF v, n, k, c
    <3>4. replace(Put(text, v, k, c), Placeholder(k), v[k]) = Put(text, v, k - 1, c)
      BY <2>6, <2>8, <2>9, <3>2, <3>3, PutReplaced DEF c
    <3>5. sql' = replace(sql, Placeholder(k), v[k]) BY <2>2, <2>10, <2>11 DEF k
    <3>6. QED BY <2>8, <3>1, <3>4, <3>5 DEF v, c
  <2>12. UNCHANGED <<Literals, Len(text), Len(parameters)>> /\ (Resubstituted' <=> Resubstituted) /\ (Joined' <=> Joined)
    BY <1>1, <2>1
  <2>13. Canonical(text)' /\ (max_parameter_index(text) <= Len(parameters))' BY <2>1, <2>5
  <2>14. QED BY <2>1, <2>11, <2>12, <2>13 DEF BindInv
<1>3. ASSUME call = "render", outcome # "error", UNCHANGED <<call, text, parameters, idx, sql>> PROVE BindInv'
  <2>1. UNCHANGED <<Literals, Len(text), Len(parameters)>> /\ (Resubstituted' <=> Resubstituted) /\ (Joined' <=> Joined)
    BY <1>1, <1>3
  <2>2. QED BY <1>3, <2>1 DEF BindInv
<1>4. CASE ReturnSql BY <1>3, <1>4 DEF ReturnSql
<1>5. ASSUME call # "render", UNCHANGED call PROVE BindInv' BY <1>5 DEF BindInv
<1>6. CASE SingleQuote \/ DoubleQuote \/ Semicolon \/ Other \/ ReturnStatements
  BY <1>5, <1>6 DEF SingleQuote, DoubleQuote, Semicolon, Other, ReturnStatements, Scanning
<1>7. CASE SkipLine \/ KeepLine \/ EndStatement \/ EndCompound \/ ReturnScript
  BY <1>5, <1>7 DEF SkipLine, KeepLine, EndStatement, EndCompound, ReturnScript, Reading
<1>8. CASE UNCHANGED vars
  <2>1. UNCHANGED <<call, text, parameters, idx, sql, outcome>> BY <1>8 DEF vars
  <2>2. UNCHANGED <<Literals, Len(text), Len(parameters)>> /\ (Resubstituted' <=> Resubstituted) /\ (Joined' <=> Joined)
    BY <1>1, <2>1
  <2>3. QED BY <2>1, <2>2 DEF BindInv
<1>9. QED BY <1>2, <1>4, <1>6, <1>7, <1>8 DEF Next

\* The values put in all at once.
LEMMA BoundIsPut ==
  ASSUME NEW X, Bindable(X, text, Literals, Len(parameters))
  PROVE  BoundText = Put(text, Literals, 0, Len(text))
<1> DEFINE n == Len(text)
           B(i) == CASE i > 1 /\ IsDigit(text[i])   -> << >>
                     [] IsPlaceholder(text, i)      -> ValueAt(i)
                     [] OTHER                       -> SubSeq(text, i, DigitsEnd(text, i))
           P(i) == PartAt(text, Literals, 0, i)
           Y == Seq(X)
           s == Parts(text, Literals, 0)
<1>0. text \in Seq(X) BY DEF Bindable
<1>1. n \in Nat /\ DOMAIN text = 1 .. n BY <1>0
<1>2. 0 \in 0 .. Len(parameters)
  <2> DEFINE k == Len(parameters)
  <2>1. k \in 0 .. 99 BY DEF Bindable
  <2> HIDE DEF k
  <2>2. 0 \in 0 .. k BY <2>1
  <2>3. QED BY <2>2 DEF k
<1>3. ASSUME NEW i \in 1 .. n PROVE B(i) = P(i)
  <2>1. CASE i > 1 /\ IsDigit(text[i])
    <3>1. ~IsPlaceholder(text, i) BY <2>1, DigitsAre, DollarIsNoDigit DEF IsPlaceholder
    <3>2. QED BY <2>1, <3>1 DEF PartAt
  <2>2. CASE ~(i > 1 /\ IsDigit(text[i])) /\ IsPlaceholder(text, i)
    <3> DEFINE m == NumberAt(text, i)
    <3>1. m \in 1 .. Len(parameters) /\ Literals[m] = ValueAt(i) BY <2>2, ValueOfPlaceholder
    <3>2. m > 0 BY <2>2 DEF IsPlaceholder
    <3>3. P(i) = Literals[m] BY <2>2, <3>2 DEF PartAt
    <3>4. B(i) = ValueAt(i) BY <2>2
    <3>5. QED BY <3>1, <3>3, <3>4
  <2>3. CASE ~(i > 1 /\ IsDigit(text[i])) /\ ~IsPlaceholder(text, i) BY <2>3 DEF PartAt
  <2>4. QED BY <2>1, <2>2, <2>3
<1>4. BoundText = FlattenSeq([i \in 1 .. n |-> B(i)]) BY <1>1 DEF BoundText
<1>5. \A i \in 1 .. n : P(i) \in Y BY <1>2, PartType
<1>6. s = [i \in 1 .. n |-> P(i)] BY DEF Parts
<1> HIDE DEF n, B, P, Y, s
<1>7. [i \in 1 .. n |-> B(i)] = s BY <1>3, <1>6
<1>8. s \in Seq(Y) /\ Len(s) = n BY <1>1, <1>5, <1>6
<1>9. SubSeq(s, 1, n) = s BY <1>8, SubSeqFull
<1>10. QED BY <1>4, <1>7, <1>9 DEF Put, s, n

(***************************************************************************)
(* Quotes, comments and semicolons of the text rendered                    *)
(***************************************************************************)

\* No semicolon is outside quotes and comments.
Quiet(s) == Plain(s, ";") = {}

\* A character more behind a concatenation.
LEMMA ConcatAppend ==
  ASSUME NEW X, NEW s \in Seq(X), NEW u \in Seq(X), NEW c \in X
  PROVE  s \o u \in Seq(X) /\ s \o Append(u, c) = Append(s \o u, c)
<1> DEFINE a == Append(u, c)
           g == s \o u
           l == s \o a
           r == Append(g, c)
           m == Len(s)
           n == Len(u)
<1>1. m \in Nat /\ n \in Nat OBVIOUS
<1>2. a \in Seq(X) /\ Len(a) = n + 1 /\ a[n + 1] = c /\ \A i \in 1 .. n : a[i] = u[i] BY AppendProperties
<1>3. g \in Seq(X) /\ Len(g) = m + n /\ \A i \in 1 .. (m + n) : g[i] = IF i <= m THEN s[i] ELSE u[i - m]
  BY ConcatProperties
<1> HIDE DEF a, g
<1>4. l \in Seq(X) /\ Len(l) = m + (n + 1) /\ \A i \in 1 .. (m + (n + 1)) : l[i] = IF i <= m THEN s[i] ELSE a[i - m]
  <2>1. a \in Seq(X) BY <1>2
  <2>2. l \in Seq(X) /\ Len(l) = m + Len(a) /\ \A i \in 1 .. (m + Len(a)) : l[i] = IF i <= m THEN s[i] ELSE a[i - m]
    BY <2>1, ConcatProperties
  <2> HIDE DEF l, m, n
  <2>3. QED BY <1>2, <2>2
<1>5. r \in Seq(X) /\ Len(r) = Len(g) + 1 /\ r[Len(g) + 1] = c /\ \A i \in 1 .. Len(g) : r[i] = g[i]
  BY <1>3, AppendProperties
<1> HIDE DEF l, r, m, n
<1>6. Len(r) = m + (n + 1) BY <1>1, <1>3, <1>5
<1>7. ASSUME NEW i \in 1 .. (m + (n + 1)) PROVE l[i] = r[i]
  <2>1. CASE i <= m
    <3>1. i \in 1 .. (m + n) /\ i \in 1 .. Len(g) BY <1>1, <1>3, <2>1
    <3>2. l[i] = s[i] /\ g[i] = s[i] /\ r[i] = g[i] BY <1>3, <1>4, <1>5, <2>1, <3>1
    <3>3. QED BY <3>2
  <2>2. CASE ~(i <= m) /\ i <= m + n
    <3>1. i \in 1 .. (m + n) /\ i \in 1 .. Len(g) /\ i - m \in 1 .. n BY <1>1, <1>3, <2>2
    <3>2. l[i] = a[i - m] /\ g[i] = u[i - m] /\ r[i] = g[i] BY <1>3, <1>4, <1>5, <2>2, <3>1
    <3>3. QED BY <1>2, <3>1, <3>2
  <2>3. CASE ~(i <= m + n)
    <3>1. i = Len(g) + 1 /\ i - m = n + 1 /\ ~(i <= m) BY <1>1, <1>3, <2>3
    <3>2. l[i] = a[i - m] /\ r[i] = c BY <1>4, <1>5, <3>1
    <3>3. QED BY <1>2, <3>1, <3>2
  <2>4. QED BY <1>1, <2>1, <2>2, <2>3
<1>8. l = r BY <1>4, <1>5, <1>6, <1>7, SeqEqual
<1>9. QED BY <1>3, <1>8 DEF l, r, a, g

\* One character more is a semicolon outside quotes or adds none.
LEMMA QuietAppend ==
  ASSUME NEW X, NEW s \in Seq(X), NEW c \in X
  PROVE  Quiet(Append(s, c)) <=> Quiet(s) /\ ~(c = ";" /\ Mode(s) \in {"plain", "dash"})
<1> DEFINE t == Append(s, c)
           n == Len(s)
           At(u, i) == u[i] = ";" /\ Mode(SubSeq(u, 1, i - 1)) \in {"plain", "dash"}
<1>1. n \in Nat /\ DOMAIN s = 1 .. n OBVIOUS
<1>2. t \in Seq(X) /\ Len(t) = n + 1 /\ t[n + 1] = c /\ \A i \in 1 .. n : t[i] = s[i] BY AppendProperties
<1>3. DOMAIN t = 1 .. (n + 1) BY <1>2
<1>4. SubSeq(t, 1, n) = s
  <2> DEFINE p == SubSeq(t, 1, n)
  <2> HIDE DEF t, n
  <2>1. p \in Seq(X) /\ Len(p) = n /\ \A i \in 1 .. n : p[i] = t[i] BY <1>1, <1>2
  <2> HIDE DEF p
  <2>2. p = s BY <1>1, <1>2, <2>1, SeqEqual DEF n
  <2>3. QED BY <2>2 DEF p
<1>5. \A i \in 1 .. n : SubSeq(t, 1, i - 1) = SubSeq(s, 1, i - 1)
  <2>1. n \in 0 .. Len(t) BY <1>1, <1>2
  <2> HIDE DEF t, n
  <2>2. \A i \in 1 .. n : SubSeq(SubSeq(t, 1, n), 1, i - 1) = SubSeq(t, 1, i - 1) BY <1>2, <2>1, PrefixOfPrefix
  <2>3. QED BY <1>4, <2>2
<1> HIDE DEF t, n
<1>6. \A i \in 1 .. n : At(t, i) <=> At(s, i) BY <1>2, <1>5
<1>7. (n + 1) - 1 = n BY <1>1
<1>8. At(t, n + 1) <=> c = ";" /\ Mode(s) \in {"plain", "dash"} BY <1>2, <1>4, <1>7
<1>9. Quiet(t) <=> \A i \in 1 .. (n + 1) : ~At(t, i) BY <1>3 DEF Quiet, Plain
<1>10. Quiet(s) <=> \A i \in 1 .. n : ~At(s, i) BY <1>1 DEF Quiet, Plain
<1> HIDE DEF At
<1>11. \A i \in 1 .. (n + 1) : i \in 1 .. n \/ i = n + 1 BY <1>1
<1>12. (\A i \in 1 .. n : i \in 1 .. (n + 1)) /\ n + 1 \in 1 .. (n + 1) BY <1>1
<1>13. QED BY <1>6, <1>8, <1>9, <1>10, <1>11, <1>12 DEF t

\* Nothing is quiet.
LEMMA QuietEmpty == Quiet(<< >>)
<1>1. DOMAIN << >> = {} OBVIOUS
<1>2. QED BY <1>1 DEF Quiet, Plain

\* What is open at the end of t is open at the end of s, and s is quiet if t is.
Same(s, t) == Mode(s) = Mode(t) /\ (Quiet(t) => Quiet(s))

\* The same text behind both keeps them so.
LEMMA SameConcat ==
  ASSUME NEW X, NEW s \in Seq(X), NEW t \in Seq(X), NEW u \in Seq(X), Same(s, t)
  PROVE  Same(s \o u, t \o u)
<1> DEFINE P == {w \in Seq(X) : Same(s \o w, t \o w)}
<1>1. << >> \in P
  <2>1. s \o << >> = s /\ t \o << >> = t /\ << >> \in Seq(X) BY EmptySeq
  <2>2. QED BY <2>1
<1>2. ASSUME NEW w \in Seq(X), NEW c \in X, w \in P PROVE Append(w, c) \in P
  <2> DEFINE a == s \o w
             b == t \o w
  <2>1. a \in Seq(X) /\ b \in Seq(X) /\ s \o Append(w, c) = Append(a, c) /\ t \o Append(w, c) = Append(b, c)
    BY ConcatAppend
  <2>2. Same(a, b) BY <1>2
  <2>3. Append(w, c) \in Seq(X) BY AppendProperties
  <2> HIDE DEF a, b
  <2>4. Mode(Append(a, c)) = After(Mode(a), c) /\ Mode(Append(b, c)) = After(Mode(b), c) BY <2>1, ModeAppend
  <2>5. /\ Quiet(Append(a, c)) <=> Quiet(a) /\ ~(c = ";" /\ Mode(a) \in {"plain", "dash"})
        /\ Quiet(Append(b, c)) <=> Quiet(b) /\ ~(c = ";" /\ Mode(b) \in {"plain", "dash"})
    BY <2>1, QuietAppend
  <2>6. Same(Append(a, c), Append(b, c)) BY <2>2, <2>4, <2>5 DEF Same
  <2>7. QED BY <2>1, <2>3, <2>6
<1> HIDE DEF P
<1>3. Seq(X) \subseteq P BY <1>1, <1>2, SeqInduction
<1>4. u \in P BY <1>3
<1>5. QED BY <1>4 DEF P

\* Outside quotes, w leads outside quotes again and adds no semicolon there.
Harmless(s, w) == Mode(s \o w) = "plain" /\ (Quiet(s \o w) <=> Quiet(s))

\* The characters that matter to Mode and Quiet outside quotes.
Special == {"'", "\"", "-", ";"}

\* A text without them is harmless.
LEMMA OrdinaryIsHarmless ==
  ASSUME NEW X, NEW Y, Y \subseteq X, Y \cap Special = {},
         NEW s \in Seq(X), Mode(s) \in {"plain", "dash"}, NEW w \in Seq(Y)
  PROVE  w = << >> \/ Harmless(s, w)
<1> DEFINE P == {u \in Seq(Y) : (u = << >> \/ Mode(s \o u) = "plain") /\ (Quiet(s \o u) <=> Quiet(s))}
<1>1. << >> \in P
  <2>1. s \o << >> = s OBVIOUS
  <2>2. << >> \in Seq(Y) BY EmptySeq
  <2>3. QED BY <2>1, <2>2
<1>2. ASSUME NEW u \in Seq(Y), NEW c \in Y, u \in P PROVE Append(u, c) \in P
  <2> DEFINE a == s \o u
  <2>0. u \in Seq(X) /\ c \in X OBVIOUS
  <2>1. a \in Seq(X) /\ s \o Append(u, c) = Append(a, c) BY <2>0, ConcatAppend
  <2>2. Append(u, c) \in Seq(Y) BY AppendProperties
  <2>3. Mode(a) \in {"plain", "dash"}
    <3>1. CASE u = << >>
      <4>1. a = s BY <3>1
      <4>2. QED BY <4>1
    <3>2. CASE Mode(a) = "plain" BY <3>2
    <3>3. QED BY <1>2, <3>1, <3>2
  <2>4. Quiet(a) <=> Quiet(s) BY <1>2
  <2> HIDE DEF a
  <2>5. Mode(Append(a, c)) = After(Mode(a), c) BY <2>0, <2>1, ModeAppend
  <2>6. c \notin Special OBVIOUS
  <2>7. After(Mode(a), c) = "plain"
    <3>1. c # "'" /\ c # "\"" /\ c # "-" BY <2>6 DEF Special
    <3>2. QED BY <2>3, <3>1 DEF After
  <2>8. Quiet(Append(a, c)) <=> Quiet(a)
    <3>1. c # ";" BY <2>6 DEF Special
    <3>2. QED BY <2>0, <2>1, <3>1, QuietAppend
  <2>9. QED BY <2>1, <2>2, <2>4, <2>5, <2>7, <2>8
<1> HIDE DEF P
<1>3. Seq(Y) \subseteq P BY <1>1, <1>2, SeqInduction
<1>4. w \in P BY <1>3
<1>5. QED BY <1>4 DEF P, Harmless

\* A number is harmless, unless its sign makes a comment.
LEMMA NumberIsHarmless ==
  ASSUME NEW X, Digit \subseteq X, NEW s \in Seq(X), Mode(s) \in {"plain", "dash"},
         NEW d \in Seq(X), IsNumber(d), Mode(s) = "dash" => d[1] # "-"
  PROVE  Harmless(s, d)
<1> DEFINE n == Len(d)
           one == SubSeq(d, 1, 1)
           rest == SubSeq(d, 2, n)
<1>1. Digit \cap Special = {} BY DEF Digit, Special
<1>2. d # << >> /\ d # << "-" >> /\ \A i \in DOMAIN d : IsDigit(d[i]) \/ (i = 1 /\ d[i] = "-") BY DEF IsNumber
<1>3. n \in Nat /\ DOMAIN d = 1 .. n /\ n # 0 BY <1>2
<1>4. \A i \in 1 .. n : d[i] \in Digit \/ (i = 1 /\ d[i] = "-") BY <1>2, <1>3, DigitsAre
<1>5. 1 \in 1 .. n BY <1>3
<1>6. CASE d[1] \in Digit
  <2>1. \A i \in 1 .. n : d[i] \in Digit BY <1>4, <1>6
  <2>2. d \in Seq(Digit) BY <2>1
  <2>3. QED BY <1>1, <1>2, <2>2, OrdinaryIsHarmless
<1>7. CASE d[1] = "-"
  <2>1. Mode(s) = "plain" BY <1>7
  <2>2. n # 1
    <3> SUFFICES ASSUME n = 1 PROVE FALSE OBVIOUS
    <3>1. d = << "-" >> BY <1>7
    <3>2. QED BY <1>2, <3>1
  <2>3. 1 < n /\ n <= Len(d) /\ 1 + 1 = 2 BY <1>3, <2>2
  <2>4. "-" \in X BY <1>5, <1>7
  <2> HIDE DEF n
  <2>5. one \o rest = SubSeq(d, 1, n)
    <3> DEFINE j == 1
    <3>1. j \in Nat /\ j < n /\ j + 1 = 2 BY <2>3
    <3> HIDE DEF j
    <3>2. SubSeq(d, 1, j) \o SubSeq(d, j + 1, n) = SubSeq(d, 1, n) BY <1>3, <2>3, <3>1, BeginningAndRest
    <3>3. QED BY <3>1, <3>2 DEF j
  <2>6. SubSeq(d, 1, n) = d BY SubSeqFull DEF n
  <2>7. one = << "-" >>
    <3>1. one \in Seq(X) /\ Len(one) = 1 /\ one[1] = d[1] BY <1>3, <2>3
    <3> HIDE DEF one
    <3>2. QED BY <1>7, <3>1
  <2>8. rest \in Seq(Digit) /\ rest # << >>
    <3> DEFINE m == n - 1
    <3>1. rest \in Seq(X) /\ Len(rest) = m /\ m \in Nat /\ m # 0 /\ \A i \in 1 .. m : rest[i] = d[i + 1] BY <1>3, <2>3
    <3>2. \A i \in 1 .. m : i + 1 \in 1 .. n /\ i + 1 # 1 BY <1>3
    <3> HIDE DEF rest, m
    <3>3. \A i \in 1 .. m : rest[i] \in Digit BY <1>4, <3>1, <3>2
    <3>4. rest \in Seq(Digit) BY <3>1, <3>3
    <3>5. rest # << >> BY <3>1
    <3>6. QED BY <3>4, <3>5
  <2> DEFINE a == Append(s, "-")
  <2>9. a \in Seq(X) /\ a = s \o << "-" >> BY <2>4, AppendProperties, AppendIsConcat
  <2>10. Mode(a) = After(Mode(s), "-") BY <2>4, ModeAppend
  <2>11. Mode(a) = "dash" BY <2>1, <2>10 DEF After
  <2>12. Quiet(a) <=> Quiet(s) BY <2>4, QuietAppend
  <2> HIDE DEF a, rest
  <2>13. Harmless(a, rest) BY <1>1, <2>8, <2>9, <2>11, OrdinaryIsHarmless
  <2>14. s \o d = a \o rest
    <3>1. rest \in Seq(X) BY <2>8
    <3>2. << "-" >> \in Seq(X) BY <2>4
    <3> DEFINE q == << "-" >>
    <3> HIDE DEF q
    <3>3. (s \o q) \o rest = s \o (q \o rest) BY <3>1, <3>2, ConcatAssociative DEF q
    <3>4. QED BY <2>5, <2>6, <2>7, <2>9, <3>3 DEF q
  <2>15. QED BY <2>12, <2>13, <2>14 DEF Harmless
<1>8. QED BY <1>4, <1>5, <1>6, <1>7

\* What stands between the quotes of a literal stays there.
LEMMA DoubledStays ==
  ASSUME NEW X, "'" \in X, NEW a \in Seq(X), Mode(a) = "string", NEW c \in X
  PROVE  a \o Doubled(c) \in Seq(X) /\ Mode(a \o Doubled(c)) = "string" /\ (Quiet(a \o Doubled(c)) <=> Quiet(a))
<1>1. CASE c = "'"
  <2> DEFINE b == Append(a, c)
             e == Append(b, c)
  <2>1. b \in Seq(X) BY AppendProperties
  <2>2. Mode(b) = After(Mode(a), c) /\ (Quiet(b) <=> Quiet(a) /\ ~(c = ";" /\ Mode(a) \in {"plain", "dash"}))
    BY ModeAppend, QuietAppend
  <2>22. b = a \o << c >> BY AppendIsConcat
  <2> HIDE DEF b
  <2>3. e \in Seq(X) BY <2>1, AppendProperties
  <2>4. Mode(e) = After(Mode(b), c) /\ (Quiet(e) <=> Quiet(b) /\ ~(c = ";" /\ Mode(b) \in {"plain", "dash"}))
    BY <2>1, ModeAppend, QuietAppend
  <2>44. e = b \o << c >> BY <2>1, AppendIsConcat
  <2> HIDE DEF e
  <2>5. Mode(b) = "plain" BY <1>1, <2>2 DEF After
  <2>6. Mode(e) = "string" BY <1>1, <2>4, <2>5 DEF After
  <2>7. Quiet(e) <=> Quiet(a) BY <1>1, <2>2, <2>4
  <2>8. a \o << c, c >> = e
    <3> DEFINE q == << c >>
    <3>1. q \in Seq(X) OBVIOUS
    <3>2. q \o q = << c, c >>
      <4>1. << c, c >> = Append(q, c) BY PairIsAppend
      <4>2. Append(q, c) = q \o << c >> BY <3>1, AppendIsConcat
      <4>3. QED BY <4>1, <4>2
    <3> HIDE DEF q
    <3>3. (a \o q) \o q = a \o (q \o q) BY <3>1, ConcatAssociative
    <3>4. QED BY <2>22, <2>44, <3>2, <3>3 DEF q
  <2>9. Doubled(c) = << c, c >> BY <1>1 DEF Doubled
  <2>10. QED BY <2>3, <2>6, <2>7, <2>8, <2>9
<1>2. CASE c # "'"
  <2> DEFINE b == Append(a, c)
  <2>1. b \in Seq(X) BY AppendProperties
  <2>2. Mode(b) = After(Mode(a), c) /\ (Quiet(b) <=> Quiet(a) /\ ~(c = ";" /\ Mode(a) \in {"plain", "dash"}))
    BY ModeAppend, QuietAppend
  <2>3. b = a \o << c >> BY AppendIsConcat
  <2> HIDE DEF b
  <2>4. Mode(b) = "string" BY <1>2, <2>2 DEF After
  <2>5. Quiet(b) <=> Quiet(a) BY <2>2
  <2>6. Doubled(c) = << c >> BY <1>2 DEF Doubled
  <2>7. QED BY <2>1, <2>3, <2>4, <2>5, <2>6
<1>3. QED BY <1>1, <1>2

\* A literal is harmless.
LEMMA LiteralIsHarmless ==
  ASSUME NEW X, "'" \in X, NEW s \in Seq(X), Mode(s) \in {"plain", "dash"}, NEW b \in Seq(X)
  PROVE  Harmless(s, sql_string_literal(b))
<1> DEFINE n == Len(b)
           d == [i \in DOMAIN b |-> Doubled(b[i])]
           f == FlattenSeq(d)
           q == << "'" >>
           F(k) == FlattenSeq(SubSeq(d, 1, k))
           a == Append(s, "'")
           S == {k \in Nat : k <= n => /\ F(k) \in Seq(X) /\ a \o F(k) \in Seq(X) /\ Mode(a \o F(k)) = "string"
                                       /\ Quiet(a \o F(k)) <=> Quiet(a)}
<1>1. n \in Nat /\ DOMAIN b = 1 .. n OBVIOUS
<1>2. /\ f \in Seq(X) /\ d \in Seq(Seq(X)) /\ Len(d) = n
      /\ \A i \in 1 .. n : d[i] = Doubled(b[i])
      /\ sql_string_literal(b) = (q \o f) \o q
  BY LiteralType
<1>3. a \in Seq(X) /\ a = s \o q BY AppendProperties, AppendIsConcat
<1>4. Mode(a) = After(Mode(s), "'") /\ (Quiet(a) <=> Quiet(s)) BY ModeAppend, QuietAppend
<1>5. Mode(a) = "string" BY <1>4 DEF After
<1>6. q \in Seq(X) OBVIOUS
<1>66. \A i \in 1 .. n : b[i] \in X BY <1>1
<1> HIDE DEF d, a, q, n
<1>7. 0 \in S
  <2>1. F(0) = << >>
    <3>1. SubSeq(d, 1, 0) = << >> BY SubSeqEmpty
    <3>2. QED BY <3>1, FlattenEmpty
  <2>2. << >> \in Seq(X) /\ a \o << >> = a BY <1>3, EmptySeq
  <2> HIDE DEF F
  <2>3. QED BY <1>3, <1>5, <2>1, <2>2
<1>8. ASSUME NEW k \in Nat, k \in S PROVE k + 1 \in S
  <2> SUFFICES ASSUME k + 1 <= n
               PROVE  /\ F(k + 1) \in Seq(X) /\ a \o F(k + 1) \in Seq(X) /\ Mode(a \o F(k + 1)) = "string"
                      /\ Quiet(a \o F(k + 1)) <=> Quiet(a)
    OBVIOUS
  <2>1. k <= n /\ k < n /\ k + 1 \in 1 .. n BY <1>1
  <2>2. F(k) \in Seq(X) /\ F(k + 1) = F(k) \o d[k + 1] BY <1>2, <2>1, FlattenNext
  <2> DEFINE c == b[k + 1]
             u == Doubled(c)
             g == F(k)
             e == a \o g
  <2>3. d[k + 1] = u /\ c \in X BY <1>2, <1>66, <2>1
  <2>4. e \in Seq(X) /\ Mode(e) = "string" /\ (Quiet(e) <=> Quiet(a)) BY <1>8, <2>1
  <2>5. u \in Seq(X) /\ g \in Seq(X)
    <3>1. << "'", "'" >> \in Seq(X) OBVIOUS
    <3> HIDE DEF c
    <3>2. << c >> \in Seq(X) BY <2>3
    <3>3. QED BY <2>2, <3>1, <3>2 DEF Doubled
  <2>6. F(k + 1) = g \o u BY <2>2, <2>3
  <2> HIDE DEF c, g, F
  <2>7. e \o u \in Seq(X) /\ Mode(e \o u) = "string" /\ (Quiet(e \o u) <=> Quiet(e))
    <3> HIDE DEF e
    <3>1. QED BY <2>3, <2>4, DoubledStays
  <2> HIDE DEF u
  <2>8. e \o u = a \o (g \o u)
    <3>1. a \in Seq(X) BY <1>3
    <3> HIDE DEF e, S
    <3>2. (a \o g) \o u = a \o (g \o u) BY <2>5, <3>1, ConcatAssociative, SMTT(60)
    <3>3. QED BY <3>2 DEF e
  <2>9. g \o u \in Seq(X) BY <2>5, ConcatProperties
  <2>10. QED BY <2>4, <2>6, <2>7, <2>8, <2>9
<1> HIDE DEF S
<1>9. Nat \subseteq S BY <1>7, <1>8, SetInduction
<1>10. n \in S /\ n <= n BY <1>1, <1>9
<1>11. F(n) = f
  <2>1. SubSeq(d, 1, n) = d BY <1>2, SubSeqFull
  <2>2. QED BY <2>1
<1>12. a \o f \in Seq(X) /\ Mode(a \o f) = "string" /\ (Quiet(a \o f) <=> Quiet(a)) BY <1>10, <1>11 DEF S
<1> DEFINE e == a \o f
           z == Append(e, "'")
<1> HIDE DEF F, f
<1>13. z = e \o q BY <1>12, AppendIsConcat DEF q
<1>14. Mode(z) = After(Mode(e), "'") /\ (Quiet(z) <=> Quiet(e))
  <2>1. e \in Seq(X) BY <1>12
  <2> HIDE DEF e
  <2>2. "'" # ";" OBVIOUS
  <2>3. Mode(z) = After(Mode(e), "'") BY <2>1, ModeAppend
  <2>4. Quiet(z) <=> Quiet(e) BY <2>1, <2>2, QuietAppend
  <2>5. QED BY <2>3, <2>4
<1>15. Mode(z) = "plain" BY <1>12, <1>14 DEF After
<1>16. s \o ((q \o f) \o q) = z
  <2> DEFINE g == q \o f
  <2>1. g \in Seq(X) BY <1>2, <1>6, ConcatProperties
  <2>2. s \o g = (s \o q) \o f
    <3>1. f \in Seq(X) BY <1>2
    <3>2. QED BY <1>6, <3>1, ConcatAssociative, SMTT(60)
  <2> HIDE DEF g
  <2>3. s \o (g \o q) = (s \o g) \o q BY <1>6, <2>1, ConcatAssociative, SMTT(60)
  <2>4. QED BY <1>3, <1>13, <2>2, <2>3 DEF g
<1> HIDE DEF z, e
<1>17. QED BY <1>2, <1>4, <1>12, <1>14, <1>15, <1>16 DEF Harmless, e

\* Every value is harmless, unless its sign makes a comment.
LEMMA ValueIsHarmless ==
  ASSUME NEW X, Digit \subseteq X, {"'", "N", "T", "error"} \subseteq X,
         NEW s \in Seq(X), Mode(s) \in {"plain", "dash"},
         NEW b \in Seq(X), NEW d \in Seq(X), IsNumber(d),
         NEW l \in {NULL, Truth, Error, d, sql_string_literal(b)}, Mode(s) = "dash" => l[1] # "-"
  PROVE  Harmless(s, l)
<1> DEFINE Y == {"N", "T", "error"}
<1>1. Y \subseteq X /\ Y \cap Special = {} BY DEF Special
<1>2. ASSUME NEW c \in Y PROVE Harmless(s, << c >>)
  <2> HIDE DEF Y
  <2>1. << c >> \in Seq(Y) /\ << c >> # << >> OBVIOUS
  <2>2. QED BY <1>1, <2>1, OrdinaryIsHarmless
<1>3. CASE l = NULL BY <1>2, <1>3 DEF NULL
<1>4. CASE l = Truth BY <1>2, <1>4 DEF Truth
<1>5. CASE l = Error BY <1>2, <1>5 DEF Error
<1>6. CASE l = d BY <1>6, NumberIsHarmless
<1>7. CASE l = sql_string_literal(b)
  <2>1. "'" \in X OBVIOUS
  <2>2. Harmless(s, sql_string_literal(b)) BY <2>1, LiteralIsHarmless
  <2>3. QED BY <1>7, <2>2
<1>8. QED BY <1>3, <1>4, <1>5, <1>6, <1>7

\* ... of the parameters of a portal.
LEMMA ParameterIsHarmless ==
  ASSUME NEW T, NEW ps \in Portals, NEW m \in 1 .. Len(ps),
         NEW s \in Seq(CharsOf(T, ps)), Mode(s) \in {"plain", "dash"},
         Mode(s) = "dash" => render_portal_parameter(ps[m])[1] # "-"
  PROVE  Harmless(s, render_portal_parameter(ps[m]))
<1> DEFINE X == CharsOf(T, ps)
           n == Len(ps)
           l == render_portal_parameter(ps[m])
           b == ps[m].bytes
           d == ps[m].number
<1>1. DOMAIN ps = 1 .. n /\ {ps[m].null, ps[m].binary, ps[m].utf8} \subseteq BOOLEAN BY PortalType
<1>2. Digit \subseteq X /\ {"'", "N", "T", "error"} \subseteq X BY DEF CharsOf
<1>3. ToSet(b) \subseteq X /\ ToSet(d) \subseteq X
  <2> DEFINE B(i) == ToSet(ps[i].bytes)
             D(i) == ToSet(ps[i].number)
             U == UNION {B(i) \cup D(i) : i \in 1 .. n}
  <2>1. ValueChars(ps) \subseteq X BY DEF CharsOf
  <2>2. ValueChars(ps) = U BY DEF ValueChars
  <2>3. B(m) = ToSet(b) /\ D(m) = ToSet(d) OBVIOUS
  <2> HIDE DEF B, D, X, b, d
  <2>4. B(m) \subseteq U /\ D(m) \subseteq U OBVIOUS
  <2> HIDE DEF U
  <2>5. QED BY <2>1, <2>2, <2>3, <2>4
<1>4. b \in Seq(ToSet(b)) /\ IsNumber(d) BY <1>1, PortalsAssumption
<1>5. d \in Seq(ToSet(d)) BY <1>4 DEF IsNumber
<1>6. l \in {NULL, Truth, Error, d, sql_string_literal(b)} BY <1>1, LiteralIs
<1>7. s \in Seq(X) /\ (Mode(s) = "dash" => l[1] # "-") OBVIOUS
<1> HIDE DEF X, n, l, b, d
<1>8. b \in Seq(X) BY <1>3, <1>4, MoreMembers
<1>9. d \in Seq(X) BY <1>3, <1>5, MoreMembers
<1>10. Harmless(s, l) BY <1>2, <1>4, <1>6, <1>7, <1>8, <1>9, ValueIsHarmless
<1>11. QED BY <1>10 DEF l

\* A placeholder is harmless.
LEMMA PlaceholderIsHarmless ==
  ASSUME NEW X, Digit \cup {"$"} \subseteq X, NEW s \in Seq(X), Mode(s) \in {"plain", "dash"}, NEW m \in 1 .. 99
  PROVE  Harmless(s, Placeholder(m))
<1> DEFINE Y == Digit \cup {"$"}
           w == Placeholder(m)
<1>1. Mark(w) BY PlaceholderIsMark
<1>2. Y \cap Special = {} BY DEF Digit, Special
<1>3. w \in Seq(Y) /\ Len(w) \in {2, 3} BY <1>1 DEF Mark
<1>4. Y \subseteq X OBVIOUS
<1> HIDE DEF Y, w
<1>5. w # << >>
  <2>1. Len(w) # 0
    <3> DEFINE n == Len(w)
    <3>1. n \in {2, 3} BY <1>3
    <3> HIDE DEF n
    <3>2. n # 0 BY <3>1
    <3>3. QED BY <3>2 DEF n
  <2>2. Len(<< >>) = 0 OBVIOUS
  <2>3. QED BY <2>1, <2>2, Zenon
<1>6. Harmless(s, w) BY <1>2, <1>3, <1>4, <1>5, OrdinaryIsHarmless
<1>7. QED BY <1>6 DEF w

\* Where a placeholder stands, the statement before it is what is put together
\* before any parameter has been replaced.
LEMMA BeforePlaceholder ==
  ASSUME NEW X, NEW T, NEW v, NEW n, Bindable(X, T, v, n), NEW i \in Nat, i < Len(T), T[i + 1] = "$"
  PROVE  Put(T, v, n, i) = SubSeq(T, 1, i)
<1>0. T \in Seq(X) BY DEF Bindable
<1>1. Len(T) \in Nat BY <1>0
<1>2. CASE i = 0
  <2>1. SubSeq(T, 1, 0) = << >> BY SubSeqEmpty
  <2>2. QED BY <1>2, <2>1, PutNone
<1>3. CASE i # 0
  <2>1. i \in 1 .. Len(T) /\ i \in i .. Len(T) /\ \A j \in (i + 1) .. i : FALSE BY <1>1, <1>3
  <2>2. ~IsDigit(T[i + 1]) BY DigitsAre, DollarIsNoDigit
  <2>3. DigitsEnd(T, i) = i BY <1>0, <2>1, <2>2, DigitsEndAt
  <2>4. QED BY <2>1, <2>3, PutUnbound
<1>4. QED BY <1>2, <1>3

\* Two parts that are harmless keep what is open.
LEMMA SameHarmless ==
  ASSUME NEW s, NEW t, NEW l, NEW w, Same(s, t), Harmless(s, l), Harmless(t, w)
  PROVE  Same(s \o l, t \o w)
  BY DEF Same, Harmless

\* What is open at the end of the statement is open at the end of the text
\* rendered, and no semicolon is added.
LEMMA SameAll ==
  ASSUME NEW X, X = CharsOf(text, parameters), parameters \in Portals,
         Bindable(X, text, Literals, Len(parameters)), ~Enquoted(text), ~Negated
  PROVE  Same(Put(text, Literals, 0, Len(text)), Put(text, Literals, Len(parameters), Len(text)))
<1> DEFINE T == text
           v == Literals
           n == Len(parameters)
           c == Len(T)
           P(j) == Put(T, v, 0, j)
           Q(j) == Put(T, v, n, j)
           S == {j \in Nat : j <= c => Same(P(j), Q(j))}
<1>1. n \in 0 .. 99 BY PortalType
<1>2. T \in Seq(X) /\ Digit \cup {"$"} \subseteq X BY DEF Bindable
<1>3. c \in Nat /\ DOMAIN T = 1 .. c BY <1>2
<1>4. 0 \in 0 .. n /\ n \in 0 .. n /\ n \in Nat
  <2> HIDE DEF n
  <2>1. QED BY <1>1
<1>5. 0 \in S
  <2>1. P(0) = << >> /\ Q(0) = << >> BY PutNone
  <2>2. QED BY <2>1 DEF Same
<1>6. ASSUME NEW j \in Nat, j \in S PROVE j + 1 \in S
  <2> SUFFICES ASSUME j + 1 <= c PROVE Same(P(j + 1), Q(j + 1)) OBVIOUS
  <2> DEFINE i == j + 1
             a == P(j)
             b == Q(j)
             p == PartAt(T, v, 0, i)
             q == PartAt(T, v, n, i)
             m == NumberAt(T, i)
  <2>1. j < c /\ j <= c /\ i \in 1 .. c /\ i - 1 = j BY <1>3
  <2>2. a \in Seq(X) /\ p \in Seq(X) /\ P(i) = a \o p BY <1>4, <2>1, PutNext
  <2>3. b \in Seq(X) /\ q \in Seq(X) /\ Q(i) = b \o q BY <1>4, <2>1, PutNext
  <2>4. Same(a, b) BY <1>6, <2>1
  <2>5. q = IF i > 1 /\ T[i] \in Digit THEN << >> ELSE SubSeq(T, i, DigitsEnd(T, i)) BY <2>1, PartUnbound
  <2>6. \/ i > 1 /\ T[i] \in Digit /\ p = << >>
        \/ /\ T[i] = "$" /\ m \in 1 .. n /\ SubSeq(T, i, DigitsEnd(T, i)) = Placeholder(m)
           /\ p = IF m > 0 THEN v[m] ELSE Placeholder(m)
        \/ (i = 1 \/ T[i] \notin Digit) /\ p = SubSeq(T, i, DigitsEnd(T, i))
    BY <1>4, <2>1, PartIs
  <2>66. i = 1 => ~(i > 1) OBVIOUS
  <2>7. CASE p = q
    <3> HIDE DEF a, b, p, q
    <3>1. Same(a \o p, b \o p) BY <2>2, <2>3, <2>4, SameConcat
    <3>2. QED BY <2>2, <2>3, <2>7, <3>1
  <2>8. CASE /\ T[i] = "$" /\ m \in 1 .. n /\ SubSeq(T, i, DigitsEnd(T, i)) = Placeholder(m)
             /\ p = IF m > 0 THEN v[m] ELSE Placeholder(m)
    <3>1. m > 0 /\ m \in 1 .. 99
      <4> HIDE DEF m, n
      <4>1. QED BY <1>1, <2>8
    <3>2. q = Placeholder(m) BY <2>5, <2>8, DollarIsNoDigit
    <3>3. IsPlaceholder(T, i) BY <2>8, <3>1 DEF IsPlaceholder
    <3>4. v[m] = ValueAt(i) /\ v[m] = render_portal_parameter(parameters[m])
      BY <2>1, <3>3, ValueOfPlaceholder DEF ValueAt
    <3>5. b = SubSeq(T, 1, j) BY <2>1, <2>8, BeforePlaceholder
    <3>6. Mode(b) \in {"plain", "dash"}
      <4>1. i \in DOMAIN text BY <1>3, <2>1
      <4>2. Mode(SubSeq(text, 1, i - 1)) \in {"plain", "dash"} BY <3>3, <4>1 DEF Enquoted
      <4>3. QED BY <2>1, <3>5, <4>2
    <3>7. Mode(b) = "dash" => ValueAt(i)[1] # "-"
      <4>1. i \in DOMAIN text BY <1>3, <2>1
      <4>2. Mode(SubSeq(text, 1, i - 1)) = "dash" => ValueAt(i)[1] # "-" BY <3>3, <4>1 DEF Negated
      <4>3. QED BY <2>1, <3>5, <4>2
    <3>8. Mode(a) = Mode(b) BY <2>4 DEF Same
    <3>9. p = v[m] BY <2>8, <3>1
    <3> DEFINE x == render_portal_parameter(parameters[m])
    <3>10. a \in Seq(CharsOf(text, parameters)) BY <2>2
    <3> HIDE DEF a, b, p, q, m, i
    <3>11. Mode(a) = "dash" => x[1] # "-" BY <3>4, <3>7, <3>8
    <3>12. Mode(a) \in {"plain", "dash"} BY <3>6, <3>8
    <3>13. Harmless(a, x) BY <2>8, <3>10, <3>11, <3>12, ParameterIsHarmless
    <3>14. Harmless(b, Placeholder(m)) BY <1>2, <2>3, <3>1, <3>6, PlaceholderIsHarmless
    <3>15. Harmless(a, p) /\ Harmless(b, q) BY <3>2, <3>4, <3>9, <3>13, <3>14
    <3>16. Same(a \o p, b \o q) BY <2>4, <3>15, SameHarmless
    <3>17. QED BY <2>2, <2>3, <3>16 DEF i
  <2> HIDE DEF p, q, i
  <2>9. p = q \/ /\ T[i] = "$" /\ m \in 1 .. n /\ SubSeq(T, i, DigitsEnd(T, i)) = Placeholder(m)
                 /\ p = IF m > 0 THEN v[m] ELSE Placeholder(m)
    BY <2>5, <2>6, <2>66
  <2>10. QED BY <2>7, <2>8, <2>9
<1> HIDE DEF S
<1>7. Nat \subseteq S BY <1>5, <1>6, SetInduction
<1>8. c \in S BY <1>3, <1>7
<1>9. c <= c BY <1>3
<1>10. QED BY <1>8, <1>9 DEF S

(***************************************************************************)
(* split_exasol_sql                                                        *)
(***************************************************************************)

\* The lines and the statements of the items of a script, and the ones of its
\* first m items.
LinesOf(T) == [i \in 1 .. Len(T) |-> T[i].lines]
StatementsOf(T) == [i \in 1 .. Len(T) |-> T[i].statements]
Before(T, m) == Len(FlattenSeq(SubSeq(LinesOf(T), 1, m)))
Meant(T, m) == FlattenSeq(SubSeq(StatementsOf(T), 1, m))

\* None of the first m items leads astray.
Right(T, m) == \A i \in 1 .. m : ~Astray(T[i])

\* The lines kept of an item of which j have been read, and whether it has a body.
Amid(item, j, lines, compound) ==
  \/ Between(item) /\ lines = << >> /\ compound = FALSE
  \/ /\ IsStatement(item.lines) /\ lines = SubSeq(item.lines, Opening(item.lines) + 1, j)
     /\ compound = (j > Opening(item.lines) /\ HasBody(item.lines))

\* Where the loop is: k lines read, the statements found those of the items read,
\* the lines kept those of the current one.
Whereabouts(T, k, found, lines, compound) ==
  \E m \in 0 .. Len(T) :
    /\ Right(T, m) /\ found = Meant(T, m)
    /\ \/ m = Len(T) /\ k = Before(T, m) /\ lines = << >> /\ compound = FALSE
       \/ /\ m < Len(T) /\ ~Astray(T[m + 1])
          /\ \E j \in 0 .. Len(T[m + 1].lines) :
               /\ k = Before(T, m) + j /\ Amid(T[m + 1], j, lines, compound)
               /\ j < Len(T[m + 1].lines) \/ (m + 1 = Len(T) /\ Unfinished(T[m + 1]))

\* The statements of the items before the first one that leads astray are found.
Led(T, found) == \E a \in 1 .. Len(T) : Right(T, a - 1) /\ Astray(T[a]) /\ IsPrefix(Meant(T, a - 1), found)

ScriptInv ==
  call = "script" =>
    /\ text \in Scripts
    /\ \/ Led(text, statements)
       \/ outcome = "running" /\ Whereabouts(text, idx, statements, buffer, in_compound_statement)
       \/ outcome = "returned" /\ Right(text, Len(text)) /\ statements = Meant(text, Len(text))

\* The lines of a script.
LinesIn(T) == FlattenSeq(LinesOf(T))

\* A list of lists, each with members of its own.
LEMMA ListOfLists ==
  ASSUME NEW n \in Nat, NEW f, f = [i \in 1 .. n |-> f[i]], \A i \in 1 .. n : f[i] \in Seq(ToSet(f[i]))
  PROVE  \E X : f \in Seq(Seq(X)) /\ Len(f) = n
<1> DEFINE X == UNION {ToSet(f[i]) : i \in 1 .. n}
           Y == Seq(X)
<1>1. \A i \in 1 .. n : ToSet(f[i]) \subseteq X OBVIOUS
<1> HIDE DEF X
<1>2. \A i \in 1 .. n : f[i] \in Y
  <2> SUFFICES ASSUME NEW i \in 1 .. n PROVE f[i] \in Seq(X) OBVIOUS
  <2> DEFINE s == f[i]
             Z == ToSet(s)
  <2>1. s \in Seq(Z) /\ Z \subseteq X BY <1>1
  <2> HIDE DEF s, Z
  <2>2. s \in Seq(X) BY <2>1, MoreMembers
  <2>3. QED BY <2>2 DEF s
<1> HIDE DEF Y
<1>3. f \in Seq(Y) /\ Len(f) = n BY <1>2
<1>4. f \in Seq(Seq(X)) /\ Len(f) = n BY <1>3 DEF Y
<1>5. QED BY <1>4

\* A script and its items.
LEMMA ScriptType ==
  ASSUME NEW T \in Scripts
  PROVE  /\ Len(T) \in Nat /\ DOMAIN T = 1 .. Len(T)
         /\ \E X : LinesOf(T) \in Seq(Seq(X)) /\ Len(LinesOf(T)) = Len(T)
         /\ \E X : StatementsOf(T) \in Seq(Seq(X)) /\ Len(StatementsOf(T)) = Len(T)
<1> DEFINE items == ToSet(T)
           n == Len(T)
           f == LinesOf(T)
           g == StatementsOf(T)
<1>1. T \in Seq(items) /\ \A item \in items : /\ item.lines \in Seq(ToSet(item.lines))
                                              /\ item.statements \in Seq(ToSet(item.statements))
  BY TextsAssumption
<1> HIDE DEF items
<1>2. n \in Nat /\ DOMAIN T = 1 .. n /\ \A i \in 1 .. n : T[i] \in items BY <1>1
<1>3. f = [i \in 1 .. n |-> T[i].lines] /\ g = [i \in 1 .. n |-> T[i].statements] BY DEF LinesOf, StatementsOf
<1>4. \A i \in 1 .. n : f[i] = T[i].lines /\ g[i] = T[i].statements BY <1>3
<1>5. \A i \in 1 .. n : f[i] \in Seq(ToSet(f[i])) /\ g[i] \in Seq(ToSet(g[i])) BY <1>1, <1>2, <1>4
<1>6. f = [i \in 1 .. n |-> f[i]] /\ g = [i \in 1 .. n |-> g[i]] BY <1>3, <1>4
<1> HIDE DEF f, g, n
<1>7. \E X : f \in Seq(Seq(X)) /\ Len(f) = n BY <1>2, <1>5, <1>6, ListOfLists
<1>8. \E X : g \in Seq(Seq(X)) /\ Len(g) = n BY <1>2, <1>5, <1>6, ListOfLists
<1>9. QED BY <1>2, <1>7, <1>8 DEF f, g, n

\* Where the lines of an item are.
LEMMA LinesAt ==
  ASSUME NEW T \in Scripts, NEW m \in Nat, m < Len(T)
  PROVE  /\ Before(T, m) \in Nat /\ Len(T[m + 1].lines) \in Nat
         /\ Before(T, m + 1) = Before(T, m) + Len(T[m + 1].lines)
         /\ Before(T, m + 1) <= Len(LinesIn(T))
         /\ \A j \in 1 .. Len(T[m + 1].lines) : LinesIn(T)[Before(T, m) + j] = T[m + 1].lines[j]
<1> DEFINE f == LinesOf(T)
           F(k) == FlattenSeq(SubSeq(f, 1, k))
           all == FlattenSeq(f)
           L == f[m + 1]
<1>1. Len(T) \in Nat BY ScriptType
<1>2. PICK X : f \in Seq(Seq(X)) /\ Len(f) = Len(T) BY ScriptType
<1>3. m + 1 \in 1 .. Len(T) /\ m + 1 \in 0 .. Len(T) BY <1>1
<1>4. L = T[m + 1].lines BY <1>3 DEF LinesOf
<1> HIDE DEF f
<1>5. L \in Seq(X)
  <2> DEFINE Y == Seq(X)
  <2>1. f \in Seq(Y) /\ m + 1 \in 1 .. Len(f) BY <1>2, <1>3
  <2> HIDE DEF Y
  <2>2. L \in Y BY <2>1
  <2>3. QED BY <2>2 DEF Y
<1>6. F(m) \in Seq(X) /\ F(m + 1) = F(m) \o L BY <1>2, FlattenNext
<1>7. Len(F(m + 1)) <= Len(all) /\ \A i \in 1 .. Len(F(m + 1)) : F(m + 1)[i] = all[i] BY <1>2, <1>3, FlattenPrefix
<1> HIDE DEF F, all, L
<1>8. Len(F(m)) \in Nat /\ Len(L) \in Nat BY <1>5, <1>6
<1>9. Len(F(m + 1)) = Len(F(m)) + Len(L)
      /\ \A i \in 1 .. (Len(F(m)) + Len(L)) : F(m + 1)[i] = IF i <= Len(F(m)) THEN F(m)[i] ELSE L[i - Len(F(m))]
  BY <1>5, <1>6, ConcatProperties
<1>10. ASSUME NEW j \in 1 .. Len(L) PROVE all[Len(F(m)) + j] = L[j]
  <2> DEFINE a == Len(F(m))
             i == a + j
  <2>1. i \in 1 .. (a + Len(L)) /\ ~(i <= a) /\ i - a = j BY <1>8
  <2> HIDE DEF i, a
  <2>2. F(m + 1)[i] = L[j] BY <1>9, <2>1 DEF a
  <2>3. F(m + 1)[i] = all[i] BY <1>7, <1>9, <2>1 DEF a
  <2>4. QED BY <2>2, <2>3 DEF i, a
<1>11. QED BY <1>4, <1>7, <1>8, <1>9, <1>10 DEF Before, LinesIn, F, all, f

\* The first and the last of them.
LEMMA LinesEnd ==
  ASSUME NEW T \in Scripts
  PROVE  Before(T, 0) = 0 /\ Before(T, Len(T)) = Len(LinesIn(T))
<1> DEFINE f == LinesOf(T)
<1>1. PICK X : f \in Seq(Seq(X)) /\ Len(f) = Len(T) BY ScriptType
<1> DEFINE Y == Seq(X)
<1>2. f \in Seq(Y) BY <1>1
<1> HIDE DEF f, Y
<1>3. SubSeq(f, 1, Len(f)) = f BY <1>2, SubSeqFull
<1>4. SubSeq(f, 1, 0) = << >> BY SubSeqEmpty
<1>5. Len(FlattenSeq(<< >>)) = 0 BY FlattenEmpty
<1>6. QED BY <1>1, <1>3, <1>4, <1>5 DEF Before, LinesIn, f

\* The statements of one item more.
LEMMA MeantNext ==
  ASSUME NEW T \in Scripts, NEW m \in Nat, m < Len(T)
  PROVE  \E X : /\ Meant(T, m) \in Seq(X) /\ T[m + 1].statements \in Seq(X)
                /\ Meant(T, m + 1) = Meant(T, m) \o T[m + 1].statements
<1> DEFINE g == StatementsOf(T)
           M == g[m + 1]
<1>1. Len(T) \in Nat BY ScriptType
<1>2. PICK X : g \in Seq(Seq(X)) /\ Len(g) = Len(T) BY ScriptType
<1>3. m + 1 \in 1 .. Len(T) BY <1>1
<1>4. M = T[m + 1].statements BY <1>3 DEF StatementsOf
<1> HIDE DEF g
<1>5. M \in Seq(X)
  <2> DEFINE Y == Seq(X)
  <2>1. g \in Seq(Y) /\ m + 1 \in 1 .. Len(g) BY <1>2, <1>3
  <2> HIDE DEF Y
  <2>2. M \in Y BY <2>1
  <2>3. QED BY <2>2 DEF Y
<1>6. FlattenSeq(SubSeq(g, 1, m)) \in Seq(X) /\ FlattenSeq(SubSeq(g, 1, m + 1)) = FlattenSeq(SubSeq(g, 1, m)) \o M
  BY <1>2, FlattenNext
<1>7. QED BY <1>4, <1>5, <1>6 DEF Meant, g

\* The statements of the first m items are a list.
LEMMA MeantType ==
  ASSUME NEW T \in Scripts, NEW m \in 0 .. Len(T)
  PROVE  \E X : Meant(T, m) \in Seq(X)
<1> DEFINE g == StatementsOf(T)
<1>1. Len(T) \in Nat BY ScriptType
<1>2. PICK X : g \in Seq(Seq(X)) /\ Len(g) = Len(T) BY ScriptType
<1> DEFINE Y == Seq(X)
<1>3. g \in Seq(Y) BY <1>2
<1> HIDE DEF g, Y
<1>4. SubSeq(g, 1, m) \in Seq(Y)
  <2>1. m \in 0 .. Len(g) BY <1>2
  <2>2. CASE m = 0
    <3>1. SubSeq(g, 1, 0) = << >> BY SubSeqEmpty
    <3>2. QED BY <2>2, <3>1, EmptySeq
  <2>3. CASE m # 0 BY <1>3, <2>1, <2>3
  <2>4. QED BY <2>2, <2>3
<1>5. SubSeq(g, 1, m) \in Seq(Seq(X)) BY <1>4 DEF Y
<1>6. FlattenSeq(SubSeq(g, 1, m)) \in Seq(X) BY <1>5, FlattenType
<1>7. QED BY <1>6 DEF Meant, g

\* What trim takes away.
White == {" ", NL}

\* The lines that end with a semicolon.
LEMMA EndedIs == DOMAIN Ended \cap White = {} /\ Ended[";"] \in White
<1>1. DOMAIN Ended = {"x;", "y;", ";", "-- c;"} BY DEF Ended
<1>2. Ended[";"] = " " BY DEF Ended, BLANK
<1>3. DOMAIN Ended \cap White = {} BY <1>1, Zenon DEF White, NL
<1>4. QED BY <1>2, <1>3, Zenon DEF White

\* What trim is.
LEMMA TrimIs ==
  ASSUME NEW s
  PROVE  trim(s) = IF {i \in DOMAIN s : s[i] \notin White} = {} THEN << >>
                   ELSE SubSeq(s, Min({i \in DOMAIN s : s[i] \notin White}), Max({i \in DOMAIN s : s[i] \notin White}))
  BY DEF trim, White

\* An item of a script.
LEMMA ItemIs ==
  ASSUME NEW T \in Scripts, NEW i \in 1 .. Len(T)
  PROVE  /\ T[i].lines \in Seq(ToSet(T[i].lines)) /\ Len(T[i].lines) \in Nat /\ Len(T[i].lines) >= 1
         /\ \/ Astray(T[i]) \/ Between(T[i])
            \/ IsStatement(T[i].lines) /\ Says(T[i].lines, T[i].statements)
            \/ i = Len(T) /\ Unfinished(T[i])
<1>1. DOMAIN T = 1 .. Len(T) BY ScriptType
<1>2. T[i] \in ToSet(T) BY <1>1 DEF ToSet
<1>3. T[i].lines \in Seq(ToSet(T[i].lines)) BY <1>2, TextsAssumption
<1>4. /\ T[i].lines # << >>
      /\ \/ Astray(T[i]) \/ Between(T[i])
         \/ IsStatement(T[i].lines) /\ Says(T[i].lines, T[i].statements)
         \/ i = Len(T) /\ Unfinished(T[i])
  BY <1>1, ScriptsAssumption
<1> DEFINE L == T[i].lines
           X == ToSet(L)
<1>5. L \in Seq(X) /\ L # << >> BY <1>3, <1>4
<1> HIDE DEF L, X
<1>6. Len(L) \in Nat /\ Len(L) >= 1 BY <1>5
<1>7. QED BY <1>3, <1>4, <1>6 DEF L

\* The marker is the first line, or there is none.
LEMMA OpeningIs == \A lines : Opening(lines) \in {0, 1} /\ (Opening(lines) = 1 <=> lines[1] = OPENS)
  BY DEF Opening

\* Nothing of an item has been read.
LEMMA AmidNone ==
  ASSUME NEW item, Between(item) \/ IsStatement(item.lines)
  PROVE  Amid(item, 0, << >>, FALSE)
<1>1. CASE Between(item) BY <1>1 DEF Amid
<1>2. CASE IsStatement(item.lines)
  <2> DEFINE o == Opening(item.lines)
  <2>1. o \in {0, 1} BY OpeningIs
  <2> HIDE DEF o
  <2>2. o + 1 > 0 /\ ~(0 > o) /\ o + 1 \in Int BY <2>1
  <2>3. SubSeq(item.lines, o + 1, 0) = << >> BY <2>2, SubSeqEmpty
  <2>4. QED BY <1>2, <2>2, <2>3 DEF Amid, o
<1>3. QED BY <1>1, <1>2

\* Between two items the loop is where it should be.
LEMMA Arrive ==
  ASSUME NEW T \in Scripts, NEW m \in 0 .. Len(T), Right(T, m)
  PROVE  Led(T, Meant(T, m)) \/ Whereabouts(T, Before(T, m), Meant(T, m), << >>, FALSE)
<1>0. Len(T) \in Nat BY ScriptType
<1>1. CASE m = Len(T) BY <1>1 DEF Whereabouts
<1>2. CASE m # Len(T) /\ Astray(T[m + 1])
  <2> DEFINE a == m + 1
             M == Meant(T, m)
  <2>1. a \in 1 .. Len(T) /\ a - 1 = m BY <1>0, <1>2
  <2>2. IsPrefix(M, M)
    <3>1. PICK X : M \in Seq(X) BY MeantType
    <3> HIDE DEF M
    <3>2. Len(M) \in Nat BY <3>1
    <3>3. QED BY <3>2 DEF IsPrefix
  <2>3. Astray(T[a]) /\ Right(T, a - 1) /\ IsPrefix(Meant(T, a - 1), M) BY <1>2, <2>1, <2>2
  <2> HIDE DEF a, M
  <2>4. Led(T, M) BY <2>1, <2>3 DEF Led
  <2>5. QED BY <2>4 DEF M
<1>3. CASE m # Len(T) /\ ~Astray(T[m + 1])
  <2> DEFINE i == m + 1
             b == Before(T, m)
             n == Len(T[m + 1].lines)
  <2>1. m < Len(T) /\ i \in 1 .. Len(T) /\ m \in Nat BY <1>0, <1>3
  <2>2. n \in Nat /\ n >= 1 /\ (Between(T[i]) \/ IsStatement(T[i].lines)) BY <1>3, <2>1, ItemIs DEF Unfinished
  <2>3. Amid(T[i], 0, << >>, FALSE) BY <2>2, AmidNone
  <2>4. b \in Nat BY <2>1, LinesAt
  <2>5. 0 \in 0 .. n /\ b = b + 0 /\ 0 < n
    <3> HIDE DEF n, b
    <3>1. QED BY <2>2, <2>4
  <2> HIDE DEF b
  <2>6. /\ m < Len(T) /\ ~Astray(T[m + 1])
        /\ \E j \in 0 .. Len(T[m + 1].lines) :
             /\ b = b + j /\ Amid(T[m + 1], j, << >>, FALSE)
             /\ j < Len(T[m + 1].lines) \/ (m + 1 = Len(T) /\ Unfinished(T[m + 1]))
    BY <1>3, <2>1, <2>3, <2>5
  <2>7. QED BY <2>6 DEF Whereabouts, b
<1>4. QED BY <1>1, <1>2, <1>3

\* A line of a statement, behind the marker or the marker itself.
LEMMA StatementLine ==
  ASSUME NEW X, NEW L \in Seq(X), IsStatement(L), NEW j \in Nat, j < Len(L)
  PROVE  /\ Opening(L) \in {0, 1} /\ Opening(L) + 1 <= Len(L)
         /\ j < Opening(L) => L[j + 1] = OPENS
         /\ j >= Opening(L) => /\ L[j + 1] # OPENS
                               /\ StartsCompound(L[j + 1]) => HasBody(L)
                               /\ j + 1 < Len(L) => ~EndsIt(L, L[j + 1])
         /\ j = Opening(L) => /\ L[j + 1] \notin Comments \cup {BLANK}
                              /\ StartsCompound(L[j + 1]) <=> HasBody(L)
<1> DEFINE o == Opening(L)
           f == o + 1
<1>1. o \in {0, 1} /\ (o = 1 <=> L[1] = OPENS) BY OpeningIs
<1>2. /\ f <= Len(L) /\ L[f] \notin Comments \cup {BLANK}
      /\ \A i \in f .. Len(L) :
          /\ L[i] \notin {OPENS, NL}
          /\ StartsCompound(L[i]) => HasBody(L)
          /\ i < Len(L) => ~EndsIt(L, L[i])
  BY DEF IsStatement
<1>3. HasBody(L) <=> StartsCompound(L[f]) BY DEF HasBody
<1>4. Len(L) \in Nat OBVIOUS
<1> HIDE DEF o
<1>5. ASSUME j < o PROVE L[j + 1] = OPENS
  <2>1. o = 1 /\ j = 0 /\ j + 1 = 1 BY <1>1, <1>5
  <2>2. QED BY <1>1, <2>1
<1>6. ASSUME j >= o PROVE /\ L[j + 1] # OPENS
                          /\ StartsCompound(L[j + 1]) => HasBody(L)
                          /\ j + 1 < Len(L) => ~EndsIt(L, L[j + 1])
  <2>1. j + 1 \in f .. Len(L) BY <1>1, <1>4, <1>6
  <2>2. QED BY <1>2, <2>1
<1>7. ASSUME j = o PROVE /\ L[j + 1] \notin Comments \cup {BLANK}
                         /\ StartsCompound(L[j + 1]) <=> HasBody(L)
  <2>1. j + 1 = f BY <1>7
  <2>2. QED BY <1>2, <1>3, <2>1
<1>8. QED BY <1>1, <1>2, <1>5, <1>6, <1>7 DEF o

\* A list that begins and ends with no white space is trimmed.
LEMMA TrimsToItself ==
  ASSUME NEW X, NEW s \in Seq(X), s # << >>, s[1] \notin White, s[Len(s)] \notin White
  PROVE  trim(s) = s
<1> DEFINE kept == {i \in DOMAIN s : s[i] \notin White}
           n == Len(s)
<1>1. n \in Nat /\ DOMAIN s = 1 .. n /\ n # 0 OBVIOUS
<1>2. 1 \in 1 .. n /\ n \in 1 .. n
  <2> HIDE DEF n
  <2>1. QED BY <1>1
<1>3. kept \in SUBSET (1 .. n) /\ 1 \in kept /\ n \in kept BY <1>1, <1>2
<1>4. trim(s) = SubSeq(s, Min(kept), Max(kept)) BY <1>3, TrimIs
<1> HIDE DEF kept, n
<1>5. Min(kept) = 1 /\ Max(kept) = n BY <1>1, <1>3, MinIsFirst, MaxIsLast
<1>6. SubSeq(s, 1, n) = s BY SubSeqFull DEF n
<1>7. QED BY <1>4, <1>5, <1>6

\* White space behind a list is trimmed.
LEMMA TrimBehind ==
  ASSUME NEW X, NEW s \in Seq(X), NEW c \in X, c \in White
  PROVE  trim(Append(s, c)) = trim(s)
<1> DEFINE t == Append(s, c)
           n == Len(s)
           K(u) == {i \in DOMAIN u : u[i] \notin White}
<1>1. n \in Nat /\ DOMAIN s = 1 .. n OBVIOUS
<1>2. t \in Seq(X) /\ Len(t) = n + 1 /\ t[n + 1] = c /\ \A i \in 1 .. n : t[i] = s[i] BY AppendProperties
<1>3. DOMAIN t = 1 .. (n + 1) BY <1>2
<1> HIDE DEF t, n
<1>4. K(t) = K(s)
  <2>1. \A i \in 1 .. (n + 1) : i \in 1 .. n \/ i = n + 1 BY <1>1
  <2>2. \A i \in 1 .. n : i \in 1 .. (n + 1) BY <1>1
  <2>3. QED BY <1>1, <1>2, <1>3, <2>1, <2>2
<1>5. trim(t) = IF K(t) = {} THEN << >> ELSE SubSeq(t, Min(K(t)), Max(K(t))) BY TrimIs
<1>6. trim(s) = IF K(s) = {} THEN << >> ELSE SubSeq(s, Min(K(s)), Max(K(s))) BY TrimIs
<1>7. K(s) \in SUBSET (1 .. n) BY <1>1
<1> HIDE DEF K
<1>8. CASE K(s) = {} BY <1>4, <1>5, <1>6, <1>8 DEF t
<1>9. CASE K(s) # {}
  <2> DEFINE a == Min(K(s))
             b == Max(K(s))
             p == SubSeq(t, a, b)
             q == SubSeq(s, a, b)
             m == (b - a) + 1
  <2>1. a \in K(s) /\ \A z \in K(s) : a <= z BY <1>1, <1>7, <1>9, MinInSet
  <2>2. b \in K(s) BY <1>1, <1>7, <1>9, MaxInSet
  <2>3. a \in 1 .. n /\ b \in 1 .. n /\ a <= b BY <1>7, <2>1, <2>2
  <2> HIDE DEF a, b
  <2>4. a \in Nat /\ b \in Nat /\ 1 <= a /\ b <= n /\ b <= n + 1 /\ m \in Nat /\ \A i \in 1 .. m : (a + i) - 1 \in 1 .. n
    BY <1>1, <2>3
  <2>5. p \in Seq(X) /\ Len(p) = m /\ \A i \in 1 .. m : p[i] = t[(a + i) - 1] BY <1>2, <2>3, <2>4
  <2>6. q \in Seq(X) /\ Len(q) = m /\ \A i \in 1 .. m : q[i] = s[(a + i) - 1]
    <3>1. b <= Len(s) BY <2>4 DEF n
    <3>2. QED BY <2>3, <2>4, <3>1
  <2> HIDE DEF p, q, m
  <2>7. \A i \in 1 .. m : p[i] = q[i] BY <1>2, <2>4, <2>5, <2>6
  <2>8. p = q BY <2>5, <2>6, <2>7, SeqEqual
  <2>9. QED BY <1>4, <1>5, <1>6, <1>9, <2>8 DEF p, q, a, b, t
<1>10. QED BY <1>8, <1>9

\* One line more of a part of a list.
LEMMA PartNext ==
  ASSUME NEW X, NEW s \in Seq(X), NEW a \in Nat, NEW j \in Nat, 1 <= a, a <= j + 1, j < Len(s)
  PROVE  /\ SubSeq(s, a, j) \in Seq(X) /\ s[j + 1] \in X
         /\ SubSeq(s, a, j + 1) = Append(SubSeq(s, a, j), s[j + 1])
<1> DEFINE p == SubSeq(s, a, j)
           q == SubSeq(s, a, j + 1)
           m == (j - a) + 1
           r == Append(p, s[j + 1])
<1>1. Len(s) \in Nat /\ m \in Nat /\ j + 1 \in 1 .. Len(s) /\ ((j + 1) - a) + 1 = m + 1 OBVIOUS
<1>2. s[j + 1] \in X BY <1>1
<1>3. p \in Seq(X) /\ Len(p) = m /\ \A i \in 1 .. m : p[i] = s[(a + i) - 1]
  <2>1. CASE a = j + 1
    <3>1. p = << >> /\ m = 0 BY <2>1, SubSeqEmpty
    <3>2. QED BY <3>1, EmptySeq
  <2>2. CASE a # j + 1
    <3>1. a <= j BY <2>2
    <3>2. QED BY <1>1, <3>1
  <2>3. QED BY <2>1, <2>2
<1>4. q \in Seq(X) /\ Len(q) = m + 1 /\ \A i \in 1 .. (m + 1) : q[i] = s[(a + i) - 1] BY <1>1
<1> DEFINE c == s[j + 1]
<1> HIDE DEF p, q, m, c
<1>5. r \in Seq(X) /\ Len(r) = m + 1 /\ r[m + 1] = c /\ \A i \in 1 .. m : r[i] = p[i]
  <2>1. Append(p, c) \in Seq(X) /\ Len(Append(p, c)) = Len(p) + 1 /\ Append(p, c)[Len(p) + 1] = c
        /\ \A i \in 1 .. Len(p) : Append(p, c)[i] = p[i]
    BY <1>2, <1>3, AppendProperties DEF c
  <2>2. QED BY <1>3, <2>1 DEF c
<1> HIDE DEF r
<1>6. ASSUME NEW i \in 1 .. (m + 1) PROVE q[i] = r[i]
  <2>1. CASE i = m + 1
    <3>1. (a + i) - 1 = j + 1 BY <2>1 DEF m
    <3>2. QED BY <1>4, <1>5, <2>1, <3>1 DEF c
  <2>2. CASE i # m + 1
    <3>1. i \in 1 .. m BY <1>1, <2>2
    <3>2. QED BY <1>3, <1>4, <1>5, <3>1
  <2>3. QED BY <2>1, <2>2
<1>7. q = r BY <1>4, <1>5, <1>6, SeqEqual
<1>8. QED BY <1>2, <1>3, <1>7 DEF p, q, r, c

\* The front of a list with one more behind it.
LEMMA FrontOfAppend ==
  ASSUME NEW X, NEW s \in Seq(X), NEW c \in X
  PROVE  Front(Append(s, c)) = s /\ Last(Append(s, c)) = c /\ Append(s, c) # << >>
<1> DEFINE t == Append(s, c)
           n == Len(s)
           p == SubSeq(t, 1, n)
<1>1. n \in Nat OBVIOUS
<1>2. t \in Seq(X) /\ Len(t) = n + 1 /\ t[n + 1] = c /\ \A i \in 1 .. n : t[i] = s[i] BY AppendProperties
<1> HIDE DEF t
<1>3. p \in Seq(X) /\ Len(p) = n /\ \A i \in 1 .. n : p[i] = t[i]
  <2> HIDE DEF n
  <2>1. n <= Len(t) BY <1>1, <1>2
  <2>2. QED BY <1>1, <1>2, <2>1
<1> HIDE DEF p
<1>4. p = s BY <1>2, <1>3, SeqEqual
<1>5. Len(t) - 1 = n BY <1>1, <1>2
<1>6. Len(t) # 0 BY <1>1, <1>2
<1>7. t # << >> BY <1>6
<1>8. QED BY <1>2, <1>4, <1>5, <1>7 DEF Front, Last, p, t

\* The front and the last of a list.
LEMMA FrontAndLast ==
  ASSUME NEW X, NEW s \in Seq(X), s # << >>
  PROVE  Front(s) \in Seq(X) /\ Last(s) \in X /\ Append(Front(s), Last(s)) = s
<1> DEFINE j == Len(s) - 1
<1>1. j \in Nat /\ j < Len(s) /\ j + 1 = Len(s) OBVIOUS
<1> HIDE DEF j
<1>2. SubSeq(s, 1, j) \in Seq(X) /\ s[j + 1] \in X /\ SubSeq(s, 1, j + 1) = Append(SubSeq(s, 1, j), s[j + 1])
  BY <1>1, PrefixNext
<1>3. SubSeq(s, 1, Len(s)) = s BY SubSeqFull
<1>4. QED BY <1>1, <1>2, <1>3 DEF Front, Last, j

\* A list that begins with no white space is not trimmed away.
LEMMA TrimKeeps ==
  ASSUME NEW X, NEW s \in Seq(X), s # << >>, s[1] \notin White
  PROVE  trim(s) # << >>
<1> DEFINE kept == {i \in DOMAIN s : s[i] \notin White}
           n == Len(s)
           b == Max(kept)
           r == SubSeq(s, 1, b)
<1>1. n \in Nat /\ DOMAIN s = 1 .. n /\ n # 0 OBVIOUS
<1>2. 1 \in 1 .. n
  <2> HIDE DEF n
  <2>1. QED BY <1>1
<1>3. kept \in SUBSET (1 .. n) /\ 1 \in kept BY <1>1, <1>2
<1>4. trim(s) = SubSeq(s, Min(kept), Max(kept)) BY <1>3, TrimIs
<1> HIDE DEF kept
<1>5. Min(kept) = 1 /\ b \in kept BY <1>1, <1>3, MinIsFirst, MaxInSet
<1>6. b \in 1 .. Len(s) BY <1>3, <1>5
<1> HIDE DEF b
<1>7. Len(r) = b /\ b # 0 BY <1>6
<1> HIDE DEF r
<1>8. r # << >> BY <1>7
<1>9. QED BY <1>4, <1>5, <1>8 DEF r, b

\* Nothing is trimmed to nothing.
LEMMA TrimNothing == trim(<< >>) = << >>
<1>1. {i \in DOMAIN << >> : << >>[i] \notin White} = {} OBVIOUS
<1>2. QED BY <1>1, TrimIs

\* A list of one.
LEMMA ListOfOne == \A c : << c >>[1] = c /\ Append(<< >>, c) = << c >>
  OBVIOUS

\* The lines of a statement, without the marker.
Written(lines) == SubSeq(lines, Opening(lines) + 1, Len(lines))

\* They begin with no white space, and the last of them is the last line.
LEMMA WrittenIs ==
  ASSUME NEW X, NEW L \in Seq(X), IsStatement(L)
  PROVE  /\ Written(L) \in Seq(X) /\ Written(L) # << >> /\ Written(L)[1] = L[Opening(L) + 1]
         /\ Last(Written(L)) = L[Len(L)] /\ Written(L)[1] \notin White
         /\ Front(Written(L)) = SubSeq(L, Opening(L) + 1, Len(L) - 1) /\ Front(Written(L)) \in Seq(X)
         /\ \A i \in 1 .. Len(Written(L)) : \E k \in (Opening(L) + 1) .. Len(L) : Written(L)[i] = L[k]
<1> DEFINE o == Opening(L)
           a == o + 1
           n == Len(L)
           j == n - 1
           w == SubSeq(L, a, n)
           f == SubSeq(L, a, j)
           m == (n - a) + 1
<1>1. o \in {0, 1} BY OpeningIs
<1>2. a <= n /\ L[a] \notin Comments \cup {BLANK} /\ \A i \in a .. n : L[i] \notin {OPENS, NL} BY DEF IsStatement
<1>3. n \in Nat OBVIOUS
<1> HIDE DEF o, n
<1>4. a \in Nat /\ j \in Nat /\ 1 <= a /\ a <= j + 1 /\ j < n /\ j + 1 = n /\ m \in Nat /\ m # 0 /\ a \in a .. n
      /\ 1 \in 1 .. m /\ (a + 1) - 1 = a /\ \A i \in 1 .. m : (a + i) - 1 \in a .. n
  BY <1>1, <1>2, <1>3
<1> HIDE DEF a, j
<1>5. f \in Seq(X) /\ L[j + 1] \in X /\ SubSeq(L, a, j + 1) = Append(f, L[j + 1]) BY <1>4, PartNext DEF n
<1>6. w \in Seq(X) /\ Len(w) = m /\ \A i \in 1 .. m : w[i] = L[(a + i) - 1]
  <2>1. n <= Len(L) BY <1>3 DEF n
  <2>2. QED BY <1>2, <1>3, <1>4, <2>1
<1>7. w = Append(f, L[n]) BY <1>4, <1>5
<1> HIDE DEF m
<1>8. w[1] = L[a] BY <1>4, <1>6
<1>9. L[a] \notin White
  <2>1. L[a] # BLANK /\ L[a] # NL BY <1>2, <1>4
  <2>2. QED BY <2>1, Zenon DEF White, BLANK
<1>10. \A i \in 1 .. Len(w) : \E k \in a .. n : w[i] = L[k] BY <1>4, <1>6
<1> HIDE DEF f, w
<1>11. L[n] \in X BY <1>4, <1>5
<1>12. Front(w) = f /\ Last(w) = L[n] /\ w # << >> BY <1>5, <1>7, <1>11, FrontOfAppend
<1>13. QED BY <1>5, <1>6, <1>8, <1>9, <1>10, <1>12 DEF Written, w, f, a, o, j, n

\* What is pushed at the end of a statement with a body.
LEMMA BodySays ==
  ASSUME NEW X, NEW L \in Seq(X), IsStatement(L), HasBody(L), NEW means, Says(L, means)
  PROVE  L[Len(L)] = ENDS /\ trim(Front(Written(L))) # << >> /\ means = << trim(Front(Written(L))) >>
<1> DEFINE w == Written(L)
           f == Front(w)
           o == Opening(L)
           n == Len(L)
<1>1. L[n] = ENDS /\ means = << trim(f) >>
  <2>1. EndsIt(L, L[n]) BY DEF Says
  <2>2. L[n] = ENDS BY <2>1 DEF EndsIt
  <2>3. w # << ";" >>
    <3> SUFFICES ASSUME w = << ";" >> PROVE FALSE OBVIOUS
    <3>1. w[1] = L[o + 1] BY WrittenIs
    <3> HIDE DEF w
    <3>2. w[1] = ";" BY ListOfOne
    <3>3. StartsCompound(L[o + 1]) BY DEF HasBody
    <3>4. ~StartsCompound(";") BY DEF StartsCompound
    <3>5. QED BY <3>1, <3>2, <3>3, <3>4
  <2>4. QED BY <2>2, <2>3 DEF Says, Written
<1>2. w \in Seq(X) /\ w # << >> /\ w[1] = L[o + 1] /\ Last(w) = L[n] /\ w[1] \notin White /\ f \in Seq(X) BY WrittenIs
<1>3. StartsCompound(L[o + 1]) BY DEF HasBody
<1>4. ~StartsCompound(ENDS) BY DEF StartsCompound, ENDS
<1> HIDE DEF w
<1>5. Len(w) # 1
  <2> SUFFICES ASSUME Len(w) = 1 PROVE FALSE OBVIOUS
  <2>1. w[1] = L[n] BY <1>2 DEF Last
  <2>2. QED BY <1>1, <1>2, <1>3, <1>4, <2>1
<1>6. f # << >> /\ f[1] = w[1]
  <2> DEFINE k == Len(w) - 1
             g == SubSeq(w, 1, k)
  <2>1. k \in Nat /\ 1 <= k /\ k <= Len(w)
    <3> DEFINE l == Len(w)
    <3>1. l \in Nat /\ l # 0 BY <1>2
    <3>2. l # 1 BY <1>5
    <3> HIDE DEF l
    <3>3. l - 1 \in Nat /\ 1 <= l - 1 /\ l - 1 <= l BY <3>1, <3>2
    <3>4. QED BY <3>3 DEF l
  <2>2. f = g BY DEF Front
  <2> HIDE DEF k
  <2>3. Len(g) = k /\ \A i \in 1 .. k : g[i] = w[i] BY <1>2, <2>1
  <2> HIDE DEF g
  <2>4. 1 \in 1 .. k /\ k # 0 BY <2>1
  <2>5. g[1] = w[1] BY <2>3, <2>4
  <2>6. g # << >> BY <2>3, <2>4
  <2>7. QED BY <2>2, <2>5, <2>6
<1> HIDE DEF f
<1>7. trim(f) # << >> BY <1>2, <1>6, TrimKeeps
<1>8. QED BY <1>1, <1>7 DEF f, w, n

\* What is pushed at the end of a statement without a body.
LEMMA PlainSays ==
  ASSUME NEW X, NEW L \in Seq(X), IsStatement(L), ~HasBody(L), NEW means, Says(L, means),
         \A i \in DOMAIN means : means[i] \in Seq(ToSet(means[i]))
  PROVE  /\ L[Len(L)] \in DOMAIN Ended
         /\ means = IF Unended(Written(L)) = << >> THEN << >> ELSE << Unended(Written(L)) >>
<1> DEFINE w == Written(L)
           l == L[Len(L)]
           e == Ended[l]
           u == Append(Front(w), e)
<1>1. l \in DOMAIN Ended BY DEF Says, EndsIt
<1>2. w \in Seq(X) /\ w # << >> /\ Last(w) = l /\ w[1] \notin White /\ Front(w) \in Seq(X) BY WrittenIs
<1>3. \/ w = << ";" >> /\ means = << >>
      \/ /\ means = << means[1] >> /\ means[1] # << >> /\ trim(means[1]) = means[1]
         /\ \/ w = Append(means[1], ";")
            \/ w = Append(Front(means[1]), l) /\ Last(means[1]) = Ended[l]
  BY DEF Says, Written
<1> HIDE DEF w
<1>4. trim(w) = w
  <2>1. w[Len(w)] = l BY <1>2 DEF Last
  <2>2. l \notin White BY <1>1, EndedIs
  <2>3. QED BY <1>2, <2>1, <2>2, TrimsToItself
<1>5. Unended(w) = trim(u) BY <1>1, <1>2, <1>4 DEF Unended
<1>6. CASE w = << ";" >> /\ means = << >>
  <2> DEFINE z == << >>
             Y == {";", e}
  <2>1. z \in Seq(Y) /\ ";" \in Y /\ e \in Y BY EmptySeq
  <2>2. w = Append(z, ";") BY <1>6, ListOfOne
  <2> HIDE DEF z, Y
  <2>3. Front(w) = z /\ Last(w) = ";" BY <2>1, <2>2, FrontOfAppend
  <2>4. e \in White BY <1>2, <2>3, EndedIs
  <2>5. trim(Append(z, e)) = trim(z) BY <2>1, <2>4, TrimBehind
  <2>6. trim(u) = << >> BY <2>3, <2>5, TrimNothing DEF z
  <2>7. QED BY <1>1, <1>5, <1>6, <2>6 DEF w
<1>7. CASE /\ means = << means[1] >> /\ means[1] # << >> /\ trim(means[1]) = means[1]
           /\ \/ w = Append(means[1], ";")
              \/ w = Append(Front(means[1]), l) /\ Last(means[1]) = Ended[l]
  <2> DEFINE t == means[1]
             Z == ToSet(t)
             Y == Z \cup {";", e, l}
  <2>0. DOMAIN means = {1}
    <3>1. DOMAIN << t >> = {1} OBVIOUS
    <3>2. QED BY <1>7, <3>1
  <2>1. t \in Seq(Z) BY <2>0
  <2>2. t # << >> /\ trim(t) = t /\ means = << t >> BY <1>7
  <2>3. w = Append(t, ";") \/ (w = Append(Front(t), l) /\ Last(t) = e) BY <1>7
  <2>4. Z \subseteq Y /\ ";" \in Y /\ e \in Y /\ l \in Y OBVIOUS
  <2> HIDE DEF t, Z, Y
  <2>5. t \in Seq(Y) BY <2>1, <2>4, MoreMembers
  <2>6. trim(u) = t
    <3>1. CASE w = Append(t, ";")
      <4>1. Front(w) = t /\ Last(w) = ";" BY <2>4, <2>5, <3>1, FrontOfAppend
      <4>2. e \in White BY <1>2, <4>1, EndedIs
      <4>3. trim(Append(t, e)) = trim(t) BY <2>4, <2>5, <4>2, TrimBehind
      <4>4. QED BY <2>2, <4>1, <4>3
    <3>2. CASE w = Append(Front(t), l) /\ Last(t) = e
      <4>1. Front(t) \in Seq(Y) /\ Append(Front(t), Last(t)) = t BY <2>2, <2>5, FrontAndLast
      <4>2. Front(w) = Front(t) BY <2>4, <3>2, <4>1, FrontOfAppend
      <4>3. QED BY <2>2, <3>2, <4>1, <4>2
    <3>3. QED BY <2>3, <3>1, <3>2
  <2>7. QED BY <1>1, <1>5, <2>2, <2>6 DEF w
<1>8. QED BY <1>3, <1>6, <1>7

\* What is pushed of a statement that does not end.
LEMMA UnfinishedSays ==
  ASSUME NEW X, NEW L \in Seq(X), IsStatement(L), ~HasBody(L), ~EndsIt(L, L[Len(L)])
  PROVE  Unended(Written(L)) = trim(Written(L)) /\ trim(Written(L)) # << >>
<1> DEFINE w == Written(L)
           kept == {i \in DOMAIN w : w[i] \notin White}
           k == trim(w)
<1>1. /\ w \in Seq(X) /\ w # << >> /\ w[1] \notin White
      /\ \A i \in 1 .. Len(w) : \E j \in (Opening(L) + 1) .. Len(L) : w[i] = L[j]
  BY WrittenIs
<1>2. \A i \in (Opening(L) + 1) .. Len(L) : i < Len(L) => ~EndsIt(L, L[i]) BY DEF IsStatement
<1>3. \A i \in (Opening(L) + 1) .. Len(L) : L[i] \notin DOMAIN Ended
  <2>1. Len(L) \in Nat /\ Opening(L) \in {0, 1} BY OpeningIs
  <2>2. \A i \in (Opening(L) + 1) .. Len(L) : i < Len(L) \/ i = Len(L)
    <3> DEFINE a == Opening(L)
               n == Len(L)
    <3>1. a \in Int /\ n \in Int BY <2>1
    <3> HIDE DEF a, n
    <3>2. \A i \in (a + 1) .. n : i < n \/ i = n BY <3>1
    <3>3. QED BY <3>2 DEF a, n
  <2>3. \A i \in (Opening(L) + 1) .. Len(L) : ~EndsIt(L, L[i]) BY <1>2, <2>2
  <2>4. QED BY <2>3 DEF EndsIt
<1>4. \A i \in 1 .. Len(w) : w[i] \notin DOMAIN Ended BY <1>1, <1>3
<1> HIDE DEF w
<1>5. k # << >> BY <1>1, TrimKeeps
<1>6. Last(k) \notin DOMAIN Ended
  <2> DEFINE a == Min(kept)
             b == Max(kept)
  <2>1. Len(w) \in Nat /\ DOMAIN w = 1 .. Len(w) BY <1>1
  <2>2. kept \in SUBSET (1 .. Len(w)) BY <2>1
  <2>3. k = IF kept = {} THEN << >> ELSE SubSeq(w, a, b) BY TrimIs
  <2>4. kept # {} /\ k = SubSeq(w, a, b) BY <1>5, <2>3
  <2> HIDE DEF kept, k
  <2>5. a \in kept /\ b \in kept /\ \A z \in kept : a <= z BY <2>1, <2>2, <2>4, MinInSet, MaxInSet
  <2>6. a \in 1 .. Len(w) /\ b \in 1 .. Len(w) /\ a <= b BY <2>2, <2>5
  <2> HIDE DEF a, b
  <2> DEFINE m == (b - a) + 1
  <2>7. m \in Nat /\ m \in 1 .. m /\ (a + m) - 1 = b BY <2>1, <2>6
  <2>8. Len(k) = m /\ \A i \in 1 .. m : k[i] = w[(a + i) - 1]
    <3>1. SubSeq(w, a, b) \in Seq(X) /\ Len(SubSeq(w, a, b)) = m /\ \A i \in 1 .. m : SubSeq(w, a, b)[i] = w[(a + i) - 1]
      BY <1>1, <2>1, <2>6
    <3>2. QED BY <2>4, <3>1
  <2> HIDE DEF m
  <2>9. k[m] = w[b] BY <2>7, <2>8
  <2>10. QED BY <1>4, <2>6, <2>8, <2>9 DEF Last
<1>7. Unended(w) = k BY <1>6 DEF Unended
<1>8. QED BY <1>5, <1>7 DEF w

\* What a turn of the loop looks at.
Skips(l, lines) == l = OPENS \/ (lines = << >> /\ l \in Comments \cup {BLANK})
InBody(l, compound) == compound \/ StartsCompound(l)
PushedTo(found, lines) == IF lines = << >> THEN found ELSE Append(found, lines)

\* On the way, or led astray.
OnTheWay(T, k, found, lines, compound) == Led(T, found) \/ Whereabouts(T, k, found, lines, compound)

\* What was a prefix of the statements found stays one.
LEMMA PrefixStays ==
  ASSUME NEW X, NEW t \in Seq(X), NEW x \in X, NEW s, Len(s) \in Nat, IsPrefix(s, t)
  PROVE  IsPrefix(s, Append(t, x))
<1> DEFINE k == Len(s)
           u == Append(t, x)
           p == SubSeq(t, 1, k)
           q == SubSeq(u, 1, k)
<1>1. k \in Nat /\ k <= Len(t) /\ SubSeq(s, 1, k) = p BY DEF IsPrefix
<1>2. Len(t) \in Nat OBVIOUS
<1>3. u \in Seq(X) /\ Len(u) = Len(t) + 1 /\ \A i \in 1 .. Len(t) : u[i] = t[i] BY AppendProperties
<1> HIDE DEF k, u
<1>4. k <= Len(u) /\ \A i \in 1 .. k : i \in 1 .. Len(t) BY <1>1, <1>2, <1>3
<1>5. p \in Seq(X) /\ Len(p) = k /\ \A i \in 1 .. k : p[i] = t[i] BY <1>1, <1>2
<1>6. q \in Seq(X) /\ Len(q) = k /\ \A i \in 1 .. k : q[i] = u[i] BY <1>1, <1>3, <1>4
<1> HIDE DEF p, q
<1>7. p = q BY <1>3, <1>4, <1>5, <1>6, SeqEqual
<1>8. QED BY <1>1, <1>4, <1>7 DEF IsPrefix, k, q, u

\* Statements led astray stay so when one more is found.
LEMMA StaysLed ==
  ASSUME NEW T \in Scripts, NEW X, NEW found \in Seq(X), NEW x \in X, Led(T, found)
  PROVE  Led(T, Append(found, x))
<1>1. PICK a \in 1 .. Len(T) : Right(T, a - 1) /\ Astray(T[a]) /\ IsPrefix(Meant(T, a - 1), found) BY DEF Led
<1> DEFINE M == Meant(T, a - 1)
<1>2. a - 1 \in 0 .. Len(T)
  <2>1. Len(T) \in Nat BY ScriptType
  <2>2. QED BY <2>1
<1>3. PICK Y : M \in Seq(Y) BY <1>2, MeantType
<1> HIDE DEF M
<1>4. Len(M) \in Nat BY <1>3
<1>5. IsPrefix(M, found) BY <1>1 DEF M
<1>6. IsPrefix(M, Append(found, x)) BY <1>4, <1>5, PrefixStays
<1>7. QED BY <1>1, <1>6 DEF Led, M

\* The statement of an item is pushed behind those of the items before it.
LEMMA PushedIsMeant ==
  ASSUME NEW T \in Scripts, NEW m \in Nat, m < Len(T), NEW x,
         T[m + 1].statements = IF x = << >> THEN << >> ELSE << x >>
  PROVE  PushedTo(Meant(T, m), x) = Meant(T, m + 1)
<1> DEFINE M == Meant(T, m)
           S == T[m + 1].statements
<1>1. PICK X : M \in Seq(X) /\ S \in Seq(X) /\ Meant(T, m + 1) = M \o S BY MeantNext
<1>2. S = IF x = << >> THEN << >> ELSE << x >> OBVIOUS
<1> HIDE DEF M, S
<1>3. CASE x = << >>
  <2>1. M \o << >> = M BY <1>1
  <2>2. QED BY <1>1, <1>2, <1>3, <2>1 DEF PushedTo, M
<1>4. CASE x # << >>
  <2>1. S = << x >> BY <1>2, <1>4
  <2>2. x \in X
    <3>1. Len(<< x >>) = 1 /\ << x >>[1] = x OBVIOUS
    <3>2. Len(S) = 1 /\ S[1] = x BY <2>1, <3>1
    <3>3. 1 \in 1 .. Len(S) BY <3>2
    <3>4. S[1] \in X BY <1>1, <3>3
    <3>5. QED BY <3>2, <3>4
  <2>3. Append(M, x) = M \o << x >> BY <1>1, <2>2, AppendIsConcat
  <2>4. QED BY <1>1, <1>4, <2>1, <2>3 DEF PushedTo, M
<1>5. QED BY <1>3, <1>4

\* The item is read to its end.
LEMMA Leave ==
  ASSUME NEW T \in Scripts, NEW m \in Nat, m < Len(T), Right(T, m), ~Astray(T[m + 1]), NEW x,
         T[m + 1].statements = IF x = << >> THEN << >> ELSE << x >>
  PROVE  /\ OnTheWay(T, Before(T, m) + Len(T[m + 1].lines), PushedTo(Meant(T, m), x), << >>, FALSE)
         /\ Right(T, m + 1)
<1>1. Len(T) \in Nat BY ScriptType
<1>2. m + 1 \in 0 .. Len(T) BY <1>1
<1>3. Right(T, m + 1)
  <2>1. \A i \in 1 .. (m + 1) : i \in 1 .. m \/ i = m + 1 OBVIOUS
  <2>2. QED BY <2>1 DEF Right
<1>4. PushedTo(Meant(T, m), x) = Meant(T, m + 1) BY PushedIsMeant
<1>5. Before(T, m + 1) = Before(T, m) + Len(T[m + 1].lines) BY LinesAt
<1> DEFINE i == m + 1
<1> HIDE DEF i
<1>6. Led(T, Meant(T, i)) \/ Whereabouts(T, Before(T, i), Meant(T, i), << >>, FALSE) BY <1>2, <1>3, Arrive DEF i
<1>7. QED BY <1>3, <1>4, <1>5, <1>6 DEF OnTheWay, i

\* One line of it is read.
LEMMA Stay ==
  ASSUME NEW T \in Scripts, NEW m \in Nat, m < Len(T), Right(T, m), ~Astray(T[m + 1]),
         NEW j \in Nat, j < Len(T[m + 1].lines), NEW lines, NEW compound,
         Amid(T[m + 1], j + 1, lines, compound),
         j + 1 < Len(T[m + 1].lines) \/ (m + 1 = Len(T) /\ Unfinished(T[m + 1]))
  PROVE  Whereabouts(T, (Before(T, m) + j) + 1, Meant(T, m), lines, compound)
<1> DEFINE n == Len(T[m + 1].lines)
           b == Before(T, m)
           i == j + 1
           k == (b + j) + 1
<1>1. n \in Nat /\ b \in Nat BY LinesAt
<1>2. Len(T) \in Nat BY ScriptType
<1>3. m \in 0 .. Len(T) BY <1>2
<1>4. i \in 0 .. n /\ k = b + i
  <2> HIDE DEF b
  <2>0. j < n OBVIOUS
  <2> HIDE DEF n
  <2>1. QED BY <1>1, <2>0
<1> HIDE DEF k, i
<1>5. Amid(T[m + 1], i, lines, compound) /\ (i < n \/ (m + 1 = Len(T) /\ Unfinished(T[m + 1]))) BY DEF i
<1>6. \E h \in 0 .. Len(T[m + 1].lines) :
               /\ k = Before(T, m) + h /\ Amid(T[m + 1], h, lines, compound)
               /\ h < Len(T[m + 1].lines) \/ (m + 1 = Len(T) /\ Unfinished(T[m + 1]))
  BY <1>4, <1>5
<1>7. Whereabouts(T, k, Meant(T, m), lines, compound) BY <1>3, <1>6 DEF Whereabouts
<1>8. QED BY <1>7 DEF k

\* No marker ends a body or begins one, and no comment or blank line does.
LEMMA MarkersAre ==
  /\ OPENS # ENDS /\ ~StartsCompound(ENDS) /\ ~StartsCompound(OPENS)
  /\ \A l \in Comments \cup {BLANK, OPENS} : ~StartsCompound(l) /\ l # ENDS
<1>1. OPENS # ENDS /\ ~StartsCompound(ENDS) /\ ~StartsCompound(OPENS) BY DEF OPENS, ENDS, StartsCompound
<1>2. \A l \in Comments : ~StartsCompound(l) /\ l # ENDS BY DEF Comments, ENDS, StartsCompound
<1>3. ~StartsCompound(BLANK) /\ BLANK # ENDS BY Zenon DEF BLANK, ENDS, StartsCompound
<1>4. QED BY <1>1, <1>2, <1>3

\* The marker before a statement is read.
LEMMA MarkerTurn ==
  ASSUME NEW X, NEW L \in Seq(X), IsStatement(L), NEW j \in Nat, j < Opening(L),
         NEW lines, lines = SubSeq(L, Opening(L) + 1, j),
         NEW compound, compound = (j > Opening(L) /\ HasBody(L))
  PROVE  /\ L[j + 1] = OPENS /\ j + 1 < Len(L) /\ lines = << >> /\ compound = FALSE
         /\ lines = SubSeq(L, Opening(L) + 1, j + 1) /\ ~(j + 1 > Opening(L))
<1> DEFINE o == Opening(L)
<1>1. o \in {0, 1} /\ (o = 1 <=> L[1] = OPENS) BY OpeningIs
<1>2. o + 1 <= Len(L) BY DEF IsStatement
<1>3. j < o /\ lines = SubSeq(L, o + 1, j) /\ compound = (j > o /\ HasBody(L)) OBVIOUS
<1> HIDE DEF o
<1>4. o = 1 /\ j = 0 BY <1>1, <1>3
<1>5. L[j + 1] = OPENS BY <1>1, <1>4
<1>6. Len(L) \in Nat OBVIOUS
<1>7. j + 1 < Len(L) BY <1>2, <1>4, <1>6
<1>8. SubSeq(L, o + 1, j) = << >> /\ SubSeq(L, o + 1, j + 1) = << >>
  <2>1. j + 1 = 1 /\ o + 1 = 2 BY <1>4
  <2>2. SubSeq(L, 2, 0) = << >> BY SubSeqEmpty
  <2>3. SubSeq(L, 2, 1) = << >> BY SubSeqEmpty
  <2>4. QED BY <1>4, <2>1, <2>2, <2>3
<1>9. ~(j > o) /\ ~(j + 1 > o) BY <1>4
<1>10. compound = FALSE BY <1>3, <1>9
<1>11. QED BY <1>3, <1>5, <1>7, <1>8, <1>9, <1>10 DEF o

\* A line of a statement behind the marker is read.
LEMMA StatementTurn ==
  ASSUME NEW X, NEW L \in Seq(X), IsStatement(L), NEW j \in Nat, j < Len(L), j >= Opening(L),
         NEW lines, lines = SubSeq(L, Opening(L) + 1, j),
         NEW compound, compound = (j > Opening(L) /\ HasBody(L))
  PROVE  /\ ~Skips(L[j + 1], lines) /\ (InBody(L[j + 1], compound) <=> HasBody(L))
         /\ Append(lines, L[j + 1]) = SubSeq(L, Opening(L) + 1, j + 1)
         /\ j + 1 < Len(L) => ~EndsIt(L, L[j + 1])
         /\ j + 1 = Len(L) => Append(lines, L[j + 1]) = Written(L) /\ lines = Front(Written(L))
<1> DEFINE o == Opening(L)
           l == L[j + 1]
           a == o + 1
<1>1. /\ o \in {0, 1} /\ a <= Len(L) /\ l # OPENS /\ (StartsCompound(l) => HasBody(L))
      /\ j + 1 < Len(L) => ~EndsIt(L, l)
      /\ j = o => l \notin Comments \cup {BLANK} /\ (StartsCompound(l) <=> HasBody(L))
  BY StatementLine
<1>2. lines = SubSeq(L, a, j) /\ j >= o /\ compound = (j > o /\ HasBody(L)) OBVIOUS
<1>3. Len(L) \in Nat OBVIOUS
<1> HIDE DEF o, l
<1>4. a \in Nat /\ 1 <= a /\ a <= j + 1 BY <1>1, <1>2
<1>5. lines = << >> => j = o
  <2> SUFFICES ASSUME j # o PROVE lines # << >> OBVIOUS
  <2>1. a <= j /\ (j - a) + 1 # 0 BY <1>1, <1>2
  <2>2. Len(SubSeq(L, a, j)) = (j - a) + 1
    <3>1. j <= Len(L) BY <1>3
    <3>2. QED BY <1>3, <1>4, <2>1, <3>1
  <2>3. Len(lines) # 0 BY <1>2, <2>1, <2>2
  <2>4. QED BY <2>3
<1>6. ~Skips(l, lines) BY <1>1, <1>5 DEF Skips
<1>7. InBody(l, compound) <=> HasBody(L)
  <2>1. CASE j = o
    <3>1. ~(j > o) BY <1>1, <2>1
    <3>2. compound = FALSE BY <1>2, <3>1
    <3>3. QED BY <1>1, <2>1, <3>2 DEF InBody
  <2>2. CASE j # o
    <3>1. j > o BY <1>1, <1>2, <2>2
    <3>2. compound <=> HasBody(L) BY <1>2, <3>1
    <3>3. QED BY <1>1, <3>2 DEF InBody
  <2>3. QED BY <2>1, <2>2
<1> HIDE DEF a
<1>8. Append(lines, l) = SubSeq(L, a, j + 1) BY <1>2, <1>4, PartNext, ZenonT(60) DEF l
<1>9. ASSUME j + 1 = Len(L) PROVE Append(lines, l) = Written(L) /\ lines = Front(Written(L))
  <2>1. SubSeq(L, a, Len(L)) = Written(L) BY DEF Written, a, o
  <2>2. j = Len(L) - 1 BY <1>3, <1>9
  <2>3. Front(Written(L)) = SubSeq(L, a, Len(L) - 1) BY WrittenIs DEF a, o
  <2>4. QED BY <1>2, <1>8, <1>9, <2>1, <2>2, <2>3
<1>10. QED BY <1>1, <1>6, <1>7, <1>8, <1>9 DEF o, l, a

\* Lines between statements are none.
LEMMA BetweenIsNone ==
  ASSUME NEW X, NEW item, item.lines \in Seq(X), Between(item)
  PROVE  ~IsStatement(item.lines) /\ \A i \in 1 .. Len(item.lines) : item.lines[i] \in Comments \cup {BLANK, OPENS}
<1> DEFINE L == item.lines
           a == Opening(L) + 1
<1>1. L \in Seq(X) OBVIOUS
<1>2. ToSet(L) \subseteq Comments \cup {BLANK, OPENS} BY DEF Between
<1>3. Opening(L) \in {0, 1} BY OpeningIs
<1> HIDE DEF L
<1>4. \A i \in 1 .. Len(L) : L[i] \in ToSet(L) BY <1>1 DEF ToSet
<1>5. \A i \in 1 .. Len(L) : L[i] \in Comments \cup {BLANK, OPENS} BY <1>2, <1>4
<1>6. ASSUME IsStatement(L) PROVE FALSE
  <2>1. a <= Len(L) /\ L[a] \notin Comments \cup {BLANK} /\ \A i \in a .. Len(L) : L[i] # OPENS
    BY <1>6 DEF IsStatement
  <2>2. Len(L) \in Nat /\ a \in Nat /\ 1 <= a BY <1>1, <1>3
  <2> HIDE DEF a
  <2>3. a \in 1 .. Len(L) /\ a \in a .. Len(L) BY <2>1, <2>2
  <2>4. QED BY <1>5, <2>1, <2>3
<1>7. QED BY <1>5, <1>6 DEF L

\* The statements of an item are lists of lines.
LEMMA SaidIsTyped ==
  ASSUME NEW T \in Scripts, NEW i \in 1 .. Len(T)
  PROVE  \A h \in DOMAIN T[i].statements : T[i].statements[h] \in Seq(ToSet(T[i].statements[h]))
<1>1. DOMAIN T = 1 .. Len(T) BY ScriptType
<1>2. T[i] \in ToSet(T) BY <1>1 DEF ToSet
<1>3. QED BY <1>2, TextsAssumption

\* A line that is skipped, kept, or ends a statement.
LEMMA ReadLine ==
  ASSUME NEW T \in Scripts, NEW m \in Nat, m < Len(T), Right(T, m), ~Astray(T[m + 1]),
         NEW j \in Nat, j < Len(T[m + 1].lines), NEW lines, NEW compound, Amid(T[m + 1], j, lines, compound),
         NEW l, l = T[m + 1].lines[j + 1], NEW k, k = (Before(T, m) + j) + 1
  PROVE  /\ Skips(l, lines) => OnTheWay(T, k, Meant(T, m), lines, compound)
         /\ ~Skips(l, lines) /\ (IF InBody(l, compound) THEN l # ENDS ELSE l \notin DOMAIN Ended)
              => OnTheWay(T, k, Meant(T, m), Append(lines, l), InBody(l, compound))
         /\ ~Skips(l, lines) /\ ~InBody(l, compound) /\ l \in DOMAIN Ended
              => OnTheWay(T, k, PushedTo(Meant(T, m), Unended(Append(lines, l))), << >>, compound)
         /\ InBody(l, compound) /\ l = ENDS
              => OnTheWay(T, k, PushedTo(Meant(T, m), trim(lines)), << >>, FALSE)
<1> DEFINE i == m + 1
           item == T[m + 1]
           L == item.lines
           X == ToSet(L)
           M == Meant(T, m)
<1>1. i \in 1 .. Len(T)
  <2>1. Len(T) \in Nat BY ScriptType
  <2>2. QED BY <2>1
<1>2. L \in Seq(X) /\ Len(L) \in Nat BY <1>1, ItemIs
<1>3. \/ Between(item)
      \/ IsStatement(L) /\ Says(L, item.statements)
      \/ i = Len(T) /\ Unfinished(item)
  BY <1>1, ItemIs
<1>4. \/ Between(item) /\ lines = << >> /\ compound = FALSE
      \/ IsStatement(L) /\ lines = SubSeq(L, Opening(L) + 1, j) /\ compound = (j > Opening(L) /\ HasBody(L))
  BY DEF Amid
<1>5. j < Len(L) /\ l = L[j + 1] OBVIOUS
<1>6. ASSUME NEW ls, NEW c, Amid(item, j + 1, ls, c), j + 1 < Len(L) \/ (i = Len(T) /\ Unfinished(item))
      PROVE  OnTheWay(T, k, M, ls, c)
  <2>1. Whereabouts(T, (Before(T, m) + j) + 1, Meant(T, m), ls, c) BY <1>6, Stay
  <2>2. QED BY <2>1 DEF OnTheWay
<1>7. ASSUME j + 1 = Len(L), NEW x, item.statements = IF x = << >> THEN << >> ELSE << x >>
      PROVE  OnTheWay(T, k, PushedTo(M, x), << >>, FALSE)
  <2>1. OnTheWay(T, Before(T, m) + Len(T[m + 1].lines), PushedTo(Meant(T, m), x), << >>, FALSE) BY <1>7, Leave
  <2>2. Before(T, m) \in Nat BY LinesAt
  <2>3. k = Before(T, m) + Len(L)
    <3> DEFINE b == Before(T, m)
               n == Len(L)
    <3>1. b \in Nat /\ n = j + 1 /\ k = (b + j) + 1 BY <1>7, <2>2
    <3> HIDE DEF b, n
    <3>2. k = b + n BY <3>1
    <3>3. QED BY <3>2 DEF b, n
  <2>4. QED BY <2>1, <2>3
<1>8. j + 1 \in 1 .. Len(L) /\ (j + 1 < Len(L) \/ j + 1 = Len(L))
  <2> DEFINE n == Len(L)
  <2>1. n \in Nat /\ j < n BY <1>2, <1>5
  <2> HIDE DEF n
  <2>2. j + 1 \in 1 .. n /\ (j + 1 < n \/ j + 1 = n) BY <2>1
  <2>3. QED BY <2>2 DEF n
<1>9. CASE Between(item) /\ lines = << >> /\ compound = FALSE
  <2>1. l \in Comments \cup {BLANK, OPENS} BY <1>2, <1>5, <1>8, <1>9, BetweenIsNone
  <2>2. Skips(l, lines) BY <1>9, <2>1 DEF Skips
  <2>3. ~InBody(l, compound) BY <1>9, <2>1, MarkersAre DEF InBody
  <2>4. OnTheWay(T, k, M, lines, compound)
    <3>1. CASE j + 1 < Len(L)
      <4>1. Amid(item, j + 1, lines, compound) BY <1>9 DEF Amid
      <4>2. QED BY <1>6, <3>1, <4>1
    <3>2. CASE j + 1 = Len(L)
      <4>1. item.statements = << >> BY <1>9 DEF Between
      <4>2. OnTheWay(T, k, PushedTo(M, << >>), << >>, FALSE) BY <1>7, <3>2, <4>1
      <4>3. QED BY <1>9, <4>2 DEF PushedTo
    <3>3. QED BY <1>8, <3>1, <3>2
  <2>5. QED BY <2>2, <2>3, <2>4
<1>10. CASE /\ IsStatement(L) /\ lines = SubSeq(L, Opening(L) + 1, j) /\ compound = (j > Opening(L) /\ HasBody(L))
            /\ j < Opening(L)
  <2> HIDE DEF X
  <2>0. /\ l = OPENS /\ j + 1 < Len(L) /\ lines = << >> /\ compound = FALSE
        /\ lines = SubSeq(L, Opening(L) + 1, j + 1) /\ ~(j + 1 > Opening(L))
    BY <1>2, <1>5, <1>10, MarkerTurn
  <2>1. /\ l = OPENS /\ j + 1 < Len(L) /\ lines = << >> /\ compound = FALSE
        /\ Amid(item, j + 1, lines, compound)
    BY <1>10, <2>0 DEF Amid
  <2>2. OnTheWay(T, k, M, lines, compound) BY <1>6, <2>1
  <2>3. Skips(l, lines) /\ ~InBody(l, compound) BY <2>1, MarkersAre DEF Skips, InBody
  <2>4. QED BY <2>2, <2>3
<1>11. CASE /\ IsStatement(L) /\ lines = SubSeq(L, Opening(L) + 1, j) /\ compound = (j > Opening(L) /\ HasBody(L))
            /\ j >= Opening(L)
  <2> HIDE DEF X
  <2>1. /\ ~Skips(l, lines) /\ (InBody(l, compound) <=> HasBody(L))
        /\ Append(lines, l) = SubSeq(L, Opening(L) + 1, j + 1)
        /\ j + 1 < Len(L) => ~EndsIt(L, l)
        /\ j + 1 = Len(L) => Append(lines, l) = Written(L) /\ lines = Front(Written(L))
    BY <1>2, <1>5, <1>11, StatementTurn
  <2>2. \/ Says(L, item.statements)
        \/ i = Len(T) /\ Unfinished(item)
    BY <1>2, <1>3, <1>11, BetweenIsNone
  <2>3. CASE ~EndsIt(L, l)
    <3>1. j + 1 < Len(L) \/ (i = Len(T) /\ Unfinished(item))
      <4>1. CASE j + 1 < Len(L) BY <4>1
      <4>2. CASE j + 1 = Len(L)
        <5>1. l = L[Len(L)] BY <1>5, <4>2
        <5>2. ~Says(L, item.statements) BY <2>3, <5>1 DEF Says
        <5>3. QED BY <2>2, <5>2
      <4>3. QED BY <1>8, <4>1, <4>2
    <3>2. j + 1 > Opening(L)
      <4>1. Opening(L) \in {0, 1} BY OpeningIs
      <4>2. QED BY <1>11, <4>1
    <3>3. InBody(l, compound) = (j + 1 > Opening(L) /\ HasBody(L))
      BY <2>1, <3>2 DEF InBody
    <3>4. Amid(item, j + 1, Append(lines, l), InBody(l, compound)) BY <1>11, <2>1, <3>3 DEF Amid
    <3>5. OnTheWay(T, k, M, Append(lines, l), InBody(l, compound)) BY <1>6, <3>1, <3>4
    <3>6. ~(InBody(l, compound) /\ l = ENDS) /\ ~(~InBody(l, compound) /\ l \in DOMAIN Ended)
      BY <2>1, <2>3 DEF EndsIt
    <3>7. QED BY <2>1, <3>5, <3>6
  <2>4. CASE EndsIt(L, l)
    <3>1. j + 1 = Len(L) BY <1>8, <2>1, <2>4
    <3>2. l = L[Len(L)] BY <1>5, <3>1
    <3>3. Says(L, item.statements)
      <4>1. ~Unfinished(item) BY <2>4, <3>2 DEF Unfinished, Last
      <4>2. QED BY <2>2, <4>1
    <3>4. CASE HasBody(L)
      <4>1. trim(lines) # << >> /\ item.statements = << trim(lines) >>
        BY <1>2, <1>11, <2>1, <3>1, <3>3, <3>4, BodySays
      <4>2. OnTheWay(T, k, PushedTo(M, trim(lines)), << >>, FALSE) BY <1>7, <3>1, <4>1
      <4>3. InBody(l, compound) /\ l = ENDS BY <2>1, <2>4, <3>4 DEF EndsIt
      <4>4. QED BY <2>1, <4>2, <4>3
    <3>5. CASE ~HasBody(L)
      <4> DEFINE x == Unended(Append(lines, l))
      <4>1. item.statements = IF x = << >> THEN << >> ELSE << x >>
        <5>1. \A h \in DOMAIN item.statements : item.statements[h] \in Seq(ToSet(item.statements[h]))
          BY <1>1, SaidIsTyped
        <5>2. Append(lines, l) = Written(L) BY <2>1, <3>1
        <5>3. item.statements = IF Unended(Written(L)) = << >> THEN << >> ELSE << Unended(Written(L)) >>
          BY <1>2, <1>11, <3>3, <3>5, <5>1, PlainSays
        <5>4. QED BY <5>2, <5>3
      <4> HIDE DEF x
      <4>2. OnTheWay(T, k, PushedTo(M, x), << >>, FALSE) BY <1>7, <3>1, <4>1
      <4>3. ~InBody(l, compound) /\ l \in DOMAIN Ended BY <2>1, <2>4, <3>5 DEF EndsIt
      <4>4. compound = FALSE BY <1>11, <3>5
      <4>5. QED BY <2>1, <4>2, <4>3, <4>4 DEF x
    <3>6. QED BY <3>4, <3>5
  <2>5. QED BY <2>3, <2>4
<1>12. j < Opening(L) \/ j >= Opening(L)
  <2>1. Opening(L) \in {0, 1} BY OpeningIs
  <2>2. QED BY <2>1
<1>13. QED BY <1>4, <1>9, <1>10, <1>11, <1>12

\* A turn of the loop, wherever it is.
LEMMA ScriptTurn ==
  ASSUME NEW T \in Scripts, NEW k, NEW found, NEW lines, NEW compound, Whereabouts(T, k, found, lines, compound),
         k < Len(LinesIn(T)), NEW l, l = LinesIn(T)[k + 1]
  PROVE  /\ Skips(l, lines) => OnTheWay(T, k + 1, found, lines, compound)
         /\ ~Skips(l, lines) /\ (IF InBody(l, compound) THEN l # ENDS ELSE l \notin DOMAIN Ended)
              => OnTheWay(T, k + 1, found, Append(lines, l), InBody(l, compound))
         /\ ~Skips(l, lines) /\ ~InBody(l, compound) /\ l \in DOMAIN Ended
              => OnTheWay(T, k + 1, PushedTo(found, Unended(Append(lines, l))), << >>, compound)
         /\ InBody(l, compound) /\ l = ENDS
              => OnTheWay(T, k + 1, PushedTo(found, trim(lines)), << >>, FALSE)
<1>1. PICK m \in 0 .. Len(T) :
        /\ Right(T, m) /\ found = Meant(T, m)
        /\ \/ m = Len(T) /\ k = Before(T, m)
           \/ /\ m < Len(T) /\ ~Astray(T[m + 1])
              /\ \E j \in 0 .. Len(T[m + 1].lines) :
                   /\ k = Before(T, m) + j /\ Amid(T[m + 1], j, lines, compound)
                   /\ j < Len(T[m + 1].lines) \/ m + 1 = Len(T)
  BY DEF Whereabouts
<1> DEFINE e == Len(LinesIn(T))
           b == Before(T, m)
           n == Len(T[m + 1].lines)
<1>2. Before(T, Len(T)) = e BY LinesEnd
<1>3. Len(T) \in Nat BY ScriptType
<1>4. m \in Nat /\ e \in Nat
  <2>1. m \in Nat BY <1>3
  <2>2. CASE Len(T) = 0
    <3>1. Before(T, 0) = 0 BY LinesEnd
    <3>2. QED BY <1>2, <2>1, <2>2, <3>1
  <2>3. CASE Len(T) # 0
    <3> DEFINE h == Len(T) - 1
    <3>1. h \in Nat /\ h < Len(T) /\ h + 1 = Len(T) BY <1>3, <2>3
    <3> HIDE DEF h
    <3>2. Before(T, h) \in Nat /\ Len(T[h + 1].lines) \in Nat /\ Before(T, h + 1) = Before(T, h) + Len(T[h + 1].lines)
      BY <3>1, LinesAt
    <3>3. QED BY <1>2, <2>1, <3>1, <3>2
  <2>4. QED BY <2>2, <2>3
<1>5. k < e OBVIOUS
<1> HIDE DEF e
<1>6. ~(m = Len(T) /\ k = Before(T, m)) BY <1>2, <1>4, <1>5
<1>7. m < Len(T) /\ ~Astray(T[m + 1]) BY <1>1, <1>6
<1>8. PICK j \in 0 .. n : k = b + j /\ Amid(T[m + 1], j, lines, compound) /\ (j < n \/ m + 1 = Len(T))
  BY <1>1, <1>6
<1>9. /\ b \in Nat /\ n \in Nat /\ Before(T, m + 1) = b + n /\ Before(T, m + 1) <= e
      /\ \A i \in 1 .. n : LinesIn(T)[b + i] = T[m + 1].lines[i]
  BY <1>4, <1>7, LinesAt DEF e
<1> HIDE DEF b, n
<1>10. j \in Nat /\ j < n
  <2>1. CASE j < n BY <1>9, <2>1
  <2>2. CASE m + 1 = Len(T) /\ ~(j < n)
    <3>1. j = n BY <1>9, <2>2
    <3>2. b + n = e BY <1>2, <1>9, <2>2
    <3>3. QED BY <1>4, <1>5, <1>8, <3>1, <3>2
  <2>3. QED BY <1>8, <2>1, <2>2
<1>11. k + 1 = (b + j) + 1 /\ k + 1 = b + (j + 1) /\ j + 1 \in 1 .. n BY <1>8, <1>9, <1>10
<1>12. l = T[m + 1].lines[j + 1] BY <1>9, <1>11
<1> DEFINE q == k + 1
<1>13. q = (Before(T, m) + j) + 1 BY <1>11 DEF b
<1> HIDE DEF q
<1>14. j < Len(T[m + 1].lines) BY <1>10 DEF n
<1> DEFINE M == Meant(T, m)
<1>15. /\ Skips(l, lines) => OnTheWay(T, q, M, lines, compound)
       /\ ~Skips(l, lines) /\ (IF InBody(l, compound) THEN l # ENDS ELSE l \notin DOMAIN Ended)
            => OnTheWay(T, q, M, Append(lines, l), InBody(l, compound))
       /\ ~Skips(l, lines) /\ ~InBody(l, compound) /\ l \in DOMAIN Ended
            => OnTheWay(T, q, PushedTo(M, Unended(Append(lines, l))), << >>, compound)
       /\ InBody(l, compound) /\ l = ENDS
            => OnTheWay(T, q, PushedTo(M, trim(lines)), << >>, FALSE)
  BY <1>1, <1>4, <1>7, <1>8, <1>10, <1>12, <1>13, <1>14, ReadLine
<1>16. found = M BY <1>1
<1> HIDE DEF M
<1>17. QED BY <1>15, <1>16 DEF q

\* The end of the script.
LEMMA ScriptEnd ==
  ASSUME NEW T \in Scripts, NEW k, NEW found, NEW lines, NEW compound, Whereabouts(T, k, found, lines, compound),
         k = Len(LinesIn(T))
  PROVE  Right(T, Len(T)) /\ PushedTo(found, Unended(lines)) = Meant(T, Len(T))
<1>1. PICK m \in 0 .. Len(T) :
        /\ Right(T, m) /\ found = Meant(T, m)
        /\ \/ m = Len(T) /\ lines = << >>
           \/ /\ m < Len(T) /\ ~Astray(T[m + 1])
              /\ \E j \in 0 .. Len(T[m + 1].lines) :
                   /\ k = Before(T, m) + j /\ Amid(T[m + 1], j, lines, compound)
                   /\ j < Len(T[m + 1].lines) \/ (m + 1 = Len(T) /\ Unfinished(T[m + 1]))
  BY DEF Whereabouts
<1>2. Len(T) \in Nat /\ m \in Nat
  <2>1. Len(T) \in Nat BY ScriptType
  <2>2. QED BY <2>1
<1>3. CASE m = Len(T) /\ lines = << >>
  <2>1. Unended(<< >>) = << >> BY TrimNothing DEF Unended
  <2>2. QED BY <1>1, <1>3, <2>1 DEF PushedTo
<1>4. CASE /\ m < Len(T) /\ ~Astray(T[m + 1])
           /\ \E j \in 0 .. Len(T[m + 1].lines) :
                   /\ k = Before(T, m) + j /\ Amid(T[m + 1], j, lines, compound)
                   /\ j < Len(T[m + 1].lines) \/ (m + 1 = Len(T) /\ Unfinished(T[m + 1]))
  <2> DEFINE i == m + 1
             item == T[m + 1]
             L == item.lines
             X == ToSet(L)
             b == Before(T, m)
             n == Len(L)
             e == Len(LinesIn(T))
  <2>1. PICK j \in 0 .. n : k = b + j /\ Amid(item, j, lines, compound) /\ (j < n \/ (i = Len(T) /\ Unfinished(item)))
    BY <1>4
  <2>2. b \in Nat /\ n \in Nat /\ Before(T, m + 1) = b + n /\ b + n <= e BY <1>2, <1>4, LinesAt
  <2>3. k = e OBVIOUS
  <2>4. j = n
    <3> HIDE DEF b, n, e
    <3>1. b + j = e /\ j <= n /\ j \in Int BY <2>1, <2>2, <2>3
    <3>2. QED BY <2>2, <3>1
  <2>5. i = Len(T) /\ Unfinished(item)
    <3>1. ~(j < n)
      <4> HIDE DEF n
      <4>1. QED BY <2>2, <2>4
    <3>2. QED BY <2>1, <3>1
  <2>6. i \in 1 .. Len(T) BY <1>2, <1>4
  <2>7. L \in Seq(X) BY <2>6, ItemIs
  <2> HIDE DEF X
  <2>8. /\ IsStatement(L) /\ ~HasBody(L) /\ ~EndsIt(L, L[Len(L)]) /\ item.statements = << trim(Written(L)) >>
    BY <2>5 DEF Unfinished, Last, Written
  <2>9. ~Between(item) BY <2>7, <2>8, BetweenIsNone
  <2>10. lines = Written(L) BY <2>1, <2>4, <2>9 DEF Amid, Written
  <2>11. Unended(lines) = trim(lines) /\ trim(lines) # << >> BY <2>7, <2>8, <2>10, UnfinishedSays
  <2> DEFINE x == Unended(lines)
  <2>12. item.statements = IF x = << >> THEN << >> ELSE << x >> BY <2>8, <2>10, <2>11
  <2> HIDE DEF x
  <2>13. PushedTo(Meant(T, m), x) = Meant(T, m + 1) BY <1>2, <1>4, <2>12, PushedIsMeant
  <2>14. Right(T, m + 1) BY <1>1, <1>2, <1>4, <2>12, Leave
  <2>15. QED BY <1>1, <2>5, <2>13, <2>14 DEF x
<1>5. QED BY <1>1, <1>3, <1>4

\* The lines the loop goes over are the lines of the script.
LEMMA LinesAreIn == ASSUME text \in Scripts PROVE Lines = LinesIn(text)
<1>1. DOMAIN text = 1 .. Len(text) BY ScriptType
<1>2. QED BY <1>1 DEF Lines, LinesIn, LinesOf

\* At first no line has been read.
LEMMA ScriptInit == Init => ScriptInv
<1> SUFFICES ASSUME Init, call = "script" PROVE ScriptInv BY DEF ScriptInv
<1>1. text \in Scripts /\ idx = 0 /\ statements = << >> /\ buffer = << >> /\ in_compound_statement = FALSE
      /\ outcome = "running"
  BY DEF Init, InitSplit, InitRender, InitScript
<1>2. Meant(text, 0) = << >>
  <2>1. SubSeq(StatementsOf(text), 1, 0) = << >> BY SubSeqEmpty
  <2>2. QED BY <2>1, FlattenEmpty DEF Meant
<1>3. Before(text, 0) = 0 BY <1>1, LinesEnd
<1>4. Right(text, 0) BY DEF Right
<1>5. 0 \in 0 .. Len(text)
  <2>1. Len(text) \in Nat BY <1>1, ScriptType
  <2>2. QED BY <2>1
<1>6. Led(text, Meant(text, 0)) \/ Whereabouts(text, Before(text, 0), Meant(text, 0), << >>, FALSE)
  BY <1>1, <1>4, <1>5, Arrive
<1>7. QED BY <1>1, <1>2, <1>3, <1>6 DEF ScriptInv

\* Each turn of the loop leaves it where it should be, or astray.
LEMMA ScriptStep == FoundInv /\ ScriptInv /\ [Next]_vars => ScriptInv'
<1> SUFFICES ASSUME FoundInv, ScriptInv, [Next]_vars PROVE ScriptInv' OBVIOUS
<1>1. UNCHANGED <<call, text>>
  BY DEF Next, vars, SingleQuote, DoubleQuote, Semicolon, Other, ReturnStatements, Replace, ReturnSql,
         SkipLine, KeepLine, EndStatement, EndCompound, ReturnScript
<1>2. CASE call # "script" BY <1>1, <1>2 DEF ScriptInv
<1>3. CASE call = "script"
  <2> DEFINE F == Found(Members)
             W == Whereabouts(text, idx, statements, buffer, in_compound_statement)
  <2>1. /\ text \in Scripts
        /\ \/ Led(text, statements)
           \/ outcome = "running" /\ W
           \/ outcome = "returned" /\ Right(text, Len(text)) /\ statements = Meant(text, Len(text))
    BY <1>3 DEF ScriptInv
  <2>2. statements \in Seq(F) BY DEF FoundInv
  <2>3. Lines = LinesIn(text) BY <2>1, LinesAreIn
  <2>4. \A x : PushedLines(x) = PushedTo(statements, x) BY DEF PushedLines, PushedTo
  <2>5. ASSUME Led(text, statements), NEW x PROVE Led(text, PushedTo(statements, x))
    <3> DEFINE Y == F \cup {x}
    <3>1. F \subseteq Y /\ x \in Y OBVIOUS
    <3> HIDE DEF F, Y
    <3>2. statements \in Seq(Y) BY <2>2, <3>1, MoreMembers
    <3>3. Led(text, Append(statements, x)) BY <2>1, <2>5, <3>1, <3>2, StaysLed
    <3>4. QED BY <2>5, <3>3 DEF PushedTo
  <2> HIDE DEF F
  <2>6. ASSUME Led(text, statements') PROVE ScriptInv' BY <1>1, <2>1, <2>6 DEF ScriptInv
  <2>7. ASSUME OnTheWay(text, idx', statements', buffer', in_compound_statement'), outcome' = "running" PROVE ScriptInv'
    BY <1>1, <2>1, <2>7 DEF ScriptInv, OnTheWay
  <2>8. ASSUME Led(text, statements), NEW x, statements' = statements \/ statements' = PushedLines(x) PROVE ScriptInv'
    BY <2>4, <2>5, <2>6, <2>8
  <2>9. ASSUME Reading, W, NEW l, l = line
        PROVE  /\ Skips(l, buffer) => OnTheWay(text, idx + 1, statements, buffer, in_compound_statement)
               /\ ~Skips(l, buffer) /\ (IF InBody(l, in_compound_statement) THEN l # ENDS ELSE l \notin DOMAIN Ended)
                    => OnTheWay(text, idx + 1, statements, Append(buffer, l), InBody(l, in_compound_statement))
               /\ ~Skips(l, buffer) /\ ~InBody(l, in_compound_statement) /\ l \in DOMAIN Ended
                    => OnTheWay(text, idx + 1, PushedTo(statements, Unended(Append(buffer, l))), << >>, in_compound_statement)
               /\ InBody(l, in_compound_statement) /\ l = ENDS
                    => OnTheWay(text, idx + 1, PushedTo(statements, trim(buffer)), << >>, FALSE)
    <3>1. idx < Len(LinesIn(text)) /\ l = LinesIn(text)[idx + 1] BY <2>3, <2>9 DEF Reading, line
    <3>2. QED BY <2>1, <2>9, <3>1, ScriptTurn
  <2>10. (Skipped <=> Skips(line, buffer)) /\ Compound = InBody(line, in_compound_statement)
    BY DEF Skipped, Skips, Compound, InBody
  <2>11. Reading => outcome = "running" BY DEF Reading
  <2>12. CASE SkipLine
    <3>1. /\ Reading /\ Skipped /\ idx' = idx + 1
          /\ UNCHANGED <<statements, buffer, in_compound_statement, outcome>>
      BY <2>12 DEF SkipLine, scriptVars, splitVars
    <3>2. CASE Led(text, statements) BY <2>8, <3>1, <3>2
    <3>3. CASE W
      <4>1. OnTheWay(text, idx + 1, statements, buffer, in_compound_statement) BY <2>9, <2>10, <3>1, <3>3
      <4>2. QED BY <2>7, <2>11, <3>1, <4>1
    <3>4. QED BY <2>1, <2>11, <3>1, <3>2, <3>3
  <2>13. CASE KeepLine
    <3>1. /\ Reading /\ ~Skipped /\ (IF Compound THEN line # ENDS ELSE line \notin DOMAIN Ended)
          /\ buffer' = Append(buffer, line) /\ in_compound_statement' = Compound /\ idx' = idx + 1
          /\ UNCHANGED <<statements, outcome>>
      BY <2>13 DEF KeepLine, splitVars
    <3>2. CASE Led(text, statements) BY <2>8, <3>1, <3>2
    <3>3. CASE W
      <4>1. OnTheWay(text, idx + 1, statements, Append(buffer, line), InBody(line, in_compound_statement))
        BY <2>9, <2>10, <3>1, <3>3
      <4>2. QED BY <2>7, <2>10, <2>11, <3>1, <4>1
    <3>4. QED BY <2>1, <2>11, <3>1, <3>2, <3>3
  <2>14. CASE EndStatement
    <3>1. /\ Reading /\ ~Skipped /\ ~Compound /\ line \in DOMAIN Ended
          /\ statements' = PushedLines(Unended(Append(buffer, line))) /\ buffer' = << >> /\ idx' = idx + 1
          /\ UNCHANGED <<in_compound_statement, outcome>>
      BY <2>14 DEF EndStatement
    <3>2. CASE Led(text, statements) BY <2>8, <3>1, <3>2
    <3>3. CASE W
      <4>1. OnTheWay(text, idx + 1, PushedTo(statements, Unended(Append(buffer, line))), << >>, in_compound_statement)
        BY <2>9, <2>10, <3>1, <3>3
      <4>2. QED BY <2>4, <2>7, <2>11, <3>1, <4>1
    <3>4. QED BY <2>1, <2>11, <3>1, <3>2, <3>3
  <2>15. CASE EndCompound
    <3>1. /\ Reading /\ Compound /\ line = ENDS
          /\ statements' = PushedLines(trim(buffer)) /\ buffer' = << >> /\ in_compound_statement' = FALSE
          /\ idx' = idx + 1 /\ UNCHANGED outcome
      BY <2>15 DEF EndCompound
    <3>2. CASE Led(text, statements) BY <2>8, <3>1, <3>2
    <3>3. CASE W
      <4>1. OnTheWay(text, idx + 1, PushedTo(statements, trim(buffer)), << >>, FALSE) BY <2>9, <2>10, <3>1, <3>3
      <4>2. QED BY <2>4, <2>7, <2>11, <3>1, <4>1
    <3>4. QED BY <2>1, <2>11, <3>1, <3>2, <3>3
  <2>16. CASE ReturnScript
    <3>1. /\ outcome = "running" /\ idx = Len(LinesIn(text)) /\ outcome' = "returned"
          /\ statements' = PushedLines(Unended(buffer))
      BY <2>3, <2>16 DEF ReturnScript
    <3>2. CASE Led(text, statements) BY <2>8, <3>1, <3>2
    <3>3. CASE W
      <4>1. Right(text, Len(text)) /\ PushedTo(statements, Unended(buffer)) = Meant(text, Len(text))
        BY <2>1, <3>1, <3>3, ScriptEnd
      <4>2. QED BY <1>1, <2>1, <2>4, <3>1, <4>1 DEF ScriptInv
    <3>4. QED BY <2>1, <3>1, <3>2, <3>3
  <2>17. CASE UNCHANGED vars
    <3>1. UNCHANGED <<call, text, idx, outcome, in_compound_statement, buffer, statements>>
      BY <2>17 DEF vars, scriptVars, splitVars
    <3>2. QED BY <3>1 DEF ScriptInv
  <2>18. ~SingleQuote /\ ~DoubleQuote /\ ~Semicolon /\ ~Other /\ ~ReturnStatements /\ ~Replace /\ ~ReturnSql
    BY <1>3 DEF SingleQuote, DoubleQuote, Semicolon, Other, Scanning, ReturnStatements, Replace, Rendering, ReturnSql
  <2>19. QED BY <2>12, <2>13, <2>14, <2>15, <2>16, <2>17, <2>18 DEF Next
<1>4. QED BY <1>2, <1>3

\* The statements of the items before the n-th.
LEMMA MeantIs ==
  ASSUME NEW T \in Scripts, NEW n \in 0 .. Len(T)
  PROVE  FlattenSeq([i \in 1 .. n |-> T[i].statements]) = Meant(T, n)
<1> DEFINE g == StatementsOf(T)
           f == [i \in 1 .. n |-> T[i].statements]
           h == SubSeq(g, 1, n)
<1>1. Len(T) \in Nat BY ScriptType
<1>2. PICK X : g \in Seq(Seq(X)) /\ Len(g) = Len(T) BY ScriptType
<1> DEFINE Y == Seq(X)
<1>3. g \in Seq(Y) BY <1>2
<1>4. n \in Nat /\ n <= Len(g) /\ \A i \in 1 .. n : i \in 1 .. Len(T) BY <1>1, <1>2
<1>5. \A i \in 1 .. n : g[i] = f[i] BY <1>4 DEF StatementsOf
<1>6. f = [i \in 1 .. n |-> f[i]] OBVIOUS
<1> HIDE DEF g, Y, f
<1>7. h \in Seq(Y) /\ Len(h) = n /\ \A i \in 1 .. n : h[i] = g[i] BY <1>3, <1>4
<1>8. h = [i \in 1 .. n |-> h[i]] BY <1>7
<1> HIDE DEF h
<1>9. h = f BY <1>5, <1>6, <1>7, <1>8
<1>10. QED BY <1>9 DEF Meant, f, g, h

(***************************************************************************)
(* The theorems                                                            *)
(***************************************************************************)

\* No loop runs past its end, and no statement found is empty or has white space
\* around it.
THEOREM TypeCorrect == Spec => []TypeOK
<1>1. ASSUME SplitInv, RenderInv, FoundInv PROVE TypeOK
  <2>1. /\ call \in {"split", "render", "script"} /\ outcome \in {"running", "returned", "error"}
        /\ in_single_quote \in BOOLEAN /\ in_double_quote \in BOOLEAN /\ in_compound_statement \in BOOLEAN
    BY <1>1 DEF SplitInv, FoundInv
  <2>2. Len(text) \in Nat BY <1>1 DEF SplitInv, TextType
  <2>3. idx \in 0 .. Limit
    <3>1. CASE call = "split" BY <1>1, <3>1 DEF SplitInv, Limit
    <3>2. CASE call = "render" BY <1>1, <3>2 DEF RenderInv, Limit
    <3>3. CASE call = "script" BY <1>1, <3>3 DEF FoundInv, Limit
    <3>4. QED BY <2>1, <3>1, <3>2, <3>3
  <2>4. start \in 0 .. Len(text)
    <3>1. CASE call = "split"
      <4>1. idx \in 0 .. Len(text) /\ start \in 0 .. idx BY <1>1, <3>1 DEF SplitInv, FoundInv
      <4>2. QED BY <2>2, <4>1
    <3>2. CASE call # "split"
      <4>1. start = 0 BY <1>1, <3>2 DEF FoundInv
      <4>2. QED BY <2>2, <4>1
    <3>3. QED BY <3>1, <3>2
  <2>5. \A i \in DOMAIN statements : statements[i] # << >> /\ trim(statements[i]) = statements[i]
    <3> DEFINE F == Found(Members)
    <3>1. statements \in Seq(F) BY <1>1 DEF FoundInv
    <3>2. \A x \in F : x # << >> /\ trim(x) = x BY DEF Found
    <3> HIDE DEF F
    <3>3. \A i \in DOMAIN statements : statements[i] \in F BY <3>1
    <3>4. QED BY <3>2, <3>3
  <2>6. QED BY <2>1, <2>3, <2>4, <2>5 DEF TypeOK
<1>2. Init => SplitInv /\ RenderInv /\ FoundInv BY SplitInit, RenderInit, FoundInit
<1>3. SplitInv /\ RenderInv /\ FoundInv /\ [Next]_vars => (SplitInv /\ RenderInv /\ FoundInv)'
  BY SplitStep, RenderStep, FoundStep
<1>4. QED BY <1>1, <1>2, <1>3, PTL DEF Spec

\* The two flags of split_simple_query say what the quotes of SQL say of the text
\* read so far, for any text, unless a comment misleads them.
THEOREM FlagsTheorem == Spec => []FlagsAreTheMode
<1>1. ASSUME SplitInv PROVE FlagsAreTheMode
  <2> SUFFICES ASSUME call = "split"
               PROVE  \/ Mode(SubSeq(text, 1, idx)) \in CASE in_single_quote -> {"string"}
                                                          [] in_double_quote -> {"name"}
                                                          [] OTHER           -> {"plain", "dash", "comment"}
                      \/ Misleading(SubSeq(text, 1, idx))
    BY DEF FlagsAreTheMode
  <2>1. /\ TextType /\ idx \in 0 .. Len(text) /\ Agrees(in_single_quote, in_double_quote, idx)
        /\ in_single_quote \in BOOLEAN /\ in_double_quote \in BOOLEAN /\ ~(in_single_quote /\ in_double_quote)
    BY <1>1 DEF SplitInv
  <2>2. Misled(idx) => Misleading(SubSeq(text, 1, idx)) BY <2>1, MisledByRead
  <2>3. (CASE in_single_quote -> {"string"}
           [] in_double_quote -> {"name"}
           [] OTHER           -> {"plain", "dash", "comment"}) = ModesOf(in_single_quote, in_double_quote)
    BY <2>1 DEF ModesOf
  <2>4. QED BY <2>1, <2>2, <2>3 DEF Agrees
<1>2. QED BY <1>1, SplitInit, SplitStep, PTL DEF Spec

\* What split_simple_query returns is the text cut at its semicolons outside
\* quotes, for a text of any length, unless a comment misleads it.
THEOREM PiecesTheorem == Spec => []StatementsAreThePieces
<1>1. ASSUME SplitInv, PiecesInv PROVE StatementsAreThePieces
  <2> SUFFICES ASSUME call = "split", outcome = "returned", ~Misleading(text)
               PROVE  statements = PiecesOf(text)
    BY DEF StatementsAreThePieces, parse_sql_refuses
  <2>1. idx = Len(text) /\ (Misled(idx) \/ Cut) BY <1>1 DEF PiecesInv
  <2>2. TextType BY <1>1 DEF SplitInv
  <2>3. Len(text) \in Nat /\ text \in Seq(ToSet(text)) BY <2>2 DEF TextType
  <2>4. ~Misled(Len(text))
    <3>1. SubSeq(text, 1, Len(text)) = text BY <2>3, SubSeqFull
    <3>2. Len(text) \in 0 .. Len(text) BY <2>3
    <3>3. Misleading(SubSeq(text, 1, Len(text))) <=> Misled(Len(text)) BY <2>2, <3>2, MisledByRead
    <3>4. QED BY <3>1, <3>3
  <2>5. statements = Done(Len(text) + 1) BY <2>1, <2>4 DEF Cut
  <2>6. SubSeq(Pieces, 1, Len(text) + 1) = Pieces
    <3> DEFINE Y == Seq(Seq(ToSet(text)))
               n == Len(text) + 1
               s == Pieces
    <3>1. \A i \in 1 .. n : PieceFrom(text, i) \in Y BY <2>2, PieceType
    <3>2. n \in Nat /\ s = [i \in 1 .. n |-> PieceFrom(text, i)] BY <2>3 DEF Pieces
    <3> HIDE DEF Y, n, s
    <3>3. s \in Seq(Y) /\ Len(s) = n BY <3>1, <3>2
    <3>4. SubSeq(s, 1, n) = s BY <3>3, SubSeqFull
    <3>5. QED BY <3>4 DEF n, s
  <2>7. QED BY <2>5, <2>6 DEF Done, Pieces, PiecesOf
<1>2. Init => SplitInv /\ FoundInv /\ PiecesInv BY SplitInit, FoundInit, PiecesInit
<1>3. SplitInv /\ FoundInv /\ PiecesInv /\ [Next]_vars => (SplitInv /\ FoundInv /\ PiecesInv)'
  BY SplitStep, FoundStep, PiecesStep
<1>4. QED BY <1>1, <1>2, <1>3, PTL DEF Spec

\* A portal with a malformed parameter is never rendered.
THEOREM MalformedTheorem == Spec => []MalformedIsRefused
<1>1. ASSUME RenderInv PROVE MalformedIsRefused
  <2> SUFFICES ASSUME Rendered, NEW i \in DOMAIN parameters PROVE Accepted(parameters[i])
    BY DEF MalformedIsRefused, Accepted
  <2>1. call = "render" /\ outcome = "returned" BY DEF Rendered
  <2>2. /\ parameters \in Portals /\ idx = 0
        /\ \A j \in idx + 1 .. Len(parameters) : Accepted(parameters[j])
    BY <1>1, <2>1 DEF RenderInv
  <2>3. i \in 1 .. Len(parameters) BY <2>2, PortalType
  <2>4. QED BY <2>2, <2>3
<1>2. QED BY <1>1, RenderInit, RenderStep, PTL DEF Spec

\* Replacing the placeholders one after the other, from the last, gives what
\* replacing them at once would, for any statement and any portal.
THEOREM AllAtOnceTheorem == Spec => []AllAtOnce
<1>1. ASSUME SplitInv, RenderInv, BindInv PROVE AllAtOnce
  <2> SUFFICES ASSUME Rendered, ~Resubstituted, ~Joined PROVE sql = BoundText BY DEF AllAtOnce
  <2>1. call = "render" /\ outcome = "returned" BY DEF Rendered
  <2>2. parameters \in Portals /\ idx = 0 BY <1>1, <2>1 DEF RenderInv
  <2>3. Canonical(text) /\ max_parameter_index(text) <= Len(parameters) /\ sql = Put(text, Literals, idx, Len(text))
    BY <1>1, <2>1 DEF BindInv
  <2>4. TextType BY <1>1 DEF SplitInv
  <2>5. Bindable(CharsOf(text, parameters), text, Literals, Len(parameters)) BY <2>2, <2>3, <2>4, RenderBinds
  <2>6. BoundText = Put(text, Literals, 0, Len(text)) BY <2>5, BoundIsPut
  <2>7. QED BY <2>2, <2>3, <2>6
<1>2. Init => SplitInv /\ RenderInv /\ BindInv BY SplitInit, RenderInit, BindInit
<1>3. SplitInv /\ RenderInv /\ BindInv /\ [Next]_vars => (SplitInv /\ RenderInv /\ BindInv)'
  BY SplitStep, RenderStep, BindStep
<1>4. QED BY <1>1, <1>2, <1>3, PTL DEF Spec

\* A value stays inside the literal made of it, for any statement and any portal:
\* quotes and comments are open at the end only if they were in the statement,
\* and no semicolon is outside them if none was, but for the exceptions.
THEOREM ValuesTheorem == Spec => []ValuesStayLiterals
<1>1. ASSUME SplitInv, RenderInv, BindInv PROVE ValuesStayLiterals
  <2> SUFFICES ASSUME Rendered, ~Enquoted(text), ~Resubstituted, ~Joined, ~Negated
               PROVE  Mode(sql) = Mode(text) /\ (Plain(text, ";") = {} => Plain(sql, ";") = {})
    BY DEF ValuesStayLiterals
  <2>1. call = "render" /\ outcome = "returned" BY DEF Rendered
  <2>2. parameters \in Portals /\ idx = 0 BY <1>1, <2>1 DEF RenderInv
  <2>3. Canonical(text) /\ max_parameter_index(text) <= Len(parameters) /\ sql = Put(text, Literals, idx, Len(text))
    BY <1>1, <2>1 DEF BindInv
  <2>4. TextType BY <1>1 DEF SplitInv
  <2>5. Bindable(CharsOf(text, parameters), text, Literals, Len(parameters)) BY <2>2, <2>3, <2>4, RenderBinds
  <2>6. Put(text, Literals, Len(parameters), Len(text)) = text BY <2>5, PutUnboundAll
  <2>7. Same(Put(text, Literals, 0, Len(text)), Put(text, Literals, Len(parameters), Len(text)))
    BY <2>2, <2>5, SameAll
  <2>8. Same(sql, text) BY <2>2, <2>3, <2>6, <2>7
  <2>9. QED BY <2>8 DEF Same, Quiet
<1>2. Init => SplitInv /\ RenderInv /\ BindInv BY SplitInit, RenderInit, BindInit
<1>3. SplitInv /\ RenderInv /\ BindInv /\ [Next]_vars => (SplitInv /\ RenderInv /\ BindInv)'
  BY SplitStep, RenderStep, BindStep
<1>4. QED BY <1>1, <1>2, <1>3, PTL DEF Spec

\* What split_exasol_sql has found are the statements of the script, for any
\* script, up to lines that lead it astray.
THEOREM ScriptsTheorem == Spec => []ScriptsAreTheirStatements
<1>1. ASSUME FoundInv, ScriptInv PROVE ScriptsAreTheirStatements
  <2> DEFINE I == {i \in 1 .. Len(text) : Astray(text[i])}
             meant(n) == FlattenSeq([i \in 1 .. n |-> text[i].statements])
  <2> SUFFICES ASSUME call = "script", outcome = "returned"
               PROVE  IF (IF I # {} THEN Min(I) ELSE 0) = 0 THEN statements = meant(Len(text))
                      ELSE IsPrefix(meant((IF I # {} THEN Min(I) ELSE 0) - 1), statements)
    BY DEF ScriptsAreTheirStatements, SelectInSeq
  <2>1. /\ text \in Scripts
        /\ \/ Led(text, statements)
           \/ Right(text, Len(text)) /\ statements = Meant(text, Len(text))
    BY <1>1 DEF ScriptInv
  <2>2. Len(text) \in Nat BY <2>1, ScriptType
  <2>3. \A n \in 0 .. Len(text) : meant(n) = Meant(text, n) BY <2>1, MeantIs
  <2> HIDE DEF meant
  <2>4. CASE Right(text, Len(text)) /\ statements = Meant(text, Len(text))
    <3>1. I = {} BY <2>4 DEF Right
    <3>2. Len(text) \in 0 .. Len(text) BY <2>2
    <3>3. QED BY <2>3, <2>4, <3>1, <3>2
  <2>5. CASE Led(text, statements)
    <3>1. PICK a \in 1 .. Len(text) : Right(text, a - 1) /\ Astray(text[a]) /\ IsPrefix(Meant(text, a - 1), statements)
      BY <2>5 DEF Led
    <3>2. a \in I /\ I \in SUBSET (1 .. Len(text)) BY <3>1
    <3>3. \A i \in I : a <= i
      <4> SUFFICES ASSUME NEW i \in I, ~(a <= i) PROVE FALSE OBVIOUS
      <4>1. i \in 1 .. (a - 1) BY <2>2
      <4>2. Astray(text[i]) OBVIOUS
      <4>3. QED BY <3>1, <4>1, <4>2 DEF Right
    <3> HIDE DEF I
    <3>4. Min(I) = a
      <4>1. \A z \in I : z \in Int /\ a <= z BY <2>2, <3>2, <3>3
      <4>2. QED BY <3>2, <4>1, MinIs
    <3>5. a # 0 /\ a - 1 \in 0 .. Len(text) /\ I # {} BY <2>2, <3>2
    <3>6. QED BY <2>3, <3>1, <3>4, <3>5
  <2>6. QED BY <2>1, <2>4, <2>5
<1>2. Init => SplitInv /\ FoundInv /\ ScriptInv BY SplitInit, FoundInit, ScriptInit
<1>3. SplitInv /\ FoundInv /\ ScriptInv /\ [Next]_vars => (SplitInv /\ FoundInv /\ ScriptInv)'
  BY SplitStep, FoundStep, ScriptStep
<1>4. QED BY <1>1, <1>2, <1>3, PTL DEF Spec

\* The turns a call has left, and its return.
Left == IF call = "render" THEN idx ELSE Limit - idx
Turns == Left + (IF outcome = "running" THEN 1 ELSE 0)

FewerTurns == Turns \in Nat /\ Turns' \in Nat /\ Turns' < Turns

\* A turn of a loop leaves fewer.
LEMMA FewerLeft ==
  ASSUME NEW l \in Int, NEW i \in 0 .. l, NEW j \in 0 .. l, NEW a \in {0, 1}, NEW b \in {0, 1}, b <= a,
         NEW n, NEW m
  PROVE  /\ j > i /\ n = (l - i) + a /\ m = (l - j) + b => n \in Nat /\ m \in Nat /\ m < n
         /\ j < i /\ n = i + a /\ m = j + b => n \in Nat /\ m \in Nat /\ m < n
<1>1. l - i \in Nat /\ l - j \in Nat /\ i \in Nat /\ j \in Nat OBVIOUS
<1>2. a \in Nat /\ b \in Nat OBVIOUS
<1>3. j > i => (l - j) + b < (l - i) + a BY <1>2
<1>4. j < i => j + b < i + a BY <1>2
<1>5. QED BY <1>1, <1>2, <1>3, <1>4

\* Every step of a call, of any of the three loops, leaves fewer turns than there
\* were, a natural number of them: no character, parameter or line is looked at
\* for ever.
THEOREM TurnsTheorem == Spec => [][FewerTurns]_vars
<1> DEFINE I == SplitInv /\ RenderInv /\ FoundInv /\ TypeOK
<1>1. ASSUME I PROVE Limit \in Int /\ idx \in 0 .. Limit
  <2>1. idx \in 0 .. Limit /\ call \in {"split", "render", "script"} BY <1>1 DEF TypeOK
  <2>2. CASE call = "split"
    <3>1. Len(text) \in Nat BY <1>1 DEF SplitInv, TextType
    <3>2. QED BY <2>1, <2>2, <3>1 DEF Limit
  <2>3. CASE call = "render"
    <3>1. Len(parameters) \in 0 .. 99 BY <1>1, <2>3, PortalType DEF RenderInv
    <3>2. QED BY <2>1, <2>3, <3>1 DEF Limit
  <2>4. CASE call = "script"
    <3> DEFINE M == Members
    <3>1. Lines \in Seq(M) BY <1>1, <2>4 DEF FoundInv
    <3> HIDE DEF M
    <3>2. Len(Lines) \in Nat BY <3>1
    <3>3. QED BY <2>1, <2>4, <3>2 DEF Limit
  <2>5. QED BY <2>1, <2>2, <2>3, <2>4
<1>2. ASSUME I, I', Next PROVE FewerTurns
  <2>1. UNCHANGED <<call, text>>
    BY <1>2 DEF Next, SingleQuote, DoubleQuote, Semicolon, Other, ReturnStatements, Replace, ReturnSql,
                SkipLine, KeepLine, EndStatement, EndCompound, ReturnScript
  <2>2. UNCHANGED parameters
    BY <1>2 DEF Next, SingleQuote, DoubleQuote, Semicolon, Other, ReturnStatements, Replace, ReturnSql,
                SkipLine, KeepLine, EndStatement, EndCompound, ReturnScript
  <2>3. Limit' = Limit BY <2>1, <2>2 DEF Limit, Lines
  <2>4. Limit \in Int /\ idx \in 0 .. Limit /\ idx' \in 0 .. Limit
    <3>1. (Limit \in Int /\ idx \in 0 .. Limit)'
      <4>1. idx' \in 0 .. Limit' BY <1>2 DEF TypeOK
      <4>2. Limit \in Int BY <1>1, <1>2
      <4>3. QED BY <2>3, <4>1, <4>2
    <3>2. QED BY <1>1, <1>2, <2>3, <3>1
  <2> DEFINE l == Limit
             R(o) == IF o = "running" THEN 1 ELSE 0
  <2>5. Turns = (IF call = "render" THEN idx ELSE l - idx) + R(outcome) BY DEF Turns, Left
  <2>6. Turns' = (IF call = "render" THEN idx' ELSE l - idx') + R(outcome') BY <2>1, <2>3 DEF Turns, Left
  <2>7. l \in Int /\ idx \in 0 .. l /\ idx' \in 0 .. l BY <2>4
  <2> HIDE DEF l
  <2>8. \A o : R(o) \in {0, 1} OBVIOUS
  <2>9. R("running") = 1 /\ R("returned") = 0 OBVIOUS
  <2> HIDE DEF R
  <2>10. ASSUME call # "render", idx' > idx, R(outcome') <= R(outcome) PROVE FewerTurns
    <3>1. Turns = (l - idx) + R(outcome) /\ Turns' = (l - idx') + R(outcome') BY <2>5, <2>6, <2>10
    <3>2. R(outcome) \in {0, 1} /\ R(outcome') \in {0, 1} BY <2>8
    <3>3. QED BY <2>7, <2>10, <3>1, <3>2, FewerLeft DEF FewerTurns
  <2>11. ASSUME call = "render", idx' < idx, R(outcome') <= R(outcome) PROVE FewerTurns
    <3>1. Turns = idx + R(outcome) /\ Turns' = idx' + R(outcome') BY <2>5, <2>6, <2>11
    <3>2. R(outcome) \in {0, 1} /\ R(outcome') \in {0, 1} BY <2>8
    <3>3. QED BY <2>7, <2>11, <3>1, <3>2, FewerLeft DEF FewerTurns
  <2>12. idx \in Int BY <2>7
  <2>13. R(outcome) <= R(outcome) BY <2>8
  <2>14. CASE SingleQuote \/ DoubleQuote \/ Semicolon \/ Other
    <3>1. call = "split" /\ outcome' = outcome /\ idx' \in {idx + 1, idx + 2}
      BY <2>14 DEF SingleQuote, DoubleQuote, Semicolon, Other, Scanning
    <3>2. idx' > idx BY <2>12, <3>1
    <3>3. QED BY <2>10, <2>13, <3>1, <3>2
  <2>15. CASE SkipLine \/ KeepLine \/ EndStatement \/ EndCompound
    <3>1. call = "script" /\ outcome' = outcome /\ idx' = idx + 1
      BY <2>15 DEF SkipLine, KeepLine, EndStatement, EndCompound, Reading
    <3>2. idx' > idx BY <2>12, <3>1
    <3>3. QED BY <2>10, <2>13, <3>1, <3>2
  <2>16. CASE Replace
    <3>1. call = "render" /\ outcome = "running" /\ idx' = idx - 1 BY <2>16 DEF Replace, Rendering
    <3>2. idx' < idx BY <2>12, <3>1
    <3>3. R(outcome') <= R(outcome) BY <2>8, <2>9, <3>1
    <3>4. QED BY <2>11, <3>1, <3>2, <3>3
  <2>17. CASE ReturnStatements \/ ReturnSql \/ ReturnScript
    <3>1. idx' = idx /\ outcome = "running" /\ outcome' = "returned"
      BY <2>17 DEF ReturnStatements, ReturnSql, ReturnScript
    <3>2. R(outcome) = 1 /\ R(outcome') = 0 BY <2>9, <3>1
    <3> DEFINE k == IF call = "render" THEN idx ELSE l - idx
    <3>3. k \in Nat BY <2>7
    <3>4. Turns = k + 1 /\ Turns' = k + 0 BY <2>5, <2>6, <3>1, <3>2
    <3> HIDE DEF k
    <3>5. QED BY <3>3, <3>4 DEF FewerTurns
  <2>18. QED BY <1>2, <2>14, <2>15, <2>16, <2>17 DEF Next
<1>3. I /\ I' /\ [Next]_vars => [FewerTurns]_vars BY <1>2
<1>4. Init => SplitInv /\ RenderInv /\ FoundInv BY SplitInit, RenderInit, FoundInit
<1>5. SplitInv /\ RenderInv /\ FoundInv /\ [Next]_vars => (SplitInv /\ RenderInv /\ FoundInv)'
  BY SplitStep, RenderStep, FoundStep
<1>6. Spec => []TypeOK BY TypeCorrect
<1>7. QED BY <1>3, <1>4, <1>5, <1>6, PTL DEF Spec
=============================================================================
