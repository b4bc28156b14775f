------------------------------- MODULE SqlWords -------------------------------
(***************************************************************************)
(* The texts of statements, as src/policy.rs, src/translator.rs and        *)
(* src/metadata.rs read them, and the helpers the three share.             *)
(*                                                                         *)
(* A text is the sequence of its words and of what lies between them.  Two *)
(* words that are neighbours have one space between them; NL is a line     *)
(* break, SPACES other white space, COMMENT a comment with a space on each *)
(* side, whose text has a :: and names a catalog relation, as those of     *)
(* Metabase do.  Keywords are upper case and other words lower case: the   *)
(* code compares without case.  A quote or bracket that expressions look   *)
(* for is a word of its own, so what is inside a literal can be seen; a    *)
(* literal or a call that is moved as a whole is one word.  Words carry no *)
(* other punctuation, so the trimming of parentheses in first_keyword and  *)
(* second_keyword has nothing to do.                                       *)
(***************************************************************************)
EXTENDS Integers, FiniteSetsExt, SequencesExt

NL == "<newline>"
COMMENT == "<comment>"
SPACES == "<spaces>"
Gaps == {NL, SPACES}

\* Quoted words, and what is between their quotes.
DoubleQuoted == [w \in {"\"c\"", "\"my c\"", "\"s\"", "\"\""} |->
  CASE w = "\"c\"" -> "c" [] w = "\"my c\"" -> "my c" [] w = "\"s\"" -> "s"
    [] w = "\"\"" -> ""]
SingleQuoted == [w \in {"'s'", "''"} |-> IF w = "'s'" THEN "s" ELSE ""]

unquote_identifier(w) == IF w \in DOMAIN DoubleQuoted THEN DoubleQuoted[w] ELSE w

Trim(text, these) ==
  LET kept == {i \in DOMAIN text : text[i] \notin these}
  IN IF kept = {} THEN << >> ELSE SubSeq(text, Min(kept), Max(kept))

TrimEnd(text, these) ==
  SubSeq(text, 1, Max({0} \cup {i \in DOMAIN text : text[i] \notin these}))

\* A comment becomes white space, even one inside a string literal.
Uncommented(w) == CASE w = COMMENT   -> SPACES
                    [] w = "'/*x*/'" -> "' '"
                    [] OTHER         -> w

normalize_sql(text) ==
  LET spaced == [i \in DOMAIN text |-> Uncommented(text[i])]
  IN Trim(TrimEnd(Trim(spaced, Gaps), {";"}), Gaps)

Words(text) == SelectSeq(text, LAMBDA w : w \notin Gaps)

\* split_whitespace also cuts a quoted word that has a space in it.
split_whitespace(text) ==
  FlattenSeq([i \in DOMAIN Words(text) |->
                IF Words(text)[i] = "\"my c\"" THEN << "\"my", "c\"" >> ELSE << Words(text)[i] >>])

Word(text, i) == IF i \in DOMAIN Words(text) THEN Words(text)[i] ELSE ""

first_keyword(text) == Word(text, 1)

second_keyword(text) ==
  IF Word(text, 2) = "OR" /\ Word(text, 3) = "REPLACE" THEN Word(text, 4) ELSE Word(text, 2)

Occurs(part, text) == \E i \in DOMAIN text : IsPrefix(part, SubSeq(text, i, Len(text)))
=============================================================================
