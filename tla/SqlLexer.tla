------------------------------- MODULE SqlLexer -------------------------------
(* The quotes of SQL, character by character: in a string literal, in a      *)
(* quoted identifier, in a comment, or in none.  A doubled quote leaves and  *)
(* enters; "dash" is behind a dash that may begin a comment.                 *)
EXTENDS SequencesExt

NL == "<new line>"

After(mode, ch) ==
  CASE mode = "dash" /\ ch = "-"    -> "comment"
    [] mode = "comment"             -> IF ch = NL THEN "plain" ELSE "comment"
    [] mode \in {"plain", "dash"}   ->
         (CASE ch = "'" -> "string" [] ch = "\"" -> "name" [] ch = "-" -> "dash" [] OTHER -> "plain")
    [] mode = "string" /\ ch = "'"  -> "plain"
    [] mode = "name" /\ ch = "\""   -> "plain"
    [] OTHER                        -> mode

\* The mode after the whole text.
Mode(text) == FoldLeft(After, "plain", text)

\* The positions of the characters that neither quotes nor a comment enclose.
Plain(text, ch) ==
  {i \in DOMAIN text : text[i] = ch /\ Mode(SubSeq(text, 1, i - 1)) \in {"plain", "dash"}}
=============================================================================
