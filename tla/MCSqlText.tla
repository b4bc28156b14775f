------------------------------ MODULE MCSqlText -------------------------------
(* Every simple query of up to five characters, with all quotes or with      *)
(* comments; every statement of up to four, with one- and two-digit          *)
(* placeholders or with quotes, semicolons and dashes; every script of up to *)
(* three items.  The letter stands for all the characters the loops do not   *)
(* look at.                                                                  *)
EXTENDS SqlText

MCQueries == BoundedSeq({"'", "\"", ";", " ", "a"}, 5) \cup BoundedSeq({"'", ";", "-", NL, "a"}, 5)
MCStatements ==
  BoundedSeq({"$", "1", "0", "a"}, 4) \cup BoundedSeq({"$", "1", "'", ";", "-"}, 4)
    \cup {<<"$", "1", "$", "1", "0">>, <<"$", "1", "0", "$", "1">>}

Bound(binary, type, utf8, bytes) ==
  [null |-> FALSE, binary |-> binary, type |-> type, utf8 |-> utf8, bytes |-> bytes, number |-> << "1" >>]

MCParameters ==
  {[Bound(FALSE, "TEXT", TRUE, << >>) EXCEPT !.null = TRUE]}
    \cup {Bound(binary, "TEXT", TRUE, bytes) :
            binary \in BOOLEAN, bytes \in {<< >>, << "'" >>, << ";" >>, << "'", ";" >>, << "$", "1" >>}}
    \cup {Bound(binary, "TEXT", FALSE, << "x" >>) : binary \in BOOLEAN}
    \cup {Bound(TRUE, "FLOAT8", utf8, << "x" >>) : utf8 \in BOOLEAN}
    \cup {[Bound(TRUE, "INT2", FALSE, << "x", "x" >>) EXCEPT !.number = << "-", "1" >>]}
    \cup {Bound(TRUE, type, FALSE, bytes) : type \in {"BOOL", "INT2"}, bytes \in {<< "x" >>, << "x", "x" >>}}

\* Ten parameters, so that $1 begins $10: one of each kind, first or last, the
\* others plain text.
MCPortals ==
  {[i \in 1 .. 10 |-> IF i = k THEN p ELSE Bound(FALSE, "TEXT", TRUE, << "x" >>)] :
     k \in {1, 10}, p \in MCParameters}

Item(lines, means) == [lines |-> lines, statements |-> means]

\* Comments; statements on one line and on several; bodies; and what leads astray.
Items ==
  {Item(<< BLANK, "-- c;" >>, << >>), Item(<< ";" >>, << >>),
   Item(<< "x;" >>, << << "x" >> >>),
   Item(<< "x", BLANK, "-- c", "y;" >>, << << "x", BLANK, "-- c", "y" >> >>),
   Item(<< "x", ";" >>, << << "x" >> >>),
   Item(<< "CREATE SCRIPT f", "x;", "-- c;", ENDS >>, << << "CREATE SCRIPT f", "x;", "-- c;" >> >>),
   Item(<< OPENS, "CREATE FUNCTION f", BLANK, "x;", BLANK, ENDS >>, << << "CREATE FUNCTION f", BLANK, "x;" >> >>),
   Item(<< "x", "-- c;", "y;" >>, << << "x", "-- c;", "y" >> >>),
   Item(<< "CREATE", "SCRIPT f", "x;", ENDS >>, << << "CREATE", "SCRIPT f", "x;" >> >>),
   Item(<< "CREATE TABLE script (", "x;" >>, << << "CREATE TABLE script (", "x" >> >>)}

\* The last statement need not end.
MCScripts ==
  LET bounded == BoundedSeq(Items, 3)
  IN bounded \cup {Append(s, Item(<< "x", "y" >>, << << "x", "y" >> >>)) : s \in bounded}
=============================================================================
