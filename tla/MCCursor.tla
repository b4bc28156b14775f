------------------------------ MODULE MCCursor ------------------------------
(* Small instances of CursorRegistry. *)
EXTENDS CursorRegistry

MCRows == {"a", "b", "c"}

\* No row, and enough rows for a first, a middle and a last one.
MCResults == {<<>>, <<"a", "b", "c">>}

\* Both signs, zero, inside the rows and past either end.
MCOperands == {-4, -2, 0, 2, 4}

\* Every i64 of an integer width of 4 bits, except the least one.
MCAllOperands == (-IMax) .. IMax
=============================================================================
