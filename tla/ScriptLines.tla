----------------------------- MODULE ScriptLines ------------------------------
(***************************************************************************)
(* The lines of an installation script as split_exasol_sql of              *)
(* src/bootstrap.rs sees them, trimmed.  A statement ends with a semicolon *)
(* at the end of a line; one that creates a function or a script ends with *)
(* a line of its own, "/", and its body may have semicolons.               *)
(***************************************************************************)
EXTENDS SequencesExt

BLANK == " "
OPENS == "--/"   \* what EXAplus wants before a body; it is never sent
ENDS  == "/"

Comments == {"-- c", "-- c;"}

\* The lines that end with a semicolon, without their semicolons.
Ended == [l \in {"x;", "y;", ";", "-- c;"} |->
            CASE l = "x;" -> "x" [] l = "y;" -> "y" [] l = ";" -> BLANK [] l = "-- c;" -> "-- c"]

\* A line that begins with CREATE and has FUNCTION or SCRIPT as a word in it.
StartsCompound(line) == line \in {"CREATE SCRIPT f", "CREATE FUNCTION f", "CREATE TABLE script ("}
=============================================================================
