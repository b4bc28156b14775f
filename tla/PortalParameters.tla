--------------------------- MODULE PortalParameters ---------------------------
(***************************************************************************)
(* The literal that render_portal_parameter of src/pg_server.rs makes of a *)
(* parameter the client has bound.  A parameter is [null, binary, type,    *)
(* utf8, bytes, number]: NULL or not, its format and its type, whether its *)
(* bytes are UTF-8, the bytes, and what they are as an integer.  A literal *)
(* is a sequence of characters; TRUE, FALSE and NULL are one each.         *)
(***************************************************************************)
EXTENDS Naturals, SequencesExt

NULL == << "N" >>
Truth == << "T" >>   \* TRUE or FALSE
Error == << "error" >>

\* Mutant: quotes in the value are not doubled.
Enclosed(value) == << "'" >> \o value \o << "'" >>

sql_string_literal(value) ==
  << "'" >> \o FlattenSeq([i \in DOMAIN value |-> IF value[i] = "'" THEN << "'", "'" >> ELSE << value[i] >>])
    \o << "'" >>

\* The types PostgreSQL writes as their text in binary format too.
TextTypes == {"TEXT", "VARCHAR", "BPCHAR", "NAME", "UNKNOWN"}

\* The bytes of each binary type with a fixed size.
Size == [BOOL |-> 1, INT2 |-> 2, INT4 |-> 4, INT8 |-> 8]

Scalar(p) == IF p.type = "BOOL" THEN Truth ELSE p.number

\* Mutant: a value of any length is read as the type's.
AnyLength(p) == IF p.type \in DOMAIN Size THEN Scalar(p)
                ELSE IF p.utf8 THEN sql_string_literal(p.bytes) ELSE Error

\* A type that is neither of a fixed size nor a text is taken for a text.
render_binary_parameter(p) ==
  IF p.type \in DOMAIN Size
  THEN IF Len(p.bytes) = Size[p.type] THEN Scalar(p) ELSE Error
  ELSE IF p.utf8 THEN sql_string_literal(p.bytes) ELSE Error

\* A parameter is NULL, or bytes in text or binary format, of a declared or
\* inferred type.
render_portal_parameter(p) ==
  CASE p.null                -> NULL
    [] ~p.null /\ p.binary   -> render_binary_parameter(p)
    [] ~p.null /\ ~p.binary  -> IF p.utf8 THEN sql_string_literal(p.bytes) ELSE Error
=============================================================================
