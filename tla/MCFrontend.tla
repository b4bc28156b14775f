------------------------------ MODULE MCFrontend ------------------------------
(* Every request in every layout, and queries for the translator: every head *)
(* with every expression or literal, and every source with every limit.      *)
EXTENDS SqlFragments

Names == {"c", "\"c\"", "\"my c\""}

Requests ==
  Declares(Names) \cup Positions(Names) \cup Closes(Names)
    \cup {Declare("c", << >>, << >>, << "SELECT", "x", "FROM", "pg_settings" >>)}
    \cup Transactions \cup SavepointRollbacks \cup SearchPaths \cup SearchPathLists
    \cup Parameters \cup LocalQueries \cup Reads \cup Writes("t") \cup Writes("pg_settings")
    \cup Definitions \cup Others \cup MetadataQueries

Queries1 == {Query(h, i, a, s, "none") : h \in DOMAIN Heads, i \in Items, a \in {"none", "reserved"},
                                        s \in DOMAIN Sources}
Selects1 == {q \in Queries1 : q[1] = << "head", "select" >>}
Queries2 == {Query("select", << "expr", e >>, a, s, l) : e \in {"column", "cast"}, a \in DOMAIN Aliases,
                                                        s \in DOMAIN Sources, l \in DOMAIN Limits}
Known == {<< << "query", q >> >> : q \in DOMAIN CatalogQueries}

MCInputs ==
  InLayouts(Requests, {"line", "lines", "comments", "wrapped"})
    \cup {Asked(q, "line") : q \in Queries1}
    \cup {Asked(q, "wrapped") : q \in Selects1}
    \cup {Asked(q, l) : q \in Queries2 \cup Known, l \in {"line", "lines", "wrapped"}}
    \cup {AskedByCursor(q) : q \in Selects1 \cup Known}
=============================================================================
