\* Two statements with a quoted semicolon in one of them; $1 and $10 side by side.
CONSTANTS
  Queries <- MCQueries
  Statements <- MCStatements
  Portals <- MCPortals
  Scripts <- MCScripts
SPECIFICATION Spec
INVARIANTS TypeOK FlagsAreTheMode StatementsAreThePieces AllAtOnce ValuesStayLiterals MalformedIsRefused ScriptsAreTheirStatements
PROPERTY Returns
CHECK_DEADLOCK FALSE
