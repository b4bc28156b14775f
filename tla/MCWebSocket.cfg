\* Up to three rows, so that a result takes up to three fetches; two statements
\* of session_init_sql, so that the second may fail.
CONSTANTS
  MaxRows = 3
  MaxFrames = 1
  InitSql = 2
SPECIFICATION Spec
INVARIANTS TypeOK InStep RowsAreComplete InitializedFirst
PROPERTY StatementEnds
CHECK_DEADLOCK FALSE
