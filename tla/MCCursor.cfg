\* One cursor name; results and operands that reach every branch of the arithmetic.
CONSTANTS
  IMax = 100
  Names = {"c1"}
  Rows <- MCRows
  Results <- MCResults
  Operands <- MCOperands
SPECIFICATION Spec
INVARIANTS TypeOK ForwardReadsLoseNothing
PROPERTIES NoScrollNeverGoesBack ImplementsCursorSpec
