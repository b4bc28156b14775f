\* Ranges that start and end inside, between and after the chunks; every type.
CONSTANTS
  Statements <- MCStatements
  Bound = 7
SPECIFICATION Spec
INVARIANTS TypeOK LoopInvariant SlicesAgree DescribedAsAnswered SameOverEitherTransport CatalogMatchesResults
