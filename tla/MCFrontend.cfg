\* Every request in every layout, and the queries for the translator.
CONSTANTS
  IMax = 7
  Inputs <- MCInputs
SPECIFICATION Spec
INVARIANTS TypeOK OnlyKnownDepartures CatalogQueriesSelectTheRows ExasolGetsTheMeaning FoldedForAReason
