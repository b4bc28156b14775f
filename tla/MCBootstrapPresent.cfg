\* One gateway; a catalog script with one statement after its schemas.
CONSTANTS
  Gateways = {g1}
  CatalogLength = 3
  ScriptLength = 2
  Managed = FALSE
SPECIFICATION Spec
INVARIANT PresentIsInstalled
