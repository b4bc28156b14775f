\* Two gateways; a catalog script with two statements after its schemas.
CONSTANTS
  Gateways = {g1, g2}
  CatalogLength = 4
  ScriptLength = 2
  Managed = TRUE
SPECIFICATION Spec
INVARIANTS TypeOK InstalledInOrder ReportedIsInstalled AskedFirst
