\* Simple queries only: every plan, two schemas, two cursors.
CONSTANTS
  Schemas = {"s1", "s2"}
  CursorNames = {"c1", "c2"}
  StatementNames = {}
  PortalNames = {""}
  DEFAULT_NAME = ""
  None = None
  Texts <- SimpleTexts
SPECIFICATION FairSpec
INVARIANTS TypeOK StatusAgreesWithAcks ShownSchemaWasOpened ErrorEndsTheBatch
PROPERTY SimpleQueryIsAnswered
