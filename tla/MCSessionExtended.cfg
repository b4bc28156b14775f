\* Simple and extended queries: the unnamed portal and a named one.
CONSTANTS
  Schemas = {}
  CursorNames = {"c1"}
  StatementNames = {"st"}
  PortalNames = {"", "p"}
  DEFAULT_NAME = ""
  None = None
  Texts <- ExtendedTexts
SPECIFICATION Spec
INVARIANTS StatusAgreesWithAcks AtMostOnceDelivery NoStateWithoutSession
