\* A simple query of two statements.
CONSTANTS
  Schemas = {}
  CursorNames = {}
  StatementNames = {}
  PortalNames = {""}
  DEFAULT_NAME = ""
  None = None
  Texts <- BatchTexts
SPECIFICATION Spec
INVARIANT WritesAreReported
