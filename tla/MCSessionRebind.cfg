\* A portal that is described and then bound again.
CONSTANTS
  Schemas = {}
  CursorNames = {}
  StatementNames = {"st"}
  PortalNames = {""}
  DEFAULT_NAME = ""
  None = None
  Texts <- ExtendedTexts
SPECIFICATION Spec
INVARIANT ExecuteAnswersItsPortal
