SPECIFICATION Spec
CONSTANTS
  Sessions = {s1, s2}
  Main = Main
  Idents <- MCOneIdent
  MaxRows <- MCRowsOfOne
  MaxStmts = 1
  LineageCap = 1
  None = None
PROPERTIES StatementAnswered CloseReturns
CHECK_DEADLOCK FALSE
