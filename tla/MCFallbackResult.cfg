SPECIFICATION SafetySpec
CONSTANTS
  Sessions = {s1}
  Main = Main
  Idents <- MCIdents
  MaxRows <- MCRows
  MaxStmts = 1
  LineageCap = 1
  None = None
INVARIANT OneResultSet
CHECK_DEADLOCK FALSE
