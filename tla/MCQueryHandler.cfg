SPECIFICATION SafetySpec
CONSTANTS
  Sessions = {s1, s2}
  Main = Main
  Idents <- MCIdents
  MaxRows <- MCRows
  MaxStmts = 1
  LineageCap = 1
  None = None
SYMMETRY SessionSymmetry
INVARIANTS TypeOK OneTerminator LogTruthful OneConnectorPerKey ClosedPoolStaysEmpty
CHECK_DEADLOCK FALSE
