SPECIFICATION SafetySpec
CONSTANTS
  Conns = {c1, c2, c3}
  NumPIDs = 1
  SecretSpan = 2
  MaxInflight = 2
  MaxStmts = 2
  None = None
SYMMETRY ConnSymmetry
INVARIANTS TypeOK TokensAccounted CleanDrain LiveSessionReachable CancelOnlyByOwnKey CancelNotLost
CHECK_DEADLOCK FALSE
