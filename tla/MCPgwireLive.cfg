SPECIFICATION Spec
CONSTANTS
  Conns = {c1, c2}
  NumPIDs = 1
  SecretSpan = 2
  MaxInflight = 2
  MaxStmts = 2
  None = None
PROPERTIES StatementEnds ShutdownCompletes UnregisteredSessionQuiesces
CHECK_DEADLOCK FALSE
