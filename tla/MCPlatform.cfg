SPECIFICATION Spec
CONSTANTS
  Handlers = {h1}
  Customers = {c1,c2}
  MaxCalls = 4
  MaxFaults = 1
  MaxTime = 4
  None = None
  Buckets = {b1}
  Rps = 1
  Ticks = 2
  TokenTTL = 2
  Prod = FALSE
  RequireAuth = TRUE
  Kinds = {"snowflake"}
  Names = {"main", "other"}
  Tables = {1, 2}
  Edges <- MCEdges
  DefaultPage = 1
  MaxPage = 2
  Users = {u1}
  Authors = {c1}
  Budgets <- MCBudgets
  Caps = {0, 1}
  Costs = {0, 1}
  Size = 1
  MaxCharges = 1
INVARIANTS RateBounded ReadersMissNothing
VIEW Told
CHECK_DEADLOCK FALSE
