SPECIFICATION Spec
CONSTANTS
  Handlers = {h1}
  Customers = {c1}
  MaxCalls = 1
  MaxFaults = 1
  MaxTime = 1
  None = None
  Conns <- MCConns
  Cron = Cron
  Costs = {1}
  DayLen = 2
  Start = 1
  MaxRows = 2
  LookupLimit = 1
  EstimateLimit = 1
  Size = 1
  Served = {2}
INVARIANT AttributionBacked
PROPERTY TodayConverges
CHECK_DEADLOCK FALSE
