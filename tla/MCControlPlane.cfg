SPECIFICATION Spec
CONSTANTS
  Handlers = {h1, h2}
  Customers = {c1}
  MaxCalls = 3
  MaxFaults = 1
  MaxTime = 2
  None = None
  Queries = {q1, q2}
  Runners = {r1}
  Limit = 1
  Subs = {s1, s2}
  SmtpConfigured = FALSE
  MaxFlagged = 2
  Boards = {d1}
  Payloads = {p1}
  Tokens = {t1}
  Approvals = {a1}
  Approvers = {u1, u2}
  Periods = {k1}
  Emails = {e1}
  UserIds = {i1}
INVARIANTS TypeOK NotPassedOver FannedOut DecisionStands VersionsDense
SYMMETRY RowSymmetry
CHECK_DEADLOCK FALSE
