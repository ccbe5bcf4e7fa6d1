SPECIFICATION Spec
SYMMETRY RequestSymmetry
CONSTANTS
  Repos = {"r1"}
  Installs = {"i1", "i2"}
  Names = {"n1", "n2"}
  Customers = {"a", "b"}
  Requests = {q1, q2}
  FirstName <- MCFirstName
  FirstInstall <- MCFirstInstall
  FirstClaim <- MCFirstClaim
  PushCustomer = "a"
  Unlabelled = {2}
  PageSize = 1
  MaxEvents = 2
  MaxTries = 2
  MaxAdmin = 1
  MaxCrashes = 1
  None = None
INVARIANTS TypeOK DispatchedOnce ReportedForTenant CommentsBounded
CHECK_DEADLOCK FALSE
