SPECIFICATION CompanySpec
CONSTANTS
  None = None
  SafeReferences = {"r1", "r2", "r3", "r4", "task"}
  MaxListFact = 1
  MaxBatch = 2
  Bindings <- MCBindings
  MaxAuthority = 3
  Authorizers = {"founder"}
  CooPrincipals = {"coo"}
  Limits <- MCLimits
  Templates <- MCTemplates
  Requests <- MCRequests
  Links <- MCLinks
  Plans <- MCPlans
  RequestIds = {"a1", "a2", "a3"}
  Runtimes = {"runtime", "un safe"}
  Artifacts = {"artifact", "bad name"}
  FailureCodes = {"retry", "stop"}
  Amounts = {1, 2}
  MaxTasks = 3
  MaxObjectiveCost = 3
  MaxRetries = 1
  Planner <- MCPlanner
  Calls = {c1, c2}
  c1 = c1
  c2 = c2
  Uploads = 2
  RateLimit = 2
  MaxApprovals = 2
INVARIANTS
  LineageHolds
  DependenciesComeFirst
  SpendingHolds
  ReportIsCritical
  WriteAtMostOnce
  RateLimitHolds
  PublicationWasApproved
PROPERTIES
  ReservationResolves
CHECK_DEADLOCK FALSE
