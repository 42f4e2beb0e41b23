SPECIFICATION ToolSpec
CONSTANTS
  f1 = f1  f2 = f2  k1 = k1  k2 = k2  s1 = s1  s2 = s2
  c1 = c1  c2 = c2  c3 = c3
  Services = {s1, s2}
  Callers = {k1, k2}
  ServiceOf <- OwnServices
  PerCall = TRUE
  Files = {f1, f2}
  PRs <- MCPRs
  Comments = {c1, c2}
  CommentsOf <- MCCommentsOf
  Bodies = {"b1"}
  DailyBudget = 1
  MaxPRsPerFile = 1
  MaxCalls = 2
  Faults <- MostFaults
  Batches = {k2}
  RateLimited = TRUE
  Burst = 1
  MaxRefills = 1
  Mineable = {f1, f2}
  Supported = {f1, f2}
  MaxFiles = 1
  Surface <- MCSurface
INVARIANTS CursorAccounts CorroborationCounts SpendBounded NoneMeansNone
PROPERTIES ImplementsLedger
CHECK_DEADLOCK FALSE
