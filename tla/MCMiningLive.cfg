SPECIFICATION EarlySpec
CONSTANTS
  f1 = f1  f2 = f2  k1 = k1  k2 = k2  s1 = s1  s2 = s2
  c1 = c1  c2 = c2  c3 = c3  c4 = c4
  Services = {s1}
  Callers = {k1, k2}
  ServiceOf <- OneService
  PerCall = FALSE
  Files = {f1, f2}
  PRs <- MCPRs
  Comments = {c1, c2, c3, c4}
  CommentsOf <- MCCommentsOf
  Bodies = {"b1"}
  DailyBudget = 2
  MaxPRsPerFile = 2
  MaxCalls = 1
  Faults <- EarlyFaults
INVARIANTS BudgetOvershoot ChargedOnce
PROPERTIES CursorGrows CallsReturn
CHECK_DEADLOCK FALSE
