SPECIFICATION Spec
CONSTANTS
  f1 = f1  f2 = f2  A = A  B = B  C = C
  Absent = Absent  None = None
  Files = {f1, f2}
  Contents = {A, B, C}
  Commits = {1, 2, 3}
  Sites <- Undisturbed
  Root = 1
  Imports <- Importer
  Keyed = {}
  MaxPushes = 2
  MaxCrashes = 0
INVARIANTS ContentCurrent
CHECK_DEADLOCK FALSE
