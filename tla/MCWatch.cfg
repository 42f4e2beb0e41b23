SPECIFICATION FairSpec
CONSTANTS
  f1 = f1  f2 = f2  A = A  B = B  C = C
  Absent = Absent  None = None
  Files = {f1, f2}
  Contents = {A, B, C}
  Commits = {1, 2, 3}
  Sites <- Watched
  Root = 1
  Imports <- Importer
  Keyed = {"name", "path"}
  MaxPushes = 2
  MaxCrashes = 2
INVARIANTS ContentCurrent NoGhosts  ResumeIndexed
PROPERTIES CatchesUp
CHECK_DEADLOCK FALSE
