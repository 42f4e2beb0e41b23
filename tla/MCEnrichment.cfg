SPECIFICATION Spec
CONSTANTS
  Repos = {"a", "b"}
  Files = {"a", "b"}
  Syms = {1, 2, 3}
  RepoOf <- McRepoOf
  FileOf <- McFileOf
  Fanin <- McFanin
  MaxEdits <- McMaxEdits
  Predicates = 2
  MaxBatch = 1
  MaxFailures = 2
  Buffer = 1
  Pending = 2
  Budget = 1
  MaxSymbols = 2
  MaxStops = 1
  Faults = {"tx", "write", "tool", "kill"}
INVARIANTS GivenUpHasNothing 
CHECK_DEADLOCK FALSE
