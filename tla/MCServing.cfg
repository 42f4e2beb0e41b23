CONSTANTS
  local = local
  remote = remote
  main = main
  Repos = {local, remote}
  Rooted = {local}
  Requested = {remote}
  Files = {main}
  Deep = {}
  Calls = {c1, c2}
  Builds = {b1}
  MaxOpen = 1
  MaxCommits <- MCCommits
  MaxCalls = 2
  MaxBuilds = 1
SPECIFICATION Spec
CHECK_DEADLOCK FALSE
INVARIANTS  LabelHonest FlagOwned
SYMMETRY Symmetry
