SPECIFICATION Spec
CONSTANTS
  c1 = c1
  c2 = c2
  s1 = s1
  p1 = p1
  p2 = p2
  r1 = r1
  Docs = {d1, d2}
  Clients = {c1, c2}
  Sessions = {s1}
  SessionOf <- OneSession
  Places = {p1, p2}
  Repos = {r1}
  Replies <- SomeReplies
  Sites <- SomeSites
  DocBurst = 1
  SessionBurst = 1
  MaxRevisions = 2
  MaxAge = 1
  MaxRuns = 4
  MaxRefills = 2
  MaxEdits = 2
SYMMETRY Symmetry
INVARIANTS HistoryKept Quota DriftSeen
PROPERTIES LateOnly
CHECK_DEADLOCK FALSE
