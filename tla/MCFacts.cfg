CONSTANTS
  t1 = t1
  t2 = t2
  t3 = t3
  sym = sym
  file = file
  sha1 = sha1
  sha2 = sha2
  line = line
  ann = ann
  bob = bob
  File = sym
  Log <- MCLog
  Blame <- MCBlame
  Markers <- MCMarkers
  Rules <- MCRules
  Procs = {p1, p2}
  Texts = {t1, t2, t3}
  Cluster <- MCCluster
  Subjects = {sym}
  Inside <- MCInside
  Refs = {r1, r2}
  Reasons = {"wrong"}
  Changes = {"delete", "supersede"}
  Signed = {TRUE, FALSE}
  Passes = {"drift", "reverify"}
  MaxEntries = 1
  ProbeBudget = 1
  SampleSize = 2
  VerifyBudget = 1
  MaxFacts = 2
  MaxOps = 3
SPECIFICATION Spec
CHECK_DEADLOCK FALSE
INVARIANTS OnePerCluster GateEarned WithdrawnCounted
PROPERTIES FactsEndure 
SYMMETRY Symmetry
