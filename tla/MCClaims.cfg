SPECIFICATION Spec
CONSTANTS
  client = client  clientTest = clientTest  script = script
  Absent = Absent  None = None
  Files = {client, clientTest, script}
  Language <- Languages
  Package <- Paths
  TestFiles = {clientTest}
  GeneratedNames = {}
  Sensitive = {"secret"}
  Contents <- ContentsOf
  Modes = {"local", "remote", "incremental"}
  Answers <- TwoAnswers
  External <- OneExternal
  MaxEdits = 1
  MaxJobs = 1
  MaxWrites = 2
  ReadmeNames = {"Client", "Client.Close", "Close", "Open", "os", "Ghost"}
  TestFunctions = {"TestOpen"}
INVARIANTS Screened Replaced HitHasClaims 
PROPERTIES StructuralKept
CHECK_DEADLOCK FALSE
