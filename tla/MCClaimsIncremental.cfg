SPECIFICATION Spec
CONSTANTS
  client = client  clientTest = clientTest  script = script
  Absent = Absent  None = None
  Files = {client, clientTest, script}
  Language <- Languages
  Package <- Paths
  TestFiles = {clientTest}
  GeneratedNames = {}
  Sensitive = {"secret"}
  Contents <- ContentsOf
  Modes = {"remote", "incremental"}
  Answers <- TwoAnswers
  External <- OneExternal
  MaxEdits = 1
  MaxJobs = 2
  MaxWrites = 0
  ReadmeNames = {"Client", "Open", "Ghost"}
  TestFunctions = {"TestOpen"}
PROPERTIES IncrementalKeeps
CHECK_DEADLOCK FALSE
