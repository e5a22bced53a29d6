SPECIFICATION ToolsSpec
CONSTANTS
  Setups <- MCSetups
  Paths <- MCPaths
  Digests = {"d1", "d2", "invalid"}
  Valid = {"d1", "d2"}
  Bodies = {"b1", "b2"}
  MaxEdits = 1
  MaxRuns = 2
CHECK_DEADLOCK FALSE
INVARIANTS
  SuccessWitnessed
  ExitTruthful
  OutageTyped
  PassMeansProjected
  FixturesPreserved
PROPERTIES
  ExecutedVerified
