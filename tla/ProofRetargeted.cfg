SPECIFICATION Safety
CONSTANTS
  Pulls = {"p1"}
  Heads = {"code", "docs"}
  Bases = {"b1", "b2"}
  Main = "b1"
  Relevant <- OneOf
  PageSize = 1
  MaxEvents = 3
INVARIANTS
  RelevantProved
