SPECIFICATION Spec
CONSTANTS
  Pulls = {"p1", "p2"}
  Heads = {"code", "docs"}
  Bases = {"b1", "b2"}
  Main = "b1"
  Relevant <- Everywhere
  PageSize = 1
  MaxEvents = 3
INVARIANTS
  ControlsPassed
  RelevantProved
  EditsCostNothing
PROPERTIES
  NewestDecides
