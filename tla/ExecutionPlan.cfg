SPECIFICATION Spec
CONSTANTS
  Ids = {1, 2, 3, 4}
  MaxChecks = 3
  Artifacts = {a}
  Inputs <- SmallInputs
INVARIANTS
  PlanOrdered
  ArtifactsReady
  CycleExact
  CatalogExact
  HarnessAccepts
