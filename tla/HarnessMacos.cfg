SPECIFICATION Spec
CONSTANTS
  Checks = {"build", "lint", "test"}
  Dependencies <- ChainAndOne
  Workers = 2
  MaxSignals = 2
  KillMayFail = TRUE
  Lingers = TRUE
INVARIANTS
  DependenciesFirst
  AttestedExactly
  FaultTruthful
  FailureNamed
PROPERTIES
  ImplementsAggregateRun
