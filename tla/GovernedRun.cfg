SPECIFICATION JobSpec
CONSTANTS
  Checks = {1, 2, 3}
  Dependencies <- InOrder
  Workers = 2
  MaxSignals = 1
  KillMayFail = FALSE
  Lingers = FALSE
  Plan <- Listed
  Contents = {"empty", "line", "flood"}
  Size <- Sizes
  MaxBytes = 1
INVARIANTS
  WithinWorkers
  NoSurvivor
  ParityGenuine
  AttestationDecided
PROPERTIES
  NoStartWhenStopping
  JobEnds
