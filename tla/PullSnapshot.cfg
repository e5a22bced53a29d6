SPECIFICATION Spec
CONSTANTS
  Numbers = {1, 2, 3, 4, 5}
  Target = 3
  PageSize = 2
  MaxPages = 2
  RequireBody = TRUE
  MaxChanges = 2
  MaxFailures = 1
INVARIANTS
  UniqueWitnessed
  QuietDecided
PROPERTIES
  Decides
