SPECIFICATION Spec
CONSTANTS
  Planned = {1, 2}
  SafePaths = {1, 2, 3}
  Contents = {"empty", "line", "flood"}
  Size <- Sizes
  MaxBytes = 1
  Expectations <- AnyTold
  Strange = 3
  MaxEdits = 2
INVARIANTS
  VerdictExact
PROPERTIES
  FailureSticks
CHECK_DEADLOCK FALSE
