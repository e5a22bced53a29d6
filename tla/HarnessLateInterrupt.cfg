SPECIFICATION Safety
CONSTANTS
  Checks = {"build", "test"}
  Dependencies <- Pair
  Workers = 2
  MaxSignals = 1
  KillMayFail = FALSE
  Lingers = FALSE
INVARIANTS
  ReceiptOrFault
