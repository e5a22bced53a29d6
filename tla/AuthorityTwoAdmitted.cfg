SPECIFICATION Safety
CONSTANTS
  Pulls = {"first", "second"}
  MaxEvents = 3
  MaxFailures = 0
INVARIANTS
  OneNeutralPerHead
