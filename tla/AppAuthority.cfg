SPECIFICATION Spec
CONSTANTS
  Pulls = {"first", "second"}
  MaxEvents = 3
  MaxFailures = 1
INVARIANTS
  NeutralVouched
  OneNeutralPerIdentity
PROPERTIES
  ReportWitnessed
  JobsEnd
