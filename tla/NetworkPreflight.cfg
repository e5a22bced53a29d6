SPECIFICATION Spec
CONSTANTS
  Hosts <- MCHosts
INVARIANTS
  SandboxProved
  FaultLocated
  FilterExact
PROPERTIES
  NothingLeft
  PreflightEnds
