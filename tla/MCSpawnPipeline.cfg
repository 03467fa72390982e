CONSTANTS
  Hosts <- AnyHost
SPECIFICATION Spec
INVARIANTS
  TypeOK
  ErrLeavesNoChild
  FailClosed
  HarnessIsolated
  UnlaunchedOnlyByChoice
PROPERTIES
  SpawnReturns
