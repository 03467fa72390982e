CONSTANTS
  Hosts <- AnyHost
SPECIFICATION Spec
INVARIANTS
  FailureReported
