CONSTANTS
  Hosts <- CapableHost
SPECIFICATION Spec
INVARIANTS
  ProbedStarts
