CONSTANTS
  s1 = s1
  s2 = s2
  p1 = p1
  Sandboxes <- TwoHandles
  Pids <- OnePid
  NoPid = NoPid
  Setups <- PidfdOnly
  Forking = FALSE
  Strangers = TRUE
SPECIFICATION Spec
SYMMETRY Symmetry
INVARIANTS
  NoStraySignal
  StatusKept
PROPERTIES
  ImplementsJailSafely
