CONSTANTS
  s1 = s1
  s2 = s2
  p1 = p1
  Sandboxes <- OneHandle
  Pids <- OnePid
  NoPid = NoPid
  Setups <- NoPidfd
  Forking = FALSE
  Strangers = FALSE
SPECIFICATION Spec
INVARIANTS
  StatusKept
