CONSTANTS
  s1 = s1
  s2 = s2
  p1 = p1
  Sandboxes <- TwoHandles
  Pids <- OnePid
  NoPid = NoPid
  Setups <- PidfdAndCgroup
  Forking = FALSE
  Strangers = FALSE
SPECIFICATION Spec
INVARIANTS
  NoStraySignal
