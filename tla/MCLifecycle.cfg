CONSTANTS
  s1 = s1
  s2 = s2
  p1 = p1
  Sandboxes <- OneHandle
  Pids <- OnePid
  NoPid = NoPid
  Setups <- AnySetup
  Forking = TRUE
  Strangers = TRUE
SPECIFICATION Spec
INVARIANTS
  TypeOK
  TimeoutReported
  NoZombieLeft
  KillSweepsCgroup
  QuietAfterReturn
  TimeoutHits
  KillAwaitsTheDead
  WaitWatched
PROPERTIES
  WaitReturns
  ImplementsJail
  TimeoutSweeps
  IOReleased
