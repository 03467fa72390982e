CONSTANTS
  w1 = w1
  w2 = w2
  c1 = c1
  c2 = c2
  Waiters <- MCWaiters
  Cancellers <- MCCancellers
  Nobody = Nobody
SPECIFICATION Spec
INVARIANTS
  NoEarlyTimeout
  NoLostWakeup
PROPERTIES
  ImplementsLatch
