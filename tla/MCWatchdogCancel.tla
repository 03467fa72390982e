--------------------------- MODULE MCWatchdogCancel ---------------------------
(* Two waiters and two cancelling threads: enough for notify_all to matter  *)
(* and for one cancel() to overlap another.                                 *)
EXTENDS WatchdogCancel, TLC

CONSTANTS w1, w2, c1, c2

MCWaiters == {w1, w2}
MCCancellers == {c1, c2}
=============================================================================
