--------------------------- MODULE WatchdogCancel ---------------------------
(***************************************************************************)
(* struct WatchdogCancel of src/src/process/builder.rs: a Mutex<bool> and  *)
(* a Condvar.  cancel() locks, stores, unlocks and only then notifies;     *)
(* wait_until_cancelled_or() is one wait_timeout_while loop: with the lock *)
(* held it tests the flag, then the clock, then parks, and it starts over  *)
(* with the lock after every wakeup, whether a notification, the timer or  *)
(* a spurious one.  Each of those is an action here, so that every         *)
(* interleaving of the two calls is explored.                              *)
(***************************************************************************)

CONSTANTS Waiters,      \* threads inside wait_until_cancelled_or
          Cancellers,   \* threads that call cancel(), as often as they like
          Nobody        \* the mutex is free

ASSUME ThreadsAssumption == /\ Waiters \intersect Cancellers = {}
                            /\ Nobody \notin Waiters \union Cancellers

Threads == Waiters \union Cancellers

VARIABLES mutex,        \* the thread that holds the lock of `cancelled`
          cancelled,    \* the boolean the mutex guards
          elapsed,      \* waiters whose timeout has run out
          pc,           \* where each thread is in its call
          result        \* what wait_until_cancelled_or returned

vars == <<mutex, cancelled, elapsed, pc, result>>

WaiterPC == {"lock", "test", "clock", "park", "parked", "return", "done"}
CancellerPC == {"idle", "store", "unlock", "notify"}
Results == {"waiting", "cancelled", "timeout"}

TypeOK == /\ mutex \in Threads \union {Nobody}
          /\ cancelled \in BOOLEAN
          /\ elapsed \in SUBSET Waiters
          /\ pc \in [Threads -> WaiterPC \union CancellerPC]
          /\ \A w \in Waiters : pc[w] \in WaiterPC
          /\ \A c \in Cancellers : pc[c] \in CancellerPC
          /\ result \in [Waiters -> Results]

Init == /\ mutex = Nobody
        /\ cancelled = FALSE
        /\ elapsed = {}
        /\ pc = [t \in Threads |-> IF t \in Waiters THEN "lock" ELSE "idle"]
        /\ result = [w \in Waiters |-> "waiting"]

Goto(t, from, to) == pc[t] = from /\ pc' = [pc EXCEPT ![t] = to]

Acquire(t) == mutex = Nobody /\ mutex' = t

-----------------------------------------------------------------------------
(* cancel() *)

CancelLock(c) == /\ Goto(c, "idle", "store")
                 /\ Acquire(c)
                 /\ UNCHANGED <<cancelled, elapsed, result>>

CancelStore(c) == /\ Goto(c, "store", "unlock")
                  /\ cancelled' = TRUE
                  /\ UNCHANGED <<mutex, elapsed, result>>

CancelUnlock(c) == /\ Goto(c, "unlock", "notify")
                   /\ mutex' = Nobody
                   /\ UNCHANGED <<cancelled, elapsed, result>>

\* Mutated form: notify_one.
CancelNotifyOne(c) ==
  LET parked == {w \in Waiters : pc[w] = "parked"}
  IN  /\ pc[c] = "notify"
      /\ \E w \in parked \union {c} :
           /\ w = c => parked = {}
           /\ pc' = [pc EXCEPT ![w] = "lock", ![c] = "idle"]
      /\ UNCHANGED <<mutex, cancelled, elapsed, result>>

\* notify_all: every parked waiter goes back to the lock.
CancelNotify(c) ==
  /\ pc[c] = "notify"
  /\ pc' = [t \in Threads |-> IF t = c THEN "idle"
                               ELSE IF pc[t] = "parked" THEN "lock" ELSE pc[t]]
  /\ UNCHANGED <<mutex, cancelled, elapsed, result>>

-----------------------------------------------------------------------------
(* wait_until_cancelled_or(timeout) *)

\* The first lock(), and the one a wakeup ends with.
WaitLock(w) == /\ Goto(w, "lock", "test")
               /\ Acquire(w)
               /\ UNCHANGED <<cancelled, elapsed, result>>

\* The predicate |c| !*c: leave the loop when the flag is set.
WaitTest(w) == /\ Goto(w, "test", IF cancelled THEN "return" ELSE "clock")
               /\ UNCHANGED <<mutex, cancelled, elapsed, result>>

\* Leave the loop when nothing of the timeout remains.
WaitClock(w) == /\ Goto(w, "clock", IF w \in elapsed THEN "return" ELSE "park")
                /\ UNCHANGED <<mutex, cancelled, elapsed, result>>

\* Condvar::wait_timeout releases the lock and parks in one step.
WaitPark(w) == /\ Goto(w, "park", "parked")
               /\ mutex' = Nobody
               /\ UNCHANGED <<cancelled, elapsed, result>>

\* The timer of the park fires, at once if it ran out before the park.
WaitTimer(w) == /\ w \in elapsed
                /\ Goto(w, "parked", "lock")
                /\ UNCHANGED <<mutex, cancelled, elapsed, result>>

\* Mutated form: wait_timeout in place of wait_timeout_while.
SpuriousWakeReturns(w) == /\ Goto(w, "parked", "return")
                          /\ Acquire(w)
                          /\ UNCHANGED <<cancelled, elapsed, result>>

\* The operating system may wake a parked thread for no reason.
SpuriousWake(w) == /\ Goto(w, "parked", "lock")
                   /\ UNCHANGED <<mutex, cancelled, elapsed, result>>

\* `*guard` is read with the lock held, and the guard is dropped.
WaitReturn(w) ==
  /\ Goto(w, "return", "done")
  /\ result' = [result EXCEPT ![w] = IF cancelled THEN "cancelled" ELSE "timeout"]
  /\ mutex' = Nobody
  /\ UNCHANGED <<cancelled, elapsed>>

\* The clock: the timeout of w's call runs out.
Elapse(w) == /\ w \notin elapsed
             /\ elapsed' = elapsed \union {w}
             /\ UNCHANGED <<mutex, cancelled, pc, result>>

-----------------------------------------------------------------------------

Cancel(c) == CancelStore(c) \/ CancelUnlock(c) \/ CancelNotify(c)

Wait(w) == \/ WaitLock(w) \/ WaitTest(w) \/ WaitClock(w)
           \/ WaitPark(w) \/ WaitTimer(w) \/ WaitReturn(w)

Next == \/ \E c \in Cancellers : CancelLock(c) \/ Cancel(c)
        \/ \E w \in Waiters : Wait(w) \/ SpuriousWake(w) \/ Elapse(w)

(***************************************************************************)
(* Fairness.  A thread inside a call keeps running (WF on each of its      *)
(* steps); nobody has to call cancel(), the clock need not reach the       *)
(* timeout, and a spurious wakeup need not happen.  Taking the lock is     *)
(* strongly fair: other threads release it again and again, and a futex    *)
(* mutex does not keep one thread out forever.                             *)
(***************************************************************************)
Fairness ==
  /\ \A c \in Cancellers : WF_vars(Cancel(c))
  /\ \A w \in Waiters : /\ SF_vars(WaitLock(w))
                        /\ WF_vars(Wait(w))

Spec == Init /\ [][Next]_vars /\ Fairness

-----------------------------------------------------------------------------
(* Properties *)

HoldsLock(t) == pc[t] \in {"test", "clock", "park", "return", "store", "unlock"}

\* The flag is read and written by one thread at a time: whoever is between
\* lock() and the drop of its guard is the thread the mutex says.
LockInv == \A t \in Threads : HoldsLock(t) <=> mutex = t

\* A waiter that is parked although the flag is set has its wakeup still to come:
\* some cancel() is between its store and its notify_all, which it does not hold
\* the lock for (comment at builder.rs:605-608).
NoLostWakeup == \A w \in Waiters : pc[w] = "parked" /\ cancelled
                  => \E c \in Cancellers : pc[c] \in {"unlock", "notify"}

\* wait_until_cancelled_or answers false only after its own timeout, so the
\* watchdog of a sandbox never fires early, whatever wakes it
\* (comment at builder.rs:625-628).
NoEarlyTimeout == \A w \in Waiters : result[w] = "timeout" => w \in elapsed

\* No thread is past the test of a flag that has since been set and about to
\* park: this is what makes "no wakeup can be lost" (builder.rs:606-607) true.
ParkInv == \A w \in Waiters : pc[w] \in {"clock", "park"} => ~cancelled

\* A thread about to leave the loop has a reason to.
ReturnInv == \A w \in Waiters : pc[w] = "return" => cancelled \/ w \in elapsed

\* result says how far the call has come.
ResultInv == \A w \in Waiters : result[w] = "waiting" <=> pc[w] # "done"

IInv == TypeOK /\ LockInv /\ ParkInv /\ ReturnInv /\ ResultInv /\ NoEarlyTimeout

\* Every behaviour of the mutex and condition variable is one of the latch:
\* in particular a wait that answers false answers while no cancel() has
\* taken effect, and after a cancel() every waiter leaves though no timeout
\* runs out (no lost wakeup).
Latch == INSTANCE CancelLatch
           WITH latch <- cancelled, elapsed <- elapsed, outcome <- result

ImplementsLatch == Latch!Spec

\* The safety part of it, which the proofs establish.
ImplementsLatchSafely == Latch!SafeSpec
=============================================================================
