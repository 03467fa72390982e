------------------------ MODULE WatchdogCancel_proofs ------------------------
(***************************************************************************)
(* For any sets of waiting and cancelling threads: the inductive invariant *)
(* of WatchdogCancel, and that every step of the mutex and condition       *)
(* variable is a step of CancelLatch or leaves the latch as it is.         *)
(***************************************************************************)
EXTENDS WatchdogCancel, TLAPS

\* Initially nobody holds the lock and nothing has been returned.
LEMMA InitIInv == Init => IInv
  BY ThreadsAssumption
  DEF Init, IInv, TypeOK, LockInv, ParkInv, ReturnInv, ResultInv,
      NoEarlyTimeout, HoldsLock, Threads, WaiterPC, CancellerPC, Results

\* No step of either call, and no wakeup, breaks the invariant.
LEMMA NextIInv == IInv /\ [Next]_vars => IInv'
<1> USE ThreadsAssumption
    DEF Threads, TypeOK, WaiterPC, CancellerPC, Results, Goto, Acquire
<1> SUFFICES ASSUME IInv, [Next]_vars PROVE IInv'
  OBVIOUS
<1> USE DEF IInv, LockInv, ParkInv, ReturnInv, ResultInv, NoEarlyTimeout, HoldsLock
<1>1. ASSUME NEW c \in Cancellers, CancelLock(c) PROVE IInv'
  BY <1>1 DEF CancelLock
<1>2. ASSUME NEW c \in Cancellers, CancelStore(c) PROVE IInv'
  BY <1>2 DEF CancelStore
<1>3. ASSUME NEW c \in Cancellers, CancelUnlock(c) PROVE IInv'
  BY <1>3 DEF CancelUnlock
<1>4. ASSUME NEW c \in Cancellers, CancelNotify(c) PROVE IInv'
  BY <1>4 DEF CancelNotify
<1>5. ASSUME NEW w \in Waiters, WaitLock(w) PROVE IInv'
  BY <1>5 DEF WaitLock
<1>6. ASSUME NEW w \in Waiters, WaitTest(w) PROVE IInv'
  BY <1>6 DEF WaitTest
<1>7. ASSUME NEW w \in Waiters, WaitClock(w) PROVE IInv'
  BY <1>7 DEF WaitClock
<1>8. ASSUME NEW w \in Waiters, WaitPark(w) PROVE IInv'
  BY <1>8 DEF WaitPark
<1>9. ASSUME NEW w \in Waiters, WaitTimer(w) PROVE IInv'
  BY <1>9 DEF WaitTimer
<1>10. ASSUME NEW w \in Waiters, SpuriousWake(w) PROVE IInv'
  BY <1>10 DEF SpuriousWake
<1>11. ASSUME NEW w \in Waiters, WaitReturn(w) PROVE IInv'
  BY <1>11 DEF WaitReturn
<1>12. ASSUME NEW w \in Waiters, Elapse(w) PROVE IInv'
  BY <1>12 DEF Elapse
<1>13. CASE UNCHANGED vars
  BY <1>13 DEF vars
<1> QED
  BY <1>1, <1>2, <1>3, <1>4, <1>5, <1>6, <1>7, <1>8, <1>9, <1>10, <1>11,
     <1>12, <1>13 DEF Next, Cancel, Wait

\* The whole invariant, for every number of threads: the flag is touched only
\* under the lock, and no waiter parks once it is set.
THEOREM Invariance == Spec => []IInv
  BY InitIInv, NextIInv, PTL DEF Spec

\* Type correctness: the threads, the lock, the flag and the parked waiters of
\* WatchdogCancel (builder.rs:585-640).
THEOREM TypeCorrect == Spec => []TypeOK
<1>1. IInv => TypeOK
  BY DEF IInv
<1> QED
  BY <1>1, Invariance, PTL

\* Mutual exclusion on the flag of WatchdogCancel (builder.rs:586-640).
THEOREM MutualExclusion == Spec => []LockInv
<1>1. IInv => LockInv
  BY DEF IInv
<1> QED
  BY <1>1, Invariance, PTL

\* No wakeup is lost: nobody parks once the flag is set (ParkInv), and whoever set
\* it wakes all those that had parked before it idles again.
LEMMA NextWakeup == IInv /\ NoLostWakeup /\ [Next]_vars => NoLostWakeup'
<1> SUFFICES ASSUME IInv, NoLostWakeup, [Next]_vars, NEW w \in Waiters,
                    pc'[w] = "parked", cancelled'
             PROVE  \E c \in Cancellers : pc'[c] \in {"unlock", "notify"}
  BY DEF NoLostWakeup
<1> USE ThreadsAssumption DEF Threads, Goto, Acquire, NoLostWakeup
<1>0. TypeOK /\ ParkInv
  BY DEF IInv
<1>1. ASSUME NEW c \in Cancellers, CancelLock(c) \/ CancelStore(c) \/ CancelUnlock(c)
      PROVE  \E d \in Cancellers : pc'[d] \in {"unlock", "notify"}
  BY <1>0, <1>1 DEF CancelLock, CancelStore, CancelUnlock, TypeOK
<1>2. ASSUME NEW c \in Cancellers, CancelNotify(c) PROVE FALSE
  BY <1>0, <1>2 DEF CancelNotify, TypeOK
<1>3. ASSUME NEW v \in Waiters, Wait(v) \/ SpuriousWake(v) \/ Elapse(v)
      PROVE  pc[w] = "parked" /\ cancelled /\ \A c \in Cancellers : pc'[c] = pc[c]
  <2>1. CASE WaitPark(v)
    BY <1>0, <2>1 DEF WaitPark, ParkInv, TypeOK
  <2>2. CASE ~WaitPark(v)
    BY <1>0, <1>3, <2>2
    DEF Wait, WaitLock, WaitTest, WaitClock, WaitTimer, WaitReturn, SpuriousWake, Elapse, TypeOK
  <2> QED
    BY <2>1, <2>2
<1>4. CASE UNCHANGED vars
  BY <1>4 DEF vars
<1> QED
  BY <1>1, <1>2, <1>3, <1>4 DEF Next, Cancel

\* For any number of waiting and cancelling threads a parked waiter whose flag is
\* set will be notified (builder.rs:597-609).
THEOREM WakeupIsNotLost == Spec => []NoLostWakeup
<1>1. Init => NoLostWakeup
  BY DEF Init, NoLostWakeup
<1> QED
  BY <1>1, NextWakeup, Invariance, PTL DEF Spec

\* wait_until_cancelled_or answers false only after its timeout.
THEOREM TimeoutNotEarly == Spec => []NoEarlyTimeout
<1>1. IInv => NoEarlyTimeout
  BY DEF IInv
<1> QED
  BY <1>1, Invariance, PTL

\* A step of the implementation is a step of the latch or a stutter.
LEMMA StepSimulation == IInv /\ [Next]_vars => [Latch!Next]_(Latch!vars)
<1> SUFFICES ASSUME IInv, [Next]_vars PROVE [Latch!Next]_(Latch!vars)
  OBVIOUS
<1> USE DEF Latch!vars
<1>1. ASSUME NEW c \in Cancellers, CancelLock(c) \/ CancelUnlock(c) \/ CancelNotify(c)
      PROVE UNCHANGED Latch!vars
  BY <1>1 DEF CancelLock, CancelUnlock, CancelNotify
<1>2. ASSUME NEW c \in Cancellers, CancelStore(c) PROVE Latch!Next
  BY <1>2 DEF CancelStore, Latch!Next, Latch!Close
<1>3. ASSUME NEW w \in Waiters,
             \/ WaitLock(w) \/ WaitTest(w) \/ WaitClock(w)
             \/ WaitPark(w) \/ WaitTimer(w) \/ SpuriousWake(w)
      PROVE UNCHANGED Latch!vars
  BY <1>3 DEF WaitLock, WaitTest, WaitClock, WaitPark, WaitTimer, SpuriousWake
<1>4. ASSUME NEW w \in Waiters, WaitReturn(w) PROVE Latch!Return(w)
  <2>1. result[w] = "waiting" /\ (~cancelled => w \in elapsed)
    BY <1>4 DEF WaitReturn, Goto, IInv, ResultInv, ReturnInv
  <2> QED
    BY <1>4, <2>1 DEF WaitReturn, Latch!Return, Latch!ReturnCancelled, Latch!ReturnTimeout
<1>5. ASSUME NEW w \in Waiters, Elapse(w) PROVE Latch!Elapse(w)
  BY <1>5 DEF Elapse, Latch!Elapse
<1>6. CASE UNCHANGED vars
  BY <1>6 DEF vars
<1> QED
  BY <1>1, <1>2, <1>3, <1>4, <1>5, <1>6
  DEF Next, Cancel, Wait, Latch!Next

\* The mutex and condition variable implement the latch (its safety part):
\* in particular no wait answers false once a cancel() has taken effect.
THEOREM Refinement == Spec => ImplementsLatchSafely
<1>1. Init => Latch!Init
  BY DEF Init, Latch!Init
<1> QED
  BY <1>1, StepSimulation, Invariance, PTL DEF Spec, ImplementsLatchSafely, Latch!SafeSpec
=============================================================================
