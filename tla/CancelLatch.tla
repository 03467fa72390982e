----------------------------- MODULE CancelLatch -----------------------------
(***************************************************************************)
(* What WatchdogCancel (src/src/process/builder.rs) promises its callers:  *)
(* a one-way latch that any thread may close, and a wait that every        *)
(* waiting thread leaves once, with TRUE if the latch was closed and with  *)
(* FALSE only if its own timeout ran out while the latch was still open.   *)
(* The lifecycle module uses the latch at this level of detail; module     *)
(* WatchdogCancel is the mutex and condition variable that implement it.   *)
(***************************************************************************)

CONSTANT Waiters        \* threads that call wait_until_cancelled_or

VARIABLES latch,        \* has cancel() taken effect?
          elapsed,      \* waiters whose timeout has run out
          outcome       \* what each waiter's call returned, if it has

vars == <<latch, elapsed, outcome>>

Outcomes == {"waiting", "cancelled", "timeout"}

TypeOK == /\ latch \in BOOLEAN
          /\ elapsed \in SUBSET Waiters
          /\ outcome \in [Waiters -> Outcomes]

Init == /\ latch = FALSE
        /\ elapsed = {}
        /\ outcome = [w \in Waiters |-> "waiting"]

\* cancel(): idempotent, never undone.
Close == /\ latch' = TRUE
         /\ UNCHANGED <<elapsed, outcome>>

\* The timeout of w's call runs out; w is not woken by this alone.
Elapse(w) == /\ elapsed' = elapsed \union {w}
             /\ UNCHANGED <<latch, outcome>>

\* The call of w returns true.
ReturnCancelled(w) == /\ outcome[w] = "waiting"
                      /\ latch
                      /\ outcome' = [outcome EXCEPT ![w] = "cancelled"]
                      /\ UNCHANGED <<latch, elapsed>>

\* The call of w returns false.
ReturnTimeout(w) == /\ outcome[w] = "waiting"
                    /\ ~latch
                    /\ w \in elapsed
                    /\ outcome' = [outcome EXCEPT ![w] = "timeout"]
                    /\ UNCHANGED <<latch, elapsed>>

Return(w) == ReturnCancelled(w) \/ ReturnTimeout(w)

Next == Close \/ \E w \in Waiters : Elapse(w) \/ Return(w)

SafeSpec == Init /\ [][Next]_vars

\* A waiter leaves once it may: a closed latch alone is enough, no timeout
\* has to run out for it.
Spec == SafeSpec /\ \A w \in Waiters : WF_vars(Return(w))
=============================================================================
