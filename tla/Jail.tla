-------------------------------- MODULE Jail --------------------------------
(***************************************************************************)
(* What a SandboxedProcess promises its owner (the doc comments and return *)
(* values of process/mod.rs), without pids, signals, threads or cgroups:   *)
(* one child, which ends once and is given up once; calls that answer only *)
(* when it has been; a timeout that is reported when it was the end.       *)
(* Module SandboxedProcess is the program that implements it.              *)
(***************************************************************************)

CONSTANT Sandboxes      \* handles

VARIABLES phase,        \* none, starting, open, failed (spawn's error), closed
          call,         \* the call the owner is in: none, wait, kill or drop
          child,        \* none, running, ended (a zombie), gone (reaped)
          by,           \* who ended it
          fired,        \* the timeout has struck
          told,         \* how the last wait answered: no, ok, err
          reported      \* killed_by_timeout

vars == <<phase, call, child, by, fired, told, reported>>

Init == /\ phase = [s \in Sandboxes |-> "none"]
        /\ call = [s \in Sandboxes |-> "none"]
        /\ child = [s \in Sandboxes |-> "none"]
        /\ by = [s \in Sandboxes |-> "none"]
        /\ fired = [s \in Sandboxes |-> FALSE]
        /\ told = [s \in Sandboxes |-> "no"]
        /\ reported = [s \in Sandboxes |-> FALSE]

-----------------------------------------------------------------------------
(* The child *)

Starts(s) == /\ phase[s] = "none"
             /\ phase' = [phase EXCEPT ![s] = "starting"]
             /\ child' = [child EXCEPT ![s] = "running"]
             /\ UNCHANGED <<call, by, fired, told, reported>>

\* The owner's signals are those of kill, drop and a failing spawn, the
\* watchdog's come after its timeout; a stale pid or path may stand behind the
\* signal of another handle.
MayEnd(s, who) == \/ who \in {"self", "other"}
                  \/ who = "owner" /\ (phase[s] = "starting" \/ call[s] \in {"kill", "drop"})
                  \/ who = "watchdog" /\ fired[s]

Ends(s, who) == /\ child[s] = "running"
                /\ MayEnd(s, who)
                /\ child' = [child EXCEPT ![s] = "ended"]
                /\ by' = [by EXCEPT ![s] = who]
                /\ UNCHANGED <<phase, call, fired, told, reported>>

Ended == {s \in Sandboxes : child[s] = "ended"}

Reaped(R) == child' = [s \in Sandboxes |-> IF s \in R THEN "gone" ELSE child[s]]

Reaps(s) == /\ s \in Ended
            /\ Reaped({s})
            /\ UNCHANGED <<phase, call, by, fired, told, reported>>

Fires(s) == /\ phase[s] \in {"open", "closed"}
            /\ ~fired[s]
            /\ fired' = [fired EXCEPT ![s] = TRUE]
            /\ UNCHANGED <<phase, call, child, by, told, reported>>

-----------------------------------------------------------------------------
(* The calls *)

SpawnOk(s) == /\ phase[s] = "starting"
              /\ phase' = [phase EXCEPT ![s] = "open"]
              /\ UNCHANGED <<call, child, by, fired, told, reported>>

\* An error leaves no child.
SpawnFails(s) == /\ phase[s] = "starting"
                 /\ child[s] = "gone"
                 /\ phase' = [phase EXCEPT ![s] = "failed"]
                 /\ UNCHANGED <<call, child, by, fired, told, reported>>

Calls(s) == /\ phase[s] = "open" /\ call[s] = "none"
            /\ \E c \in {"wait", "kill", "drop"} : call' = [call EXCEPT ![s] = c]
            /\ UNCHANGED <<phase, child, by, fired, told, reported>>

\* The status of a child that is gone, and whether the timeout had struck.
WaitAnswers(s) == /\ call[s] = "wait" /\ child[s] = "gone"
                  /\ call' = [call EXCEPT ![s] = "none"]
                  /\ told' = [told EXCEPT ![s] = "ok"]
                  /\ reported' = [reported EXCEPT ![s] = fired[s]]
                  /\ UNCHANGED <<phase, child, by, fired>>

\* Somebody else has the status, but the child is gone all the same.
WaitFails(s) == /\ call[s] = "wait" /\ child[s] = "gone"
                /\ call' = [call EXCEPT ![s] = "none"]
                /\ told' = [told EXCEPT ![s] = "err"]
                /\ UNCHANGED <<phase, child, by, fired, reported>>

\* kill returns as it collects a status, its own or, under a pid used again,
\* another's; its own child is gone by then.
KillReturns(s) == /\ call[s] = "kill"
                  /\ \E R \in SUBSET Ended : Reaped(R)
                  /\ child'[s] = "gone"
                  /\ call' = [call EXCEPT ![s] = "none"]
                  /\ UNCHANGED <<phase, by, fired, told, reported>>

DropReturns(s) == /\ call[s] = "drop" /\ child[s] = "gone"
                  /\ call' = [call EXCEPT ![s] = "none"]
                  /\ phase' = [phase EXCEPT ![s] = "closed"]
                  /\ UNCHANGED <<child, by, fired, told, reported>>

Next == \E s \in Sandboxes :
  \/ Starts(s) \/ Reaps(s) \/ Fires(s)
  \/ \E who \in {"self", "other", "owner", "watchdog"} : Ends(s, who)
  \/ SpawnOk(s) \/ SpawnFails(s) \/ Calls(s)
  \/ WaitAnswers(s) \/ WaitFails(s) \/ KillReturns(s) \/ DropReturns(s)

SafeSpec == Init /\ [][Next]_vars

\* spawn, kill and drop always return, and wait does once the child is gone.
Returns == \A s \in Sandboxes :
  /\ phase[s] = "starting" ~> phase[s] # "starting"
  /\ call[s] \in {"kill", "drop"} ~> call[s] = "none"
  /\ call[s] = "wait" /\ child[s] = "gone" ~> call[s] = "none"

Spec == SafeSpec /\ Returns
=============================================================================
