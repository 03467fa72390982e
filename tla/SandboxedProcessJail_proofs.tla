--------------------- MODULE SandboxedProcessJail_proofs ---------------------
(***************************************************************************)
(* SandboxedProcess keeps the contract of module Jail, for every number of *)
(* handles and pids and every setup: each step of threads, kernel, harness *)
(* and host is one step of the contract, or changes nothing the owner sees.*)
(***************************************************************************)
EXTENDS SandboxedProcessCalls_proofs

-----------------------------------------------------------------------------
(* What the owner sees, step by step *)

\* Where the owner is, before and after a move in its call.
LEMMA Moves ==
  ASSUME TypeOK, NEW s \in Sandboxes, NEW from, NEW to, Goto(s, from, to),
         \A t \in Sandboxes : t # s => back'[t] = back[t]
  PROVE  /\ Phase[s] = PhaseOf(from)
         /\ Phase' = [Phase EXCEPT ![s] = PhaseOf(to)]
         /\ PhaseOf(to) = PhaseOf(from) => Phase' = Phase
         /\ CallOf[s] = CallFrom(from, back[s])
         /\ CallOf' = [CallOf EXCEPT ![s] = CallFrom(to, back'[s])]
         /\ CallFrom(to, back'[s]) = CallFrom(from, back[s]) => CallOf' = CallOf
<1>1. /\ pc[s] = from /\ pc'[s] = to
      /\ \A t \in Sandboxes : t # s => pc'[t] = pc[t] /\ back'[t] = back[t]
  BY DEF Goto, TypeOK
<1>2. /\ Phase[s] = PhaseOf(from)
      /\ Phase' = [Phase EXCEPT ![s] = PhaseOf(to)]
      /\ PhaseOf(to) = PhaseOf(from) => Phase' = Phase
  BY <1>1 DEF Phase
<1>3. /\ CallOf[s] = CallFrom(from, back[s])
      /\ CallOf' = [CallOf EXCEPT ![s] = CallFrom(to, back'[s])]
      /\ CallFrom(to, back'[s]) = CallFrom(from, back[s]) => CallOf' = CallOf
  <2> DEFINE c == [t \in Sandboxes |-> CallFrom(pc'[t], back'[t])]
  <2>1. CallOf[s] = CallFrom(from, back[s]) /\ CallOf' = c
    BY <1>1 DEF CallOf
  <2>2. c = [CallOf EXCEPT ![s] = CallFrom(to, back'[s])]
    <3>1. ASSUME NEW t \in Sandboxes PROVE c[t] = [CallOf EXCEPT ![s] = CallFrom(to, back'[s])][t]
      BY <1>1 DEF CallOf
    <3> QED
      BY <3>1 DEF CallOf
  <2>3. CallFrom(to, back'[s]) = CallFrom(from, back[s]) => c = CallOf
    BY <1>1 DEF CallOf
  <2> QED
    BY <2>1, <2>2, <2>3
<1> QED
  BY <1>2, <1>3

\* The same for a move that leaves back alone.
LEMMA PlainMoves ==
  ASSUME TypeOK, NEW s \in Sandboxes, NEW from, NEW to, Goto(s, from, to), back' = back
  PROVE  /\ Phase[s] = PhaseOf(from)
         /\ Phase' = [Phase EXCEPT ![s] = PhaseOf(to)]
         /\ PhaseOf(to) = PhaseOf(from) => Phase' = Phase
         /\ CallOf[s] = CallFrom(from, back[s])
         /\ CallOf' = [CallOf EXCEPT ![s] = CallFrom(to, back[s])]
         /\ CallFrom(to, back[s]) = CallFrom(from, back[s]) => CallOf' = CallOf
  BY Moves

LEMMA SameMoves == UNCHANGED <<pc, back>> => Phase' = Phase /\ CallOf' = CallOf
  BY DEF Phase, CallOf

LEMMA SameChild == leader' = leader => ChildOf' = ChildOf
  BY DEF ChildOf

\* One process of the handles goes from one state to another.
LEMMA ChildMoves ==
  ASSUME TypeOK, NEW t \in Sandboxes, NEW l, leader' = [leader EXCEPT ![t] = l]
  PROVE  /\ ChildOf[t] = Seen(leader[t])
         /\ ChildOf' = [ChildOf EXCEPT ![t] = Seen(l)]
         /\ Seen(l) = Seen(leader[t]) => ChildOf' = ChildOf
<1>1. /\ leader'[t] = l
      /\ \A u \in Sandboxes : u # t => leader'[u] = leader[u]
  BY DEF TypeOK
<1>2. ChildOf[t] = Seen(leader[t])
  BY DEF ChildOf
<1>3. ChildOf' = [ChildOf EXCEPT ![t] = Seen(l)]
  <2>1. ASSUME NEW u \in Sandboxes PROVE ChildOf'[u] = [ChildOf EXCEPT ![t] = Seen(l)][u]
    BY <1>1 DEF ChildOf
  <2> QED
    BY <2>1 DEF ChildOf
<1>4. Seen(l) = Seen(leader[t]) => ChildOf' = ChildOf
  BY <1>1 DEF ChildOf
<1> QED
  BY <1>2, <1>3, <1>4

\* The signals of one handle, sent by its owner in a call that may, or by its
\* watchdog after the timeout, end one child at most.
LEMMA SignalSeen ==
  ASSUME TypeOK, PidInv, NEW s \in Sandboxes, NEW role, NEW L, NEW K, NEW X,
         L \subseteq AtPid(pid[s]), SigKill(s, role, L, K, X) \/ NoSignal,
         UNCHANGED <<Phase, CallOf, timedOut, waited, reported>>,
         \/ role = "owner" /\ (Phase[s] = "starting" \/ CallOf[s] \in {"kill", "drop"})
         \/ role = "watchdog" /\ timedOut[s]
  PROVE  Contract!Next \/ UNCHANGED Contract!vars
<1>1. CASE NoSignal
  BY <1>1, SameChild DEF NoSignal, proc, Contract!vars
<1>2. CASE SigKill(s, role, L, K, X)
  <2>1. CASE \A t \in L : leader[t] # "running"
    <3>1. leader' = leader /\ killer' = killer
      BY <1>2, <2>1 DEF SigKill, TypeOK
    <3> QED
      BY <3>1, SameChild DEF Contract!vars
  <2>2. CASE \E t \in L : leader[t] = "running"
    <3>1. PICK t \in L : leader[t] = "running"
      BY <2>2
    <3>2. t \in Sandboxes /\ t \in AtPid(pid[s])
      BY DEF AtPid
    <3>3. \A u \in L : leader[u] = "running" => u = t
      BY <3>1, <3>2 DEF AtPid, PidInv, GroupExists, Unreaped
    <3> DEFINE who == IF t = s THEN role ELSE "other"
    <3>4. leader' = [leader EXCEPT ![t] = "dying"] /\ killer' = [killer EXCEPT ![t] = who]
      <4>1. /\ leader'[t] = "dying" /\ killer'[t] = who
            /\ \A u \in Sandboxes : u # t => leader'[u] = leader[u] /\ killer'[u] = killer[u]
        BY <1>2, <3>1, <3>2, <3>3 DEF SigKill
      <4>2. /\ leader' = [u \in Sandboxes |-> leader'[u]]
            /\ killer' = [u \in Sandboxes |-> killer'[u]]
        BY <1>2 DEF SigKill
      <4> HIDE DEF who
      <4> QED
        BY <4>1, <4>2 DEF TypeOK
    <3>5. ChildOf[t] = "running" /\ ChildOf' = [ChildOf EXCEPT ![t] = "ended"]
      BY <3>1, <3>2, <3>4, ChildMoves DEF Seen
    <3>6. who \in {"other", "owner", "watchdog"} /\ Contract!MayEnd(t, who)
      BY DEF Contract!MayEnd
    <3>7. Contract!Ends(t, who)
      BY <3>4, <3>5, <3>6 DEF Contract!Ends
    <3> QED
      BY <3>2, <3>6, <3>7 DEF Contract!Next
  <2> QED
    BY <2>1, <2>2
<1> QED
  BY <1>1, <1>2

\* A status is collected: the children given up are R, which is one or none.
LEMMA CollectSeen ==
  ASSUME TypeOK, NEW s \in Sandboxes, Collect(s) \/ Reap(s) \/ UNCHANGED leader
  PROVE  \/ ChildOf' = ChildOf
         \/ \E t \in Contract!Ended : Contract!Reaped({t})
<1>1. CASE UNCHANGED leader
  BY <1>1, SameChild
<1>2. CASE Reap(s)
  <2>1. PICK t \in Children(pid[s]) :
          leader[t] = "zombie" /\ leader' = [leader EXCEPT ![t] = "reaped"]
    BY <1>2 DEF Reap
  <2>2. t \in Sandboxes
    BY DEF Children, AtPid
  <2>3. ChildOf[t] = "ended" /\ ChildOf' = [ChildOf EXCEPT ![t] = "gone"]
    BY <2>1, <2>2, ChildMoves DEF Seen
  <2>4. t \in Contract!Ended
    BY <2>2, <2>3 DEF Contract!Ended
  <2>5. Contract!Reaped({t})
    BY <2>2, <2>3 DEF Contract!Reaped, ChildOf
  <2> QED
    BY <2>4, <2>5
<1> QED
  BY <1>1, <1>2 DEF Collect

\* A status collected in the middle of a call is a step of the contract.
LEMMA ReapSeen ==
  ASSUME TypeOK, NEW s \in Sandboxes, Collect(s) \/ Reap(s) \/ UNCHANGED leader,
         UNCHANGED <<Phase, CallOf, killer, timedOut, waited, reported>>
  PROVE  Contract!Next \/ UNCHANGED Contract!vars
<1>1. CASE ChildOf' = ChildOf
  BY <1>1 DEF Contract!vars
<1>2. ASSUME NEW t \in Contract!Ended, Contract!Reaped({t}) PROVE Contract!Next
  <2>1. t \in Sandboxes /\ Contract!Reaps(t)
    BY <1>2 DEF Contract!Ended, Contract!Reaps
  <2> QED
    BY <2>1 DEF Contract!Next
<1> QED
  BY <1>1, <1>2, CollectSeen

\* kill() returns to the owner with a status, or finds its child collected.
LEMMA KillSeen ==
  ASSUME TypeOK, NEW s \in Sandboxes, Collect(s) \/ UNCHANGED leader,
         Phase' = Phase, CallOf[s] = "kill", CallOf' = [CallOf EXCEPT ![s] = "none"],
         leader'[s] = "reaped", UNCHANGED <<killer, timedOut, waited, reported>>
  PROVE  Contract!KillReturns(s)
<1>1. ChildOf'[s] = "gone"
  BY DEF ChildOf, Seen
<1>2. \E R \in SUBSET Contract!Ended : Contract!Reaped(R)
  <2>1. CASE ChildOf' = ChildOf
    <3>1. Contract!Reaped({})
      BY <2>1 DEF Contract!Reaped, ChildOf
    <3> QED
      BY <3>1
  <2> QED
    BY <2>1, CollectSeen
<1> QED
  BY <1>1, <1>2 DEF Contract!KillReturns

-----------------------------------------------------------------------------

Simulated == Contract!Next \/ UNCHANGED Contract!vars

\* A move in a call that the owner does not see.
LEMMA StepSeen ==
  ASSUME TypeOK, NEW s \in Sandboxes, NEW from, NEW to, Goto(s, from, to), UNCHANGED back,
         UNCHANGED <<leader, killer, timedOut, waited, reported>>,
         PhaseOf(to) = PhaseOf(from), CallFrom(to, back[s]) = CallFrom(from, back[s])
  PROVE  Simulated
  BY PlainMoves, SameChild DEF Simulated, Contract!vars

LEMMA InitMaps == Init => Contract!Init
  BY DEF Init, Contract!Init, Phase, CallOf, ChildOf, PhaseOf, CallFrom, Seen,
         SpawnPC, WaitPC, KillPC, DropPC

\* spawn: the fork starts the child, an error is returned when it is gone.
LEMMA SpawnSimulated ==
  ASSUME IInv, FreshInv, NEW s \in Sandboxes,
         SpawnStep(s) \/ \E p \in Pids : SpawnFork(s, p)
  PROVE  Simulated
<1> USE DEF kernel, proc, grip, marks, history
<1> DEFINE starting == {"cgroup_new", "attach", "watchdog", "abort_kill", "abort_wait",
                        "abort_drop"}
<1>0. TypeOK /\ SpawnInv /\ PidInv /\ StatusInv
  BY DEF IInv
<1>1. /\ \A c \in starting : PhaseOf(c) = "starting"
      /\ PhaseOf("unspawned") = "none" /\ PhaseOf("idle") = "open" /\ PhaseOf("failed") = "failed"
      /\ \A b : \A c \in starting \union {"unspawned", "idle", "failed"} :
           CallFrom(c, b) = "none"
  BY DEF PhaseOf, CallFrom, SpawnPC, WaitPC, KillPC, DropPC
<1>2. ASSUME NEW p \in Pids, SpawnFork(s, p) PROVE Contract!Starts(s)
  <2>1. /\ Goto(s, "unspawned", "cgroup_new") /\ back' = back
        /\ leader' = [leader EXCEPT ![s] = "running"]
        /\ UNCHANGED <<killer, timedOut, waited, reported>>
    BY <1>2 DEF SpawnFork
  <2>2. Phase[s] = "none" /\ Phase' = [Phase EXCEPT ![s] = "starting"] /\ CallOf' = CallOf
    BY <1>0, <1>1, <2>1, PlainMoves
  <2>3. ChildOf' = [ChildOf EXCEPT ![s] = "running"]
    BY <1>0, <2>1, ChildMoves DEF Seen
  <2> QED
    BY <2>1, <2>2, <2>3 DEF Contract!Starts
<1>3. CASE SpawnCgroupNew(s) \/ SpawnNoCgroup(s) \/ SpawnAttach(s) \/ SpawnAttachFails(s)
  <2>1. PICK from \in starting, to \in starting : Goto(s, from, to)
    BY <1>3 DEF SpawnCgroupNew, SpawnNoCgroup, SpawnAttach, SpawnAttachFails, Step
  <2>2. UNCHANGED <<back, leader, killer, timedOut, waited, reported>>
    BY <1>3 DEF SpawnCgroupNew, SpawnNoCgroup, SpawnAttach, SpawnAttachFails, Step
  <2> QED
    BY <1>0, <1>1, <2>1, <2>2, StepSeen
<1>4. CASE SpawnWatchdog(s)
  <2>1. /\ Goto(s, "watchdog", "idle")
        /\ UNCHANGED <<back, leader, killer, timedOut, waited, reported>>
    BY <1>4 DEF SpawnWatchdog
  <2>2. Phase[s] = "starting" /\ Phase' = [Phase EXCEPT ![s] = "open"] /\ CallOf' = CallOf
    BY <1>0, <1>1, <2>1, PlainMoves
  <2>3. Contract!SpawnOk(s)
    BY <2>1, <2>2, SameChild DEF Contract!SpawnOk
  <2> QED
    BY <2>3 DEF Simulated, Contract!Next
<1>5. CASE AbortKill(s)
  <2>1. /\ Goto(s, "abort_kill", "abort_wait")
        /\ UNCHANGED <<back, timedOut, waited, reported>>
        /\ SigKill(s, "owner", AtPid(pid[s]), {}, {pid[s]})
    BY <1>5 DEF AbortKill, KillByPid, SignalFrame
  <2>2. Phase[s] = "starting" /\ UNCHANGED <<Phase, CallOf>>
    BY <1>0, <1>1, <2>1, PlainMoves
  <2> QED
    BY <1>0, <2>1, <2>2, SignalSeen DEF Simulated
<1>6. CASE AbortWait(s)
  <2>1. /\ Goto(s, "abort_wait", "abort_drop")
        /\ Collect(s) \/ UNCHANGED leader
        /\ UNCHANGED <<back, killer, timedOut, waited, reported>>
    BY <1>6 DEF AbortWait, Await, CollectFrame
  <2>2. UNCHANGED <<Phase, CallOf>>
    BY <1>0, <1>1, <2>1, PlainMoves
  <2> QED
    BY <1>0, <2>1, <2>2, ReapSeen DEF Simulated
<1>7. CASE AbortDrop(s)
  <2>1. /\ Goto(s, "abort_drop", "failed") /\ leader[s] = "reaped"
        /\ UNCHANGED <<back, leader, killer, timedOut, waited, reported>>
    BY <1>0, <1>7 DEF AbortDrop, StatusInv, Goto
  <2>2. Phase[s] = "starting" /\ Phase' = [Phase EXCEPT ![s] = "failed"] /\ CallOf' = CallOf
    BY <1>0, <1>1, <2>1, PlainMoves
  <2>3. ChildOf[s] = "gone"
    BY <2>1 DEF ChildOf, Seen
  <2>4. Contract!SpawnFails(s)
    BY <2>1, <2>2, <2>3, SameChild DEF Contract!SpawnFails
  <2> QED
    BY <2>4 DEF Simulated, Contract!Next
<1> QED
  BY <1>2, <1>3, <1>4, <1>5, <1>6, <1>7 DEF SpawnStep, Simulated, Contract!Next

LEMMA CallValues ==
  /\ \A c \in OwnerPC \ (SpawnPC \union {"dropped"}) : PhaseOf(c) = "open"
  /\ PhaseOf("dropped") = "closed"
  /\ \A b : /\ \A c \in {"idle", "io", "dropped"} : CallFrom(c, b) = "none"
            /\ \A c \in WaitPC : CallFrom(c, b) = "wait"
            /\ \A c \in DropPC \ {"dropped"} : CallFrom(c, b) = "drop"
            /\ \A c \in KillPC : CallFrom(c, b) = IF b = "idle" THEN "kill" ELSE "drop"
  BY DEF PhaseOf, CallFrom, OwnerPC, SpawnPC, WaitPC, KillPC, DropPC

\* A new call, and those that end at once.
LEMMA CallSimulated ==
  ASSUME IInv, NEW s \in Sandboxes, Call(s) \/ IOData(s) \/ IOClosed(s)
  PROVE  Simulated
<1> USE DEF kernel, proc, grip, marks, history
<1>0. TypeOK
  BY DEF IInv
<1>1. /\ {"idle", "io", "wait", "kill_cancel", "drop_cancel"}
           \subseteq OwnerPC \ (SpawnPC \union {"dropped"})
      /\ "wait" \in WaitPC /\ "kill_cancel" \in KillPC /\ "drop_cancel" \in DropPC \ {"dropped"}
  BY DEF OwnerPC, SpawnPC, WaitPC, KillPC, DropPC
<1>2. CASE IOBegin(s) \/ IOData(s) \/ IOClosed(s)
  <2>1. PICK from \in {"idle", "io"}, to \in {"idle", "io"} : Goto(s, from, to)
    BY <1>2 DEF IOBegin, IOData, IOClosed, Step
  <2>2. UNCHANGED <<back, leader, killer, timedOut, waited, reported>>
    BY <1>2 DEF IOBegin, IOData, IOClosed, Step
  <2> QED
    BY <1>0, <1>1, <2>1, <2>2, StepSeen, CallValues
<1>3. CASE IsAlive(s)
  <2>1. /\ Goto(s, "idle", "idle") /\ Collect(s)
        /\ UNCHANGED <<back, killer, timedOut, waited, reported>>
    BY <1>3 DEF IsAlive, CollectFrame
  <2>2. UNCHANGED <<Phase, CallOf>>
    BY <1>0, <2>1, PlainMoves
  <2> QED
    BY <1>0, <2>1, <2>2, ReapSeen DEF Simulated
<1>4. ASSUME NEW to \in {"wait", "kill_cancel", "drop_cancel"}, Goto(s, "idle", to),
             \A t \in Sandboxes : t # s => back'[t] = back[t],
             to = "kill_cancel" => back'[s] = "idle",
             UNCHANGED <<leader, killer, timedOut, waited, reported>>
      PROVE  Simulated
  <2>1. PICK c \in {"wait", "kill", "drop"} : CallFrom(to, back'[s]) = c
    BY <1>1, <1>4, CallValues
  <2>2. PhaseOf("idle") = "open" /\ PhaseOf(to) = "open" /\ CallFrom("idle", back[s]) = "none"
    BY <1>1, CallValues
  <2>3. /\ Phase[s] = "open" /\ Phase' = Phase
        /\ CallOf[s] = "none" /\ CallOf' = [CallOf EXCEPT ![s] = c]
    BY <1>0, <1>4, <2>1, <2>2, Moves
  <2>4. Contract!Calls(s)
    BY <1>4, <2>3, SameChild DEF Contract!Calls
  <2> QED
    BY <2>4 DEF Simulated, Contract!Next
<1>5. CASE WaitBegin(s) \/ DropBegin(s)
  BY <1>4, <1>5 DEF WaitBegin, DropBegin, Step
<1>6. CASE KillBegin(s)
  <2>1. \A t \in Sandboxes : back'[t] = IF t = s THEN "idle" ELSE back[t]
    BY <1>0, <1>6 DEF KillBegin, TypeOK
  <2> QED
    BY <1>4, <1>6, <2>1 DEF KillBegin
<1> QED
  BY <1>2, <1>3, <1>5, <1>6 DEF Call

\* wait_with_usage.
LEMMA WaitSimulated ==
  ASSUME IInv, NEW s \in Sandboxes, WaitStep(s)
  PROVE  Simulated
<1> USE DEF kernel, proc, grip, marks, history
<1>0. TypeOK /\ SpawnInv /\ StatusInv
  BY DEF IInv
<1>1. /\ {"idle", "wait", "wait_cancel", "wait_load"} \subseteq OwnerPC \ (SpawnPC \union {"dropped"})
      /\ {"wait", "wait_cancel", "wait_load"} \subseteq WaitPC
  BY DEF OwnerPC, SpawnPC, WaitPC, KillPC, DropPC
<1>2. CASE WaitReap(s)
  <2>1. /\ Goto(s, "wait", "wait_cancel") /\ Collect(s)
        /\ UNCHANGED <<back, killer, timedOut, waited, reported>>
    BY <1>2 DEF WaitReap, CollectFrame
  <2>2. UNCHANGED <<Phase, CallOf>>
    BY <1>0, <1>1, <2>1, PlainMoves, CallValues
  <2> QED
    BY <1>0, <2>1, <2>2, ReapSeen DEF Simulated
<1>3. CASE WaitCancel(s)
  <2>1. /\ Goto(s, "wait_cancel", "wait_load")
        /\ UNCHANGED <<back, leader, killer, timedOut, waited, reported>>
    BY <1>3 DEF WaitCancel, Cancel
  <2> QED
    BY <1>0, <1>1, <2>1, StepSeen, CallValues
\* The owner has an answer when the child has been reaped, by whomever.
<1>4. ASSUME NEW from \in {"wait", "wait_load"}, Goto(s, from, "idle"), back' = back,
             leader[s] = "reaped", UNCHANGED leader
      PROVE  /\ CallOf[s] = "wait" /\ CallOf' = [CallOf EXCEPT ![s] = "none"]
             /\ ChildOf[s] = "gone" /\ UNCHANGED <<Phase, ChildOf>>
  <2>1. /\ CallOf[s] = "wait" /\ CallOf' = [CallOf EXCEPT ![s] = "none"]
        /\ Phase' = Phase
    BY <1>0, <1>1, <1>4, PlainMoves, CallValues
  <2>2. ChildOf[s] = "gone"
    BY <1>4 DEF ChildOf, Seen
  <2> QED
    BY <1>4, <2>1, <2>2, SameChild
<1>5. CASE WaitFails(s)
  <2>1. leader[s] = "reaped"
    BY <1>0, <1>5
    DEF WaitFails, Goto, Children, AtPid, Unreaped, SpawnInv, TypeOK, LeaderState
  <2>2. /\ Goto(s, "wait", "idle") /\ waited' = [waited EXCEPT ![s] = "err"]
        /\ UNCHANGED <<back, leader, killer, timedOut, reported>>
    BY <1>5 DEF WaitFails
  <2>3. Contract!WaitFails(s)
    BY <1>4, <2>1, <2>2 DEF Contract!WaitFails
  <2> QED
    BY <2>3 DEF Simulated, Contract!Next
<1>6. CASE WaitLoad(s)
  <2>1. leader[s] = "reaped"
    BY <1>0, <1>6 DEF WaitLoad, Goto, StatusInv
  <2>2. /\ Goto(s, "wait_load", "idle") /\ waited' = [waited EXCEPT ![s] = "ok"]
        /\ reported' = [reported EXCEPT ![s] = timedOut[s]]
        /\ UNCHANGED <<back, leader, killer, timedOut>>
    BY <1>6 DEF WaitLoad
  <2>3. Contract!WaitAnswers(s)
    BY <1>4, <2>1, <2>2 DEF Contract!WaitAnswers
  <2> QED
    BY <2>3 DEF Simulated, Contract!Next
<1> QED
  BY <1>2, <1>3, <1>5, <1>6 DEF WaitStep

\* kill(), called by the owner or by drop().
LEMMA KillSimulated ==
  ASSUME IInv, NEW s \in Sandboxes, KillStep(s)
  PROVE  Simulated
<1> USE DEF kernel, proc, grip, marks, history
<1>0. TypeOK /\ SpawnInv /\ PidInv /\ StatusInv /\ back[s] \in {"idle", "drop_fields"}
  BY DEF IInv, TypeOK
<1>1. /\ KillPC \subseteq OwnerPC \ (SpawnPC \union {"dropped"})
      /\ {"idle", "drop_fields"} \subseteq OwnerPC \ (SpawnPC \union {"dropped"})
      /\ {"kill_cancel", "kill_cgroup", "kill_try", "kill_signal", "kill_wait"} \subseteq KillPC
      /\ "drop_fields" \in DropPC \ {"dropped"}
  BY DEF OwnerPC, SpawnPC, WaitPC, KillPC, DropPC
<1>2. ASSUME NEW from \in KillPC, NEW to \in KillPC, Goto(s, from, to), back' = back
      PROVE  UNCHANGED <<Phase, CallOf>> /\ CallOf[s] \in {"kill", "drop"}
  <2>1. /\ PhaseOf(from) = PhaseOf(to)
        /\ CallFrom(from, back[s]) = CallFrom(to, back[s])
        /\ CallFrom(from, back[s]) \in {"kill", "drop"}
    BY <1>1, CallValues
  <2> QED
    BY <1>0, <1>2, <2>1, PlainMoves
<1>3. CASE KillCancel(s) \/ KillTryOn(s)
  <2>1. PICK from \in KillPC, to \in KillPC : Goto(s, from, to)
    BY <1>1, <1>3 DEF KillCancel, Cancel, KillTryOn, Step
  <2>2. UNCHANGED <<back, leader, killer, timedOut, waited, reported>>
    BY <1>3 DEF KillCancel, Cancel, KillTryOn, Step
  <2> QED
    BY <1>2, <2>1, <2>2, SameChild DEF Simulated, Contract!vars
<1>4. CASE KillCgroup(s)
  <2>1. /\ Goto(s, "kill_cgroup", "kill_try")
        /\ UNCHANGED <<back, timedOut, waited, reported>>
    BY <1>4 DEF KillCgroup, SignalFrame
  <2>2. PICK L \in SUBSET AtPid(pid[s]) : SigKill(s, "owner", L, L \X {"in"}, {}) \/ NoSignal
    BY <1>4 DEF KillCgroup, KillCgroupDir
  <2> QED
    BY <1>0, <1>1, <1>2, <2>1, <2>2, SignalSeen DEF Simulated
<1>5. CASE KillSignal(s)
  <2>1. /\ Goto(s, "kill_signal", "kill_wait")
        /\ UNCHANGED <<back, timedOut, waited, reported>>
        /\ SigKill(s, "owner", AtPid(pid[s]), {}, {pid[s]})
    BY <1>5 DEF KillSignal, KillByPid, SignalFrame
  <2> QED
    BY <1>0, <1>1, <1>2, <2>1, SignalSeen DEF Simulated
\* It returns to its caller or to drop().
<1>6. ASSUME NEW from \in KillPC, Goto(s, from, back[s]), back' = back,
             Collect(s) \/ UNCHANGED leader, leader'[s] = "reaped",
             UNCHANGED <<killer, timedOut, waited, reported>>
      PROVE  Simulated
  <2>1. PhaseOf(from) = PhaseOf(back[s])
    BY <1>0, <1>1, CallValues
  <2>2. CASE back[s] = "idle"
    <3>1. CallFrom(from, back[s]) = "kill" /\ CallFrom(back[s], back[s]) = "none"
      BY <2>2, CallValues
    <3>2. Phase' = Phase /\ CallOf[s] = "kill" /\ CallOf' = [CallOf EXCEPT ![s] = "none"]
      BY <1>0, <1>6, <2>1, <3>1, PlainMoves
    <3>3. Contract!KillReturns(s)
      BY <1>0, <1>6, <3>2, KillSeen
    <3> QED
      BY <3>3 DEF Simulated, Contract!Next
  <2>3. CASE back[s] = "drop_fields"
    <3>1. CallFrom(from, back[s]) = "drop" /\ CallFrom(back[s], back[s]) = "drop"
      BY <1>1, <2>3, CallValues
    <3>2. UNCHANGED <<Phase, CallOf>>
      BY <1>0, <1>6, <2>1, <3>1, PlainMoves
    <3> QED
      BY <1>0, <1>6, <3>2, ReapSeen DEF Simulated
  <2> QED
    BY <1>0, <2>2, <2>3
<1>7. pc[s] # "unspawned"
  BY DEF KillStep, KillCancel, Cancel, KillCgroup, KillTryDone, KillTryOn, Step,
         KillSignal, KillWait, Goto
<1>8. Collect(s) => leader'[s] = "reaped"
  BY <1>0, <1>7, CollectFacts
<1>9. CASE KillTryDone(s)
  BY <1>1, <1>6, <1>8, <1>9 DEF KillTryDone, CollectFrame
<1>10. CASE KillWait(s)
  <2>1. Collect(s) \/ UNCHANGED leader
    BY <1>10 DEF KillWait, Await
  <2>2. leader'[s] = "reaped"
    BY <1>0, <1>7, <1>8, <1>10
    DEF KillWait, Await, Children, AtPid, Unreaped, SpawnInv, TypeOK, LeaderState
  <2> QED
    BY <1>1, <1>6, <1>10, <2>1, <2>2 DEF KillWait, CollectFrame
<1> QED
  BY <1>3, <1>4, <1>5, <1>9, <1>10 DEF KillStep

\* drop.
LEMMA DropSimulated ==
  ASSUME IInv, NEW s \in Sandboxes, DropStep(s)
  PROVE  Simulated
<1> USE DEF kernel, proc, grip, marks, history
<1>0. TypeOK /\ NoZombieLeft
  BY DEF IInv
<1>1. /\ {"drop_cancel", "drop_try", "drop_fields", "kill_cancel"}
           \subseteq OwnerPC \ (SpawnPC \union {"dropped"})
      /\ {"drop_cancel", "drop_try", "drop_fields"} \subseteq DropPC \ {"dropped"}
      /\ "kill_cancel" \in KillPC
  BY DEF OwnerPC, SpawnPC, WaitPC, KillPC, DropPC
<1>2. CASE DropCancel(s)
  <2>1. /\ Goto(s, "drop_cancel", "drop_try")
        /\ UNCHANGED <<back, leader, killer, timedOut, waited, reported>>
    BY <1>2 DEF DropCancel, Cancel
  <2> QED
    BY <1>0, <1>1, <2>1, StepSeen, CallValues
<1>3. CASE DropTryDone(s)
  <2>1. /\ Goto(s, "drop_try", "drop_fields") /\ Collect(s)
        /\ UNCHANGED <<back, killer, timedOut, waited, reported>>
    BY <1>3 DEF DropTryDone, CollectFrame
  <2>2. UNCHANGED <<Phase, CallOf>>
    BY <1>0, <1>1, <2>1, PlainMoves, CallValues
  <2> QED
    BY <1>0, <2>1, <2>2, ReapSeen DEF Simulated
<1>4. CASE DropTryKill(s)
  <2>1. /\ Goto(s, "drop_try", "kill_cancel")
        /\ UNCHANGED <<leader, killer, timedOut, waited, reported>>
        /\ \A t \in Sandboxes : back'[t] = IF t = s THEN "drop_fields" ELSE back[t]
    BY <1>0, <1>4 DEF DropTryKill, TypeOK
  <2>2. /\ PhaseOf("kill_cancel") = PhaseOf("drop_try")
        /\ CallFrom("kill_cancel", "drop_fields") = CallFrom("drop_try", back[s])
    BY <1>1, CallValues
  <2>3. UNCHANGED <<Phase, CallOf>>
    BY <1>0, <2>1, <2>2, Moves
  <2> QED
    BY <2>1, <2>3, SameChild DEF Simulated, Contract!vars
<1>5. CASE DropFields(s)
  <2>1. /\ Goto(s, "drop_fields", "dropped") /\ leader[s] = "reaped"
        /\ UNCHANGED <<back, leader, killer, timedOut, waited, reported>>
    BY <1>0, <1>5 DEF DropFields, NoZombieLeft, Goto
  <2>2. PhaseOf("dropped") = "closed" /\ CallFrom("drop_fields", back[s]) = "drop"
        /\ CallFrom("dropped", back[s]) = "none"
    BY <1>1, CallValues
  <2>3. /\ Phase' = [Phase EXCEPT ![s] = "closed"]
        /\ CallOf[s] = "drop" /\ CallOf' = [CallOf EXCEPT ![s] = "none"]
    BY <1>0, <2>1, <2>2, PlainMoves
  <2>4. ChildOf[s] = "gone"
    BY <2>1 DEF ChildOf, Seen
  <2>5. Contract!DropReturns(s)
    BY <2>1, <2>3, <2>4, SameChild DEF Contract!DropReturns
  <2> QED
    BY <2>5 DEF Simulated, Contract!Next
<1> QED
  BY <1>2, <1>3, <1>4, <1>5 DEF DropStep

\* The watchdog: it fires once, in a handle that spawn has returned.
LEMMA WatchdogSimulated ==
  ASSUME IInv, FreshInv, NEW s \in Sandboxes, Watchdog(s)
  PROVE  Simulated
<1> USE DEF kernel, proc, grip, marks, history
<1>0. TypeOK /\ PidInv /\ FireInv
  BY DEF IInv
<1>1. UNCHANGED <<pc, back, waited, reported>>
  BY DEF Watchdog, WdCancelled, WdTimeout, WdStore, WdCgroup, WdKillPidfd, WdKillGroup, WdReap,
         WdStep, SignalFrame
<1>2. UNCHANGED <<Phase, CallOf>>
  BY <1>1, SameMoves
<1>3. CASE WdCancelled(s) \/ WdTimeout(s)
  BY <1>2, <1>3, SameChild DEF WdCancelled, WdTimeout, WdStep, Simulated, Contract!vars
<1>4. CASE WdStore(s)
  <2>1. timedOut' = [timedOut EXCEPT ![s] = TRUE] /\ UNCHANGED <<leader, killer>>
    BY <1>4 DEF WdStore
  <2>2. CASE timedOut[s]
    <3>1. timedOut' = timedOut
      BY <1>0, <2>1, <2>2 DEF TypeOK
    <3> QED
      BY <1>1, <1>2, <2>1, <3>1, SameChild DEF Simulated, Contract!vars
  <2>3. CASE ~timedOut[s]
    <3>1. pc[s] \notin SpawnPC /\ pc[s] \in OwnerPC
      BY <1>0, <1>4 DEF WdStore, WdGoto, FreshInv, TypeOK
    <3>2. Phase[s] \in {"open", "closed"}
      BY <3>1, CallValues DEF Phase
    <3>3. Contract!Fires(s)
      BY <1>1, <1>2, <2>1, <2>3, <3>2, SameChild DEF Contract!Fires
    <3> QED
      BY <3>3 DEF Simulated, Contract!Next
  <2> QED
    BY <2>2, <2>3
<1>5. CASE WdCgroup(s) \/ WdKillPidfd(s) \/ WdKillGroup(s)
  <2>1. timedOut[s] /\ UNCHANGED timedOut
    BY <1>0, <1>5 DEF WdCgroup, WdKillPidfd, WdKillGroup, WdGoto, SignalFrame, FireInv
  <2>2. s \in AtPid(pid[s])
    BY DEF AtPid
  <2>3. CASE WdCgroup(s)
    <3>1. PICK L \in SUBSET AtPid(pid[s]) :
            SigKill(s, "watchdog", L, L \X {"in"}, {}) \/ NoSignal
      BY <2>3 DEF WdCgroup, KillCgroupDir
    <3> QED
      BY <1>0, <1>1, <1>2, <2>1, <3>1, SignalSeen DEF Simulated
  <2>4. CASE WdKillPidfd(s)
    <3>1. {s} \subseteq AtPid(pid[s]) /\ SigKill(s, "watchdog", {s}, {}, {})
      BY <2>2, <2>4 DEF WdKillPidfd
    <3> QED
      BY <1>0, <1>1, <1>2, <2>1, <3>1, SignalSeen DEF Simulated
  <2>5. CASE WdKillGroup(s)
    <3>1. \/ SigKill(s, "watchdog", AtPid(pid[s]), AtPid(pid[s]) \X Places, {pid[s]})
          \/ NoSignal
      BY <2>5 DEF WdKillGroup, KillGroup
    <3> QED
      BY <1>0, <1>1, <1>2, <2>1, <3>1, SignalSeen DEF Simulated
  <2> QED
    BY <1>5, <2>3, <2>4, <2>5
<1>6. CASE WdReap(s)
  <2>1. Reap(s) \/ UNCHANGED leader
    BY <1>6 DEF WdReap
  <2>2. UNCHANGED <<killer, timedOut>>
    BY <1>6 DEF WdReap
  <2> QED
    BY <1>0, <1>1, <1>2, <2>1, <2>2, ReapSeen DEF Simulated
<1> QED
  BY <1>3, <1>4, <1>5, <1>6 DEF Watchdog

\* The harness exits by itself, or dies of the signal that has ended it.
LEMMA HarnessSimulated ==
  ASSUME IInv, NEW s \in Sandboxes, Harness(s) \/ Die(s)
  PROVE  Simulated
<1> USE DEF handle, grip, marks, history
<1>0. TypeOK
  BY DEF IInv
<1>1. UNCHANGED <<pc, back, timedOut, waited, reported>>
  BY DEF Harness, Die, LeaderExit, LeaderDie, Fork, KidsExit, KidsDie
<1>2. UNCHANGED <<Phase, CallOf>>
  BY <1>1, SameMoves
<1>3. CASE LeaderExit(s)
  <2>1. /\ leader[s] = "running" /\ leader' = [leader EXCEPT ![s] = "zombie"]
        /\ killer' = [killer EXCEPT ![s] = "self"]
    BY <1>3 DEF LeaderExit
  <2>2. ChildOf[s] = "running" /\ ChildOf' = [ChildOf EXCEPT ![s] = "ended"]
    BY <1>0, <2>1, ChildMoves DEF Seen
  <2>3. Contract!Ends(s, "self")
    BY <1>1, <1>2, <2>1, <2>2 DEF Contract!Ends, Contract!MayEnd
  <2> QED
    BY <2>3 DEF Simulated, Contract!Next
<1>4. CASE LeaderDie(s)
  <2>1. /\ leader[s] = "dying" /\ leader' = [leader EXCEPT ![s] = "zombie"]
        /\ killer' = killer
    BY <1>4 DEF LeaderDie
  <2>2. Seen("zombie") = Seen(leader[s])
    BY <2>1 DEF Seen
  <2> QED
    BY <1>0, <1>1, <1>2, <2>1, <2>2, ChildMoves DEF Simulated, Contract!vars
<1>5. CASE Fork(s) \/ \E x \in Places : KidsExit(s, x) \/ KidsDie(s, x)
  <2>1. UNCHANGED <<leader, killer>>
    BY <1>5 DEF Fork, KidsExit, KidsDie
  <2> QED
    BY <1>1, <1>2, <2>1, SameChild DEF Simulated, Contract!vars
<1> QED
  BY <1>3, <1>4, <1>5 DEF Harness, Die

LEMMA NextSimulated == IInv /\ FreshInv /\ [Next]_vars => [Contract!Next]_(Contract!vars)
<1> SUFFICES ASSUME IInv, FreshInv, [Next]_vars PROVE Simulated
  BY DEF Simulated
<1>1. ASSUME NEW s \in Sandboxes,
             (\E p \in Pids : SpawnFork(s, p)) \/ Call(s) \/ Owner(s) \/ IOData(s)
      PROVE  Simulated
  BY <1>1, SpawnSimulated, CallSimulated, WaitSimulated, KillSimulated, DropSimulated
  DEF Owner
<1>2. ASSUME NEW p \in Pids, StrangerStart(p) \/ StrangerExit(p) PROVE Simulated
  <2>1. UNCHANGED <<pc, back, leader, killer, timedOut, waited, reported>>
    BY <1>2 DEF StrangerStart, StrangerExit, handle, grip, marks, history
  <2> QED
    BY <2>1, SameMoves, SameChild DEF Simulated, Contract!vars
<1>3. CASE UNCHANGED vars
  <2>1. UNCHANGED <<pc, back, leader, killer, timedOut, waited, reported>>
    BY <1>3 DEF vars, kernel, proc, handle, grip, marks, history
  <2> QED
    BY <2>1, SameMoves, SameChild DEF Simulated, Contract!vars
<1> QED
  BY <1>1, <1>2, <1>3, WatchdogSimulated, HarnessSimulated DEF Next, Finished

-----------------------------------------------------------------------------

\* The program keeps its contract (the safety part): whatever is interleaved,
\* a child ends once and only by whom it may, an error of spawn, and every
\* answer of wait, kill and drop, comes after the child is gone, and
\* killed_by_timeout is the flag as it stood then (mod.rs:84-515).
THEOREM Refinement == Spec => ImplementsJailSafely
<1>1. CallInv => FreshInv
  BY DEF CallInv
<1> QED
  BY <1>1, InitMaps, NextSimulated, Invariance, CallInvariance, PTL
  DEF Spec, ImplementsJailSafely, Contract!SafeSpec
=============================================================================
