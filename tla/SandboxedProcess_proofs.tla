----------------------- MODULE SandboxedProcess_proofs -----------------------
(***************************************************************************)
(* For every number of handles and pids and every setup: the type          *)
(* invariant of SandboxedProcess, that a timeout which killed the child is *)
(* reported by wait_with_usage, and that kill, drop and a failing spawn    *)
(* leave no zombie.                                                        *)
(***************************************************************************)
EXTENDS SandboxedProcess, TLAPS

-----------------------------------------------------------------------------
(* Types *)

\* A signal keeps the process table well formed.
LEMMA SigKillType ==
  ASSUME TypeOK, NEW s, NEW role \in {"owner", "watchdog"}, NEW L, NEW K, NEW X,
         SigKill(s, role, L, K, X)
  PROVE  /\ leader' \in [Sandboxes -> LeaderState]
         /\ killer' \in [Sandboxes -> {"none", "self", "owner", "watchdog", "other"}]
         /\ kids' \in [Sandboxes -> [Places -> KidState]]
         /\ stranger' \in SUBSET Pids
         /\ stray' \in BOOLEAN
<1>1. leader' \in [Sandboxes -> LeaderState]
  BY DEF SigKill, TypeOK, LeaderState
<1>2. killer' \in [Sandboxes -> {"none", "self", "owner", "watchdog", "other"}]
  BY DEF SigKill, TypeOK
<1>3. kids' \in [Sandboxes -> [Places -> KidState]]
  <2>1. kids \in [Sandboxes -> [Places -> KidState]] /\ "dying" \in KidState
    BY DEF TypeOK, KidState
  <2>2. kids' = [t \in Sandboxes |-> [x \in Places |->
                  IF <<t, x>> \in K /\ kids[t][x] = "live" THEN "dying" ELSE kids[t][x]]]
    BY DEF SigKill
  <2> QED
    BY <2>1, <2>2
<1>4. stranger' \in SUBSET Pids
  BY DEF SigKill, TypeOK
<1>5. stray' \in BOOLEAN
  BY DEF SigKill, TypeOK
<1> QED
  BY <1>1, <1>2, <1>3, <1>4, <1>5

\* Collecting a status keeps the process table well formed.
LEMMA CollectType ==
  ASSUME TypeOK, NEW s \in Sandboxes, Collect(s)
  PROVE  leader' \in [Sandboxes -> LeaderState] /\ cached' \in [Sandboxes -> BOOLEAN]
  BY DEF TypeOK, Collect, Reap, Children, AtPid, LeaderState

\* A step that sends a signal, and changes nothing else but where its sender
\* is, keeps the types.
LEMMA SignalStepType ==
  ASSUME TypeOK, NEW s, NEW role \in {"owner", "watchdog"}, NEW L, NEW K, NEW X,
         SigKill(s, role, L, K, X) \/ NoSignal, UNCHANGED SignalFrame,
         pc' \in [Sandboxes -> OwnerPC], wd' \in [Sandboxes -> WatchdogPC]
  PROVE  TypeOK'
<1>1. CASE NoSignal
  BY <1>1 DEF NoSignal, proc, SignalFrame, grip, marks, TypeOK
<1>2. CASE SigKill(s, role, L, K, X)
  <2>1. /\ leader' \in [Sandboxes -> LeaderState]
        /\ killer' \in [Sandboxes -> {"none", "self", "owner", "watchdog", "other"}]
        /\ kids' \in [Sandboxes -> [Places -> KidState]]
        /\ stranger' \in SUBSET Pids
        /\ stray' \in BOOLEAN
    BY <1>2, SigKillType
  <2> QED
    BY <2>1 DEF SignalFrame, grip, marks, TypeOK
<1> QED
  BY <1>1, <1>2

\* So does a step that collects a status.
LEMMA CollectStepType ==
  ASSUME TypeOK, NEW s \in Sandboxes,
         Collect(s) \/ UNCHANGED <<leader, cached>>, UNCHANGED CollectFrame,
         pc' \in [Sandboxes -> OwnerPC], killed' \in [Sandboxes -> BOOLEAN],
         UNCHANGED <<killer, waited, stray>>
  PROVE  TypeOK'
<1>1. leader' \in [Sandboxes -> LeaderState] /\ cached' \in [Sandboxes -> BOOLEAN]
  BY CollectType DEF TypeOK
<1> QED
  BY <1>1 DEF CollectFrame, grip, TypeOK

LEMMA InitType == Init => TypeOK
<1> SUFFICES ASSUME Init PROVE TypeOK
  OBVIOUS
<1>1. kids \in [Sandboxes -> [Places -> KidState]]
  BY DEF Init, KidState
<1>2. leader \in [Sandboxes -> LeaderState] /\ wd \in [Sandboxes -> WatchdogPC]
  BY DEF Init, LeaderState, WatchdogPC
<1>3. pc \in [Sandboxes -> OwnerPC]
  BY DEF Init, OwnerPC, SpawnPC
<1>4. setup \in [Sandboxes -> Setups]
  BY DEF Init
<1> QED
  BY <1>1, <1>2, <1>3, <1>4 DEF Init, TypeOK

LEMMA NextType == TypeOK /\ SpawnInv /\ [Next]_vars => TypeOK'
<1> SUFFICES ASSUME TypeOK, SpawnInv, [Next]_vars PROVE TypeOK'
  OBVIOUS
<1> USE DEF kernel, proc, grip, marks, handle, history, Goto,
            OwnerPC, SpawnPC, KillPC, WaitPC, DropPC
\* A step that only moves the owner within its call.
<1>1. ASSUME NEW s \in Sandboxes, NEW from, NEW to \in OwnerPC, Step(s, from, to)
      PROVE TypeOK'
  BY <1>1 DEF Step, TypeOK
<1>2. ASSUME NEW s \in Sandboxes, NEW from, NEW to \in OwnerPC, Cancel(s, from, to)
      PROVE TypeOK'
  BY <1>2 DEF Cancel, TypeOK
\* An owner that sends a signal, and one that collects a status.
<1>3. ASSUME NEW s \in Sandboxes, NEW from, NEW to \in OwnerPC, Goto(s, from, to),
             UNCHANGED <<wd, SignalFrame>>,
             KillByPid(s, "owner") \/ KillCgroupDir(s, "owner")
      PROVE TypeOK'
  <2>1. pc' \in [Sandboxes -> OwnerPC] /\ wd' \in [Sandboxes -> WatchdogPC]
    BY <1>3 DEF TypeOK
  <2> QED
    BY <1>3, <2>1, SignalStepType DEF KillByPid, KillCgroupDir
<1>4. ASSUME NEW s \in Sandboxes, NEW from, NEW to \in OwnerPC, Goto(s, from, to),
             Collect(s) \/ UNCHANGED <<leader, cached>>,
             UNCHANGED <<CollectFrame, killer, waited, stray>>,
             UNCHANGED killed \/ KillReturn(s)
      PROVE TypeOK'
  <2>1. pc' \in [Sandboxes -> OwnerPC] /\ killed' \in [Sandboxes -> BOOLEAN]
    BY <1>4 DEF KillReturn, TypeOK
  <2> QED
    BY <1>4, <2>1, CollectStepType
<1>5. ASSUME NEW s \in Sandboxes, NEW from, NEW to, WdStep(s, from, to), to \in WatchdogPC
      PROVE TypeOK'
  BY <1>5 DEF WdStep, WdGoto, TypeOK
<1>6. ASSUME NEW s \in Sandboxes, RemoveDir(s) PROVE dirs' \in SUBSET Pids
  BY <1>6 DEF RemoveDir, TypeOK
<1>7. ASSUME NEW s \in Sandboxes, NEW p \in Pids, SpawnFork(s, p) PROVE TypeOK'
  BY <1>7 DEF SpawnFork, TypeOK, LeaderState
<1>8. ASSUME NEW s \in Sandboxes, Call(s) \/ IOData(s) PROVE TypeOK'
  <2>1. CASE IsAlive(s)
    BY <1>4, <2>1 DEF IsAlive
  <2>2. CASE KillBegin(s)
    BY <2>2 DEF KillBegin, TypeOK
  <2> QED
    BY <1>1, <1>8, <2>1, <2>2 DEF Call, IOBegin, WaitBegin, DropBegin, IOData
<1>9. ASSUME NEW s \in Sandboxes, SpawnStep(s) PROVE TypeOK'
  <2>1. CASE SpawnCgroupNew(s)
    BY <2>1 DEF SpawnCgroupNew, TypeOK, SpawnInv
  <2>2. CASE SpawnNoCgroup(s)
    BY <1>1, <2>2 DEF SpawnNoCgroup
  <2>3. CASE SpawnAttach(s)
    BY <2>3 DEF SpawnAttach, TypeOK
  <2>4. CASE SpawnAttachFails(s)
    BY <1>1, <2>4 DEF SpawnAttachFails
  <2>5. CASE SpawnWatchdog(s)
    BY <2>5 DEF SpawnWatchdog, TypeOK, WatchdogPC
  <2>6. CASE AbortKill(s)
    BY <1>3, <2>6 DEF AbortKill
  <2>7. CASE AbortWait(s)
    BY <1>4, <2>7 DEF AbortWait, Await
  <2>8. CASE AbortDrop(s)
    BY <1>6, <2>8 DEF AbortDrop, TypeOK
  <2> QED
    BY <1>9, <2>1, <2>2, <2>3, <2>4, <2>5, <2>6, <2>7, <2>8 DEF SpawnStep
<1>10. ASSUME NEW s \in Sandboxes, IOClosed(s) PROVE TypeOK'
  BY <1>1, <1>10 DEF IOClosed
<1>11. ASSUME NEW s \in Sandboxes, WaitStep(s) PROVE TypeOK'
  <2>1. CASE WaitReap(s)
    BY <1>4, <2>1 DEF WaitReap
  <2>2. CASE WaitFails(s)
    BY <2>2 DEF WaitFails, TypeOK
  <2>3. CASE WaitLoad(s)
    BY <2>3 DEF WaitLoad, TypeOK
  <2> QED
    BY <1>2, <1>11, <2>1, <2>2, <2>3 DEF WaitStep, WaitCancel
<1>12. ASSUME NEW s \in Sandboxes, KillStep(s) PROVE TypeOK'
  <2>1. CASE KillCgroup(s)
    BY <1>3, <2>1 DEF KillCgroup
  <2>2. back[s] \in OwnerPC
    BY DEF TypeOK
  <2>3. CASE KillTryDone(s)
    BY <1>4, <2>2, <2>3 DEF KillTryDone
  <2>4. CASE KillTryOn(s)
    BY <1>1, <2>4 DEF KillTryOn
  <2>5. CASE KillSignal(s)
    BY <1>3, <2>5 DEF KillSignal
  <2>6. CASE KillWait(s)
    BY <1>4, <2>2, <2>6 DEF KillWait, Await
  <2> QED
    BY <1>2, <1>12, <2>1, <2>3, <2>4, <2>5, <2>6 DEF KillStep, KillCancel
<1>13. ASSUME NEW s \in Sandboxes, DropStep(s) PROVE TypeOK'
  <2>1. CASE DropTryDone(s)
    BY <1>4, <2>1 DEF DropTryDone
  <2>2. CASE DropTryKill(s)
    BY <2>2 DEF DropTryKill, TypeOK
  <2>3. CASE DropFields(s)
    BY <1>6, <2>3 DEF DropFields, TypeOK
  <2> QED
    BY <1>2, <1>13, <2>1, <2>2, <2>3 DEF DropStep, DropCancel
<1>14. ASSUME NEW s \in Sandboxes, Watchdog(s) PROVE TypeOK'
  <2> USE DEF WdGoto, WatchdogPC
  <2>1. CASE WdStore(s)
    BY <2>1 DEF WdStore, TypeOK
  <2>2. CASE WdCgroup(s)
    <3>1. pc' \in [Sandboxes -> OwnerPC] /\ wd' \in [Sandboxes -> WatchdogPC]
      BY <2>2 DEF WdCgroup, TypeOK
    <3> QED
      BY <2>2, <3>1, SignalStepType DEF WdCgroup, KillCgroupDir
  <2>3. CASE WdKillPidfd(s)
    <3>1. pc' \in [Sandboxes -> OwnerPC] /\ wd' \in [Sandboxes -> WatchdogPC]
      BY <2>3 DEF WdKillPidfd, TypeOK
    <3> QED
      BY <2>3, <3>1, SignalStepType DEF WdKillPidfd
  <2>4. CASE WdKillGroup(s)
    <3>1. pc' \in [Sandboxes -> OwnerPC] /\ wd' \in [Sandboxes -> WatchdogPC]
      BY <2>4 DEF WdKillGroup, TypeOK
    <3> QED
      BY <2>4, <3>1, SignalStepType DEF WdKillGroup, KillGroup
  <2>5. CASE WdReap(s)
    <3>1. leader' \in [Sandboxes -> LeaderState]
      <4>1. CASE Reap(s)
        BY <4>1 DEF Reap, Children, AtPid, LeaderState, TypeOK
      <4>2. CASE UNCHANGED leader
        BY <4>2 DEF TypeOK
      <4> QED
        BY <2>5, <4>1, <4>2 DEF WdReap
    <3> QED
      BY <2>5, <3>1 DEF WdReap, TypeOK
  <2> QED
    BY <1>5, <1>14, <2>1, <2>2, <2>3, <2>4, <2>5 DEF Watchdog, WdCancelled, WdTimeout
<1>15. ASSUME NEW s \in Sandboxes, LeaderExit(s) \/ LeaderDie(s) PROVE TypeOK'
  BY <1>15 DEF LeaderExit, LeaderDie, TypeOK, LeaderState
<1>lost. ASSUME NEW s \in Sandboxes, NEW x \in Places,
              Fork(s) \/ KidsExit(s, x) \/ KidsDie(s, x)
       PROVE TypeOK'
  <2>1. kids' \in [Sandboxes -> [Places -> KidState]]
    <3>1. ASSUME NEW y \in Places, NEW k \in KidState, kids' = [kids EXCEPT ![s][y] = k]
          PROVE  kids' \in [Sandboxes -> [Places -> KidState]]
      BY <3>1 DEF TypeOK
    <3>2. {"in", "out"} \subseteq Places /\ {"none", "live"} \subseteq KidState
      BY DEF Places, KidState
    <3> QED
      BY <1>lost, <3>1, <3>2 DEF Fork, KidsExit, KidsDie
  <2> QED
    BY <1>lost, <2>1 DEF Fork, KidsExit, KidsDie, TypeOK
<1>17. ASSUME NEW p \in Pids, StrangerStart(p) \/ StrangerExit(p) PROVE TypeOK'
  BY <1>17 DEF StrangerStart, StrangerExit, TypeOK
<1>18. CASE UNCHANGED vars
  BY <1>18 DEF vars, TypeOK
<1> QED
  BY <1>7, <1>8, <1>9, <1>10, <1>11, <1>12, <1>13, <1>14, <1>15, <1>lost, <1>17, <1>18
  DEF Next, Owner, Harness, Die, Finished, Places

-----------------------------------------------------------------------------
(* What a signal and a collected status do to the process table *)

\* A signal neither ends nor frees a process by itself, and only the sender's
\* own signal is booked to its role.
LEMMA SigKillFacts ==
  ASSUME TypeOK, NEW s \in Sandboxes, NEW role \in {"owner", "watchdog"},
         NEW L, NEW K, NEW X, SigKill(s, role, L, K, X) \/ NoSignal,
         NEW t \in Sandboxes
  PROVE  /\ leader'[t] # leader[t] => leader[t] = "running" /\ leader'[t] = "dying"
         /\ \A x \in Places : kids'[t][x] = "none" <=> kids[t][x] = "none"
         /\ killer'[t] = "watchdog" => \/ killer[t] = "watchdog"
                                      \/ /\ t = s /\ role = "watchdog"
                                         /\ leader[t] = "running"
<1>1. CASE NoSignal
  BY <1>1 DEF NoSignal, proc
<1>2. CASE SigKill(s, role, L, K, X)
  <2>1. leader'[t] # leader[t] => leader[t] = "running" /\ leader'[t] = "dying"
    BY <1>2 DEF SigKill
  <2>2. ASSUME NEW x \in Places PROVE kids'[t][x] = "none" <=> kids[t][x] = "none"
    BY <1>2 DEF SigKill
  <2>3. killer'[t] = "watchdog" => \/ killer[t] = "watchdog"
                                  \/ /\ t = s /\ role = "watchdog"
                                     /\ leader[t] = "running"
    BY <1>2 DEF SigKill
  <2> QED
    BY <2>1, <2>2, <2>3
<1> QED
  BY <1>1, <1>2

\* Whoever collects a status through waitpid takes it from its own child while
\* that child is unreaped: the pid cannot name another one.
LEMMA CollectFacts ==
  ASSUME TypeOK, SpawnInv, PidInv, StatusInv,
         NEW s \in Sandboxes, pc[s] # "unspawned", Collect(s)
  PROVE  /\ leader'[s] = "reaped"
         /\ cached' = [cached EXCEPT ![s] = TRUE]
         /\ \A t \in Sandboxes : leader'[t] # leader[t] =>
              leader[t] = "zombie" /\ leader'[t] = "reaped"
<1>1. CASE cached[s]
  BY <1>1 DEF Collect, StatusInv, TypeOK
<1>2. CASE ~cached[s]
  <2>1. PICK t \in Children(pid[s]) :
          leader[t] = "zombie" /\ leader' = [leader EXCEPT ![t] = "reaped"]
    BY <1>2 DEF Collect, Reap
  <2>2. t \in Sandboxes /\ pid[t] = pid[s] /\ Unreaped(t)
    BY <2>1 DEF Children, AtPid
  <2>3. Unreaped(s) => s = t
    BY <2>2 DEF PidInv, GroupExists
  <2>4. leader[s] \in {"running", "dying", "zombie", "reaped"}
    BY DEF TypeOK, LeaderState, SpawnInv
  <2> QED
    BY <2>1, <2>2, <2>3, <2>4, <1>2 DEF Collect, Unreaped, TypeOK
<1> QED
  BY <1>1, <1>2

-----------------------------------------------------------------------------
(* The inductive invariant *)

\* Everything in it but the types.
Rest == SpawnInv /\ PidInv /\ StatusInv /\ FireInv /\ TimeoutReported /\ NoZombieLeft

LEMMA InitRest == Init => Rest
  BY SetupAssumption
  DEF Init, Rest, SpawnInv, PidInv, StatusInv, FireInv, TimeoutReported,
      NoZombieLeft, GroupExists, Unreaped

\* No pid gets a second group in a step that starts no process.
LEMMA PidInvKept ==
  ASSUME PidInv, pid' = pid, \A t \in Sandboxes : GroupExists(t)' => GroupExists(t)
  PROVE  PidInv'
  BY DEF PidInv

LEMMA NextRest == IInv /\ [Next]_vars => Rest'
<1> SUFFICES ASSUME IInv, [Next]_vars PROVE Rest'
  OBVIOUS
<1> USE DEF kernel, proc, grip, marks, handle, history, Goto
<1>0. TypeOK /\ Rest
  BY DEF IInv, Rest
<1> DEFINE Others == UNCHANGED <<pid, proc, cached, timedOut, reported, wd, history>>
\* A step of the owner's that leaves the processes and the watchdog alone.
<1>1. ASSUME NEW s \in Sandboxes, NEW from, NEW to, Goto(s, from, to), Others,
             from # "unspawned", to # "unspawned",
             to \in {"wait_load", "abort_drop", "failed", "drop_fields", "dropped"}
               => leader[s] = "reaped",
             to \in {"wait_cancel", "wait_load"} => cached[s]
      PROVE Rest'
  <2>1. PidInv'
    BY <1>0, <1>1 DEF Rest, PidInv, GroupExists, Unreaped
  <2>2. SpawnInv'
    BY <1>0, <1>1 DEF Rest, SpawnInv, TypeOK
  <2>3. StatusInv' /\ FireInv' /\ TimeoutReported' /\ NoZombieLeft'
    BY <1>0, <1>1 DEF Rest, StatusInv, FireInv, TimeoutReported, NoZombieLeft, TypeOK
  <2> QED
    BY <2>1, <2>2, <2>3 DEF Rest
\* The owner sends a signal.
<1>2. ASSUME NEW s \in Sandboxes, NEW from, NEW to \in {"abort_wait", "kill_try", "kill_wait"},
             Goto(s, from, to), from # "unspawned",
             UNCHANGED <<wd, SignalFrame>>,
             KillByPid(s, "owner") \/ KillCgroupDir(s, "owner")
      PROVE Rest'
  <2>1. ASSUME NEW t \in Sandboxes
        PROVE  /\ leader'[t] # leader[t] => leader[t] = "running" /\ leader'[t] = "dying"
               /\ \A x \in Places : kids'[t][x] = "none" <=> kids[t][x] = "none"
               /\ killer'[t] = "watchdog" => killer[t] = "watchdog"
    BY <1>0, <1>2, SigKillFacts DEF KillByPid, KillCgroupDir
  <2>2. \A t \in Sandboxes : GroupExists(t)' => GroupExists(t)
    BY <2>1 DEF GroupExists, Unreaped
  <2>3. PidInv'
    BY <1>0, <1>2, <2>2, PidInvKept DEF Rest, SignalFrame
  <2>4. SpawnInv'
    BY <1>0, <1>2, <2>1 DEF Rest, SpawnInv, SignalFrame, TypeOK
  <2>5. StatusInv'
    BY <1>0, <1>2, <2>1 DEF Rest, StatusInv, SignalFrame, TypeOK
  <2>6. FireInv' /\ TimeoutReported'
    BY <1>0, <1>2, <2>1 DEF Rest, FireInv, TimeoutReported, SignalFrame, TypeOK
  <2>7. NoZombieLeft'
    BY <1>0, <1>2, <2>1 DEF Rest, NoZombieLeft, SignalFrame, TypeOK
  <2> QED
    BY <2>3, <2>4, <2>5, <2>6, <2>7 DEF Rest
\* The owner collects a status.
<1>3. ASSUME NEW s \in Sandboxes, NEW from, NEW to, Goto(s, from, to),
             from # "unspawned", to # "unspawned",
             Collect(s), UNCHANGED <<CollectFrame, killer, waited, stray>>,
             UNCHANGED killed \/ KillReturn(s)
      PROVE Rest'
  <2>1. /\ leader'[s] = "reaped"
        /\ cached' = [cached EXCEPT ![s] = TRUE]
        /\ \A t \in Sandboxes : leader'[t] # leader[t] =>
             leader[t] = "zombie" /\ leader'[t] = "reaped"
    BY <1>0, <1>3, CollectFacts DEF Rest
  <2>2. \A t \in Sandboxes : GroupExists(t)' => GroupExists(t)
    BY <1>3, <2>1 DEF GroupExists, Unreaped, CollectFrame
  <2>3. PidInv'
    BY <1>0, <1>3, <2>2, PidInvKept DEF Rest, CollectFrame
  <2>4. SpawnInv'
    BY <1>0, <1>3, <2>1 DEF Rest, SpawnInv, CollectFrame, TypeOK
  <2>5. StatusInv'
    BY <1>0, <1>3, <2>1 DEF Rest, StatusInv, CollectFrame, TypeOK
  <2>6. FireInv' /\ TimeoutReported'
    BY <1>0, <1>3 DEF Rest, FireInv, TimeoutReported, CollectFrame, TypeOK
  <2>7. NoZombieLeft'
    BY <1>0, <1>3, <2>1 DEF Rest, NoZombieLeft, CollectFrame, KillReturn, TypeOK
  <2> QED
    BY <2>3, <2>4, <2>5, <2>6, <2>7 DEF Rest
\* The owner finds that somebody else has collected it.
<1> DEFINE Lost(s) == Children(pid[s]) = {} /\ UNCHANGED <<leader, cached>>
<1>lost. ASSUME NEW s \in Sandboxes, NEW from, NEW to, Goto(s, from, to),
             from # "unspawned", to # "unspawned", to \notin {"wait_cancel", "wait_load"},
             Lost(s),
             UNCHANGED <<CollectFrame, killer, waited, stray>>,
             UNCHANGED killed \/ KillReturn(s)
      PROVE Rest'
  <2>1. leader[s] = "reaped"
    BY <1>0, <1>lost DEF Children, AtPid, Unreaped, Rest, SpawnInv, TypeOK, LeaderState
  <2>2. PidInv' /\ SpawnInv'
    BY <1>0, <1>lost DEF CollectFrame, Rest, PidInv, SpawnInv, GroupExists, Unreaped, TypeOK
  <2>3. StatusInv' /\ FireInv' /\ TimeoutReported' /\ NoZombieLeft'
    BY <1>0, <1>lost, <2>1
    DEF KillReturn, CollectFrame, Rest, StatusInv, FireInv, TimeoutReported, NoZombieLeft, TypeOK
  <2> QED
    BY <2>2, <2>3 DEF Rest
<1> HIDE DEF Lost
\* The watchdog sends a signal, its flag already stored.
<1>4. ASSUME NEW s \in Sandboxes, NEW to, UNCHANGED <<pc, SignalFrame>>,
             NEW L, NEW K, NEW X, SigKill(s, "watchdog", L, K, X) \/ NoSignal,
             wd[s] \in {"cgroup", "kill"}, wd' = [wd EXCEPT ![s] = to]
      PROVE Rest'
  <2>1. ASSUME NEW t \in Sandboxes
        PROVE  /\ leader'[t] # leader[t] => leader[t] = "running" /\ leader'[t] = "dying"
               /\ \A x \in Places : kids'[t][x] = "none" <=> kids[t][x] = "none"
               /\ killer'[t] = "watchdog" =>
                    killer[t] = "watchdog" \/ (t = s /\ leader[t] = "running")
    BY <1>0, <1>4, SigKillFacts
  <2>2. \A t \in Sandboxes : GroupExists(t)' => GroupExists(t)
    BY <2>1 DEF GroupExists, Unreaped
  <2>3. PidInv'
    BY <1>0, <1>4, <2>2, PidInvKept DEF Rest, SignalFrame
  <2>4. SpawnInv'
    BY <1>0, <1>4, <2>1 DEF Rest, SpawnInv, SignalFrame, TypeOK
  <2>5. StatusInv'
    BY <1>0, <1>4, <2>1 DEF Rest, StatusInv, SignalFrame, TypeOK
  <2>6. timedOut[s]
    BY <1>0, <1>4 DEF Rest, FireInv
  <2>7. FireInv'
    BY <1>0, <1>4, <2>1, <2>6 DEF Rest, FireInv, SignalFrame, TypeOK
  <2>8. TimeoutReported'
    BY <1>0, <1>4, <2>1 DEF Rest, TimeoutReported, StatusInv, SignalFrame
  <2>9. NoZombieLeft'
    BY <1>0, <1>4, <2>1 DEF Rest, NoZombieLeft, SignalFrame, TypeOK
  <2> QED
    BY <2>3, <2>4, <2>5, <2>7, <2>8, <2>9 DEF Rest
<1>5. ASSUME NEW s \in Sandboxes, NEW p \in Pids, SpawnFork(s, p) PROVE Rest'
  <2>1. p # NoPid /\ ~GroupExists(s) /\ \A t \in Sandboxes : pid[t] = p => ~GroupExists(t)
    BY <1>0, <1>5, SetupAssumption
    DEF SpawnFork, PidFree, Rest, SpawnInv, GroupExists, Unreaped, TypeOK
  <2>2. \A t \in Sandboxes : t # s => (GroupExists(t)' <=> GroupExists(t)) /\ pid'[t] = pid[t]
    BY <1>0, <1>5 DEF SpawnFork, GroupExists, Unreaped, TypeOK
  <2>3. pid'[s] = p
    BY <1>0, <1>5 DEF SpawnFork, TypeOK
  <2>4. PidInv'
    BY <1>0, <2>1, <2>2, <2>3 DEF Rest, PidInv
  <2>5. SpawnInv'
    BY <1>0, <1>5, <2>1 DEF SpawnFork, Rest, SpawnInv, TypeOK
  <2>6. StatusInv' /\ FireInv' /\ TimeoutReported' /\ NoZombieLeft'
    BY <1>0, <1>5
    DEF SpawnFork, Rest, SpawnInv, StatusInv, FireInv, TimeoutReported, NoZombieLeft, TypeOK
  <2> QED
    BY <2>4, <2>5, <2>6 DEF Rest
<1>6. ASSUME NEW s \in Sandboxes, Call(s) \/ IOData(s) \/ IOClosed(s) PROVE Rest'
  <2>1. CASE IsAlive(s)
    BY <1>3, <2>1 DEF IsAlive
  <2>2. CASE KillBegin(s)
    BY <1>1, <2>2 DEF KillBegin
  <2> QED
    BY <1>1, <1>6, <2>1, <2>2
    DEF Call, IOBegin, WaitBegin, DropBegin, IOData, IOClosed, Step
<1>7. ASSUME NEW s \in Sandboxes, SpawnStep(s) PROVE Rest'
  <2>1. CASE SpawnCgroupNew(s) \/ SpawnAttach(s) \/ SpawnAttachFails(s) \/ SpawnNoCgroup(s)
    BY <1>1, <2>1 DEF SpawnCgroupNew, SpawnAttach, SpawnAttachFails, SpawnNoCgroup, Step
  <2>2. CASE SpawnWatchdog(s)
    <3>1. PidInv' /\ SpawnInv'
      BY <1>0, <2>2 DEF SpawnWatchdog, Rest, PidInv, SpawnInv, GroupExists, Unreaped, TypeOK
    <3>2. StatusInv' /\ FireInv' /\ TimeoutReported' /\ NoZombieLeft'
      BY <1>0, <2>2
      DEF SpawnWatchdog, Rest, StatusInv, FireInv, TimeoutReported, NoZombieLeft, TypeOK
    <3> QED
      BY <3>1, <3>2 DEF Rest
  <2>3. CASE AbortKill(s)
    BY <1>2, <2>3 DEF AbortKill
  <2>4. CASE AbortWait(s)
    <3>1. CASE Collect(s)
      BY <1>3, <2>4, <3>1 DEF AbortWait
    <3>2. CASE Lost(s)
      <4>1. leader[s] = "reaped"
        BY <1>0, <2>4, <3>2
        DEF AbortWait, Lost, Children, AtPid, Unreaped, Rest, SpawnInv, TypeOK, LeaderState
      <4>2. Goto(s, "abort_wait", "abort_drop") /\ Others
        BY <2>4, <3>2 DEF AbortWait, Lost, CollectFrame
      <4> QED
        BY <1>1, <4>1, <4>2
    <3> QED
      BY <2>4, <3>1, <3>2 DEF AbortWait, Await, Lost
  <2>5. CASE AbortDrop(s)
    BY <1>0, <1>1, <2>5 DEF AbortDrop, Rest, StatusInv
  <2> QED
    BY <1>7, <2>1, <2>2, <2>3, <2>4, <2>5 DEF SpawnStep
<1>8. ASSUME NEW s \in Sandboxes, WaitStep(s) PROVE Rest'
  <2>1. CASE WaitReap(s)
    BY <1>3, <2>1 DEF WaitReap
  <2>2. CASE WaitCancel(s)
    BY <1>0, <1>1, <2>2 DEF WaitCancel, Cancel, Rest, StatusInv
  <2>3. CASE WaitFails(s)
    <3>1. PidInv'
      BY <1>0, <2>3, PidInvKept DEF WaitFails, Rest, GroupExists, Unreaped
    <3>2. SpawnInv'
      BY <1>0, <2>3 DEF WaitFails, Rest, SpawnInv, TypeOK
    <3>3. StatusInv'
      BY <1>0, <2>3 DEF WaitFails, Rest, StatusInv, TypeOK
    <3>4. FireInv' /\ TimeoutReported' /\ NoZombieLeft'
      BY <1>0, <2>3 DEF WaitFails, Rest, FireInv, TimeoutReported, NoZombieLeft, TypeOK
    <3> QED
      BY <3>1, <3>2, <3>3, <3>4 DEF Rest
  <2>4. CASE WaitLoad(s)
    <3>1. PidInv'
      BY <1>0, <2>4, PidInvKept DEF WaitLoad, Rest, GroupExists, Unreaped
    <3>2. SpawnInv'
      BY <1>0, <2>4 DEF WaitLoad, Rest, SpawnInv, TypeOK
    <3>3. StatusInv'
      BY <1>0, <2>4 DEF WaitLoad, Rest, StatusInv, TypeOK
    <3>4. FireInv' /\ TimeoutReported' /\ NoZombieLeft'
      BY <1>0, <2>4 DEF WaitLoad, Rest, FireInv, TimeoutReported, NoZombieLeft, TypeOK
    <3> QED
      BY <3>1, <3>2, <3>3, <3>4 DEF Rest
  <2> QED
    BY <1>8, <2>1, <2>2, <2>3, <2>4 DEF WaitStep
<1>9. ASSUME NEW s \in Sandboxes, KillStep(s) PROVE Rest'
  <2>1. back[s] \in {"idle", "drop_fields"}
    BY <1>0 DEF TypeOK
  <2>2. CASE KillCancel(s) \/ KillTryOn(s)
    BY <1>1, <2>2 DEF KillCancel, Cancel, KillTryOn, Step
  <2>3. CASE KillCgroup(s)
    BY <1>2, <2>3 DEF KillCgroup
  <2>4. CASE KillTryDone(s)
    BY <1>3, <2>1, <2>4 DEF KillTryDone
  <2>5. CASE KillSignal(s)
    BY <1>2, <2>5 DEF KillSignal
  <2>6. CASE KillWait(s)
    <3>1. CASE Collect(s)
      BY <1>3, <2>1, <2>6, <3>1 DEF KillWait
    <3>2. CASE Lost(s)
      BY <1>lost, <2>1, <2>6, <3>2 DEF KillWait
    <3> QED
      BY <2>6, <3>1, <3>2 DEF KillWait, Await, Lost
  <2> QED
    BY <1>9, <2>2, <2>3, <2>4, <2>5, <2>6 DEF KillStep
<1>10. ASSUME NEW s \in Sandboxes, DropStep(s) PROVE Rest'
  <2>1. CASE DropCancel(s) \/ DropTryKill(s)
    BY <1>1, <2>1 DEF DropCancel, Cancel, DropTryKill
  <2>2. CASE DropTryDone(s)
    BY <1>3, <2>2 DEF DropTryDone
  <2>3. CASE DropFields(s)
    BY <1>0, <1>1, <2>3 DEF DropFields, Rest, NoZombieLeft
  <2> QED
    BY <1>10, <2>1, <2>2, <2>3 DEF DropStep
<1>11. ASSUME NEW s \in Sandboxes, Watchdog(s) PROVE Rest'
  <2>1. CASE WdCancelled(s) \/ WdTimeout(s) \/ WdStore(s)
    <3>1. PidInv' /\ SpawnInv' /\ StatusInv' /\ NoZombieLeft'
      BY <1>0, <2>1
      DEF WdCancelled, WdTimeout, WdStore, WdStep, WdGoto, Rest, PidInv, SpawnInv,
          StatusInv, NoZombieLeft, GroupExists, Unreaped
    <3>2. FireInv' /\ TimeoutReported'
      BY <1>0, <2>1
      DEF WdCancelled, WdTimeout, WdStore, WdStep, WdGoto, Rest, FireInv, TimeoutReported, TypeOK
    <3> QED
      BY <3>1, <3>2 DEF Rest
  <2>2. CASE WdCgroup(s)
    BY <1>4, <2>2 DEF WdCgroup, WdGoto, KillCgroupDir
  <2>3. CASE WdKillPidfd(s)
    BY <1>4, <2>3 DEF WdKillPidfd, WdGoto
  <2>4. CASE WdKillGroup(s)
    BY <1>4, <2>4 DEF WdKillGroup, WdGoto, KillGroup
  <2>5. CASE WdReap(s)
    <3>1. \A t \in Sandboxes : leader'[t] # leader[t] =>
            leader[t] = "zombie" /\ leader'[t] = "reaped"
      BY <1>0, <2>5 DEF WdReap, Reap, Children, AtPid, TypeOK
    <3>2. \A t \in Sandboxes : GroupExists(t)' => GroupExists(t)
      BY <2>5, <3>1 DEF WdReap, GroupExists, Unreaped
    <3>3. PidInv'
      BY <1>0, <2>5, <3>2, PidInvKept DEF WdReap, Rest
    <3>4. SpawnInv' /\ StatusInv' /\ NoZombieLeft'
      BY <1>0, <2>5, <3>1 DEF WdReap, Rest, SpawnInv, StatusInv, NoZombieLeft
    <3>5. FireInv' /\ TimeoutReported'
      BY <1>0, <2>5 DEF WdReap, WdGoto, Rest, FireInv, TimeoutReported, TypeOK
    <3> QED
      BY <3>3, <3>4, <3>5 DEF Rest
  <2> QED
    BY <1>11, <2>1, <2>2, <2>3, <2>4, <2>5 DEF Watchdog
<1>12. ASSUME NEW s \in Sandboxes, LeaderExit(s) \/ LeaderDie(s) PROVE Rest'
  <2>1. /\ leader[s] \in {"running", "dying"}
        /\ leader' = [leader EXCEPT ![s] = "zombie"]
        /\ killer' = killer \/ killer' = [killer EXCEPT ![s] = "self"]
        /\ UNCHANGED <<pid, kids, pc, cached, timedOut, reported, wd, waited, killed>>
    BY <1>12 DEF LeaderExit, LeaderDie
  <2>2. \A t \in Sandboxes : GroupExists(t)' => GroupExists(t)
    BY <1>0, <2>1 DEF GroupExists, Unreaped, TypeOK
  <2>3. PidInv'
    BY <1>0, <2>1, <2>2, PidInvKept DEF Rest
  <2>4. SpawnInv' /\ StatusInv' /\ NoZombieLeft'
    BY <1>0, <2>1 DEF Rest, SpawnInv, StatusInv, NoZombieLeft, TypeOK
  <2>5. FireInv' /\ TimeoutReported'
    BY <1>0, <2>1 DEF Rest, FireInv, TimeoutReported, TypeOK
  <2> QED
    BY <2>3, <2>4, <2>5 DEF Rest
<1>13. ASSUME NEW s \in Sandboxes, NEW x \in Places,
              Fork(s) \/ KidsExit(s, x) \/ KidsDie(s, x)
       PROVE Rest'
  <2>1. /\ UNCHANGED <<pid, leader, handle, history>>
        /\ \A t \in Sandboxes : t # s => kids'[t] = kids[t]
    BY <1>0, <1>13 DEF Fork, KidsExit, KidsDie, TypeOK
  <2>2. GroupExists(s)
    BY <1>13 DEF Fork, KidsExit, KidsDie, GroupExists, Unreaped
  <2>3. \A t \in Sandboxes : GroupExists(t)' => GroupExists(t)
    BY <2>1, <2>2 DEF GroupExists, Unreaped
  <2>4. PidInv'
    BY <1>0, <2>1, <2>3, PidInvKept DEF Rest
  <2>5. SpawnInv'
    BY <1>0, <2>1, <2>2 DEF Rest, SpawnInv, GroupExists, Unreaped
  <2>6. StatusInv' /\ FireInv' /\ TimeoutReported' /\ NoZombieLeft'
    BY <1>0, <2>1 DEF Rest, StatusInv, FireInv, TimeoutReported, NoZombieLeft
  <2> QED
    BY <2>4, <2>5, <2>6 DEF Rest
<1>14. ASSUME NEW p \in Pids, StrangerStart(p) \/ StrangerExit(p) PROVE Rest'
  BY <1>0, <1>14
  DEF StrangerStart, StrangerExit, Rest, SpawnInv, PidInv, StatusInv, FireInv,
      TimeoutReported, NoZombieLeft, GroupExists, Unreaped
<1>15. CASE UNCHANGED vars
  BY <1>0, <1>15
  DEF vars, Rest, SpawnInv, PidInv, StatusInv, FireInv, TimeoutReported,
      NoZombieLeft, GroupExists, Unreaped
<1> QED
  BY <1>5, <1>6, <1>7, <1>8, <1>9, <1>10, <1>11, <1>12, <1>13, <1>14, <1>15
  DEF Next, Owner, Harness, Die, Finished, Places

-----------------------------------------------------------------------------

\* The invariant holds in every reachable state, for every number of handles
\* and pids and every mix of setups.
THEOREM Invariance == Spec => []IInv
<1>1. Init => IInv
  BY InitType, InitRest DEF IInv, Rest
<1>2. IInv /\ [Next]_vars => IInv'
  BY NextType, NextRest DEF IInv, Rest
<1> QED
  BY <1>1, <1>2, PTL DEF Spec

\* Every variable keeps its type.
THEOREM TypeCorrect == Spec => []TypeOK
<1>1. IInv => TypeOK
  BY DEF IInv
<1> QED
  BY <1>1, Invariance, PTL

\* A timeout that killed the child is never missing from killed_by_timeout
\* after a wait that succeeds (mod.rs:458-462, builder.rs:661-669).
THEOREM TimeoutIsReported == Spec => []TimeoutReported
<1>1. IInv => TimeoutReported
  BY DEF IInv
<1> QED
  BY <1>1, Invariance, PTL

\* kill, drop and a failing spawn reap the child, whoever else waits for it and
\* however pids are reused (mod.rs:84-87, 370-383, 507-515).
THEOREM NoZombieIsLeft == Spec => []NoZombieLeft
<1>1. IInv => NoZombieLeft
  BY DEF IInv
<1> QED
  BY <1>1, Invariance, PTL
=============================================================================
