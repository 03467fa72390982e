-------------------- MODULE SandboxedProcessCalls_proofs --------------------
(***************************************************************************)
(* What the calls of the owners and the watchdogs guarantee, for every     *)
(* number of handles and pids and every host:                              *)
(*   - after a call has returned the watchdog stays quiet, and nothing in  *)
(*     the cgroup goes on running if the kernel has cgroup.kill;           *)
(*   - until a watchdog has to signal by number, nobody but the owner      *)
(*     reaps the child, so no wait loses its exit status;                  *)
(*   - when and how a signal reaches a process of another handle or        *)
(*     program: only once the handle's own processes are gone, and until a *)
(*     watchdog signals by number only through the name of a directory;    *)
(*   - kill and drop wait only for a child that has been signalled;        *)
(*   - a timeout hits all that it can reach, and nobody is left waiting on *)
(*     a running child with the timeout disarmed.                          *)
(***************************************************************************)
EXTENDS SandboxedProcess_proofs

-----------------------------------------------------------------------------
(* What keeps the parts of CallInv *)

\* A handle keeps its pid, its cgroup, what its spawn has met and that it has fired.
LEMMA HandlesKeep ==
  ASSUME IInv, [Next]_vars
  PROVE  /\ setup' = setup
         /\ \A t \in Sandboxes : pid[t] # NoPid => pid'[t] = pid[t]
         /\ \A t \in Sandboxes : cgroup[t] => cgroup'[t]
         /\ \A t \in Sandboxes : timedOut[t] => timedOut'[t]
<1> USE DEF kernel, proc, grip, marks, handle, history
<1> DEFINE Kept == UNCHANGED <<pid, setup, cgroup, timedOut>>
<1>0. TypeOK /\ SpawnInv
  BY DEF IInv
<1>1. ASSUME NEW s \in Sandboxes, NEW p \in Pids, SpawnFork(s, p)
      PROVE  /\ UNCHANGED <<setup, cgroup, timedOut>>
             /\ \A t \in Sandboxes : pid[t] # NoPid => pid'[t] = pid[t]
  BY <1>0, <1>1 DEF SpawnFork, Goto, SpawnInv, TypeOK
<1>2. ASSUME NEW s \in Sandboxes, SpawnAttach(s)
      PROVE  UNCHANGED <<pid, setup, timedOut>> /\ \A t \in Sandboxes : cgroup[t] => cgroup'[t]
  BY <1>0, <1>2 DEF SpawnAttach, TypeOK
<1>3. ASSUME NEW s \in Sandboxes, Call(s) \/ IOData(s) \/ IOClosed(s) PROVE Kept
  BY <1>3 DEF Call, IOBegin, IsAlive, CollectFrame, WaitBegin, KillBegin, DropBegin,
              IOData, IOClosed, Step
<1>4. ASSUME NEW s \in Sandboxes, SpawnStep(s), ~SpawnAttach(s) PROVE Kept
  BY <1>4 DEF SpawnStep, SpawnCgroupNew, SpawnNoCgroup, SpawnAttachFails, SpawnWatchdog,
              AbortKill, AbortWait, AbortDrop, Step, SignalFrame, CollectFrame
<1>5. ASSUME NEW s \in Sandboxes, WaitStep(s) \/ KillStep(s) \/ DropStep(s) PROVE Kept
  BY <1>5
  DEF WaitStep, WaitReap, WaitFails, WaitCancel, WaitLoad,
      KillStep, KillCancel, KillCgroup, KillTryDone, KillTryOn, KillSignal, KillWait,
      DropStep, DropCancel, DropTryDone, DropTryKill, DropFields,
      Step, Cancel, SignalFrame, CollectFrame
<1>6. ASSUME NEW s \in Sandboxes, Watchdog(s)
      PROVE  UNCHANGED <<pid, setup, cgroup>> /\ \A t \in Sandboxes : timedOut[t] => timedOut'[t]
  BY <1>0, <1>6 DEF Watchdog, WdCancelled, WdTimeout, WdStore, WdCgroup, WdKillPidfd,
                    WdKillGroup, WdReap, WdStep, SignalFrame, TypeOK
<1>7. ASSUME NEW s \in Sandboxes, Harness(s) \/ Die(s) PROVE Kept
  BY <1>7 DEF Harness, Die, LeaderExit, LeaderDie, Fork, KidsExit, KidsDie
<1>8. ASSUME NEW p \in Pids, StrangerStart(p) \/ StrangerExit(p) PROVE Kept
  BY <1>8 DEF StrangerStart, StrangerExit
<1>9. CASE UNCHANGED vars
  BY <1>9 DEF vars
<1> QED
  BY <1>1, <1>2, <1>3, <1>4, <1>5, <1>6, <1>7, <1>8, <1>9 DEF Next, Owner, Finished

\* A signal starts nothing and revives nothing.
LEMMA SigKillStartsNothing ==
  ASSUME TypeOK, NEW s \in Sandboxes, NEW role \in {"owner", "watchdog"},
         NEW L, NEW K, NEW X, SigKill(s, role, L, K, X) \/ NoSignal,
         NEW t \in Sandboxes
  PROVE  /\ leader'[t] = "running" => leader[t] = "running"
         /\ leader'[t] \in {"running", "dying"} => leader[t] \in {"running", "dying"}
         /\ \A x \in Places : /\ kids'[t][x] = "live" => kids[t][x] = "live"
                              /\ kids'[t][x] # "none" => kids[t][x] # "none"
<1>1. CASE NoSignal
  BY <1>1 DEF NoSignal, proc
<1>2. CASE SigKill(s, role, L, K, X)
  <2>1. /\ leader'[t] = "running" => leader[t] = "running"
        /\ leader'[t] \in {"running", "dying"} => leader[t] \in {"running", "dying"}
    BY <1>2 DEF SigKill
  <2>2. ASSUME NEW x \in Places
        PROVE  /\ kids'[t][x] = "live" => kids[t][x] = "live"
               /\ kids'[t][x] # "none" => kids[t][x] # "none"
    BY <1>2 DEF SigKill
  <2> QED
    BY <2>1, <2>2
<1> QED
  BY <1>1, <1>2

\* The handles in which a call has closed the latch.
Closing(s) ==
  \/ waited[s] = "ok" \/ killed[s]
  \/ pc[s] \in {"wait_load", "kill_cgroup", "kill_try", "kill_signal", "kill_wait",
                "drop_try", "drop_fields", "dropped"}

\* The handles whose kill() is past cgroup.kill.
Swept(s) == killed[s] \/ pc[s] \in {"kill_try", "kill_signal", "kill_wait"}

LEMMA LatchKept ==
  ASSUME LatchInv,
         \A t \in Sandboxes : (latch[t] => latch'[t]) /\ (Closing(t)' => Closing(t) \/ latch'[t])
  PROVE  LatchInv'
  BY DEF LatchInv, Closing

LEMMA SweepKept ==
  ASSUME SweepInv, cgroup' = cgroup, setup' = setup,
         \A t \in Sandboxes : /\ Swept(t)' => Swept(t)
                              /\ leader'[t] = "running" => leader[t] = "running"
                              /\ kids'[t]["in"] = "live" => kids[t]["in"] = "live"
  PROVE  SweepInv'
  BY DEF SweepInv, Swept, Sweepable

LEMMA DirKept ==
  ASSUME DirInv, pid' = pid, cgroup' = cgroup, dirs \subseteq dirs',
         \A t \in Sandboxes :
           /\ leader'[t] \in {"running", "dying"} => leader[t] \in {"running", "dying"}
           /\ kids'[t]["in"] # "none" => \/ kids[t]["in"] # "none"
                                         \/ leader[t] \in {"running", "dying"}
  PROVE  DirInv'
  BY DEF DirInv

\* A directory that some handle's process still runs in is not removed.
LEMMA RemoveDirKeeps ==
  ASSUME DirInv, NEW s \in Sandboxes, RemoveDir(s), UNCHANGED <<pid, cgroup, leader, kids>>
  PROVE  DirInv'
  BY DEF DirInv, RemoveDir, AtPid

\* The directory is there if anything runs in it, so cgroup.kill, where the kernel
\* has it, ends it all.
LEMMA CgroupKillSweeps ==
  ASSUME TypeOK, DirInv, NEW s \in Sandboxes, NEW role \in {"owner", "watchdog"},
         Sweepable(s), KillCgroupDir(s, role)
  PROVE  leader'[s] # "running" /\ kids'[s]["in"] # "live"
<1>0. cgroup[s] /\ setup[s].cgkill
  BY DEF Sweepable
<1>1. CASE pid[s] \in dirs
  <2> DEFINE L == {t \in AtPid(pid[s]) : cgroup[t]}
  <2>1. s \in L /\ <<s, "in">> \in L \X {"in"} /\ "in" \in Places
    BY <1>0 DEF AtPid, Places
  <2>2. SigKill(s, role, L, L \X {"in"}, {})
    BY <1>0, <1>1 DEF KillCgroupDir
  <2> HIDE DEF L
  <2>3. leader'[s] # "running"
    BY <2>1, <2>2 DEF SigKill
  <2>4. kids'[s]["in"] # "live"
    BY <2>1, <2>2 DEF SigKill
  <2> QED
    BY <2>3, <2>4
<1>2. CASE pid[s] \notin dirs
  BY <1>0, <1>2 DEF KillCgroupDir, NoSignal, proc, DirInv
<1> QED
  BY <1>1, <1>2

LEMMA InitCall == Init => CallInv
  BY DEF Init, CallInv, FreshInv, LatchInv, DirInv, SweepInv, Sweepable, Spawning, SpawnPC

LEMMA NextFresh == IInv /\ FreshInv /\ [Next]_vars => FreshInv'
<1> SUFFICES ASSUME IInv, FreshInv, [Next]_vars PROVE FreshInv'
  OBVIOUS
<1> USE DEF kernel, proc, grip, marks, handle, history, Goto, Spawning, SpawnPC, FreshInv
<1>0. TypeOK
  BY DEF IInv
<1>1. ASSUME NEW s \in Sandboxes, NEW p \in Pids, SpawnFork(s, p) PROVE FreshInv'
  BY <1>0, <1>1 DEF SpawnFork, TypeOK
<1>2. ASSUME NEW s \in Sandboxes, Call(s) \/ IOData(s) \/ IOClosed(s) PROVE FreshInv'
  <2>1. CASE IsAlive(s)
    BY <1>0, <2>1 DEF IsAlive, CollectFrame, Collect, TypeOK
  <2>2. CASE KillBegin(s)
    BY <1>0, <2>2 DEF KillBegin, TypeOK
  <2>3. ASSUME NEW from, NEW to \in {"idle", "io", "wait", "drop_cancel"}, Step(s, from, to)
        PROVE FreshInv'
    BY <1>0, <2>3 DEF Step, TypeOK
  <2> QED
    BY <1>2, <2>1, <2>2, <2>3 DEF Call, IOBegin, WaitBegin, DropBegin, IOData, IOClosed
<1>3. ASSUME NEW s \in Sandboxes, SpawnStep(s) PROVE FreshInv'
  <2>1. CASE SpawnCgroupNew(s) \/ SpawnNoCgroup(s) \/ SpawnAttach(s) \/ SpawnAttachFails(s)
    BY <1>0, <2>1
    DEF SpawnCgroupNew, SpawnNoCgroup, SpawnAttach, SpawnAttachFails, Step, TypeOK
  <2>2. CASE SpawnWatchdog(s)
    BY <1>0, <2>2 DEF SpawnWatchdog, TypeOK
  <2>3. CASE AbortKill(s)
    BY <1>0, <2>3 DEF AbortKill, SignalFrame, TypeOK
  <2>4. CASE AbortWait(s)
    BY <1>0, <2>4 DEF AbortWait, Await, CollectFrame, Collect, TypeOK
  <2>5. CASE AbortDrop(s)
    BY <1>0, <2>5 DEF AbortDrop, TypeOK
  <2> QED
    BY <1>3, <2>1, <2>2, <2>3, <2>4, <2>5 DEF SpawnStep
<1>4. ASSUME NEW s \in Sandboxes, WaitStep(s) PROVE FreshInv'
  BY <1>0, <1>4 DEF WaitStep, WaitReap, WaitFails, WaitCancel, Cancel, WaitLoad,
                    CollectFrame, Collect, TypeOK
<1>5. ASSUME NEW s \in Sandboxes, KillStep(s) PROVE FreshInv'
  <2>1. CASE KillCancel(s) \/ KillCgroup(s) \/ KillTryOn(s) \/ KillSignal(s)
    BY <1>0, <2>1
    DEF KillCancel, Cancel, KillCgroup, KillTryOn, Step, KillSignal, SignalFrame, TypeOK
  <2>2. CASE KillTryDone(s) \/ KillWait(s)
    <3>1. pc[s] \notin SpawnPC /\ pc'[s] \notin SpawnPC
      BY <1>0, <2>2 DEF KillTryDone, KillWait, TypeOK
    <3>2. \A t \in Sandboxes : t # s => /\ pc'[t] = pc[t] /\ killed'[t] = killed[t]
                                         /\ cached'[t] = cached[t]
      BY <1>0, <2>2 DEF KillTryDone, KillWait, Await, Collect, KillReturn, TypeOK
    <3>3. UNCHANGED <<setup, cgroup, waited, wd>>
      BY <2>2 DEF KillTryDone, KillWait, CollectFrame
    <3> QED
      BY <3>1, <3>2, <3>3
  <2> QED
    BY <1>5, <2>1, <2>2 DEF KillStep
<1>6. ASSUME NEW s \in Sandboxes, DropStep(s) PROVE FreshInv'
  BY <1>0, <1>6
  DEF DropStep, DropCancel, Cancel, DropTryDone, DropTryKill, DropFields,
      CollectFrame, Collect, TypeOK
<1>7. ASSUME NEW s \in Sandboxes, Watchdog(s) PROVE FreshInv'
  BY <1>0, <1>7
  DEF Watchdog, WdCancelled, WdTimeout, WdStore, WdCgroup, WdKillPidfd, WdKillGroup, WdReap,
      WdStep, WdGoto, SignalFrame, TypeOK
<1>8. ASSUME NEW s \in Sandboxes, Harness(s) \/ Die(s) PROVE FreshInv'
  BY <1>8 DEF Harness, Die, LeaderExit, LeaderDie, Fork, KidsExit, KidsDie
<1>9. ASSUME NEW p \in Pids, StrangerStart(p) \/ StrangerExit(p) PROVE FreshInv'
  BY <1>9 DEF StrangerStart, StrangerExit
<1>10. CASE UNCHANGED vars
  BY <1>10 DEF vars
<1> QED
  BY <1>1, <1>2, <1>3, <1>4, <1>5, <1>6, <1>7, <1>8, <1>9, <1>10
  DEF Next, Owner, Finished

LEMMA NextLatch == IInv /\ FreshInv /\ LatchInv /\ [Next]_vars => LatchInv'
<1> SUFFICES ASSUME IInv, FreshInv, LatchInv, [Next]_vars PROVE LatchInv'
  OBVIOUS
<1> USE DEF kernel, proc, grip, marks, handle, history, Goto, LatchInv
<1>0. TypeOK
  BY DEF IInv
<1>1. ASSUME NEW s \in Sandboxes, NEW p \in Pids, SpawnFork(s, p) PROVE LatchInv'
  BY <1>0, <1>1 DEF SpawnFork, TypeOK
<1>2. ASSUME NEW s \in Sandboxes, Call(s) \/ IOData(s) \/ IOClosed(s) PROVE LatchInv'
  BY <1>0, <1>2 DEF Call, IOBegin, IsAlive, CollectFrame, Collect, WaitBegin, KillBegin,
                    DropBegin, IOData, IOClosed, Step, TypeOK
<1>3. ASSUME NEW s \in Sandboxes, SpawnStep(s) PROVE LatchInv'
  BY <1>0, <1>3
  DEF SpawnStep, SpawnCgroupNew, SpawnNoCgroup, SpawnAttach, SpawnAttachFails, Step,
      SpawnWatchdog, AbortKill, SignalFrame, AbortWait, Await, CollectFrame, Collect, AbortDrop, TypeOK
<1>4. ASSUME NEW s \in Sandboxes, WaitStep(s) PROVE LatchInv'
  BY <1>0, <1>4 DEF WaitStep, WaitReap, WaitFails, WaitCancel, Cancel, WaitLoad,
                    CollectFrame, Collect, TypeOK
<1>5. ASSUME NEW s \in Sandboxes, KillStep(s) PROVE LatchInv'
  <2>1. CASE KillCancel(s) \/ KillCgroup(s) \/ KillTryOn(s) \/ KillSignal(s)
    BY <1>0, <2>1
    DEF KillCancel, Cancel, KillCgroup, KillTryOn, Step, KillSignal, SignalFrame, TypeOK
  <2>2. CASE KillTryDone(s) \/ KillWait(s)
    BY <1>0, <2>2 DEF KillTryDone, KillWait, KillReturn, CollectFrame, TypeOK
  <2> QED
    BY <1>5, <2>1, <2>2 DEF KillStep
<1>6. ASSUME NEW s \in Sandboxes, DropStep(s) PROVE LatchInv'
  BY <1>0, <1>6
  DEF DropStep, DropCancel, Cancel, DropTryDone, DropTryKill, DropFields,
      CollectFrame, Collect, TypeOK
<1>7. ASSUME NEW s \in Sandboxes, Watchdog(s) PROVE LatchInv'
  BY <1>7
  DEF Watchdog, WdCancelled, WdTimeout, WdStore, WdCgroup, WdKillPidfd, WdKillGroup, WdReap,
      WdStep, WdGoto, SignalFrame
<1>8. ASSUME NEW s \in Sandboxes, Harness(s) \/ Die(s) PROVE LatchInv'
  BY <1>8 DEF Harness, Die, LeaderExit, LeaderDie, Fork, KidsExit, KidsDie
<1>9. ASSUME NEW p \in Pids, StrangerStart(p) \/ StrangerExit(p) PROVE LatchInv'
  BY <1>9 DEF StrangerStart, StrangerExit
<1>10. CASE UNCHANGED vars
  BY <1>10 DEF vars
<1> QED
  BY <1>1, <1>2, <1>3, <1>4, <1>5, <1>6, <1>7, <1>8, <1>9, <1>10
  DEF Next, Owner, Finished

\* DirInv and SweepInv together: both speak of processes in the cgroup.
LEMMA NextCgroup == IInv /\ FreshInv /\ DirInv /\ SweepInv /\ [Next]_vars => DirInv' /\ SweepInv'
<1> SUFFICES ASSUME IInv, FreshInv, DirInv, SweepInv, [Next]_vars PROVE DirInv' /\ SweepInv'
  OBVIOUS
<1> USE DEF kernel, proc, grip, marks, handle, history, Goto
<1>0. TypeOK /\ SpawnInv /\ PidInv /\ StatusInv /\ setup' = setup
  BY HandlesKeep DEF IInv
<1> DEFINE Quiet(t) ==
             /\ leader'[t] = "running" => leader[t] = "running"
             /\ leader'[t] \in {"running", "dying"} => leader[t] \in {"running", "dying"}
             /\ \A x \in Places : /\ kids'[t][x] = "live" => kids[t][x] = "live"
                                  /\ kids'[t][x] # "none" => kids[t][x] # "none"
\* A step that starts no process, removes no directory and ends no sweep.
<1>1. ASSUME UNCHANGED <<pid, cgroup>>, dirs \subseteq dirs', \A t \in Sandboxes : Quiet(t),
             \A t \in Sandboxes : Swept(t)' => Swept(t)
      PROVE DirInv' /\ SweepInv'
  <2>1. "in" \in Places
    BY DEF Places
  <2> QED
    BY <1>0, <1>1, <2>1, DirKept, SweepKept
<1>2. ASSUME NEW s \in Sandboxes, NEW from, NEW to, Goto(s, from, to), killed' = killed,
             to \notin {"kill_try", "kill_signal", "kill_wait"}
      PROVE \A t \in Sandboxes : Swept(t)' => Swept(t)
  BY <1>0, <1>2 DEF Swept, TypeOK
<1>3. ASSUME UNCHANGED <<leader, kids>> PROVE \A t \in Sandboxes : Quiet(t)
  BY <1>3
<1>4. ASSUME NEW s \in Sandboxes, Collect(s), pc[s] # "unspawned", UNCHANGED kids
      PROVE \A t \in Sandboxes : Quiet(t)
  BY <1>0, <1>4, CollectFacts
<1>5. ASSUME NEW s \in Sandboxes, NEW role \in {"owner", "watchdog"}, NEW L, NEW K, NEW X,
             SigKill(s, role, L, K, X) \/ NoSignal
      PROVE \A t \in Sandboxes : Quiet(t)
  BY <1>0, <1>5, SigKillStartsNothing
<1>6. ASSUME NEW s \in Sandboxes, NEW from, NEW to, Step(s, from, to) \/ Cancel(s, from, to),
             to \notin {"kill_try", "kill_signal", "kill_wait"}
      PROVE DirInv' /\ SweepInv'
  BY <1>1, <1>2, <1>3, <1>6 DEF Step, Cancel
<1>7. ASSUME NEW s \in Sandboxes, NEW p \in Pids, SpawnFork(s, p) PROVE DirInv' /\ SweepInv'
  BY <1>0, <1>7 DEF SpawnFork, FreshInv, Spawning, SpawnPC, DirInv, SweepInv, Sweepable, TypeOK
<1>8. ASSUME NEW s \in Sandboxes, Call(s) \/ IOData(s) \/ IOClosed(s)
      PROVE DirInv' /\ SweepInv'
  <2>1. CASE IsAlive(s)
    BY <1>1, <1>2, <1>4, <2>1 DEF IsAlive, CollectFrame
  <2>2. CASE KillBegin(s)
    BY <1>1, <1>2, <1>3, <2>2 DEF KillBegin
  <2> QED
    BY <1>6, <1>8, <2>1, <2>2 DEF Call, IOBegin, WaitBegin, DropBegin, IOData, IOClosed
<1>9. ASSUME NEW s \in Sandboxes, SpawnStep(s) PROVE DirInv' /\ SweepInv'
  <2>1. CASE SpawnCgroupNew(s)
    BY <1>1, <1>2, <1>3, <2>1 DEF SpawnCgroupNew
  <2>2. CASE SpawnNoCgroup(s) \/ SpawnAttachFails(s)
    BY <1>6, <2>2 DEF SpawnNoCgroup, SpawnAttachFails
  <2>3. CASE SpawnAttach(s)
    BY <1>0, <2>3 DEF SpawnAttach, FreshInv, Spawning, SpawnPC, DirInv, SweepInv, Sweepable, TypeOK
  <2>4. CASE SpawnWatchdog(s)
    BY <1>1, <1>2, <1>3, <2>4 DEF SpawnWatchdog
  <2>5. CASE AbortKill(s)
    BY <1>1, <1>2, <1>5, <2>5 DEF AbortKill, KillByPid, SignalFrame
  <2>6. CASE AbortWait(s)
    BY <1>1, <1>2, <1>3, <1>4, <2>6 DEF AbortWait, Await, CollectFrame
  <2>7. CASE AbortDrop(s)
    <3>1. SweepInv'
      BY <1>0, <1>2, <1>3, <2>7, SweepKept DEF AbortDrop, Places
    <3>2. DirInv'
      <4>1. CASE RemoveDir(s)
        BY <2>7, <4>1, RemoveDirKeeps DEF AbortDrop
      <4>2. CASE UNCHANGED dirs
        BY <2>7, <4>2 DEF AbortDrop, DirInv
      <4> QED
        BY <2>7, <4>1, <4>2 DEF AbortDrop
    <3> QED
      BY <3>1, <3>2
  <2> QED
    BY <1>9, <2>1, <2>2, <2>3, <2>4, <2>5, <2>6, <2>7 DEF SpawnStep
<1>10. ASSUME NEW s \in Sandboxes, WaitStep(s) PROVE DirInv' /\ SweepInv'
  <2>1. CASE WaitReap(s)
    BY <1>1, <1>2, <1>4, <2>1 DEF WaitReap, CollectFrame
  <2>2. CASE WaitFails(s)
    BY <1>1, <1>2, <1>3, <2>2 DEF WaitFails
  <2>3. CASE WaitLoad(s)
    BY <1>1, <1>2, <1>3, <2>3 DEF WaitLoad
  <2> QED
    BY <1>6, <1>10, <2>1, <2>2, <2>3 DEF WaitStep, WaitCancel
<1>11. ASSUME NEW s \in Sandboxes, KillStep(s) PROVE DirInv' /\ SweepInv'
  <2>0. back[s] \in {"idle", "drop_fields"}
    BY <1>0 DEF TypeOK
  <2>1. CASE KillCancel(s)
    BY <1>6, <2>1 DEF KillCancel
  <2>2. CASE KillCgroup(s)
    <3>1. \A t \in Sandboxes : Quiet(t)
      BY <1>5, <2>2 DEF KillCgroup, KillCgroupDir
    <3>2. DirInv'
      BY <2>2, <3>1, DirKept DEF KillCgroup, SignalFrame, Places
    <3>3. Sweepable(s) => leader'[s] # "running" /\ kids'[s]["in"] # "live"
      BY <1>0, <2>2, CgroupKillSweeps DEF KillCgroup
    <3>4. \A t \in Sandboxes : t # s => (Swept(t)' => Swept(t))
      BY <1>0, <2>2 DEF KillCgroup, SignalFrame, Swept, TypeOK
    <3>5. SweepInv'
      BY <2>2, <3>1, <3>3, <3>4
      DEF KillCgroup, SignalFrame, SweepInv, Swept, Sweepable, Places
    <3> QED
      BY <3>2, <3>5
  <2>3. ASSUME NEW from \in {"kill_try", "kill_signal", "kill_wait"}, NEW to, Goto(s, from, to),
               killed' = killed \/ KillReturn(s)
        PROVE \A t \in Sandboxes : Swept(t)' => Swept(t)
    BY <1>0, <2>3 DEF KillReturn, Swept, TypeOK
  <2>4. CASE KillTryDone(s)
    BY <1>1, <1>4, <2>3, <2>4 DEF KillTryDone, CollectFrame
  <2>5. CASE KillTryOn(s)
    BY <1>1, <1>3, <2>3, <2>5 DEF KillTryOn, Step
  <2>6. CASE KillSignal(s)
    BY <1>1, <1>5, <2>3, <2>6 DEF KillSignal, KillByPid, SignalFrame
  <2>7. CASE KillWait(s)
    BY <1>1, <1>3, <1>4, <2>3, <2>7 DEF KillWait, Await, CollectFrame
  <2> QED
    BY <1>11, <2>1, <2>2, <2>4, <2>5, <2>6, <2>7 DEF KillStep
<1>12. ASSUME NEW s \in Sandboxes, DropStep(s) PROVE DirInv' /\ SweepInv'
  <2>1. CASE DropTryDone(s)
    BY <1>1, <1>2, <1>4, <2>1 DEF DropTryDone, CollectFrame
  <2>2. CASE DropTryKill(s)
    BY <1>1, <1>2, <1>3, <2>2 DEF DropTryKill
  <2>3. CASE DropFields(s)
    <3>1. SweepInv'
      BY <1>0, <1>2, <1>3, <2>3, SweepKept DEF DropFields, Places
    <3>2. DirInv'
      <4>1. CASE RemoveDir(s)
        BY <2>3, <4>1, RemoveDirKeeps DEF DropFields
      <4>2. CASE UNCHANGED dirs
        BY <2>3, <4>2 DEF DropFields, DirInv
      <4> QED
        BY <2>3, <4>1, <4>2 DEF DropFields
    <3> QED
      BY <3>1, <3>2
  <2> QED
    BY <1>6, <1>12, <2>1, <2>2, <2>3 DEF DropStep, DropCancel
<1>13. ASSUME NEW s \in Sandboxes, Watchdog(s) PROVE DirInv' /\ SweepInv'
  <2>1. (\A t \in Sandboxes : Quiet(t)) => DirInv' /\ SweepInv'
    BY <1>1, <1>13
    DEF Watchdog, WdCancelled, WdTimeout, WdStore, WdCgroup, WdKillPidfd, WdKillGroup,
        WdReap, WdStep, SignalFrame, Swept
  <2>2. CASE WdCancelled(s) \/ WdTimeout(s) \/ WdStore(s)
    BY <1>3, <2>1, <2>2 DEF WdCancelled, WdTimeout, WdStore, WdStep
  <2>3. CASE WdCgroup(s) \/ WdKillPidfd(s) \/ WdKillGroup(s)
    BY <1>5, <2>1, <2>3 DEF WdCgroup, KillCgroupDir, WdKillPidfd, WdKillGroup, KillGroup
  <2>4. CASE WdReap(s)
    BY <1>0, <2>1, <2>4 DEF WdReap, Reap, Children, AtPid, TypeOK
  <2> QED
    BY <1>13, <2>2, <2>3, <2>4 DEF Watchdog
<1>14. ASSUME NEW s \in Sandboxes, Harness(s) \/ Die(s) PROVE DirInv' /\ SweepInv'
  <2>1. \A t \in Sandboxes : Swept(t)' => Swept(t)
    BY <1>14 DEF Harness, Die, LeaderExit, LeaderDie, Fork, KidsExit, KidsDie, Swept
  <2>2. CASE LeaderExit(s) \/ LeaderDie(s)
    BY <1>0, <1>1, <2>1, <2>2 DEF LeaderExit, LeaderDie, TypeOK
  <2>3. ASSUME NEW x \in Places, KidsExit(s, x) \/ KidsDie(s, x)
        PROVE DirInv' /\ SweepInv'
    <3>1. \A t \in Sandboxes : leader'[t] = leader[t]
      BY <2>3 DEF KidsExit, KidsDie
    <3>2. \A t \in Sandboxes : \A y \in Places :
            kids'[t][y] = "none" \/ kids'[t][y] = kids[t][y]
      BY <1>0, <2>3 DEF KidsExit, KidsDie, TypeOK
    <3> QED
      BY <1>1, <2>1, <2>3, <3>1, <3>2 DEF KidsExit, KidsDie
  <2>4. CASE Fork(s)
    <3>1. /\ leader[s] = "running" /\ UNCHANGED <<pid, leader, dirs, setup, cgroup, pc, killed>>
          /\ \A t \in Sandboxes : t # s => kids'[t] = kids[t]
      BY <1>0, <2>4 DEF Fork, TypeOK
    <3> QED
      BY <3>1 DEF DirInv, SweepInv, Sweepable
  <2> QED
    BY <1>14, <2>2, <2>3, <2>4 DEF Harness, Die
<1>15. ASSUME NEW p \in Pids, StrangerStart(p) \/ StrangerExit(p) PROVE DirInv' /\ SweepInv'
  BY <1>15 DEF StrangerStart, StrangerExit, DirInv, SweepInv, Sweepable
<1>16. CASE UNCHANGED vars
  BY <1>16 DEF vars, DirInv, SweepInv, Sweepable
<1> QED
  BY <1>7, <1>8, <1>9, <1>10, <1>11, <1>12, <1>13, <1>14, <1>15, <1>16
  DEF Next, Owner, Finished

-----------------------------------------------------------------------------

LEMMA CallInvariance == Spec => []CallInv
<1>1. Init => CallInv
  BY InitCall
<1>2. IInv /\ CallInv /\ [Next]_vars => CallInv'
  BY NextFresh, NextLatch, NextCgroup DEF CallInv
<1> QED
  BY <1>1, <1>2, Invariance, PTL DEF Spec

\* A watchdog that has not fired when wait, kill or drop returns finds its
\* latch closed (mod.rs:371, 461, 509).
THEOREM QuietIsKept == Spec => []QuietAfterReturn
<1>1. CallInv => QuietAfterReturn
  BY DEF CallInv, LatchInv, QuietAfterReturn
<1> QED
  BY <1>1, CallInvariance, PTL

\* Where the kernel has cgroup.kill, kill() leaves nothing running in the cgroup,
\* though its directory is named after a pid, other handles remove directories
\* too, and an error of the write would be ignored (mod.rs:370-383,
\* cgroups.rs:95-109).
THEOREM KillIsASweep == Spec => []KillSweepsCgroup
<1>1. CallInv => KillSweepsCgroup
  BY DEF CallInv, SweepInv, KillSweepsCgroup
<1> QED
  BY <1>1, CallInvariance, PTL

-----------------------------------------------------------------------------
(* What a pidfd buys: no watchdog signals by number *)

\* A watchdog that has signalled by number has done so for good.
LEMMA NoGroupKillYet == IInv /\ [Next]_vars /\ NoGroupKill' => NoGroupKill
  BY HandlesKeep DEF NoGroupKill, ByGroup

\* A step that leaves the owner's side of the handle alone.
LEMMA ReapKept ==
  ASSUME ReapInv, UNCHANGED <<cached, pc, waited>>,
         \A t \in Sandboxes : /\ wd'[t] = "reap" => wd[t] = "reap"
                              /\ leader'[t] = "reaped" => leader[t] = "reaped"
  PROVE  ReapInv'
  BY DEF ReapInv

LEMMA NextReap == IInv /\ FreshInv /\ NoGroupKill /\ ReapInv /\ [Next]_vars => ReapInv'
<1> SUFFICES ASSUME IInv, FreshInv, NoGroupKill, ReapInv, [Next]_vars PROVE ReapInv'
  OBVIOUS
<1> USE DEF kernel, proc, grip, marks, handle, history, Goto
<1>0. TypeOK /\ SpawnInv /\ PidInv /\ StatusInv /\ FireInv
  BY DEF IInv
\* The owner moves on within its call.
<1>1. ASSUME NEW s \in Sandboxes, NEW from, NEW to, Goto(s, from, to),
             UNCHANGED <<leader, cached, waited>>, to # "kill_signal",
             \A t \in Sandboxes : wd'[t] # "reap"
      PROVE ReapInv'
  BY <1>0, <1>1 DEF ReapInv, TypeOK
\* It collects a status: the pid names no other child, so it is its own.
<1>2. ASSUME NEW s \in Sandboxes, NEW from, NEW to, Goto(s, from, to), from # "unspawned",
             Collect(s), UNCHANGED <<wd, waited>>, to # "kill_signal", from # "kill_signal"
      PROVE ReapInv'
  <2>1. /\ leader'[s] = "reaped"
        /\ cached' = [cached EXCEPT ![s] = TRUE]
    BY <1>0, <1>2, CollectFacts
  <2>2. \A t \in Sandboxes : t # s => leader'[t] = leader[t]
    <3>1. CASE cached[s]
      BY <1>2, <3>1 DEF Collect
    <3>2. CASE ~cached[s]
      <4>1. PICK t \in Children(pid[s]) :
              leader[t] = "zombie" /\ leader' = [leader EXCEPT ![t] = "reaped"]
        BY <1>2, <3>2 DEF Collect, Reap
      <4>2. leader[s] # "reaped" /\ leader[s] # "none"
        BY <1>0, <1>2, <3>2 DEF ReapInv, SpawnInv
      <4>3. Unreaped(s) /\ Unreaped(t) /\ t \in Sandboxes /\ pid[t] = pid[s]
        BY <1>0, <4>1, <4>2 DEF Unreaped, Children, AtPid, TypeOK, LeaderState
      <4>4. t = s
        BY <1>0, <4>3 DEF PidInv, GroupExists
      <4> QED
        BY <1>0, <4>1, <4>4 DEF TypeOK
    <3> QED
      BY <3>1, <3>2
  <2> QED
    BY <1>0, <1>2, <2>1, <2>2 DEF ReapInv, TypeOK
\* A signal reaps nobody.
<1>3. ASSUME NEW s \in Sandboxes, NEW role \in {"owner", "watchdog"}, NEW L, NEW K, NEW X,
             SigKill(s, role, L, K, X) \/ NoSignal
      PROVE \A t \in Sandboxes : leader'[t] = "reaped" => leader[t] = "reaped"
  BY <1>0, <1>3, SigKillFacts
<1>4. ASSUME NEW s \in Sandboxes, NEW from, NEW to, Goto(s, from, to),
             KillByPid(s, "owner") \/ KillCgroupDir(s, "owner"), to # "kill_signal",
             UNCHANGED <<wd, SignalFrame>>
      PROVE ReapInv'
  <2>1. \A t \in Sandboxes : leader'[t] = "reaped" => leader[t] = "reaped"
    BY <1>3, <1>4 DEF KillByPid, KillCgroupDir
  <2> QED
    BY <1>0, <1>4, <2>1 DEF ReapInv, SignalFrame, TypeOK
<1>5. ASSUME NEW s \in Sandboxes, NEW p \in Pids, SpawnFork(s, p) PROVE ReapInv'
  BY <1>0, <1>5 DEF SpawnFork, ReapInv, TypeOK
<1>6. ASSUME NEW s \in Sandboxes, Call(s) \/ IOData(s) \/ IOClosed(s) PROVE ReapInv'
  <2>1. CASE IsAlive(s)
    BY <1>2, <2>1 DEF IsAlive, CollectFrame
  <2>2. CASE KillBegin(s)
    BY <1>1, <2>2 DEF KillBegin, ReapInv
  <2>3. ASSUME NEW from, NEW to, Step(s, from, to), to # "kill_signal" PROVE ReapInv'
    BY <1>1, <2>3 DEF Step, ReapInv
  <2> QED
    BY <1>6, <2>1, <2>2, <2>3 DEF Call, IOBegin, WaitBegin, DropBegin, IOData, IOClosed
<1>7. ASSUME NEW s \in Sandboxes, SpawnStep(s) PROVE ReapInv'
  <2>1. CASE SpawnCgroupNew(s) \/ SpawnNoCgroup(s) \/ SpawnAttach(s) \/ SpawnAttachFails(s)
             \/ AbortDrop(s)
    BY <1>1, <2>1
    DEF SpawnCgroupNew, SpawnNoCgroup, SpawnAttach, SpawnAttachFails, AbortDrop, Step, ReapInv
  <2>2. CASE SpawnWatchdog(s)
    <3>1. \A t \in Sandboxes : wd'[t] # "reap"
      BY <1>0, <2>2 DEF SpawnWatchdog, ReapInv, TypeOK
    <3> QED
      BY <1>1, <2>2, <3>1 DEF SpawnWatchdog
  <2>3. CASE AbortKill(s)
    BY <1>4, <2>3 DEF AbortKill
  <2>4. CASE AbortWait(s)
    <3>1. CASE Collect(s)
      BY <1>2, <2>4, <3>1 DEF AbortWait, CollectFrame
    <3>2. CASE UNCHANGED <<leader, cached>>
      BY <1>1, <2>4, <3>2 DEF AbortWait, CollectFrame, ReapInv
    <3> QED
      BY <2>4, <3>1, <3>2 DEF AbortWait, Await
  <2> QED
    BY <1>7, <2>1, <2>2, <2>3, <2>4 DEF SpawnStep
<1>8. ASSUME NEW s \in Sandboxes, WaitStep(s) PROVE ReapInv'
  <2>1. CASE WaitReap(s)
    BY <1>2, <2>1 DEF WaitReap, CollectFrame
  \* The child is its own as long as it is not reaped: ECHILD is impossible.
  <2>2. ~WaitFails(s)
    <3>1. ASSUME WaitFails(s) PROVE s \in Children(pid[s])
      BY <1>0, <3>1
      DEF WaitFails, ReapInv, Children, AtPid, Unreaped, SpawnInv, TypeOK, LeaderState
    <3> QED
      BY <3>1 DEF WaitFails
  <2>3. CASE WaitCancel(s)
    BY <1>1, <2>3 DEF WaitCancel, Cancel, ReapInv
  <2>4. CASE WaitLoad(s)
    BY <1>0, <2>4 DEF WaitLoad, ReapInv, TypeOK
  <2> QED
    BY <1>8, <2>1, <2>2, <2>3, <2>4 DEF WaitStep
<1>9. ASSUME NEW s \in Sandboxes, KillStep(s) PROVE ReapInv'
  <2>0. back[s] \in {"idle", "drop_fields"}
    BY <1>0 DEF TypeOK
  <2>1. CASE KillCancel(s)
    BY <1>1, <2>1 DEF KillCancel, Cancel, ReapInv
  <2>2. CASE KillCgroup(s)
    BY <1>4, <2>2 DEF KillCgroup
  <2>3. CASE KillTryDone(s)
    BY <1>2, <2>0, <2>3 DEF KillTryDone, CollectFrame
  <2>4. CASE KillTryOn(s)
    BY <1>0, <2>4 DEF KillTryOn, Step, NoStatus, ReapInv, TypeOK
  <2>5. CASE KillSignal(s)
    BY <1>4, <2>5 DEF KillSignal
  <2>6. CASE KillWait(s)
    BY <1>1, <1>2, <2>0, <2>6 DEF KillWait, Await, CollectFrame, ReapInv
  <2> QED
    BY <1>9, <2>1, <2>2, <2>3, <2>4, <2>5, <2>6 DEF KillStep
<1>10. ASSUME NEW s \in Sandboxes, DropStep(s) PROVE ReapInv'
  <2>1. CASE DropCancel(s) \/ DropTryKill(s) \/ DropFields(s)
    BY <1>1, <2>1 DEF DropCancel, Cancel, DropTryKill, DropFields, ReapInv
  <2>2. CASE DropTryDone(s)
    BY <1>2, <2>2 DEF DropTryDone, CollectFrame
  <2> QED
    BY <1>10, <2>1, <2>2 DEF DropStep
\* kill_process, and with it the waitpid of the watchdog, is never reached.
<1>11. ASSUME NEW s \in Sandboxes, Watchdog(s) PROVE ReapInv'
  <2>1. WdKillGroup(s) => ByGroup(s) /\ timedOut[s]
    BY <1>0 DEF WdKillGroup, WdGoto, ByGroup, FireInv
  <2>2. ~WdKillGroup(s) /\ ~WdReap(s)
    BY <2>1 DEF WdReap, WdGoto, NoGroupKill, ReapInv
  <2>3. CASE WdCancelled(s) \/ WdTimeout(s) \/ WdStore(s)
    BY <1>0, <2>3, ReapKept DEF WdCancelled, WdTimeout, WdStore, WdStep, WdGoto, TypeOK
  <2>4. CASE WdCgroup(s) \/ WdKillPidfd(s)
    <3>1. \A t \in Sandboxes : leader'[t] = "reaped" => leader[t] = "reaped"
      BY <1>3, <2>4 DEF WdCgroup, KillCgroupDir, WdKillPidfd
    <3>2. \A t \in Sandboxes : wd'[t] = "reap" => wd[t] = "reap"
      BY <1>0, <2>4 DEF WdCgroup, WdKillPidfd, WdGoto, TypeOK
    <3> QED
      BY <2>4, <3>1, <3>2, ReapKept DEF WdCgroup, WdKillPidfd, SignalFrame
  <2> QED
    BY <1>11, <2>2, <2>3, <2>4 DEF Watchdog
<1>12. ASSUME NEW s \in Sandboxes, Harness(s) \/ Die(s) PROVE ReapInv'
  <2>1. \A t \in Sandboxes : leader'[t] = "reaped" => leader[t] = "reaped"
    BY <1>0, <1>12 DEF Harness, Die, LeaderExit, LeaderDie, Fork, KidsExit, KidsDie, TypeOK
  <2> QED
    BY <1>12, <2>1, ReapKept
    DEF Harness, Die, LeaderExit, LeaderDie, Fork, KidsExit, KidsDie
<1>13. ASSUME NEW p \in Pids, StrangerStart(p) \/ StrangerExit(p) PROVE ReapInv'
  BY <1>13, ReapKept DEF StrangerStart, StrangerExit
<1>14. CASE UNCHANGED vars
  BY <1>14, ReapKept DEF vars
<1> QED
  BY <1>5, <1>6, <1>7, <1>8, <1>9, <1>10, <1>11, <1>12, <1>13, <1>14
  DEF Next, Owner, Finished

LEMMA InitReap == Init => ReapInv
  BY DEF Init, ReapInv

\* As long as no watchdog has signalled by number nobody but the owner reaps.
LEMMA ReapInvariance == Spec => [](NoGroupKill => ReapInv)
<1>1. /\ IInv /\ CallInv /\ (NoGroupKill => ReapInv) /\ [Next]_vars
      => (NoGroupKill => ReapInv)'
  BY NextReap, NoGroupKillYet DEF CallInv
<1>2. Init => (NoGroupKill => ReapInv)
  BY InitReap
<1> QED
  BY <1>1, <1>2, Invariance, CallInvariance, PTL DEF Spec

\* On every host the exit status is lost to nobody but a watchdog that has signalled
\* by number, whatever the other handles do (mod.rs:458, kill.rs:34-42).
THEOREM StatusIsLostByGroup == Spec => []StatusOnlyByGroup
<1>1. (NoGroupKill => ReapInv) => StatusOnlyByGroup
  BY DEF ReapInv, StatusOnlyByGroup, StatusKept
<1> QED
  BY <1>1, ReapInvariance, PTL

\* A host where every pidfd works has no such watchdog.
LEMMA PidfdsSuffice == ASSUME PidfdWorks PROVE IInv => NoGroupKill
  BY PidfdWorks DEF PidfdWorks, NoGroupKill, ByGroup, IInv, TypeOK

\* So where every pidfd works, a wait always gets the exit status: neither the
\* watchdog nor another handle takes it (mod.rs:458, kill.rs:34-42).
THEOREM StatusIsKept == ASSUME PidfdWorks PROVE Spec => []StatusKept
<1>1. IInv => NoGroupKill
  BY PidfdWorks, PidfdsSuffice
<1>2. NoGroupKill /\ StatusOnlyByGroup => StatusKept
  BY DEF StatusOnlyByGroup
<1> QED
  BY <1>1, <1>2, Invariance, StatusIsLostByGroup, PTL

-----------------------------------------------------------------------------

\* Only a spawn makes a process group and brings its leader to life, and only a
\* leader that runs starts a process.
Ages(t) == /\ GroupExists(t)' => GroupExists(t)
           /\ leader'[t] = "running" => leader[t] = "running"
           /\ leader[t] = "reaped" => leader'[t] = "reaped"
           /\ \A x \in Places :
                kids'[t][x] = "live" => kids[t][x] = "live" \/ leader[t] = "running"

LEMMA OnlySpawnsStart ==
  ASSUME IInv, [Next]_vars, ~\E s \in Sandboxes, p \in Pids : SpawnFork(s, p)
  PROVE  pid' = pid /\ \A t \in Sandboxes : Ages(t)
<1> USE DEF kernel, proc, grip, marks, handle, history, Goto
<1> DEFINE Shrink == pid' = pid /\ \A t \in Sandboxes : Ages(t)
<1>0. TypeOK /\ SpawnInv /\ PidInv /\ StatusInv
  BY DEF IInv
<1>1. ASSUME UNCHANGED <<pid, leader, kids>> PROVE Shrink
  BY <1>1 DEF Ages, GroupExists, Unreaped
<1>2. ASSUME NEW s \in Sandboxes, pc[s] # "unspawned", Collect(s), UNCHANGED <<pid, kids>>
      PROVE Shrink
  BY <1>0, <1>2, CollectFacts DEF Ages, GroupExists, Unreaped
<1>3. ASSUME NEW s \in Sandboxes, NEW role \in {"owner", "watchdog"}, NEW L, NEW K, NEW X,
             SigKill(s, role, L, K, X) \/ NoSignal, UNCHANGED pid
      PROVE Shrink
  <2>1. \A t \in Sandboxes : /\ leader'[t] # leader[t] => leader[t] = "running"
                             /\ \A x \in Places : kids'[t][x] = "none" <=> kids[t][x] = "none"
    BY <1>0, <1>3, SigKillFacts
  <2>2. \A t \in Sandboxes :
          \A x \in Places : kids'[t][x] = "live" => kids[t][x] = "live"
    BY <1>0, <1>3, SigKillStartsNothing
  <2>3. \A t \in Sandboxes : GroupExists(t)' => GroupExists(t)
    BY <2>1 DEF GroupExists, Unreaped
  <2> QED
    BY <1>3, <2>1, <2>2, <2>3 DEF Ages
<1>4. ASSUME NEW s \in Sandboxes, Call(s) \/ IOData(s) \/ IOClosed(s) PROVE Shrink
  <2>1. CASE IsAlive(s)
    BY <1>2, <2>1 DEF IsAlive, CollectFrame
  <2> QED
    BY <1>1, <1>4, <2>1
    DEF Call, IOBegin, WaitBegin, KillBegin, DropBegin, IOData, IOClosed, Step
<1>5. ASSUME NEW s \in Sandboxes, SpawnStep(s) PROVE Shrink
  <2>1. CASE AbortKill(s)
    BY <1>3, <2>1 DEF AbortKill, KillByPid, SignalFrame
  <2>2. CASE AbortWait(s)
    BY <1>1, <1>2, <2>2 DEF AbortWait, Await, CollectFrame
  <2> QED
    BY <1>1, <1>5, <2>1, <2>2
    DEF SpawnStep, SpawnCgroupNew, SpawnNoCgroup, SpawnAttach, SpawnAttachFails,
        SpawnWatchdog, AbortDrop, Step
<1>6. ASSUME NEW s \in Sandboxes, WaitStep(s) PROVE Shrink
  <2>1. CASE WaitReap(s)
    BY <1>2, <2>1 DEF WaitReap, CollectFrame
  <2> QED
    BY <1>1, <1>6, <2>1 DEF WaitStep, WaitFails, WaitCancel, Cancel, WaitLoad
<1>7. ASSUME NEW s \in Sandboxes, KillStep(s) PROVE Shrink
  <2>1. CASE KillCgroup(s)
    BY <1>3, <2>1 DEF KillCgroup, KillCgroupDir, SignalFrame
  <2>2. CASE KillSignal(s)
    BY <1>3, <2>2 DEF KillSignal, KillByPid, SignalFrame
  <2>3. CASE KillTryDone(s) \/ KillWait(s)
    BY <1>1, <1>2, <2>3 DEF KillTryDone, KillWait, Await, CollectFrame
  <2> QED
    BY <1>1, <1>7, <2>1, <2>2, <2>3 DEF KillStep, KillCancel, Cancel, KillTryOn, Step
<1>8. ASSUME NEW s \in Sandboxes, DropStep(s) PROVE Shrink
  <2>1. CASE DropTryDone(s)
    BY <1>2, <2>1 DEF DropTryDone, CollectFrame
  <2> QED
    BY <1>1, <1>8, <2>1 DEF DropStep, DropCancel, Cancel, DropTryKill, DropFields
<1>9. ASSUME NEW s \in Sandboxes, Watchdog(s) PROVE Shrink
  <2>1. CASE WdCgroup(s) \/ WdKillPidfd(s) \/ WdKillGroup(s)
    BY <1>3, <2>1 DEF WdCgroup, KillCgroupDir, WdKillPidfd, WdKillGroup, KillGroup, SignalFrame
  <2>2. CASE WdReap(s)
    BY <1>0, <2>2 DEF WdReap, Reap, Children, AtPid, Ages, GroupExists, Unreaped, TypeOK
  <2> QED
    BY <1>1, <1>9, <2>1, <2>2 DEF Watchdog, WdCancelled, WdTimeout, WdStore, WdStep
<1>10. ASSUME NEW s \in Sandboxes, LeaderExit(s) \/ LeaderDie(s) PROVE Shrink
  BY <1>0, <1>10 DEF LeaderExit, LeaderDie, Ages, GroupExists, Unreaped, TypeOK
<1>11. ASSUME NEW s \in Sandboxes, NEW x \in Places,
              Fork(s) \/ KidsExit(s, x) \/ KidsDie(s, x)
       PROVE Shrink
  <2>1. GroupExists(s)
    BY <1>11 DEF Fork, KidsExit, KidsDie, GroupExists, Unreaped
  <2>2. UNCHANGED <<pid, leader>> /\ \A t \in Sandboxes : t # s => kids'[t] = kids[t]
    BY <1>0, <1>11 DEF Fork, KidsExit, KidsDie, TypeOK
  <2>3. \A y \in Places : kids'[s][y] = "live" => kids[s][y] = "live" \/ leader[s] = "running"
    <3>1. CASE Fork(s)
      BY <3>1 DEF Fork
    <3>2. CASE KidsExit(s, x) \/ KidsDie(s, x)
      <4>1. kids' = [kids EXCEPT ![s][x] = "none"]
        BY <3>2 DEF KidsExit, KidsDie
      <4>2. ASSUME NEW y \in Places PROVE kids'[s][y] = IF y = x THEN "none" ELSE kids[s][y]
        BY <1>0, <4>1 DEF TypeOK
      <4> QED
        BY <4>2
    <3> QED
      BY <1>11, <3>1, <3>2
  <2> QED
    BY <2>1, <2>2, <2>3 DEF Ages, GroupExists, Unreaped
<1>12. ASSUME NEW p \in Pids, StrangerStart(p) \/ StrangerExit(p) PROVE Shrink
  BY <1>1, <1>12 DEF StrangerStart, StrangerExit
<1>13. CASE UNCHANGED vars
  BY <1>1, <1>13 DEF vars
<1> QED
  BY <1>4, <1>5, <1>6, <1>7, <1>8, <1>9, <1>10, <1>11, <1>12, <1>13
  DEF Next, Owner, Harness, Die, Finished, Places

\* Other programs get a pid only from the kernel.
LEMMA StrangersOnlyStart ==
  ASSUME IInv, [Next]_vars
  PROVE  stranger' \subseteq stranger \/ \E p \in Pids : StrangerStart(p)
<1> USE DEF kernel, proc, grip, marks, handle, history, Goto
<1>1. ASSUME NEW s \in Sandboxes, Owner(s) \/ Call(s) \/ IOData(s)
      PROVE stranger' \subseteq stranger
  BY <1>1
  DEF Owner, Call, IOBegin, IsAlive, WaitBegin, KillBegin, DropBegin, IOData, IOClosed,
      SpawnStep, SpawnCgroupNew, SpawnNoCgroup, SpawnAttach, SpawnAttachFails,
      SpawnWatchdog, AbortKill, AbortWait, AbortDrop,
      WaitStep, WaitReap, WaitFails, WaitCancel, WaitLoad,
      KillStep, KillCancel, KillCgroup, KillTryDone, KillTryOn, KillSignal, KillWait,
      DropStep, DropCancel, DropTryDone, DropTryKill, DropFields,
      Step, Cancel, CollectFrame, KillByPid, KillCgroupDir, SigKill, NoSignal
<1>2. ASSUME NEW s \in Sandboxes, Watchdog(s) PROVE stranger' \subseteq stranger
  BY <1>2
  DEF Watchdog, WdCancelled, WdTimeout, WdStore, WdCgroup, WdKillPidfd, WdKillGroup,
      WdReap, WdStep, KillCgroupDir, KillGroup, SigKill, NoSignal
<1>3. ASSUME NEW s \in Sandboxes, Harness(s) \/ Die(s) \/ \E p \in Pids : SpawnFork(s, p)
      PROVE stranger' \subseteq stranger
  BY <1>3 DEF SpawnFork, Harness, Die, LeaderExit, LeaderDie, Fork, KidsExit, KidsDie
<1>4. ASSUME NEW p \in Pids, StrangerExit(p) PROVE stranger' \subseteq stranger
  BY <1>4 DEF StrangerExit
<1>5. CASE UNCHANGED vars
  BY <1>5 DEF vars
<1> QED
  BY <1>1, <1>2, <1>3, <1>4, <1>5 DEF Next, Finished

\* A pid that a group still has is given to no other program.
LEMMA NextStranger == IInv /\ StrangerInv /\ [Next]_vars => StrangerInv'
<1> SUFFICES ASSUME IInv, StrangerInv, [Next]_vars PROVE StrangerInv'
  OBVIOUS
<1>0. TypeOK /\ SpawnInv
  BY DEF IInv
<1>1. ASSUME NEW s \in Sandboxes, NEW p \in Pids, SpawnFork(s, p) PROVE StrangerInv'
  <2>1. p \notin stranger /\ stranger' = stranger /\ pid'[s] = p
    BY <1>0, <1>1 DEF SpawnFork, PidFree, TypeOK
  <2>2. \A t \in Sandboxes : t # s => (GroupExists(t)' <=> GroupExists(t)) /\ pid'[t] = pid[t]
    BY <1>0, <1>1 DEF SpawnFork, GroupExists, Unreaped, TypeOK
  <2> QED
    BY <2>1, <2>2 DEF StrangerInv
<1>2. CASE ~\E s \in Sandboxes, p \in Pids : SpawnFork(s, p)
  <2>1. pid' = pid /\ \A t \in Sandboxes : GroupExists(t)' => GroupExists(t)
    BY <1>2, OnlySpawnsStart DEF Ages
  <2>2. ASSUME NEW p \in Pids, StrangerStart(p) PROVE StrangerInv'
    BY <2>1, <2>2 DEF StrangerStart, StrangerInv, PidFree
  <2>3. CASE stranger' \subseteq stranger
    BY <2>1, <2>3 DEF StrangerInv
  <2> QED
    BY <2>2, <2>3, StrangersOnlyStart
<1> QED
  BY <1>1, <1>2

-----------------------------------------------------------------------------
(* Signals that go astray *)

\* A name, or a pid, that has been used twice stays so.
LEMMA NamesStayUsed == IInv /\ FreshInv /\ [Next]_vars /\ NamesUsedOnce' => NamesUsedOnce
<1> SUFFICES ASSUME IInv, FreshInv, [Next]_vars, NamesUsedOnce' PROVE NamesUsedOnce
  OBVIOUS
<1>1. \A t \in Sandboxes : cgroup[t] => pid[t] # NoPid
  BY DEF IInv, SpawnInv, FreshInv, Spawning
<1> QED
  BY <1>1, HandlesKeep DEF NamesUsedOnce

LEMMA StrayIsASignal ==
  ASSUME [Next]_vars, ~stray, stray'
  PROVE  \E s \in Sandboxes : Signals(s)
<1> USE DEF kernel, proc, grip, marks, handle, history
<1>1. ASSUME NEW s \in Sandboxes,
             Call(s) \/ IOData(s) \/ IOClosed(s) \/ \E p \in Pids : SpawnFork(s, p)
      PROVE  FALSE
  BY <1>1 DEF SpawnFork, Call, IOBegin, IsAlive, WaitBegin, KillBegin, DropBegin, IOData,
              IOClosed, Step
<1>2. ASSUME NEW s \in Sandboxes, SpawnStep(s) PROVE AbortKill(s)
  BY <1>2 DEF SpawnStep, SpawnCgroupNew, SpawnNoCgroup, SpawnAttach, SpawnAttachFails,
              SpawnWatchdog, AbortWait, AbortDrop, Step
<1>3. ASSUME NEW s \in Sandboxes, WaitStep(s) \/ DropStep(s) PROVE FALSE
  BY <1>3 DEF WaitStep, WaitReap, WaitFails, WaitCancel, WaitLoad,
              DropStep, DropCancel, DropTryDone, DropTryKill, DropFields, Cancel
<1>4. ASSUME NEW s \in Sandboxes, KillStep(s) PROVE KillCgroup(s) \/ KillSignal(s)
  BY <1>4 DEF KillStep, KillCancel, KillTryDone, KillTryOn, KillWait, Cancel, Step
<1>5. ASSUME NEW s \in Sandboxes, Watchdog(s)
      PROVE  WdCgroup(s) \/ WdKillPidfd(s) \/ WdKillGroup(s)
  BY <1>5 DEF Watchdog, WdCancelled, WdTimeout, WdStore, WdReap, WdStep
<1>6. ASSUME NEW s \in Sandboxes, Harness(s) \/ Die(s) PROVE FALSE
  BY <1>6 DEF Harness, Die, LeaderExit, LeaderDie, Fork, KidsExit, KidsDie
<1>7. ASSUME NEW p \in Pids, StrangerStart(p) \/ StrangerExit(p) PROVE FALSE
  BY <1>7 DEF StrangerStart, StrangerExit
<1>8. ~UNCHANGED vars
  BY DEF vars
<1> QED
  BY <1>1, <1>2, <1>3, <1>4, <1>5, <1>6, <1>7, <1>8 DEF Next, Owner, Finished, Signals

\* SIGKILL sent to the number of an unreaped child reaches that child alone.
LEMMA OwnPid ==
  ASSUME IInv, StrangerInv, ~stray, NEW s \in Sandboxes, Unreaped(s), KillByPid(s, "owner")
  PROVE  ~stray'
<1>1. pid[s] \notin stranger
  BY DEF StrangerInv, GroupExists
<1>2. \A t \in AtPid(pid[s]) : leader[t] = "running" => t = s
  BY DEF AtPid, IInv, PidInv, GroupExists, Unreaped
<1> QED
  BY <1>1, <1>2 DEF KillByPid, SigKill

\* cgroup.kill in a directory no other sandbox has had reaches this one alone.
LEMMA OwnDirectory ==
  ASSUME NamesUsedOnce, ~stray, NEW s \in Sandboxes, NEW role, KillCgroupDir(s, role)
  PROVE  ~stray'
<1> DEFINE members == {t \in AtPid(pid[s]) : cgroup[t]}
<1>1. CASE cgroup[s] /\ setup[s].cgkill /\ pid[s] \in dirs
  <2>1. \A t \in members : t = s
    BY <1>1 DEF AtPid, NamesUsedOnce
  <2>2. SigKill(s, role, members, members \X {"in"}, {})
    BY <1>1 DEF KillCgroupDir
  <2> HIDE DEF members
  <2>3. \A t \in Sandboxes \ {s}, x \in Places : <<t, x>> \notin members \X {"in"}
    BY <2>1
  <2> QED
    BY <2>1, <2>2, <2>3 DEF SigKill
<1>2. CASE ~(cgroup[s] /\ setup[s].cgkill /\ pid[s] \in dirs)
  BY <1>2 DEF KillCgroupDir, NoSignal
<1> QED
  BY <1>1, <1>2

LEMMA NextStrayByName ==
  /\ IInv /\ FreshInv /\ (NoGroupKill => ReapInv) /\ StrangerInv
  /\ StrayOnlyByName /\ [Next]_vars
  => StrayOnlyByName'
<1> SUFFICES ASSUME IInv, FreshInv, NoGroupKill => ReapInv, StrangerInv, StrayOnlyByName,
                    [Next]_vars, NoGroupKill', NamesUsedOnce', stray'
             PROVE  FALSE
  BY DEF StrayOnlyByName, NoStraySignal
<1>0. TypeOK /\ SpawnInv /\ FireInv
  BY DEF IInv
<1>1. NoGroupKill /\ ReapInv /\ NamesUsedOnce /\ ~stray
  BY NoGroupKillYet, NamesStayUsed DEF StrayOnlyByName, NoStraySignal
<1>2. PICK s \in Sandboxes : Signals(s)
  BY <1>1, StrayIsASignal
\* The number of a child that is not reaped is its own.
<1>3. CASE AbortKill(s) \/ KillSignal(s)
  <2>1. Unreaped(s)
    BY <1>0, <1>1, <1>3
    DEF AbortKill, KillSignal, Goto, FreshInv, Spawning, ReapInv, SpawnInv, Unreaped,
        TypeOK, LeaderState
  <2> QED
    BY <1>1, <1>3, <2>1, OwnPid DEF AbortKill, KillSignal
<1>4. CASE KillCgroup(s) \/ WdCgroup(s)
  BY <1>1, <1>4, OwnDirectory DEF KillCgroup, WdCgroup
\* The pidfd names the watchdog's own child, whatever its pid names by now.
<1>5. CASE WdKillPidfd(s)
  BY <1>1, <1>5 DEF WdKillPidfd, SigKill
<1>6. ~WdKillGroup(s)
  BY <1>0, <1>1 DEF WdKillGroup, WdGoto, NoGroupKill, ByGroup, FireInv
<1> QED
  BY <1>2, <1>3, <1>4, <1>5, <1>6 DEF Signals

\* On every host, until a watchdog has signalled by number, a signal reaches a process
\* of another handle or program only through the name of a cgroup directory that two
\* sandboxes have had, though pids are reused (mod.rs:454-458, cgroups.rs:25,
\* kill.rs:83-106).
THEOREM StrayIsByName == Spec => []StrayOnlyByName
<1>1. IInv /\ StrangerInv /\ [Next]_vars => StrangerInv'
  BY NextStranger
<1>2. /\ IInv /\ CallInv /\ (NoGroupKill => ReapInv) /\ StrangerInv
      /\ StrayOnlyByName /\ [Next]_vars
      => StrayOnlyByName'
  BY NextStrayByName DEF CallInv
<1>3. Init => StrangerInv /\ StrayOnlyByName
  BY DEF Init, StrangerInv, StrayOnlyByName, NoStraySignal
<1> QED
  BY <1>1, <1>2, <1>3, Invariance, CallInvariance, ReapInvariance, PTL DEF Spec

\* So where every pidfd works and no directory is made, none goes astray (mod.rs:457,
\* kill.rs:83-106).
THEOREM NoSignalGoesAstray == ASSUME PidfdWorks, NoCgroups PROVE Spec => []NoStraySignal
<1>1. IInv /\ CallInv => NamesUsedOnce
  BY NoCgroups DEF NoCgroups, NamesUsedOnce, CallInv, FreshInv, IInv, TypeOK
<1>2. IInv => NoGroupKill
  BY PidfdWorks, PidfdsSuffice
<1>3. StrayOnlyByName /\ NoGroupKill /\ NamesUsedOnce => NoStraySignal
  BY DEF StrayOnlyByName
<1> QED
  BY <1>1, <1>2, <1>3, Invariance, CallInvariance, StrayIsByName, PTL

\* While the group of s exists, no other sandbox with its pid has a process left, so
\* that a signal to the pid, the group or the directory reaches s alone.
LEMMA SignalReachesOwn ==
  ASSUME IInv, StrangerInv, NEW s \in Sandboxes, GroupExists(s),
         NEW role, NEW L, NEW K, NEW X, SigKill(s, role, L, K, X),
         \A t \in L : t \in AtPid(pid[s]),
         \A t \in Sandboxes, x \in Places : <<t, x>> \in K => t \in AtPid(pid[s]),
         X \subseteq {pid[s]}
  PROVE  /\ stranger' = stranger
         /\ \A t \in Sandboxes \ {s} :
              leader'[t] = leader[t] /\ \A x \in Places : kids'[t][x] = kids[t][x]
<1>1. stranger' = stranger
  <2>1. pid[s] \notin stranger
    BY DEF StrangerInv
  <2> QED
    BY <2>1 DEF SigKill
<1>2. ASSUME NEW t \in Sandboxes \ {s}
      PROVE  leader'[t] = leader[t] /\ \A x \in Places : kids'[t][x] = kids[t][x]
  <2>1. t \in AtPid(pid[s]) => leader[t] # "running" /\ \A x \in Places : kids[t][x] # "live"
    BY DEF IInv, PidInv, AtPid, GroupExists, Unreaped
  <2>2. leader'[t] = leader[t]
    BY <2>1 DEF SigKill
  <2>3. ASSUME NEW x \in Places PROVE kids'[t][x] = kids[t][x]
    BY <2>1 DEF SigKill
  <2> QED
    BY <2>2, <2>3
<1> QED
  BY <1>1, <1>2

\* With two sandboxes at one pid, strangers and no pidfds: as long as a handle has a
\* process left, its signals hit no other (kill.rs:24-33, mod.rs:381, cgroups.rs:25,
\* builder.rs:663-669).
THEOREM StrayFollowsTheGone == Spec => SignalsHitOwn
<1> DEFINE Alone(s) ==
             /\ stranger' = stranger
             /\ \A t \in Sandboxes \ {s} :
                  leader'[t] = leader[t] /\ \A x \in Places : kids'[t][x] = kids[t][x]
<1>1. IInv /\ StrangerInv /\ [Next]_vars => StrangerInv'
  BY NextStranger
<1>2. ASSUME IInv, StrangerInv, NEW s \in Sandboxes, Signals(s), GroupExists(s)
      PROVE  Alone(s)
  <2>1. CASE AbortKill(s) \/ KillSignal(s)
    <3>1. KillByPid(s, "owner")
      BY <2>1 DEF AbortKill, KillSignal
    <3> QED
      BY <1>2, <3>1, SignalReachesOwn DEF KillByPid
  <2>2. CASE KillCgroup(s) \/ WdCgroup(s)
    <3> DEFINE members == {t \in AtPid(pid[s]) : cgroup[t]}
    <3>1. PICK role \in {"owner", "watchdog"} :
            SigKill(s, role, members, members \X {"in"}, {}) \/ NoSignal
      BY <2>2 DEF KillCgroup, WdCgroup, KillCgroupDir
    <3>2. \A t \in members : t \in AtPid(pid[s])
      OBVIOUS
    <3>3. \A t \in Sandboxes, x \in Places : <<t, x>> \in members \X {"in"} => t \in members
      OBVIOUS
    <3> HIDE DEF members
    <3>4. CASE NoSignal
      BY <3>4 DEF NoSignal, proc
    <3>5. CASE SigKill(s, role, members, members \X {"in"}, {})
      BY <1>2, <3>2, <3>3, <3>5, SignalReachesOwn
    <3> QED
      BY <3>1, <3>4, <3>5
  \* The pidfd names the child of s itself.
  <2>3. CASE WdKillPidfd(s)
    <3>1. SigKill(s, "watchdog", {s}, {}, {}) /\ s \in AtPid(pid[s])
      BY <2>3 DEF WdKillPidfd, AtPid
    <3> QED
      BY <1>2, <3>1, SignalReachesOwn
  <2>4. CASE WdKillGroup(s)
    <3>1. KillGroup(s, "watchdog") \/ NoSignal
      BY <2>4 DEF WdKillGroup
    <3>2. CASE NoSignal
      BY <3>2 DEF NoSignal, proc
    <3>3. CASE KillGroup(s, "watchdog")
      BY <1>2, <3>3, SignalReachesOwn DEF KillGroup
    <3> QED
      BY <3>1, <3>2, <3>3
  <2> QED
    BY <1>2, <2>1, <2>2, <2>3, <2>4 DEF Signals
<1>3. IInv /\ StrangerInv /\ [Next]_vars
      => [\A s \in Sandboxes : Signals(s) /\ GroupExists(s) => Alone(s)]_vars
  BY <1>2
<1>4. Init => StrangerInv
  BY DEF Init, StrangerInv
<1> QED
  BY <1>1, <1>3, <1>4, Invariance, PTL DEF Spec, SignalsHitOwn

-----------------------------------------------------------------------------
(* The waits inside kill and a failing spawn *)

\* SIGKILL sent to its number leaves the child dead or dying.
LEMMA NumberIsHit ==
  ASSUME NEW s \in Sandboxes, NEW role, KillByPid(s, role)
  PROVE  leader'[s] # "running"
<1>1. s \in AtPid(pid[s])
  BY DEF AtPid
<1> QED
  BY <1>1 DEF KillByPid, SigKill

LEMMA NextAwaits == IInv /\ KillAwaitsTheDead /\ [Next]_vars => KillAwaitsTheDead'
<1> SUFFICES ASSUME IInv, KillAwaitsTheDead, [Next]_vars, NEW t \in Sandboxes,
                    pc'[t] \in {"kill_wait", "abort_wait"}
             PROVE  leader'[t] # "running"
  BY DEF KillAwaitsTheDead
<1> USE DEF kernel, proc, grip, marks, handle, history, Goto
<1>0. TypeOK
  BY DEF IInv
<1>1. CASE AbortKill(t) \/ KillSignal(t)
  BY <1>1, NumberIsHit DEF AbortKill, KillSignal
\* No other step leads there.
<1>2. CASE ~(AbortKill(t) \/ KillSignal(t))
  <2>1. pc[t] = pc'[t]
    <3> USE <1>0, <1>2 DEF TypeOK
    <3>1. ASSUME NEW s \in Sandboxes, NEW p \in Pids, SpawnFork(s, p) PROVE pc[t] = pc'[t]
      BY <3>1 DEF SpawnFork
    <3>2. ASSUME NEW s \in Sandboxes, Call(s) \/ IOData(s) \/ IOClosed(s) PROVE pc[t] = pc'[t]
      BY <3>2 DEF Call, IOBegin, IsAlive, WaitBegin, KillBegin, DropBegin, IOData, IOClosed, Step
    <3>3. ASSUME NEW s \in Sandboxes, SpawnStep(s) PROVE pc[t] = pc'[t]
      BY <3>3 DEF SpawnStep, SpawnCgroupNew, SpawnNoCgroup, SpawnAttach, SpawnAttachFails,
                  SpawnWatchdog, AbortKill, AbortWait, AbortDrop, Step
    <3>4. ASSUME NEW s \in Sandboxes, WaitStep(s) PROVE pc[t] = pc'[t]
      BY <3>4 DEF WaitStep, WaitReap, WaitFails, WaitCancel, WaitLoad, Cancel
    <3>5. ASSUME NEW s \in Sandboxes, KillStep(s) PROVE pc[t] = pc'[t]
      BY <3>5 DEF KillStep, KillCancel, KillCgroup, KillTryDone, KillTryOn, KillSignal,
                  KillWait, Cancel, Step
    <3>6. ASSUME NEW s \in Sandboxes, DropStep(s) PROVE pc[t] = pc'[t]
      BY <3>6 DEF DropStep, DropCancel, DropTryDone, DropTryKill, DropFields, Cancel
    <3>7. ASSUME NEW s \in Sandboxes, Watchdog(s) PROVE pc[t] = pc'[t]
      BY <3>7 DEF Watchdog, WdCancelled, WdTimeout, WdStore, WdCgroup, WdKillPidfd,
                  WdKillGroup, WdReap, WdStep
    <3>8. ASSUME NEW s \in Sandboxes, Harness(s) \/ Die(s) PROVE pc[t] = pc'[t]
      BY <3>8 DEF Harness, Die, LeaderExit, LeaderDie, Fork, KidsExit, KidsDie
    <3>9. ASSUME NEW p \in Pids, StrangerStart(p) \/ StrangerExit(p) PROVE pc[t] = pc'[t]
      BY <3>9 DEF StrangerStart, StrangerExit
    <3>10. CASE UNCHANGED vars
      BY <3>10 DEF vars
    <3> QED
      BY <3>1, <3>2, <3>3, <3>4, <3>5, <3>6, <3>7, <3>8, <3>9, <3>10
      DEF Next, Owner, Finished
  <2>2. leader[t] # "running"
    BY <2>1 DEF KillAwaitsTheDead
  \* A child that has been signalled is not started again.
  <2>3. ASSUME NEW s \in Sandboxes, NEW p \in Pids, SpawnFork(s, p)
        PROVE  leader'[t] # "running"
    BY <1>0, <2>2, <2>3 DEF SpawnFork, TypeOK
  <2>4. CASE ~\E s \in Sandboxes, p \in Pids : SpawnFork(s, p)
    BY <2>2, <2>4, OnlySpawnsStart DEF Ages
  <2> QED
    BY <2>3, <2>4
<1> QED
  BY <1>1, <1>2

\* kill, drop and a failing spawn wait only for a child that SIGKILL has reached,
\* so none of them can block on a harness that runs on (mod.rs:84-87, 381-382).
THEOREM KillAwaitsOnlyTheDead == Spec => []KillAwaitsTheDead
<1>1. Init => KillAwaitsTheDead
  BY DEF Init, KillAwaitsTheDead
<1> QED
  BY <1>1, NextAwaits, Invariance, PTL DEF Spec

-----------------------------------------------------------------------------
(* What a timeout does *)

\* StrikeInv and TimeoutHits, handle by handle.
Struck(s) ==
  /\ wd[s] \in {"off", "wait", "store"} => ~timedOut[s]
  /\ wd[s] \in {"kill", "reap", "ended"} /\ timedOut[s] /\ Sweepable(s) =>
       leader[s] # "running" /\ kids[s]["in"] # "live"
  /\ timedOut[s] /\ wd[s] \in {"reap", "ended"} =>
       /\ leader[s] # "running"
       /\ ByGroup(s) => \A x \in Places : kids[s][x] # "live"

\* Time does not undo a strike: only a running leader forks.
LEMMA StruckKept ==
  ASSUME NEW t \in Sandboxes, Struck(t), Ages(t), setup'[t] = setup[t],
         cgroup'[t] = cgroup[t], timedOut'[t] = timedOut[t],
         wd'[t] = wd[t] \/ (wd[t] = "reap" /\ wd'[t] = "ended")
  PROVE  Struck(t)'
<1>1. "in" \in Places
  BY DEF Places
<1> QED
  BY <1>1 DEF Struck, Ages, ByGroup, Sweepable

\* Only spawn and the watchdog touch what the strike depends on.
LEMMA OthersKeepWatch ==
  ASSUME [Next]_vars,
         ~\E s \in Sandboxes : SpawnAttach(s) \/ SpawnWatchdog(s) \/ Watchdog(s)
  PROVE  UNCHANGED <<setup, cgroup, timedOut, wd>>
<1> USE DEF kernel, proc, grip, marks, handle, history
<1> DEFINE Kept == UNCHANGED <<setup, cgroup, timedOut, wd>>
<1>1. ASSUME NEW s \in Sandboxes,
             Call(s) \/ IOData(s) \/ IOClosed(s) \/ \E p \in Pids : SpawnFork(s, p)
      PROVE Kept
  BY <1>1 DEF SpawnFork, Call, IOBegin, IsAlive, CollectFrame, WaitBegin, KillBegin,
              DropBegin, IOData, IOClosed, Step
<1>2. ASSUME NEW s \in Sandboxes, SpawnStep(s) PROVE Kept
  BY <1>2 DEF SpawnStep, SpawnCgroupNew, SpawnNoCgroup, SpawnAttachFails,
              AbortKill, AbortWait, AbortDrop, Step, SignalFrame, CollectFrame
<1>3. ASSUME NEW s \in Sandboxes, WaitStep(s) \/ KillStep(s) \/ DropStep(s) PROVE Kept
  BY <1>3
  DEF WaitStep, WaitReap, WaitFails, WaitCancel, WaitLoad,
      KillStep, KillCancel, KillCgroup, KillTryDone, KillTryOn, KillSignal, KillWait,
      DropStep, DropCancel, DropTryDone, DropTryKill, DropFields,
      Step, Cancel, SignalFrame, CollectFrame
<1>4. ASSUME NEW s \in Sandboxes, Harness(s) \/ Die(s) PROVE Kept
  BY <1>4 DEF Harness, Die, LeaderExit, LeaderDie, Fork, KidsExit, KidsDie
<1>5. ASSUME NEW p \in Pids, StrangerStart(p) \/ StrangerExit(p) PROVE Kept
  BY <1>5 DEF StrangerStart, StrangerExit
<1>6. CASE UNCHANGED vars
  BY <1>6 DEF vars
<1> QED
  BY <1>1, <1>2, <1>3, <1>4, <1>5, <1>6 DEF Next, Owner, Finished

\* The signal to a group leaves none of its processes running.
LEMMA GroupIsHit ==
  ASSUME TypeOK, NEW s \in Sandboxes, KillGroup(s, "watchdog")
  PROVE  leader'[s] # "running" /\ \A x \in Places : kids'[s][x] # "live"
<1> DEFINE L == AtPid(pid[s])
<1>1. s \in L /\ \A x \in Places : <<s, x>> \in L \X Places
  BY DEF AtPid
<1>2. SigKill(s, "watchdog", L, L \X Places, {pid[s]})
  BY DEF KillGroup
<1> HIDE DEF L
<1>3. leader'[s] # "running"
  BY <1>1, <1>2 DEF SigKill
<1>4. ASSUME NEW x \in Places PROVE kids'[s][x] # "live"
  BY <1>1, <1>2 DEF SigKill
<1> QED
  BY <1>3, <1>4

LEMMA NextStrike ==
  IInv /\ FreshInv /\ DirInv /\ StrikeInv /\ TimeoutHits /\ [Next]_vars
  => StrikeInv' /\ TimeoutHits'
<1> SUFFICES ASSUME IInv, FreshInv, DirInv, \A t \in Sandboxes : Struck(t), [Next]_vars,
                    NEW t \in Sandboxes
             PROVE  Struck(t)'
  BY DEF StrikeInv, TimeoutHits, Struck, ByGroup, Sweepable
<1>0. TypeOK /\ FireInv
  BY DEF IInv
<1>1. setup' = setup
  BY HandlesKeep
\* A handle that is being spawned has no watchdog yet.
<1>2. ASSUME wd[t] = "off", timedOut'[t] = timedOut[t], wd'[t] \in {"off", "wait"}
      PROVE Struck(t)'
  BY <1>2 DEF Struck
<1>3. ASSUME NEW s \in Sandboxes, NEW p \in Pids, SpawnFork(s, p) PROVE Struck(t)'
  <2>1. CASE t = s
    BY <1>2, <1>3, <2>1 DEF SpawnFork, Goto, FreshInv, SpawnPC, marks
  <2>2. CASE t # s
    BY <1>0, <1>3, <2>2 DEF SpawnFork, grip, marks, Struck, ByGroup, Sweepable, TypeOK
  <2> QED
    BY <2>1, <2>2
<1>4. CASE ~\E s \in Sandboxes, p \in Pids : SpawnFork(s, p)
  <2>1. Ages(t)
    BY <1>4, OnlySpawnsStart
  <2>2. ASSUME NEW s \in Sandboxes, SpawnAttach(s) \/ SpawnWatchdog(s) PROVE Struck(t)'
    <3>1. CASE t = s
      BY <1>0, <1>2, <2>2, <3>1
      DEF SpawnAttach, SpawnWatchdog, Goto, FreshInv, SpawnPC, marks, TypeOK
    <3>2. CASE t # s
      <4>1. cgroup'[t] = cgroup[t] /\ timedOut'[t] = timedOut[t] /\ wd'[t] = wd[t]
        BY <1>0, <2>2, <3>2 DEF SpawnAttach, SpawnWatchdog, grip, marks, TypeOK
      <4> QED
        BY <1>1, <2>1, <4>1, StruckKept
    <3> QED
      BY <3>1, <3>2
  <2>3. ASSUME NEW s \in Sandboxes, Watchdog(s) PROVE Struck(t)'
    <3> USE DEF WdGoto
    <3>1. cgroup' = cgroup
      BY <2>3 DEF Watchdog, WdCancelled, WdTimeout, WdStore, WdCgroup, WdKillPidfd,
                  WdKillGroup, WdReap, WdStep, SignalFrame, grip
    <3>2. CASE t # s
      <4>1. wd'[t] = wd[t] /\ timedOut'[t] = timedOut[t]
        BY <1>0, <2>3, <3>2
        DEF Watchdog, WdCancelled, WdTimeout, WdStore, WdCgroup, WdKillPidfd,
            WdKillGroup, WdReap, WdStep, SignalFrame, marks, TypeOK
      <4> QED
        BY <1>1, <2>1, <3>1, <4>1, StruckKept
    <3>3. CASE t = s /\ (WdCancelled(s) \/ WdTimeout(s) \/ WdStore(s))
      BY <1>0, <3>3 DEF WdCancelled, WdTimeout, WdStore, WdStep, marks, Struck, Sweepable, TypeOK
    <3>4. CASE t = s /\ WdCgroup(s)
      <4>1. wd'[s] = "kill"
        BY <1>0, <3>4 DEF WdCgroup, TypeOK
      <4>2. Sweepable(s) => leader'[s] # "running" /\ kids'[s]["in"] # "live"
        BY <1>0, <3>4, CgroupKillSweeps DEF WdCgroup
      <4> QED
        BY <1>1, <3>1, <3>4, <4>1, <4>2 DEF Struck, Sweepable
    <3>5. CASE t = s /\ WdKillPidfd(s)
      <4>1. wd[s] = "kill" /\ wd'[s] = "ended" /\ timedOut' = timedOut
        BY <1>0, <3>5 DEF WdKillPidfd, SignalFrame, marks, TypeOK
      <4>2. leader'[s] # "running"
        BY <3>5 DEF WdKillPidfd, SigKill
      <4>3. ~ByGroup(s)'
        BY <1>1, <3>5 DEF WdKillPidfd, ByGroup
      <4>4. timedOut[s] /\ Sweepable(s) => kids'[s]["in"] # "live"
        BY <2>1, <3>5, <4>1 DEF Struck, Ages, Places
      <4> QED
        BY <1>1, <3>1, <3>5, <4>1, <4>2, <4>3, <4>4 DEF Struck, Sweepable
    <3>6. CASE t = s /\ WdKillGroup(s)
      <4>1. timedOut' = timedOut /\ wd'[s] \in {"reap", "ended"}
        BY <1>0, <3>6 DEF WdKillGroup, SignalFrame, marks, TypeOK
      <4>2. leader'[s] # "running" /\ \A x \in Places : kids'[s][x] # "live"
        <5>1. CASE PidFree(pid[s])
          BY <3>6, <5>1 DEF WdKillGroup, PidFree, GroupExists, Unreaped, NoSignal, proc
        <5>2. CASE ~PidFree(pid[s])
          BY <1>0, <3>6, <5>2, GroupIsHit DEF WdKillGroup
        <5> QED
          BY <5>1, <5>2
      <4> QED
        BY <3>6, <4>1, <4>2 DEF Struck, Places
    <3>7. CASE t = s /\ WdReap(s)
      <4>1. wd[s] = "reap" /\ wd'[s] = "ended" /\ timedOut' = timedOut
        BY <1>0, <3>7 DEF WdReap, marks, TypeOK
      <4> QED
        BY <1>1, <2>1, <3>1, <3>7, <4>1, StruckKept
    <3> QED
      BY <2>3, <3>2, <3>3, <3>4, <3>5, <3>6, <3>7 DEF Watchdog
  <2>4. CASE ~\E s \in Sandboxes : SpawnAttach(s) \/ SpawnWatchdog(s) \/ Watchdog(s)
    BY <2>1, <2>4, OthersKeepWatch, StruckKept
  <2> QED
    BY <2>2, <2>3, <2>4
<1> QED
  BY <1>3, <1>4

LEMMA StrikeInvariance == Spec => [](StrikeInv /\ TimeoutHits)
<1>1. Init => StrikeInv /\ TimeoutHits
  BY DEF Init, StrikeInv, TimeoutHits
<1>2. IInv /\ CallInv /\ StrikeInv /\ TimeoutHits /\ [Next]_vars => StrikeInv' /\ TimeoutHits'
  BY NextStrike DEF CallInv
<1> QED
  BY <1>1, <1>2, Invariance, CallInvariance, PTL DEF Spec

\* A timeout that has run its course has ended what it can reach, whatever the
\* harness forks and other handles remove meanwhile: the leader always, the group
\* where it is signalled, and what is in the cgroup where the kernel has
\* cgroup.kill, for an error of that write is ignored (builder.rs:661-672,
\* kill.rs:20-33, 59-106, cgroups.rs:97).
THEOREM TimeoutDoesHit == Spec => []TimeoutHits
  BY StrikeInvariance, PTL

\* ArmedInv, handle by handle.
Armed(s) ==
  /\ pc[s] \in SpawnPC => ~latch[s]
  /\ pc[s] \notin SpawnPC /\ setup[s].timeout => wd[s] # "off"
  /\ wd[s] = "ended" => timedOut[s] \/ latch[s]
  /\ pc[s] \in {"idle", "io", "wait"} /\ latch[s] => leader[s] = "reaped"

LEMMA NextArmed ==
  ASSUME IInv, IInv', FreshInv, ArmedInv, [Next]_vars
  PROVE  ArmedInv'
<1> SUFFICES ASSUME NEW t \in Sandboxes PROVE Armed(t)'
  BY DEF ArmedInv, Armed
<1> USE DEF kernel, proc, grip, marks, handle, history, Goto
<1>0. TypeOK /\ TypeOK' /\ SpawnInv /\ StatusInv /\ StatusInv' /\ FireInv
  BY DEF IInv
<1>1. Armed(t) /\ setup' = setup
  BY HandlesKeep DEF ArmedInv, Armed
\* Outside spawn: the latch is not opened again, and a call returns to the owner
\* with an open latch, or with the child reaped.
<1>2. ASSUME pc[t] \notin SpawnPC, pc'[t] \notin SpawnPC, latch[t] => latch'[t],
             timedOut'[t] = timedOut[t], wd'[t] = wd[t],
             leader[t] = "reaped" => leader'[t] = "reaped",
             \/ pc[t] \in {"idle", "io", "wait"} /\ latch'[t] = latch[t]
             \/ pc'[t] \notin {"idle", "io", "wait"}
             \/ leader'[t] = "reaped"
      PROVE  Armed(t)'
  BY <1>1, <1>2 DEF Armed
\* Nothing but the child and its watchdog moves.
<1>3. ASSUME pc'[t] = pc[t], latch'[t] = latch[t], timedOut'[t] = timedOut[t],
             wd'[t] = wd[t], leader[t] = "reaped" => leader'[t] = "reaped"
      PROVE  Armed(t)'
  BY <1>1, <1>3 DEF Armed
<1>4. ASSUME NEW s \in Sandboxes, NEW p \in Pids, SpawnFork(s, p) PROVE Armed(t)'
  BY <1>0, <1>1, <1>4 DEF SpawnFork, Armed, SpawnPC, TypeOK
<1>5. CASE ~\E s \in Sandboxes, p \in Pids : SpawnFork(s, p)
  <2>1. leader[t] = "reaped" => leader'[t] = "reaped"
    BY <1>5, OnlySpawnsStart DEF Ages
  \* A step of the owner of another handle.
  <2>2. ASSUME NEW s \in Sandboxes, Call(s) \/ IOData(s) \/ Owner(s), s # t
        PROVE  Armed(t)'
    <3>1. pc'[t] = pc[t] /\ latch'[t] = latch[t] /\ timedOut'[t] = timedOut[t] /\ wd'[t] = wd[t]
      BY <1>0, <2>2
      DEF Call, IOBegin, IsAlive, WaitBegin, KillBegin, DropBegin, IOData, IOClosed, Owner,
          SpawnStep, SpawnCgroupNew, SpawnNoCgroup, SpawnAttach, SpawnAttachFails,
          SpawnWatchdog, AbortKill, AbortWait, AbortDrop,
          WaitStep, WaitReap, WaitFails, WaitCancel, WaitLoad,
          KillStep, KillCancel, KillCgroup, KillTryDone, KillTryOn, KillSignal, KillWait,
          DropStep, DropCancel, DropTryDone, DropTryKill, DropFields,
          Step, Cancel, SignalFrame, CollectFrame, TypeOK
    <3> QED
      BY <1>3, <2>1, <3>1
  <2>3. ASSUME Call(t) \/ IOData(t) \/ IOClosed(t) PROVE Armed(t)'
    <3>1. /\ pc[t] \in {"idle", "io"} /\ pc'[t] \in {"idle", "io", "wait", "kill_cancel", "drop_cancel"}
          /\ UNCHANGED <<latch, timedOut, wd>>
      BY <1>0, <2>3 DEF Call, IOBegin, IsAlive, CollectFrame, WaitBegin, KillBegin, DropBegin,
                        IOData, IOClosed, Step, TypeOK
    <3> QED
      BY <1>2, <2>1, <3>1 DEF SpawnPC
  <2>4. ASSUME SpawnStep(t) PROVE Armed(t)'
    <3>1. pc[t] \in SpawnPC /\ wd[t] = "off" /\ latch' = latch /\ ~latch[t]
      BY <1>1, <2>4
      DEF SpawnStep, SpawnCgroupNew, SpawnNoCgroup, SpawnAttach, SpawnAttachFails,
          SpawnWatchdog, AbortKill, AbortWait, AbortDrop, Step, SignalFrame, CollectFrame,
          SpawnPC, FreshInv, Armed
    <3>2. CASE SpawnWatchdog(t)
      BY <1>0, <1>1, <3>1, <3>2 DEF SpawnWatchdog, Armed, SpawnPC, TypeOK
    <3>3. CASE ~SpawnWatchdog(t)
      <4>1. pc'[t] \in SpawnPC /\ wd' = wd
        BY <1>0, <2>4, <3>3
        DEF SpawnStep, SpawnCgroupNew, SpawnNoCgroup, SpawnAttach, SpawnAttachFails,
            AbortKill, AbortWait, AbortDrop, Step, SignalFrame, CollectFrame, SpawnPC, TypeOK
      <4> QED
        BY <3>1, <4>1 DEF Armed, SpawnPC
    <3> QED
      BY <3>2, <3>3
  <2>5. ASSUME WaitStep(t) PROVE Armed(t)'
    <3>1. CASE WaitReap(t) \/ WaitFails(t) \/ WaitCancel(t)
      BY <1>0, <1>2, <2>1, <3>1
      DEF WaitReap, WaitFails, WaitCancel, Cancel, CollectFrame, SpawnPC, TypeOK
    \* It answers only with a status, so the child is reaped.
    <3>2. CASE WaitLoad(t)
      BY <1>0, <1>2, <2>1, <3>2 DEF WaitLoad, StatusInv, SpawnPC, TypeOK
    <3> QED
      BY <2>5, <3>1, <3>2 DEF WaitStep
  <2>6. ASSUME KillStep(t) PROVE Armed(t)'
    <3>1. CASE KillCancel(t) \/ KillCgroup(t) \/ KillTryOn(t) \/ KillSignal(t)
      BY <1>0, <1>2, <2>1, <3>1
      DEF KillCancel, Cancel, KillCgroup, KillTryOn, Step, KillSignal, SignalFrame, SpawnPC, TypeOK
    \* kill() has reaped the child when it returns.
    <3>2. CASE KillTryDone(t) \/ KillWait(t)
      <4>1. /\ pc[t] \notin SpawnPC /\ pc'[t] \notin SpawnPC
            /\ killed'[t] /\ UNCHANGED <<latch, timedOut, wd>>
        BY <1>0, <3>2 DEF KillTryDone, KillWait, KillReturn, CollectFrame, SpawnPC, TypeOK
      <4>2. leader'[t] = "reaped"
        BY <4>1 DEF IInv, NoZombieLeft
      <4> QED
        BY <1>2, <4>1, <4>2
    <3> QED
      BY <2>6, <3>1, <3>2 DEF KillStep
  <2>7. ASSUME DropStep(t) PROVE Armed(t)'
    <3>1. /\ pc[t] \in DropPC /\ pc'[t] \in DropPC \union {"kill_cancel"}
          /\ latch[t] => latch'[t]
          /\ UNCHANGED <<timedOut, wd>>
      BY <1>0, <2>7
      DEF DropStep, DropCancel, Cancel, DropTryDone, DropTryKill, DropFields, CollectFrame,
          DropPC, TypeOK
    <3> QED
      BY <1>2, <2>1, <3>1 DEF SpawnPC, DropPC
  <2>8. ASSUME NEW s \in Sandboxes, Watchdog(s) PROVE Armed(t)'
    <3> USE DEF WdGoto
    <3>1. UNCHANGED <<pc, latch>>
      BY <2>8 DEF Watchdog, WdCancelled, WdTimeout, WdStore, WdCgroup, WdKillPidfd,
                  WdKillGroup, WdReap, WdStep, SignalFrame
    <3>2. CASE s # t
      <4>1. wd'[t] = wd[t] /\ timedOut'[t] = timedOut[t]
        BY <1>0, <2>8, <3>2
        DEF Watchdog, WdCancelled, WdTimeout, WdStore, WdCgroup, WdKillPidfd,
            WdKillGroup, WdReap, WdStep, SignalFrame, TypeOK
      <4> QED
        BY <1>3, <2>1, <3>1, <4>1
    \* It ends cancelled, or after it has stored its flag.
    <3>3. CASE s = t
      <4> DEFINE Guarded == wd'[t] # "off" /\ (wd'[t] = "ended" => timedOut'[t] \/ latch'[t])
      <4>1. ASSUME WdCancelled(t) PROVE Guarded
        BY <1>0, <3>1, <4>1 DEF WdCancelled, WdStep, TypeOK
      <4>2. ASSUME WdTimeout(t) \/ WdStore(t) \/ WdCgroup(t) PROVE Guarded
        BY <1>0, <4>2 DEF WdTimeout, WdStep, WdStore, WdCgroup, TypeOK
      <4>3. ASSUME WdKillPidfd(t) \/ WdKillGroup(t) \/ WdReap(t) PROVE Guarded
        <5>1. timedOut' = timedOut /\ timedOut[t] /\ wd'[t] \in {"reap", "ended"}
          BY <1>0, <4>3 DEF WdKillPidfd, WdKillGroup, WdReap, SignalFrame, FireInv, TypeOK
        <5> QED
          BY <5>1
      <4>4. Guarded
        BY <2>8, <3>3, <4>1, <4>2, <4>3 DEF Watchdog
      <4> QED
        BY <1>1, <2>1, <3>1, <4>4 DEF Armed
    <3> QED
      BY <3>2, <3>3
  <2>9. ASSUME NEW s \in Sandboxes, Harness(s) \/ Die(s) PROVE Armed(t)'
    BY <1>3, <2>1, <2>9 DEF Harness, Die, LeaderExit, LeaderDie, Fork, KidsExit, KidsDie
  <2>10. ASSUME NEW p \in Pids, StrangerStart(p) \/ StrangerExit(p) PROVE Armed(t)'
    BY <1>3, <2>10 DEF StrangerStart, StrangerExit
  <2>11. CASE UNCHANGED vars
    BY <1>3, <2>11 DEF vars
  <2> QED
    BY <1>5, <2>2, <2>3, <2>4, <2>5, <2>6, <2>7, <2>8, <2>9, <2>10, <2>11
    DEF Next, Owner, Finished
<1> QED
  BY <1>4, <1>5

\* Nobody waits, or reads or writes, on a child that runs with the timeout
\* disarmed (mod.rs:454-461, builder.rs:654-661).
THEOREM WaitIsWatched == Spec => []WaitWatched
<1>1. Init => ArmedInv
  BY DEF Init, ArmedInv, SpawnPC
<1>2. IInv /\ IInv' /\ CallInv /\ ArmedInv /\ [Next]_vars => ArmedInv'
  BY NextArmed DEF CallInv
<1>3. IInv /\ TimeoutHits /\ ArmedInv => WaitWatched
  <2> SUFFICES ASSUME IInv, TimeoutHits, ArmedInv, NEW s \in Sandboxes,
                      pc[s] \in {"wait", "io"}, setup[s].timeout, leader[s] = "running"
               PROVE  \/ wd[s] = "wait" /\ ~latch[s]
                      \/ wd[s] \in {"store", "cgroup", "kill"}
    BY DEF WaitWatched
  <2>1. ~latch[s] /\ wd[s] # "off" /\ (wd[s] = "ended" => timedOut[s])
    BY DEF ArmedInv, SpawnPC
  <2>2. wd[s] \notin {"reap", "ended"}
    BY <2>1 DEF TimeoutHits, IInv, FireInv
  <2> QED
    BY <2>1, <2>2 DEF IInv, TypeOK, WatchdogPC
<1> QED
  BY <1>1, <1>2, <1>3, Invariance, CallInvariance, TimeoutDoesHit, PTL DEF Spec
=============================================================================
