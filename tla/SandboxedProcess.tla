--------------------------- MODULE SandboxedProcess ---------------------------
(***************************************************************************)
(* The life of sandboxed processes: struct SandboxedProcess and its spawn, *)
(* recv, wait, kill, is_alive and Drop (src/src/process/mod.rs), the       *)
(* watchdog thread (process/builder.rs), the signals it sends              *)
(* (process/kill.rs) and the cgroup directory (cgroups.rs), over the part  *)
(* of the kernel they share: pids, process groups, exit statuses, cgroups. *)
(*                                                                         *)
(* One program owns all the handles.  Every system call is a step, and     *)
(* between two of them the harness may fork or exit, the watchdog and the  *)
(* owners of other handles may run, and a pid nobody uses any more may be  *)
(* given to another process.  The cancel signal is the latch that module   *)
(* WatchdogCancel implements.                                              *)
(***************************************************************************)

CONSTANTS Sandboxes,    \* handles
          Pids,         \* process ids of the host
          NoPid,        \* the handle has not spawned yet
          Setups,       \* hosts and configurations a spawn may meet
          Forking,      \* may a harness have descendants?
          Strangers     \* may other programs be given a free pid?

\* cgroup: a cgroup v2 directory can be made; cgkill: its kernel has cgroup.kill
\* (Linux 5.14); required: require_hardware_limits; pidfd: pidfd_open works;
\* sendable: pidfd_send_signal is not filtered; timeout: timeout_seconds > 0.
Setup == [cgroup: BOOLEAN, cgkill: BOOLEAN, required: BOOLEAN, pidfd: BOOLEAN,
          sendable: BOOLEAN, timeout: BOOLEAN]

ASSUME SetupAssumption == /\ Setups \subseteq Setup
                          /\ Setups # {}
                          /\ NoPid \notin Pids
                          /\ Forking \in BOOLEAN
                          /\ Strangers \in BOOLEAN

VARIABLES
  \* the kernel
  pid,        \* the pid of the handle's child (child.id())
  leader,     \* that child, the leader of its process group
  kids,       \* its descendants, outside and inside the cgroup directory
  stranger,   \* pids held by programs that are not ours
  dirs,       \* pids p whose directory procjail-p exists
  \* the handles
  setup,      \* what the spawn of this handle meets
  cgroup,     \* the child was attached; the handle holds Some(CgroupV2)
  pc,         \* where the owner is in its call
  back,       \* where kill() returns to: its caller, or the middle of drop()
  cached,     \* Child holds the exit status
  latch,      \* watchdog_cancel
  timedOut,   \* watchdog_timed_out
  reported,   \* the field killed_by_timeout
  wd,         \* where the watchdog thread is
  \* history
  killer,     \* what ended the leader
  waited,     \* what the last wait_with_usage returned
  killed,     \* kill() has returned
  stray       \* a signal has hit a process of another handle or program

proc == <<leader, kids, stranger>>
kernel == <<pid, proc, dirs>>
grip == <<setup, cgroup, back>>
marks == <<cached, latch, timedOut, reported>>
handle == <<grip, pc, marks, wd>>
history == <<killer, waited, killed, stray>>
vars == <<kernel, handle, history>>

Places == {"in", "out"}
LeaderState == {"none", "running", "dying", "zombie", "reaped"}
KidState == {"none", "live", "dying"}
SpawnPC == {"unspawned", "cgroup_new", "attach", "watchdog",
            "abort_kill", "abort_wait", "abort_drop", "failed"}
KillPC == {"kill_cancel", "kill_cgroup", "kill_try", "kill_signal", "kill_wait"}
WaitPC == {"wait", "wait_cancel", "wait_load"}
DropPC == {"drop_cancel", "drop_try", "drop_fields", "dropped"}
OwnerPC == SpawnPC \union KillPC \union WaitPC \union DropPC \union {"idle", "io"}
WatchdogPC == {"off", "wait", "store", "cgroup", "kill", "reap", "ended"}

TypeOK ==
  /\ pid \in [Sandboxes -> Pids \union {NoPid}]
  /\ leader \in [Sandboxes -> LeaderState]
  /\ kids \in [Sandboxes -> [Places -> KidState]]
  /\ stranger \in SUBSET Pids
  /\ dirs \in SUBSET Pids
  /\ setup \in [Sandboxes -> Setups]
  /\ cgroup \in [Sandboxes -> BOOLEAN]
  /\ pc \in [Sandboxes -> OwnerPC]
  /\ back \in [Sandboxes -> {"idle", "drop_fields"}]
  /\ cached \in [Sandboxes -> BOOLEAN]
  /\ latch \in [Sandboxes -> BOOLEAN]
  /\ timedOut \in [Sandboxes -> BOOLEAN]
  /\ reported \in [Sandboxes -> BOOLEAN]
  /\ wd \in [Sandboxes -> WatchdogPC]
  /\ killer \in [Sandboxes -> {"none", "self", "owner", "watchdog", "other"}]
  /\ waited \in [Sandboxes -> {"no", "ok", "err"}]
  /\ killed \in [Sandboxes -> BOOLEAN]
  /\ stray \in BOOLEAN

Init ==
  /\ pid = [s \in Sandboxes |-> NoPid]
  /\ leader = [s \in Sandboxes |-> "none"]
  /\ kids = [s \in Sandboxes |-> [x \in Places |-> "none"]]
  /\ stranger = {}
  /\ dirs = {}
  /\ setup \in [Sandboxes -> Setups]
  /\ cgroup = [s \in Sandboxes |-> FALSE]
  /\ pc = [s \in Sandboxes |-> "unspawned"]
  /\ back = [s \in Sandboxes |-> "idle"]
  /\ cached = [s \in Sandboxes |-> FALSE]
  /\ latch = [s \in Sandboxes |-> FALSE]
  /\ timedOut = [s \in Sandboxes |-> FALSE]
  /\ reported = [s \in Sandboxes |-> FALSE]
  /\ wd = [s \in Sandboxes |-> "off"]
  /\ killer = [s \in Sandboxes |-> "none"]
  /\ waited = [s \in Sandboxes |-> "no"]
  /\ killed = [s \in Sandboxes |-> FALSE]
  /\ stray = FALSE

Goto(s, from, to) == pc[s] = from /\ pc' = [pc EXCEPT ![s] = to]

\* A step of the owner that changes nothing but its place in the call.
Step(s, from, to) == /\ Goto(s, from, to)
                     /\ UNCHANGED <<kernel, grip, marks, wd, history>>

-----------------------------------------------------------------------------
(* The kernel, as far as this code calls it *)

Unreaped(s) == leader[s] \in {"running", "dying", "zombie"}

\* The process group of s: its leader keeps the number until it is reaped, and
\* every descendant keeps it too, since the seccomp filter gives a harness
\* neither setsid nor setpgid.
GroupExists(s) == Unreaped(s) \/ \E x \in Places : kids[s][x] # "none"

PidFree(p) == /\ p \notin stranger
              /\ \A s \in Sandboxes : pid[s] = p => ~GroupExists(s)

AtPid(p) == {s \in Sandboxes : pid[s] = p}

\* The child of this program that waitpid(p) would name, if there is one.
Children(p) == {s \in AtPid(p) : Unreaped(s)}

\* SIGKILL, sent by s, reaches the leaders L, the descendants K and the
\* strangers X.  A process that is hit dies later, on its own (LeaderDie).
SigKill(s, role, L, K, X) ==
  /\ leader' = [t \in Sandboxes |->
                  IF t \in L /\ leader[t] = "running" THEN "dying" ELSE leader[t]]
  /\ killer' = [t \in Sandboxes |->
                  IF t \in L /\ leader[t] = "running"
                  THEN IF t = s THEN role ELSE "other"
                  ELSE killer[t]]
  /\ kids' = [t \in Sandboxes |-> [x \in Places |->
                IF <<t, x>> \in K /\ kids[t][x] = "live" THEN "dying" ELSE kids[t][x]]]
  /\ stranger' = stranger \ X
  /\ stray' = (\/ stray
               \/ X \intersect stranger # {}
               \/ \E t \in L \ {s} : leader[t] = "running"
               \/ \E t \in Sandboxes \ {s}, x \in Places :
                    <<t, x>> \in K /\ kids[t][x] = "live")

NoSignal == UNCHANGED <<proc, killer, stray>>

\* "1" written to procjail-<pid>/cgroup.kill: everything in that directory.  The
\* write fails where the kernel has no such file or the directory is gone, and
\* both callers ignore that.
KillCgroupDir(s, role) ==
  LET members == {t \in AtPid(pid[s]) : cgroup[t]}
  IN  IF cgroup[s] /\ setup[s].cgkill /\ pid[s] \in dirs
      THEN SigKill(s, role, members, members \X {"in"}, {})
      ELSE NoSignal

\* kill(pid, SIGKILL): whatever process has that number now.
KillByPid(s, role) == SigKill(s, role, AtPid(pid[s]), {}, {pid[s]})

\* kill(-pid, SIGKILL): whatever process group has that number now.
KillGroup(s, role) ==
  SigKill(s, role, AtPid(pid[s]), AtPid(pid[s]) \X Places, {pid[s]})

\* What no signal changes.
SignalFrame == <<pid, dirs, grip, marks, waited, killed>>

ZombieAt(p) == \E t \in Children(p) : leader[t] = "zombie"

\* waitpid(pid) finds a zombie; the pid and the status are given up.
Reap(s) == \E t \in Children(pid[s]) :
             /\ leader[t] = "zombie"
             /\ leader' = [leader EXCEPT ![t] = "reaped"]

\* wait or try_wait finds a status: the one Child keeps, or a zombie's.
Collect(s) == /\ IF cached[s] THEN UNCHANGED leader ELSE Reap(s)
              /\ cached' = [cached EXCEPT ![s] = TRUE]

\* child.wait() whose error, ECHILD when somebody else has the status, is ignored.
Await(s) == \/ Collect(s)
            \/ Children(pid[s]) = {} /\ UNCHANGED <<leader, cached>>

\* What collecting a status leaves alone.
CollectFrame == <<pid, kids, stranger, dirs, grip, latch, timedOut, reported, wd>>

\* try_wait finds none: the child runs, or waitpid fails with ECHILD.
NoStatus(s) == ~cached[s] /\ ~ZombieAt(pid[s])

\* watchdog_cancel.cancel()
Cancel(s, from, to) == /\ Goto(s, from, to)
                       /\ latch' = [latch EXCEPT ![s] = TRUE]
                       /\ UNCHANGED <<kernel, grip, cached, timedOut, reported,
                                      wd, history>>

\* CgroupV2::drop: remove_dir fails while a process in the directory lives.
RemoveDir(s) ==
  LET busy == \E t \in AtPid(pid[s]) :
                /\ cgroup[t]
                /\ leader[t] \in {"running", "dying"} \/ kids[t]["in"] # "none"
  IN  dirs' = IF busy THEN dirs ELSE dirs \ {pid[s]}

-----------------------------------------------------------------------------
(* SandboxedProcess::spawn *)

\* cmd.spawn() with process_group(0): the child leads a group of its own.
SpawnFork(s, p) ==
  /\ Goto(s, "unspawned", "cgroup_new")
  /\ PidFree(p)
  /\ pid' = [pid EXCEPT ![s] = p]
  /\ leader' = [leader EXCEPT ![s] = "running"]
  /\ UNCHANGED <<kids, stranger, dirs, grip, marks, wd, history>>

\* CgroupV2::new(procjail-<pid>): create_dir_all accepts a directory that is
\* already there.
SpawnCgroupNew(s) ==
  /\ setup[s].cgroup
  /\ Goto(s, "cgroup_new", "attach")
  /\ dirs' = dirs \union {pid[s]}
  /\ UNCHANGED <<pid, proc, grip, marks, wd, history>>

\* Without cgroups spawn goes on, unless they are required.
SpawnNoCgroup(s) ==
  /\ ~setup[s].cgroup
  /\ Step(s, "cgroup_new", IF setup[s].required THEN "abort_kill" ELSE "watchdog")

\* The limits are written and the child is attached; descendants it already
\* has stay where they are.
SpawnAttach(s) ==
  /\ Goto(s, "attach", "watchdog")
  /\ pid[s] \in dirs
  /\ cgroup' = [cgroup EXCEPT ![s] = TRUE]
  /\ UNCHANGED <<kernel, setup, back, marks, wd, history>>

\* One of those writes fails, as all do when the directory is gone.
SpawnAttachFails(s) == Step(s, "attach", "abort_kill")

\* open_pidfd, spawn_parent_watchdog when there is a timeout, Ok(Self).
SpawnWatchdog(s) ==
  /\ Goto(s, "watchdog", "idle")
  /\ wd' = [wd EXCEPT ![s] = IF setup[s].timeout THEN "wait" ELSE "off"]
  /\ UNCHANGED <<kernel, grip, marks, history>>

\* kill_and_reap, and the error return that drops the local CgroupV2.
AbortKill(s) ==
  /\ Goto(s, "abort_kill", "abort_wait")
  /\ KillByPid(s, "owner")
  /\ UNCHANGED <<wd, SignalFrame>>

AbortWait(s) ==
  /\ Goto(s, "abort_wait", "abort_drop")
  /\ Await(s)
  /\ UNCHANGED <<CollectFrame, history>>

AbortDrop(s) ==
  /\ Goto(s, "abort_drop", "failed")
  /\ IF setup[s].cgroup THEN RemoveDir(s) ELSE UNCHANGED dirs
  /\ UNCHANGED <<pid, proc, grip, marks, wd, history>>

-----------------------------------------------------------------------------
(* send, recv, is_alive and wait_with_usage *)

\* Some process holds the other ends of the pipes; all descendants inherit them.
PipesHeld(s) == \/ leader[s] \in {"running", "dying"}
                \/ \E x \in Places : kids[s][x] # "none"

IOBegin(s) == Step(s, "idle", "io")

\* The harness writes a line, or reads what is written.
IOData(s) == Step(s, "io", "idle") /\ PipesHeld(s)

\* recv gets end of file, send a broken pipe.
IOClosed(s) == Step(s, "io", "idle") /\ ~PipesHeld(s)

\* is_alive; only a first exit status changes anything.
IsAlive(s) == /\ Goto(s, "idle", "idle")
              /\ ~cached[s]
              /\ Collect(s)
              /\ UNCHANGED <<CollectFrame, history>>

\* Mutated form: the watchdog is cancelled before child.wait().
WaitBeginCancelling(s) == Cancel(s, "idle", "wait")

WaitBegin(s) == Step(s, "idle", "wait")

\* child.wait() blocks until there is a status.
WaitReap(s) == /\ Goto(s, "wait", "wait_cancel")
               /\ Collect(s)
               /\ UNCHANGED <<CollectFrame, history>>

\* child.wait()? returns ECHILD: someone else has taken the status.
WaitFails(s) == /\ Goto(s, "wait", "idle")
                /\ ~cached[s]
                /\ Children(pid[s]) = {}
                /\ waited' = [waited EXCEPT ![s] = "err"]
                /\ UNCHANGED <<kernel, grip, marks, wd, killer, killed, stray>>

\* Mutated form: the watchdog is never cancelled.
WaitCancelForgotten(s) == Step(s, "wait_cancel", "wait_load")

WaitCancel(s) == Cancel(s, "wait_cancel", "wait_load")

\* Mutated form: killed_by_timeout stays as spawn set it.
WaitLoadForgotten(s) == /\ Goto(s, "wait_load", "idle")
                        /\ waited' = [waited EXCEPT ![s] = "ok"]
                        /\ UNCHANGED <<kernel, grip, marks, wd, killer, killed, stray>>

\* killed_by_timeout = watchdog_timed_out.load(Acquire), and Ok(usage).
WaitLoad(s) == /\ Goto(s, "wait_load", "idle")
               /\ reported' = [reported EXCEPT ![s] = timedOut[s]]
               /\ waited' = [waited EXCEPT ![s] = "ok"]
               /\ UNCHANGED <<kernel, grip, cached, latch, timedOut, wd,
                              killer, killed, stray>>

-----------------------------------------------------------------------------
(* kill *)

\* kill() returns to back[s]: to the owner, or to the rest of drop().
KillBegin(s) == /\ Goto(s, "idle", "kill_cancel")
                /\ back' = [back EXCEPT ![s] = "idle"]
                /\ UNCHANGED <<kernel, setup, cgroup, marks, wd, history>>

KillCancel(s) == Cancel(s, "kill_cancel", "kill_cgroup")

\* Mutated form: the result of kill_all is ignored, and so is the call.
KillCgroupSkipped(s) == Step(s, "kill_cgroup", "kill_try")

\* cg.kill_all(), when the handle has a cgroup.
KillCgroup(s) == /\ Goto(s, "kill_cgroup", "kill_try")
                 /\ KillCgroupDir(s, "owner")
                 /\ UNCHANGED <<wd, SignalFrame>>

KillReturn(s) == killed' = [killed EXCEPT ![s] = TRUE]

\* try_wait: Ok(Some(_)) returns, anything else goes on to the signal.
KillTryDone(s) == /\ Goto(s, "kill_try", back[s])
                  /\ Collect(s)
                  /\ KillReturn(s)
                  /\ UNCHANGED <<CollectFrame, killer, waited, stray>>

KillTryOn(s) == Step(s, "kill_try", "kill_signal") /\ NoStatus(s)

\* Mutated form: kill() only waits.
KillSignalForgotten(s) == Step(s, "kill_signal", "kill_wait")

\* child.kill(): Child has no status, so it signals the number.
KillSignal(s) == /\ Goto(s, "kill_signal", "kill_wait")
                 /\ KillByPid(s, "owner")
                 /\ UNCHANGED <<wd, SignalFrame>>

\* Mutated form: kill() signals and does not reap.
KillWaitForgotten(s) == /\ Goto(s, "kill_wait", back[s])
                        /\ KillReturn(s)
                        /\ UNCHANGED <<kernel, grip, marks, wd, killer, waited, stray>>

KillWait(s) == /\ Goto(s, "kill_wait", back[s])
               /\ Await(s)
               /\ KillReturn(s)
               /\ UNCHANGED <<CollectFrame, killer, waited, stray>>

-----------------------------------------------------------------------------
(* Drop *)

DropBegin(s) == Step(s, "idle", "drop_cancel")

DropCancel(s) == Cancel(s, "drop_cancel", "drop_try")

\* try_wait: Ok(Some(_)) leaves everything else alone ...
DropTryDone(s) == /\ Goto(s, "drop_try", "drop_fields")
                  /\ Collect(s)
                  /\ UNCHANGED <<CollectFrame, history>>

\* Mutated form: kill() is told to return to a drop that is over.
DropTryKillLast(s) == /\ Goto(s, "drop_try", "kill_cancel")
                      /\ NoStatus(s)
                      /\ back' = [back EXCEPT ![s] = "dropped"]
                      /\ UNCHANGED <<kernel, setup, cgroup, marks, wd, history>>

\* ... and Ok(None) or Err(_) calls kill().
DropTryKill(s) == /\ Goto(s, "drop_try", "kill_cancel")
                  /\ NoStatus(s)
                  /\ back' = [back EXCEPT ![s] = "drop_fields"]
                  /\ UNCHANGED <<kernel, setup, cgroup, marks, wd, history>>

\* The fields are dropped after drop() returns: CgroupV2 removes its directory.
DropFields(s) == /\ Goto(s, "drop_fields", "dropped")
                 /\ IF cgroup[s] THEN RemoveDir(s) ELSE UNCHANGED dirs
                 /\ UNCHANGED <<pid, proc, grip, marks, wd, history>>

-----------------------------------------------------------------------------
(* The watchdog thread *)

WdGoto(s, from, to) == wd[s] = from /\ wd' = [wd EXCEPT ![s] = to]

WdStep(s, from, to) == /\ WdGoto(s, from, to)
                       /\ UNCHANGED <<kernel, grip, pc, marks, history>>

\* wait_until_cancelled_or answers true.
WdCancelled(s) == WdStep(s, "wait", "ended") /\ latch[s]

\* Mutated form: the flag is not stored before the signals.
WdTimeoutUnmarked(s) == WdStep(s, "wait", "cgroup") /\ ~latch[s]

\* It answers false: the timeout ran out while the latch was open.
WdTimeout(s) == WdStep(s, "wait", "store") /\ ~latch[s]

WdStore(s) == /\ WdGoto(s, "store", "cgroup")
              /\ timedOut' = [timedOut EXCEPT ![s] = TRUE]
              /\ UNCHANGED <<kernel, grip, pc, cached, latch, reported, history>>

\* fs::write(<path>/cgroup.kill, "1"), when spawn attached a cgroup.
WdCgroup(s) == /\ WdGoto(s, "cgroup", "kill")
               /\ KillCgroupDir(s, "watchdog")
               /\ UNCHANGED <<pc, SignalFrame>>

\* Mutated form: the number is signalled although there is a pidfd.
WdKillByNumber(s) == /\ WdGoto(s, "kill", "ended")
                     /\ setup[s].pidfd /\ setup[s].sendable
                     /\ KillByPid(s, "watchdog")
                     /\ UNCHANGED <<pc, SignalFrame>>

\* Mutated form: the watchdog reaps after the pidfd's signal too.
WdKillPidfdReaping(s) == /\ WdGoto(s, "kill", "reap")
                         /\ setup[s].pidfd /\ setup[s].sendable
                         /\ SigKill(s, "watchdog", {s}, {}, {})
                         /\ UNCHANGED <<pc, SignalFrame>>

\* kill_process_pidfd: the leader and nobody else; ESRCH once it is reaped.
WdKillPidfd(s) == /\ WdGoto(s, "kill", "ended")
                  /\ setup[s].pidfd /\ setup[s].sendable
                  /\ SigKill(s, "watchdog", {s}, {}, {})
                  /\ UNCHANGED <<pc, SignalFrame>>

\* Mutated form: kill(pid) in place of kill(-pid).
WdKillLeaderOnly(s) ==
  /\ ~(setup[s].pidfd /\ setup[s].sendable)
  /\ WdGoto(s, "kill", "reap")
  /\ KillByPid(s, "watchdog")
  /\ UNCHANGED <<pc, SignalFrame>>

\* Mutated form: nothing is sent once the leader has exited.
WdKillGroupOfLiving(s) ==
  /\ ~(setup[s].pidfd /\ setup[s].sendable)
  /\ IF leader[s] # "running"
     THEN WdGoto(s, "kill", "ended") /\ NoSignal
     ELSE WdGoto(s, "kill", "reap") /\ KillGroup(s, "watchdog")
  /\ UNCHANGED <<pc, SignalFrame>>

\* kill_process, without a pidfd or when pidfd_send_signal is refused: the
\* group with the leader's number, then waitpid; ESRCH when there is none.
WdKillGroup(s) ==
  /\ ~(setup[s].pidfd /\ setup[s].sendable)
  /\ IF PidFree(pid[s]) THEN WdGoto(s, "kill", "ended") /\ NoSignal
                        ELSE WdGoto(s, "kill", "reap") /\ KillGroup(s, "watchdog")
  /\ UNCHANGED <<pc, SignalFrame>>

\* waitpid(pid, WNOHANG) drops the status of a zombie it finds.
WdReap(s) == /\ WdGoto(s, "reap", "ended")
             /\ IF ZombieAt(pid[s]) THEN Reap(s) ELSE UNCHANGED leader
             /\ UNCHANGED <<pid, kids, stranger, dirs, grip, pc, marks, history>>

-----------------------------------------------------------------------------
(* The harness and the rest of the host *)

\* It exits, or is ended by a limit or a signal that is not ours.
LeaderExit(s) == /\ leader[s] = "running"
                 /\ leader' = [leader EXCEPT ![s] = "zombie"]
                 /\ killer' = [killer EXCEPT ![s] = "self"]
                 /\ UNCHANGED <<pid, kids, stranger, dirs, handle, waited, killed, stray>>

LeaderDie(s) == /\ leader[s] = "dying"
                /\ leader' = [leader EXCEPT ![s] = "zombie"]
                /\ UNCHANGED <<pid, kids, stranger, dirs, handle, history>>

\* A new process starts in the cgroup of its parent.
Fork(s) == /\ Forking
           /\ leader[s] = "running"
           /\ LET place == IF cgroup[s] THEN "in" ELSE "out"
              IN  /\ kids[s][place] = "none"
                  /\ kids' = [kids EXCEPT ![s][place] = "live"]
           /\ UNCHANGED <<pid, leader, stranger, dirs, handle, history>>

KidsExit(s, x) == /\ kids[s][x] = "live"
                  /\ kids' = [kids EXCEPT ![s][x] = "none"]
                  /\ UNCHANGED <<pid, leader, stranger, dirs, handle, history>>

KidsDie(s, x) == /\ kids[s][x] = "dying"
                 /\ kids' = [kids EXCEPT ![s][x] = "none"]
                 /\ UNCHANGED <<pid, leader, stranger, dirs, handle, history>>

StrangerStart(p) == /\ Strangers
                    /\ PidFree(p)
                    /\ stranger' = stranger \union {p}
                    /\ UNCHANGED <<pid, leader, kids, dirs, handle, history>>

StrangerExit(p) == /\ p \in stranger
                   /\ stranger' = stranger \ {p}
                   /\ UNCHANGED <<pid, leader, kids, dirs, handle, history>>

\* Every handle is gone, and with it its watchdog; nothing more has to happen.
Finished == /\ \A s \in Sandboxes : /\ pc[s] \in {"failed", "dropped"}
                                    /\ wd[s] \in {"off", "ended"}
            /\ UNCHANGED vars

-----------------------------------------------------------------------------

\* A new call, which the owner need not make.
Call(s) == IOBegin(s) \/ IsAlive(s) \/ WaitBegin(s) \/ KillBegin(s) \/ DropBegin(s)

SpawnStep(s) == \/ SpawnCgroupNew(s) \/ SpawnNoCgroup(s) \/ SpawnAttach(s)
                \/ SpawnAttachFails(s) \/ SpawnWatchdog(s) \/ AbortKill(s) \/ AbortWait(s) \/ AbortDrop(s)
WaitStep(s) == WaitReap(s) \/ WaitFails(s) \/ WaitCancel(s) \/ WaitLoad(s)
KillStep(s) == \/ KillCancel(s) \/ KillCgroup(s) \/ KillTryDone(s)
               \/ KillTryOn(s) \/ KillSignal(s) \/ KillWait(s)
DropStep(s) == DropCancel(s) \/ DropTryDone(s) \/ DropTryKill(s) \/ DropFields(s)

\* The rest of a call the owner has begun.
Owner(s) == SpawnStep(s) \/ IOClosed(s) \/ WaitStep(s) \/ KillStep(s) \/ DropStep(s)

Watchdog(s) == \/ WdCancelled(s) \/ WdTimeout(s) \/ WdStore(s) \/ WdCgroup(s)
               \/ WdKillPidfd(s) \/ WdKillGroup(s) \/ WdReap(s)

Die(s) == LeaderDie(s) \/ \E x \in Places : KidsDie(s, x)

Harness(s) == LeaderExit(s) \/ Fork(s) \/ \E x \in Places : KidsExit(s, x)

Next == \/ \E s \in Sandboxes : \/ \E p \in Pids : SpawnFork(s, p)
                                \/ Call(s) \/ Owner(s) \/ IOData(s)
                                \/ Watchdog(s) \/ Harness(s) \/ Die(s)
        \/ \E p \in Pids : StrangerStart(p) \/ StrangerExit(p)
        \/ Finished

(***************************************************************************)
(* Fairness.  Threads inside a call run, the watchdog's clock reaches its  *)
(* timeout, and a process hit by SIGKILL dies.  The harness owes nothing:  *)
(* it may sleep, spin or leave the pipes open forever.                     *)
(***************************************************************************)
Fairness == \A s \in Sandboxes : /\ WF_vars(Owner(s))
                                 /\ WF_vars(Watchdog(s))
                                 /\ WF_vars(LeaderDie(s))
                                 /\ \A x \in Places : WF_vars(KidsDie(s, x))

Spec == Init /\ [][Next]_vars /\ Fairness

-----------------------------------------------------------------------------
(* Safety *)

\* When the watchdog ended the child, a wait_with_usage that succeeds has set
\* killed_by_timeout: the flag is stored before the signal is sent
\* (builder.rs:661-669) and loaded after the status is collected (mod.rs:458-462).
TimeoutReported == \A s \in Sandboxes :
  waited[s] = "ok" /\ killer[s] = "watchdog" => reported[s]

\* kill(), drop() and every failing spawn leave no process and no zombie of the
\* child behind (kill_and_reap, mod.rs:84-87; kill, 378-382; drop, 507-515).
NoZombieLeft == \A s \in Sandboxes :
  killed[s] \/ pc[s] \in {"failed", "drop_fields", "dropped"} => leader[s] = "reaped"

\* The processes of s are in a cgroup of a kernel that has cgroup.kill.
Sweepable(s) == cgroup[s] /\ setup[s].cgkill

\* Once kill() has returned, nothing the harness started after it was attached
\* goes on running where the kernel has cgroup.kill, which takes the descendants
\* with the leader; elsewhere the ignored error leaves them (mod.rs:375,
\* cgroups.rs:97).
KillSweepsCgroup == \A s \in Sandboxes :
  killed[s] /\ Sweepable(s) => kids[s]["in"] # "live"

\* After wait, kill or drop has returned, a watchdog that has not fired yet
\* never will: its latch is closed before the call returns.
QuietAfterReturn == \A s \in Sandboxes :
  wd[s] = "wait" /\ (waited[s] = "ok" \/ killed[s] \/ pc[s] = "dropped") => latch[s]

\* wait never loses the exit status to the watchdog thread (kill.rs:34-35 reaps
\* only in kill_process, which a working pidfd never reaches).
StatusKept == \A s \in Sandboxes : waited[s] # "err"

\* The watchdog has to signal by number, and takes the whole group.
ByGroup(s) == ~(setup[s].pidfd /\ setup[s].sendable)

\* No watchdog that has only the number has fired yet.
NoGroupKill == \A s \in Sandboxes : ByGroup(s) => ~timedOut[s]

\* Nobody but a watchdog that signals by number can take a status from its owner,
\* be it that of another handle: whatever the host is like and however often pids
\* are reused, wait answers until one of those has fired (kill.rs:34-35).
StatusOnlyByGroup == NoGroupKill => StatusKept

\* A watchdog that has fired and sent its signals has missed nothing it can reach,
\* whatever the harness forked and whoever else gave up the pid or removed the
\* directory in between: the child, the whole group where the group is signalled,
\* and everything in the cgroup where the kernel has cgroup.kill.  The child and the
\* group are hit although the error of that write is ignored (builder.rs:661-672).
TimeoutHits == \A s \in Sandboxes : timedOut[s] /\ wd[s] \in {"reap", "ended"} =>
  /\ leader[s] # "running"
  /\ ByGroup(s) => \A x \in Places : kids[s][x] # "live"
  /\ Sweepable(s) => kids[s]["in"] # "live"

\* An owner blocked in wait, send or recv on a child that runs has a watchdog that
\* is armed or about to strike, if a timeout was set: no earlier call that left
\* the handle open has disarmed it (mod.rs:454-461).
WaitWatched == \A s \in Sandboxes :
  pc[s] \in {"wait", "io"} /\ setup[s].timeout /\ leader[s] = "running" =>
    \/ wd[s] = "wait" /\ ~latch[s]
    \/ wd[s] \in {"store", "cgroup", "kill"}

\* The child.wait() in kill, and in a spawn that fails, never blocks on a child that
\* still runs: it has been signalled for certain (kill, mod.rs:381-382;
\* kill_and_reap, mod.rs:84-87).
KillAwaitsTheDead == \A s \in Sandboxes :
  pc[s] \in {"kill_wait", "abort_wait"} => leader[s] # "running"

\* No signal of any handle reaches a process of another handle or program,
\* however pids are reused (mod.rs:457 relies on pidfds for this).
NoStraySignal == ~stray

\* No two sandboxes have been attached to a directory of the same name.
NamesUsedOnce == \A s, t \in Sandboxes : s # t /\ cgroup[s] /\ cgroup[t] => pid[s] # pid[t]

\* Until a watchdog has signalled by number, the name of a cgroup directory is all
\* that a signal can follow to a wrong process: pids alone may be reused as often
\* as the kernel likes (mod.rs:454-458, cgroups.rs:25, builder.rs:663-669).
StrayOnlyByName == NoGroupKill /\ NamesUsedOnce => NoStraySignal

\* The steps that send a signal.
Signals(s) == \/ AbortKill(s) \/ KillCgroup(s) \/ KillSignal(s)
              \/ WdCgroup(s) \/ WdKillPidfd(s) \/ WdKillGroup(s)

\* On every host, with strangers and without pidfds, a signal that a handle sends
\* while its child is unreaped or a descendant is left hits no other process: until
\* then neither the pid, nor the group, nor the directory named after the pid can
\* lead elsewhere, however often pids were reused before (kill.rs:24-33, mod.rs:381,
\* cgroups.rs:25, builder.rs:663-669).
SignalsHitOwn ==
  [][\A s \in Sandboxes : Signals(s) /\ GroupExists(s) =>
       /\ stranger' = stranger
       /\ \A t \in Sandboxes \ {s} :
            leader'[t] = leader[t] /\ \A x \in Places : kids'[t][x] = kids[t][x]]_vars

-----------------------------------------------------------------------------
(* Liveness *)

\* A timeout ends everything the harness started, a fork bomb included: the
\* whole process group, as the comment on kill_process says (kill.rs:20-23).
CascadeEnds == \A s \in Sandboxes :
  timedOut[s] ~> \A x \in Places : kids[s][x] = "none"

\* wait returns when there is a timeout, whatever the harness does (the comment
\* at mod.rs:455-457 says why the latch stays open until then).
WaitReturns == \A s \in Sandboxes :
  pc[s] = "wait" /\ setup[s].timeout ~> pc[s] # "wait"

\* What a timeout does end: everything where the group is signalled, and what
\* runs in the cgroup where the kernel has cgroup.kill (builder.rs:663-669).
TimeoutSweeps == \A s \in Sandboxes :
  /\ timedOut[s] /\ ByGroup(s) ~> \A x \in Places : kids[s][x] = "none"
  /\ timedOut[s] /\ Sweepable(s) ~> kids[s]["in"] = "none"

\* A recv or send that blocks while the watchdog is armed is released by it,
\* for the pipes close with the last process that holds them, unless there is
\* a descendant that the watchdog does not reach (mod.rs:306-337).
IOReleased == \A s \in Sandboxes :
  /\ pc[s] = "io" /\ wd[s] = "wait" /\ ~latch[s]
  /\ ByGroup(s) \/ (Sweepable(s) /\ kids[s]["out"] = "none")
  ~> pc[s] # "io"

-----------------------------------------------------------------------------
(* What the owner sees of a handle: the contract of module Jail *)

PhaseOf(c) ==
  CASE c = "unspawned" -> "none"
    [] c \in SpawnPC \ {"unspawned", "failed"} -> "starting"
    [] c = "failed" -> "failed"
    [] c = "dropped" -> "closed"
    [] OTHER -> "open"

\* A kill() that returns to b.
CallFrom(c, b) ==
  CASE c \in WaitPC -> "wait"
    [] c \in KillPC -> IF b = "idle" THEN "kill" ELSE "drop"
    [] c \in DropPC \ {"dropped"} -> "drop"
    [] OTHER -> "none"

\* A child hit by SIGKILL runs no more.
Seen(l) ==
  CASE l \in {"dying", "zombie"} -> "ended"
    [] l = "reaped" -> "gone"
    [] OTHER -> l

Phase == [s \in Sandboxes |-> PhaseOf(pc[s])]
CallOf == [s \in Sandboxes |-> CallFrom(pc[s], back[s])]
ChildOf == [s \in Sandboxes |-> Seen(leader[s])]

Contract == INSTANCE Jail
              WITH phase <- Phase, call <- CallOf, child <- ChildOf, by <- killer,
                   fired <- timedOut, told <- waited, reported <- reported

\* Whatever pids, signals, threads and other handles do, the owner sees one
\* child that ends once; spawn's error, wait, kill and drop answer only when it
\* has been reaped, and kill and drop always do (process/mod.rs:84-515).
ImplementsJail == Contract!Spec

\* The safety part of it, which the proofs establish.
ImplementsJailSafely == Contract!SafeSpec

-----------------------------------------------------------------------------
(* The inductive invariant behind TimeoutReported and NoZombieLeft *)

\* A handle has a pid, and a leader, from the fork on.
SpawnInv == \A s \in Sandboxes :
  /\ pc[s] = "unspawned" <=> leader[s] = "none"
  /\ pc[s] = "unspawned" <=> pid[s] = NoPid
  /\ pc[s] = "unspawned" => \A x \in Places : kids[s][x] = "none"

\* A pid names one process group at a time.
PidInv == \A s, t \in Sandboxes :
  pid[s] = pid[t] /\ GroupExists(s) /\ GroupExists(t) => s = t

\* Child keeps a status only after the child is reaped; wait has succeeded
\* only with a status.
StatusInv == \A s \in Sandboxes :
  /\ cached[s] => leader[s] = "reaped"
  /\ pc[s] \in {"wait_cancel", "wait_load"} \/ waited[s] = "ok" => cached[s]
  /\ pc[s] = "abort_drop" => leader[s] = "reaped"

\* The watchdog stores its flag before it sends any signal.
FireInv == \A s \in Sandboxes :
  wd[s] \in {"cgroup", "kill", "reap"} \/ killer[s] = "watchdog" => timedOut[s]

IInv == /\ TypeOK /\ SpawnInv /\ PidInv /\ StatusInv /\ FireInv
        /\ TimeoutReported /\ NoZombieLeft

-----------------------------------------------------------------------------
(* The inductive invariants behind the other safety properties *)

Spawning == {"unspawned", "cgroup_new", "attach", "watchdog", "abort_kill", "abort_wait"}

\* While it is being spawned, and after that has failed, a handle has no history:
\* no call has returned, nobody has fired or waited, and the child is attached
\* only at the end, where spawn has made a directory.
FreshInv == \A s \in Sandboxes :
  /\ pc[s] \in SpawnPC => ~killed[s] /\ waited[s] = "no" /\ wd[s] = "off"
  /\ pc[s] \in Spawning => ~cached[s]
  /\ pc[s] \in Spawning \ {"watchdog"} => ~cgroup[s]
  /\ cgroup[s] \/ pc[s] = "attach" => setup[s].cgroup

\* kill, drop and a wait that has its status close the latch before they go on.
LatchInv == \A s \in Sandboxes :
  \/ waited[s] = "ok" \/ killed[s]
  \/ pc[s] \in {"wait_load", "kill_cgroup", "kill_try", "kill_signal", "kill_wait",
                "drop_try", "drop_fields", "dropped"}
  => latch[s]

\* The directory of a handle is there as long as a process runs in it, whatever
\* handles with the same pid remove.
DirInv == \A s \in Sandboxes :
  cgroup[s] /\ (leader[s] \in {"running", "dying"} \/ kids[s]["in"] # "none")
    => pid[s] \in dirs

\* From cgroup.kill on, where the kernel has it, nothing in the cgroup runs, and
\* nothing new starts.
SweepInv == \A s \in Sandboxes :
  Sweepable(s) /\ (killed[s] \/ pc[s] \in {"kill_try", "kill_signal", "kill_wait"})
    => leader[s] # "running" /\ kids[s]["in"] # "live"

\* As long as no watchdog has fired by number, the owner alone reaps.
ReapInv == \A s \in Sandboxes :
  /\ wd[s] # "reap"
  /\ leader[s] = "reaped" => cached[s]
  /\ pc[s] = "kill_signal" => ~cached[s]
  /\ waited[s] # "err"

\* A program that is not ours never has the pid of a group that exists.
StrangerInv == \A s \in Sandboxes : pid[s] \in stranger => ~GroupExists(s)

PidfdWorks == \A e \in Setups : e.pidfd /\ e.sendable
NoCgroups == \A e \in Setups : ~e.cgroup

CallInv == FreshInv /\ LatchInv /\ DirInv /\ SweepInv

\* The flag is stored on the way from the timeout to the signals, and from the
\* write to cgroup.kill on nothing in the cgroup runs.
StrikeInv == \A s \in Sandboxes :
  /\ wd[s] \in {"off", "wait", "store"} => ~timedOut[s]
  /\ wd[s] \in {"kill", "reap", "ended"} /\ timedOut[s] /\ Sweepable(s) =>
       leader[s] # "running" /\ kids[s]["in"] # "live"

\* A timeout means a watchdog from the end of spawn on; it ends only cancelled or
\* having fired; and a call that leaves the handle open has closed the latch only
\* with the child reaped.
ArmedInv == \A s \in Sandboxes :
  /\ pc[s] \in SpawnPC => ~latch[s]
  /\ pc[s] \notin SpawnPC /\ setup[s].timeout => wd[s] # "off"
  /\ wd[s] = "ended" => timedOut[s] \/ latch[s]
  /\ pc[s] \in {"idle", "io", "wait"} /\ latch[s] => leader[s] = "reaped"
=============================================================================
