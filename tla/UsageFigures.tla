---------------------------- MODULE UsageFigures ----------------------------
(***************************************************************************)
(* The figures of ResourceUsage (process/mod.rs, kill.rs, cgroups.rs):     *)
(* wait_with_usage reads the peak memory and the CPU time under the pid of *)
(* the child, blocks in child.wait(), and only then answers.  Meanwhile    *)
(* the child works, exits, or has its status collected by the watchdog,    *)
(* and a pid given up passes to another program or another sandbox.  The   *)
(* directory named after the pid may be left over from an earlier sandbox. *)
(***************************************************************************)
EXTENDS Naturals

CONSTANT MaxFigure      \* bound: units of memory and of CPU time

ASSUME MaxFigureAssumption == MaxFigure \in Nat \ {0}

VARIABLES
  peak,       \* the handle has a cgroup, and the kernel keeps its memory.peak
  old,        \* what memory.peak said of an earlier sandbox when spawn attached
  child,      \* running, zombie or reaped
  holder,     \* who has the pid: child, nobody, stranger, sandbox
  kid,        \* a descendant runs in the cgroup
  vm,         \* the child's VmPeak
  cpu,        \* its user and system time
  group,      \* memory.peak of the cgroup
  cached,     \* Child holds the exit status
  pc,         \* where the owner is in wait_with_usage
  begun,      \* the state of the child when the call began
  mem, secs,  \* the figures the call has read
  usage       \* its last answer

dir == <<peak, old>>
proc == <<child, holder, kid>>
figures == <<vm, cpu, group>>
call == <<pc, begun, mem, secs>>
vars == <<dir, proc, figures, cached, call, usage>>

\* A figure and whose it is; group is the child with its descendants.
Figure(of, at) == [of |-> of, at |-> at]
NoFigure == Figure("none", 0)
Figures == [of: {"child", "group", "other"}, at: 0 .. MaxFigure] \union {NoFigure}
NoUsage == [begun |-> "none"]
Usage == [begun: {"running", "zombie", "reaped"}, mem: Figures, secs: Figures]

TypeOK ==
  /\ peak \in BOOLEAN /\ kid \in BOOLEAN /\ cached \in BOOLEAN
  /\ child \in {"running", "zombie", "reaped"}
  /\ holder \in {"child", "nobody", "stranger", "sandbox"}
  /\ holder = "child" <=> child # "reaped"
  /\ old \in 0 .. MaxFigure
  /\ vm \in 0 .. MaxFigure /\ cpu \in 0 .. MaxFigure /\ group \in 0 .. MaxFigure
  /\ pc \in {"idle", "cpu", "wait"}
  /\ begun \in {"running", "zombie", "reaped"}
  /\ mem \in Figures /\ secs \in Figures
  /\ usage \in Usage \union {NoUsage}

\* CgroupV2::new, create_dir_all: the directory is fresh, or one that an earlier
\* sandbox with the same pid has left, whose processes are gone and whose peak is not.
CgroupNew ==
  /\ peak \in BOOLEAN
  /\ old \in IF peak THEN 0 .. MaxFigure ELSE {0}

Init ==
  /\ CgroupNew
  /\ child = "running" /\ holder = "child" /\ kid = FALSE
  /\ vm = 0 /\ cpu = 0 /\ group = 0
  /\ cached = FALSE
  /\ pc = "idle" /\ begun = "running" /\ mem = NoFigure /\ secs = NoFigure
  /\ usage = NoUsage

-----------------------------------------------------------------------------
(* The files the figures come from *)

\* procjail-<pid>/memory.peak, the highest figure since the directory was made: a
\* sandbox with the same pid, before this one or after it, uses the same directory.
MemoryPeak == IF group < old
              THEN Figure("other", old)
              ELSE Figure(IF holder = "sandbox" THEN "other" ELSE "group", group)

\* The entry of the pid in /proc, as far as somebody else has the pid by now.
OfHolder == IF holder = "nobody" THEN NoFigure ELSE Figure("other", 0)

\* VmPeak in /proc/<pid>/status: a zombie has no memory and no such line.
VmPeak == CASE child = "running" -> Figure("child", vm)
            [] child = "zombie" -> NoFigure
            [] child = "reaped" -> OfHolder

\* Fields 14 and 15 of /proc/<pid>/stat, which a zombie keeps.
CpuTime == IF child = "reaped" THEN OfHolder ELSE Figure("child", cpu)

-----------------------------------------------------------------------------
(* wait_with_usage and is_alive *)

Reap == child' = "reaped" /\ holder' = "nobody" /\ UNCHANGED kid

\* Mutated form: the status is collected before the figures are read.
ReadMemoryReaped ==
  /\ pc = "idle" /\ (cached \/ child = "zombie")
  /\ IF cached THEN UNCHANGED proc ELSE Reap
  /\ cached' = TRUE
  /\ begun' = child
  /\ mem' = IF peak THEN MemoryPeak ELSE NoFigure
  /\ pc' = "cpu"
  /\ UNCHANGED <<dir, figures, secs, usage>>

\* Mutated form: both are added up.
ReadMemorySum ==
  /\ pc = "idle"
  /\ begun' = child
  /\ mem' = IF peak THEN Figure("group", MemoryPeak.at + VmPeak.at) ELSE VmPeak
  /\ pc' = "cpu"
  /\ UNCHANGED <<dir, proc, figures, cached, secs, usage>>

\* memory.peak where it can be read, VmPeak otherwise.
ReadMemory ==
  /\ pc = "idle"
  /\ begun' = child
  /\ mem' = IF peak THEN MemoryPeak ELSE VmPeak
  /\ pc' = "cpu"
  /\ UNCHANGED <<dir, proc, figures, cached, secs, usage>>

\* Mutated form: only the figure of a process that still runs is read.
ReadCpuOfRunning ==
  /\ pc = "cpu"
  /\ secs' = IF child = "running" THEN CpuTime ELSE NoFigure
  /\ pc' = "wait"
  /\ UNCHANGED <<dir, proc, figures, cached, begun, mem, usage>>

ReadCpu ==
  /\ pc = "cpu"
  /\ secs' = CpuTime
  /\ pc' = "wait"
  /\ UNCHANGED <<dir, proc, figures, cached, begun, mem, usage>>

\* child.wait() has a status, its own or the one it kept, and Ok(usage) follows.
Answer ==
  /\ pc = "wait" /\ (cached \/ child = "zombie")
  /\ IF cached THEN UNCHANGED proc ELSE Reap
  /\ cached' = TRUE
  /\ usage' = [begun |-> begun, mem |-> mem, secs |-> secs]
  /\ pc' = "idle"
  /\ UNCHANGED <<dir, figures, begun, mem, secs>>

\* child.wait()? propagates ECHILD.
Fails ==
  /\ pc = "wait" /\ ~cached /\ child = "reaped"
  /\ pc' = "idle"
  /\ UNCHANGED <<dir, proc, figures, cached, begun, mem, secs, usage>>

\* The only other call that collects a status and leaves the handle open.
IsAlive ==
  /\ pc = "idle" /\ child = "zombie"
  /\ Reap
  /\ cached' = TRUE
  /\ UNCHANGED <<dir, figures, call, usage>>

\* waitpid in the watchdog's kill_process.
WatchdogReaps ==
  /\ child = "zombie"
  /\ Reap
  /\ UNCHANGED <<dir, figures, cached, call, usage>>

-----------------------------------------------------------------------------
(* The child, its descendant and the other programs of the host *)

Grows(x) == x < MaxFigure /\ x' = x + 1

Work ==
  /\ child = "running"
  /\ \/ Grows(vm) /\ UNCHANGED <<cpu, group>>
     \/ Grows(cpu) /\ UNCHANGED <<vm, group>>
     \/ Grows(group) /\ UNCHANGED <<vm, cpu>>
  /\ UNCHANGED <<dir, proc, cached, call, usage>>

KidWork ==
  /\ kid
  /\ Grows(group)
  /\ UNCHANGED <<dir, proc, vm, cpu, cached, call, usage>>

Exit ==
  /\ child = "running"
  /\ child' = "zombie"
  /\ UNCHANGED <<dir, holder, kid, figures, cached, call, usage>>

Fork ==
  /\ child = "running" /\ ~kid
  /\ kid' = TRUE
  /\ UNCHANGED <<dir, child, holder, figures, cached, call, usage>>

KidExit ==
  /\ kid
  /\ kid' = FALSE
  /\ UNCHANGED <<dir, child, holder, figures, cached, call, usage>>

\* The kernel gives no pid away that is still the number of a process group.
PidTaken ==
  /\ holder = "nobody" /\ ~kid
  /\ holder' \in {"stranger", "sandbox"}
  /\ UNCHANGED <<dir, child, kid, figures, cached, call, usage>>

PidGivenUp ==
  /\ holder \in {"stranger", "sandbox"}
  /\ holder' = "nobody"
  /\ UNCHANGED <<dir, child, kid, figures, cached, call, usage>>

Next == \/ ReadMemory \/ ReadCpu \/ Answer \/ Fails \/ IsAlive \/ WatchdogReaps
        \/ Work \/ KidWork \/ Exit \/ Fork \/ KidExit \/ PidTaken \/ PidGivenUp

Spec == Init /\ [][Next]_vars

-----------------------------------------------------------------------------

\* A call that begins before anybody has the status answers with the CPU time of
\* this child and, unless its directory was left over, with memory of this child and
\* its descendants: they are read before the pid can be given up, or else
\* child.wait() fails (mod.rs:446-458).  The one figure of others that can get into
\* the answer is the peak that directory already had (cgroups.rs:39, 87-94).
OnlyLeftOver(fig) == fig.of = "other" => old > 0 /\ fig.at = old

FiguresOwn == usage.begun \in {"running", "zombie"} =>
  usage.secs.of = "child" /\ OnlyLeftOver(usage.mem)

\* The figures are those of the call, not of the exit: only a child that had
\* already exited when the call began has its final CPU time in the answer
\* (the order of mod.rs:446-458; the doc of the struct, mod.rs:30, says exit).
ExactOnceExited == usage.begun = "zombie" => usage.secs.at = cpu
-----------------------------------------------------------------------------
(* The inductive invariant behind the two *)

\* Child keeps a status only after the child is reaped.
CachedInv == cached => child = "reaped"

\* A call that began before anybody had the status cannot find it in Child.  What
\* it has read by then is its own or left over, and the CPU time of a child that had exited is
\* final; or else the watchdog has taken the status, and the call will fail.
CallInv == pc # "idle" /\ begun # "reaped" =>
  /\ ~cached
  /\ OnlyLeftOver(mem)
  /\ begun = "zombie" => child # "running"
  /\ pc = "wait" => \/ child = "reaped"
                    \/ secs.of = "child" /\ (begun = "zombie" => secs.at = cpu)

\* An answer is given only with the status, so the child has stopped for good.
AnswerInv == usage.begun # "none" => child = "reaped"

IInv == TypeOK /\ CachedInv /\ CallInv /\ AnswerInv /\ FiguresOwn /\ ExactOnceExited
=============================================================================
