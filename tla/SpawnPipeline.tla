---------------------------- MODULE SpawnPipeline ----------------------------
(***************************************************************************)
(* One call of SandboxedProcess::spawn (src/src/process/mod.rs), step by   *)
(* step and with every step free to fail, against the child it forks,      *)
(* which isolates itself in the pre_exec closure of process/builder.rs     *)
(* before it executes the harness, or the launcher of the strategy, which  *)
(* then has to do its work under the filter.                               *)
(*                                                                         *)
(* Two facts of the standard library shape it.  Command::spawn reports a   *)
(* failure of the child through a close-on-exec pipe, and returns as soon  *)
(* as that pipe is closed; close_inherited_fds, the first thing the        *)
(* closure does, closes every descriptor above 2, that pipe included.  And *)
(* the harness runs from its exec on, so it may fork before spawn has      *)
(* moved it into its cgroup.                                               *)
(***************************************************************************)
EXTENDS StrategySelection, Naturals, Sequences, Functions

CONSTANT Hosts   \* the hosts that spawn may be called on

ASSUME HostsAssumption == Hosts \subseteq Host

VARIABLES
  host,       \* where spawn is called: launchers installed, namespaces permitted
  required,   \* config.require_hardware_limits
  timeout,    \* config.timeout_seconds > 0
  localhost,  \* config.allow_localhost
  provider,   \* config.custom_provider is set
  forced,     \* config.force_strategy, or "auto"
  pc,         \* where spawn is
  strategy,   \* the strategy selected
  dir,        \* the cgroup directory exists
  limits,     \* the limits written to it, in order
  attached,   \* the child was moved into it
  armed,      \* the watchdog thread was started
  child,      \* the forked process
  step,       \* how far it is in the pre_exec closure
  applied,    \* what it has applied to itself
  pipe,       \* the error pipe of Command::spawn
  image,      \* the program it runs: none yet, the launcher, the harness
  kids        \* where descendants of the harness run: "in", "out" of the cgroup

given == <<host, required, timeout, localhost, provider, forced>>
cgroup == <<dir, limits, attached>>
parent == <<given, pc, strategy, cgroup, armed>>
inside == <<child, step, applied, pipe, image, kids>>
vars == <<parent, inside>>

\* The pre_exec closure, in order.
Closure == <<"fds", "as", "cpu", "nofile", "nproc", "seccomp">>
\* The writes to the cgroup, in order: memory.max, memory.swap.max, cpu.max, pids.max.
Limits == <<"memory", "swap", "cpu", "pids">>

Returned == {"ok", "err", "panicked"}
PC == Returned \union {"validate", "which", "select", "build", "fork", "await", "cgroup",
                        "limit", "attach", "watchdog", "kill", "reap"}

\* The limits are written in their order.
InOrder == \E n \in 0 .. Len(Limits) : limits = SubSeq(Limits, 1, n)

TypeOK == /\ host \in Hosts
          /\ required \in BOOLEAN /\ timeout \in BOOLEAN
          /\ localhost \in BOOLEAN /\ provider \in BOOLEAN
          /\ forced \in Strategies \union {"auto"}
          /\ pc \in PC
          /\ strategy \in Strategies \union {"unset"}
          /\ dir \in BOOLEAN /\ attached \in BOOLEAN /\ armed \in BOOLEAN
          /\ InOrder
          /\ child \in {"none", "closure", "running", "dead", "reaped"}
          /\ step \in 1 .. Len(Closure) + 1
          /\ applied \subseteq Range(Closure)
          /\ pipe \in {"open", "closed", "error"}
          /\ image \in {"none", "launcher", "harness", "gave_up"}
          /\ kids \subseteq {"in", "out"}

Init == /\ host \in Hosts
        /\ required \in BOOLEAN /\ timeout \in BOOLEAN
        /\ localhost \in BOOLEAN /\ provider \in BOOLEAN
        /\ forced \in Strategies \union {"auto"}
        /\ pc = "validate" /\ strategy = "unset"
        /\ dir = FALSE /\ limits = <<>> /\ attached = FALSE /\ armed = FALSE
        /\ child = "none" /\ step = 1 /\ applied = {} /\ pipe = "open"
        /\ image = "none" /\ kids = {}

Goto(from, to) == pc = from /\ pc' = to

\* A step of spawn that changes nothing but its place.
Step(from, to) == /\ Goto(from, to)
                  /\ UNCHANGED <<given, strategy, cgroup, armed, inside>>

\* The program executed is the launcher of the strategy, and not the runtime.
ByLauncher == ~provider /\ strategy \in Launchers

-----------------------------------------------------------------------------
(* spawn, in the calling thread *)

\* A check before anything is started: it passes, or spawn returns its error.
Check(from, to) == Step(from, to) \/ Step(from, "err")

\* work_dir is a directory, harness_path a file, max_recv_line_bytes not zero.
ValidateInputs == Check("validate", "which")

\* The runtime is an executable file, under its own path or on PATH.
FindRuntime == Check("which", "select")

\* force_strategy, or the best of what the probes find.  They are run for a
\* custom provider too.
SelectStrategy == /\ Goto("select", "build")
                  /\ strategy' = IF forced = "auto" THEN Best(Works(host)) ELSE forced
                  /\ UNCHANGED <<given, cgroup, armed, inside>>

\* Absolute paths, valid environment names, mounts that exist, a provider that
\* does not refuse; the closure is installed last.
BuildCommand == Check("build", "fork")

\* cmd.spawn(): pipes and fork ...
Fork == /\ Goto("fork", "await")
        /\ child' = "closure"
        /\ UNCHANGED <<given, strategy, cgroup, armed,
                       step, applied, pipe, image, kids>>
ForkFails == Step("fork", "err")

\* ... then a read of the error pipe: its end means that all went well ...
AwaitOk == Step("await", "cgroup") /\ pipe = "closed"

\* ... and an errno that the child has failed; Command::spawn reaps it.
AwaitError == /\ Goto("await", "err")
              /\ pipe = "error" /\ child = "dead"
              /\ child' = "reaped"
              /\ UNCHANGED <<given, strategy, cgroup, armed,
                             step, applied, pipe, image, kids>>

\* CgroupV2::new
CgroupNew == /\ Goto("cgroup", "limit")
             /\ dir' = TRUE
             /\ UNCHANGED <<given, strategy, limits, attached, armed, inside>>

\* Mutated form: require_hardware_limits is not looked at.
CgroupUnavailableIgnored == Step("cgroup", "watchdog")

\* Fail closed when hardware limits are required, else go on without.
CgroupUnavailable == Step("cgroup", IF required THEN "kill" ELSE "watchdog")

\* Mutated form: memory.swap.max is not written.
SetLimitNoSwap ==
  LET rest == SelectSeq(Limits, LAMBDA file : file # "swap")
  IN  /\ Goto("limit", IF Len(limits) + 1 = Len(rest) THEN "attach" ELSE "limit")
      /\ limits' = Append(limits, rest[Len(limits) + 1])
      /\ UNCHANGED <<given, strategy, dir, attached, armed, inside>>

\* set_memory_limit (two files), set_cpu_limit, set_pids_limit, chained by and_then.
SetLimit == /\ Goto("limit", IF Len(limits) + 1 = Len(Limits) THEN "attach" ELSE "limit")
            /\ limits' = Append(limits, Limits[Len(limits) + 1])
            /\ UNCHANGED <<given, strategy, dir, attached, armed, inside>>

\* attach_pid: the child, and not what it has forked already.
Attach == /\ Goto("attach", "watchdog")
          /\ attached' = TRUE
          /\ UNCHANGED <<given, strategy, dir, limits, armed, inside>>

\* Mutated form: the error is returned without kill_and_reap.
LimitFailsAtOnce == \E from \in {"limit", "attach"} : Step(from, "err")

LimitFails == \E from \in {"limit", "attach"} : Step(from, "kill")

\* Mutated form: kill_and_reap only reaps.
KillForgotten == Step("kill", "reap")

\* kill_and_reap signals the child alone ...
Kill == /\ Goto("kill", "reap")
        /\ child' = IF child \in {"closure", "running"} THEN "dead" ELSE child
        /\ UNCHANGED <<given, strategy, cgroup, armed,
                       step, applied, pipe, image, kids>>

\* ... and waits for it; the CgroupV2 that was never attached removes its
\* directory on the way out.
Reap == /\ Goto("reap", "err")
        /\ child = "dead"
        /\ child' = "reaped"
        /\ dir' = FALSE
        /\ UNCHANGED <<given, strategy, limits, attached, armed,
                       step, applied, pipe, image, kids>>

\* spawn_parent_watchdog, unless timeout_seconds is 0, and Ok(Self).
Finish == /\ Goto("watchdog", "ok")
          /\ armed' = timeout
          /\ UNCHANGED <<given, strategy, cgroup, inside>>

\* thread::spawn panics when the host has no thread left: the Child is dropped,
\* which neither kills nor reaps it, and so is the CgroupV2.
ThreadPanics ==
  /\ Goto("watchdog", "panicked")
  /\ timeout
  /\ dir' = (dir /\ attached /\ (child \in {"closure", "running"} \/ "in" \in kids))
  /\ UNCHANGED <<given, strategy, limits, attached, armed, inside>>

-----------------------------------------------------------------------------
(* The child: close_inherited_fds, the four setrlimit calls, seccomp, exec *)

\* An error in the child goes to the parent only while the pipe is open.
ChildFails == /\ child = "closure"
              /\ child' = "dead"
              /\ pipe' = IF pipe = "open" THEN "error" ELSE pipe
              /\ UNCHANGED <<parent, step, applied, image, kids>>

\* close_range, or the walk of /proc/self/fd where the kernel has none.
CloseFds == /\ child = "closure" /\ step = 1
            /\ step' = 2
            /\ applied' = applied \union {"fds"}
            /\ pipe' = "closed"
            /\ UNCHANGED <<parent, child, image, kids>>

\* The walk finds no /proc/self/fd to read, and closes nothing.
CloseNothing == /\ child = "closure" /\ step = 1
                /\ step' = 2
                /\ UNCHANGED <<parent, child, applied, pipe, image, kids>>

\* Mutated form: the result of setrlimit or prctl is not looked at.
ApplyNextUnchecked == /\ child = "closure" /\ step \in 2 .. Len(Closure)
                      /\ step' = step + 1
                      /\ applied' \in {applied, applied \union {Closure[step]}}
                      /\ UNCHANGED <<parent, child, pipe, image, kids>>

ApplyNext == /\ child = "closure" /\ step \in 2 .. Len(Closure)
             /\ step' = step + 1
             /\ applied' = applied \union {Closure[step]}
             /\ UNCHANGED <<parent, child, pipe, image, kids>>

Executable == ByLauncher => strategy \in host.installed

\* execvp succeeds, and closes the pipe if it is still open.
Exec == /\ child = "closure" /\ step > Len(Closure)
        /\ Executable
        /\ child' = "running"
        /\ image' = IF ByLauncher THEN "launcher" ELSE "harness"
        /\ pipe' = "closed"
        /\ UNCHANGED <<parent, step, applied, kids>>

\* A forced launcher that is not there: NotFound, if the pipe can still say so.
ExecFails == /\ child = "closure" /\ step > Len(Closure)
             /\ ~Executable
             /\ child' = "dead"
             /\ pipe' = IF pipe = "open" THEN "error" ELSE pipe
             /\ UNCHANGED <<parent, step, applied, image, kids>>

\* The launcher executes the harness, or exits with a status of its own, which
\* looks like one of the harness.
Launch ==
  LET starts == Starts(strategy, localhost, host, "seccomp" \in applied)
  IN  /\ child = "running" /\ image = "launcher"
      /\ image' = IF starts THEN "harness" ELSE "gave_up"
      /\ child' = IF starts THEN "running" ELSE "dead"
      /\ UNCHANGED <<parent, step, applied, pipe, kids>>

Isolate == CloseFds \/ CloseNothing \/ ApplyNext \/ Exec \/ ExecFails

\* The harness or its launcher forks: into its cgroup, once it is attached.
HarnessForks == /\ child = "running"
                /\ kids' = kids \union {IF attached THEN "in" ELSE "out"}
                /\ UNCHANGED <<parent, child, step, applied, pipe, image>>

HarnessExits == /\ child = "running"
                /\ child' = "dead"
                /\ UNCHANGED <<parent, step, applied, pipe, image, kids>>

KidExits(x) == /\ x \in kids
               /\ kids' = kids \ {x}
               /\ UNCHANGED <<parent, child, step, applied, pipe, image>>

\* spawn has returned; the harness goes on by itself.
Done == pc \in Returned /\ UNCHANGED vars

-----------------------------------------------------------------------------

Spawn == \/ ValidateInputs \/ FindRuntime \/ SelectStrategy \/ BuildCommand
         \/ Fork \/ ForkFails \/ AwaitOk \/ AwaitError
         \/ CgroupNew \/ CgroupUnavailable \/ SetLimit \/ Attach \/ LimitFails
         \/ Kill \/ Reap \/ Finish \/ ThreadPanics

Harness == Launch \/ HarnessForks \/ HarnessExits \/ \E x \in {"in", "out"} : KidExits(x)

Next == Spawn \/ Isolate \/ ChildFails \/ Harness \/ Done

\* The calling thread runs, and so does the child until its exec; the harness
\* owes nothing.
Spec == Init /\ [][Next]_vars /\ WF_vars(Spawn) /\ WF_vars(Isolate)

-----------------------------------------------------------------------------
(* Properties *)

\* An Err from spawn leaves neither the child nor its zombie, nor a directory,
\* at whatever step it failed (mod.rs:165-210).
ErrLeavesNoChild == pc = "err" => child \in {"none", "reaped"} /\ ~dir

\* A sandbox is handed out without its cgroup only if the caller did not
\* require hardware limits, and the child never joins a cgroup whose limits are
\* not all in force (mod.rs:184-205).
FailClosed == /\ attached => limits = Limits
              /\ pc = "ok" /\ (required \/ dir) => attached

\* No launcher and no harness runs without its four rlimits and the seccomp filter, though
\* the parent may never hear that one of them failed (builder.rs:280-328).
HarnessIsolated == image # "none" => {"as", "cpu", "nofile", "nproc", "seccomp"} \subseteq applied

\* A harness runs without a launcher only where the caller asked for that or no
\* launcher works on the host: nothing later in spawn falls back to less
\* (mod.rs:124-126, detect.rs:91-99).
UnlaunchedOnlyByChoice ==
  image = "harness" /\ ~ByLauncher
    => \/ provider
       \/ forced \in {"rlimits", "none"}
       \/ forced = "auto" /\ Works(host) = {}

\* spawn returns, though the harness may never do anything.
SpawnReturns == pc = "validate" ~> pc \in Returned

\* "Returns an error if ... the process fails to spawn" (mod.rs:100-103): a
\* handle is not handed out for a harness that could not be executed.
FailureReported == pc = "ok" /\ child \in {"dead", "reaped"} => image # "none"

\* Only a close_inherited_fds that has closed the error pipe hides a failure of the
\* child: where it finds nothing to close, a harness that could not be executed is
\* always reported (builder.rs:186-210, 280).
SilentOnlyWithoutPipe == "fds" \notin applied => FailureReported

\* A strategy whose probe passed starts its harness
\* (tests/integration/mod.rs:31-66, detect.rs:127-133).
ProbedStarts == strategy \in Works(host) => image # "gave_up"

\* In fact no host starts it: a launcher inherits the filter, which refuses its
\* mounts, so only a harness without a launcher ever runs (builder.rs:322-326,
\* seccomp/mod.rs:344).
LaunchersNeverStart == image = "harness" => ~ByLauncher

-----------------------------------------------------------------------------
(* The inductive invariant behind ErrLeavesNoChild, FailClosed,              *)
(* HarnessIsolated and UnlaunchedOnlyByChoice                                *)

Early == {"validate", "which", "select", "build", "fork"}

\* The child is there from the fork until an error path has reaped it.
ChildInv == /\ pc \in Early => child = "none"
            /\ child = "none" => pc \in Early \union {"err"} /\ step = 1
            /\ child \in {"none", "closure"} => image = "none"
            /\ child = "reaped" => pc = "err"
            /\ pc = "reap" => child = "dead"

\* The directory is made after the exec and all its limits are written before
\* the child is attached.
CgroupInv == /\ pc \in Early \union {"await", "cgroup"} => ~dir /\ limits = <<>> /\ ~attached
             /\ pc = "limit" => limits # Limits
             /\ pc = "attach" => limits = Limits
             /\ pc \in {"limit", "attach"} => ~attached
             /\ pc = "watchdog" /\ (required \/ dir) => attached

\* The child has applied every step of the closure that it has passed, the
\* descriptors left aside.
ClosureInv == \A i \in 2 .. Len(Closure) : i < step => Closure[i] \in applied

\* The strategy is the one that was asked for or the best that works, from its
\* selection on.
SelectInv ==
  /\ pc \in {"build", "fork"} \/ child # "none" => strategy # "unset"
  /\ strategy # "unset" => strategy = IF forced = "auto" THEN Best(Works(host)) ELSE forced
  /\ image = "launcher" => ByLauncher

\* The error pipe is closed by close_inherited_fds or by the exec, and read to its
\* end before spawn goes on.
PipeInv ==
  /\ pipe = "closed" => "fds" \in applied \/ image # "none"
  /\ pc \in {"cgroup", "limit", "attach", "watchdog", "ok"} => pipe = "closed"

IInv == /\ TypeOK /\ ChildInv /\ CgroupInv /\ ClosureInv
        /\ SelectInv /\ ErrLeavesNoChild /\ FailClosed /\ HarnessIsolated
        /\ UnlaunchedOnlyByChoice
=============================================================================
