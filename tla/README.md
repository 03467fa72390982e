# procjail: a TLA+ model of the sandboxed process

procjail (`src/src`) runs untrusted code in a child process. `SandboxedProcess::spawn`
starts the child inside a containment strategy, limits it with rlimits, a seccomp filter
and, where it can, a cgroup, and arms a watchdog thread that kills it at a timeout. The
owner of the handle talks to the child over pipes, waits for it, kills it or drops it.

What is hard about this code is not any one function. It is that the owner, the watchdog
thread, the child with its descendants, the owners of other handles and the kernel's
reuse of pids interleave between any two system calls. The model is about that.

## Inventory

| component | source | state | operations | modelled in |
|---|---|---|---|---|
| sandboxed process | `process/mod.rs` | `Child` with its status, pipes, cancel signal, timeout flag, cgroup, `killed_by_timeout` | `spawn`, `send`, `recv`, `send_recv`, `kill`, `is_alive`, `wait`, `wait_with_usage`, `Drop` | `Jail`, `SandboxedProcess`; `LineChannel` (`send`, `recv`); `UsageFigures` |
| spawn pipeline, `pre_exec` closure | `process/mod.rs`, `process/builder.rs` | how far the spawn and the forked child have come | `validate_inputs`, `which`, `build_command`, `close_inherited_fds`, `apply_pre_exec_isolation`, the cgroup limits | `SpawnPipeline` |
| watchdog cancel signal | `process/builder.rs` | `Mutex<bool>`, `Condvar` | `cancel`, `is_cancelled`, `wait_until_cancelled_or` | `CancelLatch`, `WatchdogCancel` |
| watchdog thread, kill paths | `process/builder.rs`, `process/kill.rs` | pidfd, pid, cgroup path | `spawn_parent_watchdog`, `open_pidfd`, `kill_process`, `kill_process_pidfd`, the `/proc` readers | `SandboxedProcess`, `UsageFigures` |
| cgroup directory | `cgroups.rs` | a directory named `procjail-<pid>` | `new`, `set_*_limit`, `attach_pid`, `kill_all`, `current_memory_peak`, `Drop` | `SandboxedProcess`, `SpawnPipeline`, `UsageFigures` |
| seccomp filter | `seccomp/mod.rs` | a BPF program | `apply_seccomp_filter` | `SeccompFilter`; a step of `SpawnPipeline` |
| command and environment | `process/builder.rs` | the `Command` | `build_*_command`, `apply_environment`, `validate_environment`, `nproc_limit_for_uid` | `Configuration` (environment, process limit), `StrategySelection` (what a command asks of the kernel); a step of `SpawnPipeline` that may fail |
| configuration | `config/` | `SandboxConfig` | builder setters, `load`, `is_secret_env_var` | `Configuration` |
| strategy, probing | `strategy.rs`, `detect.rs` | none | `available_strategy`, `probe_capabilities` | `StrategySelection`, `SpawnPipeline` |
| provider | `provider.rs` | none | `apply_to_command` of a user's trait object | `Configuration`, `SpawnPipeline` |
| public interface, errors | `lib.rs`, `error.rs` | none | re-exports, error types | no |
| the rest | `sandbox/`, `bin/`, `build.rs`, `audit_tests.rs` | none | a file no module declares, a debugging binary, the build, tests | no |

How they interact: `spawn` calls the checks and `build_command`, forks, waits on the
standard library's error pipe, makes and fills the cgroup, opens a pidfd and starts the
watchdog with a clone of the cancel signal, of the timeout flag and of the cgroup's path.
From then on the owner and the watchdog share the cancel signal, the flag, and, through
the kernel, the pid, the exit status and the directory. The owner and the harness share two
pipes. `build_command` reads a configuration that a sequence of setters has made and the
environment of the whole program, which other threads may change before the fork.

What makes each component correct:

* *sandboxed process*: calls return; when they have returned the child is gone and
  reaped; the exit status is not lost; a timeout is reported;
* *pipes*: the output is cut into lines without loss, requests are not run together, and
  `recv` returns when its line is there;
* *usage*: the figures are those of this child, and where one is not it is known whose it is;
* *watchdog and kill paths*: a harness that overstays is ended with everything it
  started; nothing else is ever signalled; a watchdog that lost the race stays quiet;
* *cancel signal*: no wakeup is lost and no timeout comes early;
* *cgroup*: the limits are in force before the child joins; nothing the harness starts is
  outside; a directory is never used by a handle it does not belong to;
* *spawn*: every failure is reported and cleaned up; a harness never runs unlimited;
* *environment, configuration*: no secret passes, whichever way it is asked for; what is
  no secret does; limits are not looser than asked for, nor too tight to start;
* *strategy*: the preferred available strategy is chosen, and its launcher can
  run under the filter it is given; nothing falls back to less containment.

## Modules

* `CancelLatch` is what `WatchdogCancel` promises: a one-way latch, and a wait that
  returns true if the latch is closed and false only after its own timeout.
* `WatchdogCancel` is the mutex and condition variable: lock, store, unlock and notify in
  `cancel()`, the loop of `wait_timeout_while` with its test, its clock and its park, and
  spurious wakeups. The property `ImplementsLatch` says that it implements `CancelLatch`
  (`latch <- cancelled`, `outcome <- result`).
* `Jail` is what a handle promises its owner, without pids, signals, threads or cgroups: a
  child that ends once and is reaped once, by someone entitled to end it; calls that answer
  only when it has been; a timeout that is reported to the waits that follow it.
* `SandboxedProcess` is the lifecycle of any number of handles. One action per system
  call. The variables fall into three groups: the kernel (which process has which pid,
  leaders, descendants inside and outside the cgroup directory, other programs,
  directories), the handles (`pc` is where the owner is in its call; `cached`, `latch`,
  `timedOut`, `reported` and `wd` are the status in `Child`, the cancel signal, the
  atomic flag, `killed_by_timeout` and the watchdog thread) and history for the
  properties. It uses the cancel signal as `CancelLatch` states it, and implements `Jail`
  (`ImplementsJail`): `phase` and `call` are read off `pc`, and a child hit by `SIGKILL`
  has ended for the owner although the kernel has still to take it away.
* `LineChannel` is `send`, `recv` and `send_recv`, byte by byte, over two pipes of bounded
  size and a `BufReader`. Both streams are kept whole, with the positions up to which they
  have been written, buffered and taken, so that properties can speak of any line ever
  written. A byte is a newline, a character, or one of the two bytes of a longer character.
* `UsageFigures` is the order in which `wait_with_usage` reads its figures, blocks and
  answers, while the child works and exits and its pid passes to others, with a cgroup
  directory that may be one an earlier sandbox left behind, `memory.peak` included.
* `Configuration` is a sequence of builder calls, then one `build_command` and spawn: the
  checks, a provider, the three environment modes, `env_set`, the `SANTH_` variables and
  `RLIMIT_NPROC`. The environment is read when the command is built and again by
  `Command::spawn`; other threads may change it in between.
* `SeccompFilter` is the decision of the filter, for one system call of every group that
  `build_filter` lists. `block_syscall_explicit` adds no rule, and so has no part in it.
* `StrategySelection` holds the probes, the order of preference, the namespaces that each
  probe and each command built ask for, and the calls a launcher needs. It is operators
  only, over a host: the launchers installed and the namespaces its kernel permits.
* `SpawnPipeline` composes these two with one call of `spawn`, each step of which may
  fail, and the child it forks: the selection of a strategy, the descriptors, four rlimits
  and the filter of the closure, the exec of the runtime or of a launcher that has to get
  to the harness under the filter, and the harness that may fork before it is attached to
  its cgroup.
* `MC*` give the constants their values for TLC; `*_proofs` hold the theorems.

Definitions named as mutated forms are plausible mistakes in the definition that follows
them; with each in its place TLC finds a property violated, which shows that the property
depends on that piece of code.

What the models abstract. Descendants of a harness are counted as "some" or "none", in
the cgroup and outside of it. The clock is a choice: a timeout may run out whenever the
latch is open. A host has `cgroup.kill` (Linux 5.14 and later) or not (`cgkill` of a setup):
with it the write succeeds if the directory is there, without it the write fails and the
callers go on, as they do where the directory is gone. Calls of one owner never overlap (`&mut self`). A signal takes effect
later than it is sent. A descendant keeps its process group, for the seccomp filter
allows neither `setsid` nor `setpgid`. In `SandboxedProcess` pipes only matter as something that blocks.
In `SandboxedProcess` the launchers of the namespace strategies (`unshare`, `bwrap`,
`firejail`) are not told apart from the harness; a descendant that dies with its launcher (`--die-with-parent`) is
one that exits. `setup_io` never fails, since both pipes are always asked for. In
`Configuration` a name is listed as a secret, secret by its prefix, a `SANTH_` variable or
none of these. In `UsageFigures` the fields of
`/proc/<pid>/stat` are found where they are: a command name that contains `) `, which
`cpu_time_secs_for_process` would split at, is left out.

## Runs

| run | instance | shows |
|---|---|---|
| `watchdog_cancel` | 2 waiters, 2 cancelling threads | `NoEarlyTimeout`, `NoLostWakeup`, and refinement of the latch with its liveness (`ImplementsLatch`): all waits end once the latch is closed |
| `lifecycle` | 1 handle, every setup (with and without a cgroup, `cgroup.kill`, a pidfd), forks, strangers | what holds when a call has returned (`TimeoutReported`, `NoZombieLeft`, `KillSweepsCgroup`, `QuietAfterReturn`), that what `kill` and `drop` wait for has been hit (`KillAwaitsTheDead`), that `wait` returns (`WaitReturns`) and nobody waits with the timeout disarmed (`WaitWatched`), what a timeout hits at once (`TimeoutHits`) and ends (`TimeoutSweeps`) and that it releases a blocked `send` or `recv` (`IOReleased`), and the contract with its liveness (`ImplementsJail`) |
| `pid_reuse` | 2 handles, strangers, 1 pid, a pidfd and no cgroup | `NoStraySignal`, `StatusKept`, and that each handle keeps its contract (`ImplementsJailSafely`) |
| `spawn` | 15 hosts, every configuration, every step failing | `ErrLeavesNoChild`, `FailClosed`, `HarnessIsolated`, `UnlaunchedOnlyByChoice`, `SpawnReturns` |
| `configuration` | up to 3 builder calls on the default or a loaded configuration, 4 names, 1 change by another thread | `SecretsOnlyLate`, `AllowlistSealed`, `EnvironmentExact`, `SettingsReach`, `NprocHeadroom` |
| `lines` | a limit of 3 bytes, pipes and buffer of 2, 4 bytes each way | `FramesWhole`, `ShortLinesWhole`, `ErrorOnlyAtCut`, `NoneIsTheEnd`, `RequestsWhole`, `RecvReturns` |
| `usage` | figures up to 2, a cgroup directory fresh or left over | `FiguresOwn`, `ExactOnceExited` |
| `cascade_survives` | 1 handle, a pidfd and no cgroup | violation: a timeout ends the leader only |
| `status_stolen` | 1 handle, no usable pidfd | violation: the watchdog's `waitpid` makes the owner's wait fail |
| `stale_cgroup` | 2 handles, 1 pid, a pidfd and a cgroup | violation: a path made from a pid kills the next sandbox |
| `spawn_failure_reported` | as `spawn` | violation: the child closes the pipe on which it would report its failure |
| `probed_starts` | a host with every launcher and namespace | violation: no launcher starts its harness under the filter |

A run that expects a violation checks something a comment or a test of the repository
says; the findings in `PROJECT.json` quote it.

Bounds. The state is finite without any bound on counters. One pid is the smallest host,
and the hardest: two handles can only hold it one after the other, so whatever can be
stale is stale at once. More pids add behaviours in which handles do not meet. Two handles
are enough for one to harm another; the properties of `lifecycle` speak of one handle and
are checked for one, with strangers for the rest of the host, and proved for any number
where the table of theorems says so. The hosts of `spawn` have no launcher, each one alone
or all of them, with no namespace, all but the network or all: the cases that the probes,
the choice and the launchers tell apart. A host does not change during a spawn.
`configuration` has one name of every kind, environments with all, none and one that is not
UTF-8, and numbers that wrap (2^64 is 16 there); three calls are enough
to set a name, ask for it to be stripped and ask for it to be passed on. In `lines` the limit
is longer than the buffer and the pipe, so that a line arrives in several parts, and four
bytes hold a whole frame, its cut and what follows, or two characters of two bytes. In `usage` two units tell an earlier figure from a later
one and from none, and the peak of a left-over directory from the child's own. Two waiters and two cancelling threads are enough for
one notification to be meant for another waiter; the code has one waiter per signal.

Fairness. A thread inside a call keeps running, the clock reaches a timeout that is
awaited, and a process hit by `SIGKILL` dies: these are promises of the scheduler and the
kernel. A call need not be made, and the harness owes nothing: it need not exit, fork,
read, write or close its pipes. In `LineChannel` only the owner's thread is fair, inside a
call; `UsageFigures` and `Configuration` state no liveness. The mutex is strongly fair to a waiting thread, since
others take and release it again and again and a futex does not keep one thread out for
ever. Threads that call `cancel()` need not call it.

## Proofs

TLAPS checks these for every value of the constants (any sets of threads, handles and
pids, any mix of setups), from the assumptions named in the modules
(`ThreadsAssumption`: waiting and cancelling threads are different and `Nobody` is none
of them; `SetupAssumption`: setups are records of the stated type, `NoPid` is no pid;
`HostsAssumption`: hosts are records of the stated type; `LimitAssumption`,
`SizeAssumption`, `RequestAssumption`: the limit and the sizes are positive and requests are
sequences of bytes; `MaxFigureAssumption`: figures have a positive bound; `NameAssumption`, `ValueAssumption`, `NumberAssumption`,
`InputAssumption`: names, values, marks and numbers are of their kinds and do not overlap).

| module | theorem | establishes |
|---|---|---|
| `WatchdogCancel_proofs` | `Invariance`, `TypeCorrect`, `MutualExclusion`, `TimeoutNotEarly` | `IInv`, `TypeOK`, `LockInv`, `NoEarlyTimeout` |
| | `WakeupIsNotLost` | `NoLostWakeup` |
| | `Refinement` | `ImplementsLatchSafely`: every step is one of `CancelLatch` or a stutter |
| `SandboxedProcess_proofs` | `Invariance`, `TypeCorrect` | `IInv`, `TypeOK` |
| | `TimeoutIsReported` | `TimeoutReported` |
| | `NoZombieIsLeft` | `NoZombieLeft` |
| `SandboxedProcessCalls_proofs` | `QuietIsKept`, `KillIsASweep` | `QuietAfterReturn`, `KillSweepsCgroup` (where the kernel has `cgroup.kill`) |
| | `StatusIsLostByGroup` | `StatusOnlyByGroup`: on every host only a watchdog that has signalled by number takes a status |
| | `StatusIsKept` | `StatusKept`, if `PidfdWorks` |
| | `StrayIsByName` | `StrayOnlyByName`: until one has signalled by number a signal goes astray only by the name of a cgroup directory |
| | `NoSignalGoesAstray` | `NoStraySignal`, if `PidfdWorks` and `NoCgroups` |
| | `StrayFollowsTheGone` | `SignalsHitOwn`: on every host, a signal sent while the handle still has a process hits no other program and no other sandbox |
| | `KillAwaitsOnlyTheDead` | `KillAwaitsTheDead`: the wait inside `kill`, `drop` and a failing spawn is for a child that was hit |
| | `TimeoutDoesHit`, `WaitIsWatched` | `TimeoutHits`, `WaitWatched` |
| `SandboxedProcessJail_proofs` | `Refinement` | `ImplementsJailSafely`: every step is one of `Jail` or a stutter |
| `SpawnPipeline_proofs` | `Invariance`, `TypeCorrect` | `IInv`, `TypeOK` |
| | `FailureIsCleanedUp`, `LimitsFailClosed`, `HarnessIsIsolated`, `NoFallback` | `ErrLeavesNoChild`, `FailClosed`, `HarnessIsolated`, `UnlaunchedOnlyByChoice` |
| | `NoLauncherStarts` | `LaunchersNeverStart`: on no host does a launcher get to its harness |
| | `OnlyTheClosedPipeHides` | `SilentOnlyWithoutPipe`: a failed child is hidden only by the closed error pipe |
| `Configuration_proofs` | `Invariance`, `TypeCorrect` | `IInv`, `TypeOK` |
| | `SecretsAreKept`, `AllowlistIsSealed`, `EnvironmentIsExact` | `SecretsOnlyLate`, `AllowlistSealed`, `EnvironmentExact` |
| | `SettingsDoReach`, `NprocLeavesRoom` | `SettingsReach`, `NprocHeadroom` |
| `LineChannel_proofs` | `Invariance`, `TypeCorrect` | `IInv`, `TypeOK` |
| | `FramesAreWhole`, `ShortLinesAreWhole`, `ErrorsAreOnlyAtCuts` | `FramesWhole`, `ShortLinesWhole`, `ErrorOnlyAtCut` |
| | `NoneIsAtTheEnd`, `RequestsAreWhole` | `NoneIsTheEnd`, `RequestsWhole` |
| `UsageFigures_proofs` | `Invariance`, `TypeCorrect` | `IInv`, `TypeOK` |
| | `FiguresAreOwn`, `ExitedAreExact` | `FiguresOwn`, `ExactOnceExited` |

None of the safety properties is inductive, and each argument adds what it needs:

* *cancel signal*. `ParkInv` says that the latch is still open for a waiter at its clock
  test or about to park: it read it open, and the mutex it has held since keeps `cancel`
  out. `ReturnInv` says that a waiter about to return finds the latch set or its own
  timeout elapsed. The refinement maps each
  step under the mutex to a step of the latch. `NoLostWakeup` needs `ParkInv` too: nobody
  parks once the flag is set, so the thread that set it wakes all there are to wake.
* *timeouts and zombies*. `FireInv` (the flag is stored before any signal is sent) carries
  `TimeoutReported`; `StatusInv` (a status is in `Child` only when the child is reaped, and
  a wait has succeeded only with one) carries `NoZombieLeft`. `PidInv` (a pid names one
  process group at a time) is what keeps the signals of other handles, which may go astray,
  from undoing either.
* *calls*. `LatchInv` says that `wait`, `kill` and `drop` have closed the latch before they
  go on. `SweepInv` says that, where the kernel has `cgroup.kill`, from the write to it on nothing
  in the cgroup runs; it needs `DirInv`, that a directory is there as long as a process is in it, whatever
  handle with the same name removes it. `FreshInv` says that a handle has no history while
  it is being spawned.
* *pids*. As long as no watchdog has signalled by number (`NoGroupKill`) no watchdog reaps
  (`ReapInv`): a status in nobody's `Child` is still the owner's to take, and the number it
  signals is still its child's. `StrangerInv` (no stranger has the pid of a group that exists)
  then leaves a signal one way to a wrong process, a directory whose name was used before
  (`StrayOnlyByName`). The premises only ever become false, which makes the implications
  inductive. `PidfdWorks` and `NoCgroups` are hosts where they hold for good. The run
  `status_stolen` shows that the first is needed, `stale_cgroup` the second. `SignalsHitOwn`
  needs no premise about the host: while the handle has a process in its group, `PidInv` and
  `StrangerInv` leave its number, and the directory named after it, to nobody else.
* *waits inside a call*. `KillAwaitsTheDead` is inductive with `IInv`: the step before the wait
  hits the child whatever else its number names, and only a spawn starts a leader.
* *timeouts and what they hit*. `StrikeInv` follows the watchdog: the flag is stored on its
  way to the signals, and from `cgroup.kill` on, where there is one, nothing in the cgroup runs (`DirInv` again).
  What has been hit stays so, because only a running leader forks. `ArmedInv` follows the
  latch and the thread: a timeout means a watchdog from the end of `spawn` on, it ends only
  cancelled or fired, and a call that leaves the handle open has closed the latch only with
  the child reaped. Both together give `WaitWatched`, the safety half of `WaitReturns`.
* *spawn*. `ChildInv`, `CgroupInv`, `ClosureInv` and `SelectInv` say how far the child, the
  cgroup, the closure and the choice of the strategy are at each place of `spawn`. Lemmas
  about prefixes of a sequence show that the limits are written in order. `LaunchersNeverStart`
  rests on `HarnessIsolated` (a launcher has the filter on it) and on what the filter
  decides about the calls each launcher needs; `PipeInv` says who has closed the error pipe.
* *contract*. Each action of the lifecycle is mapped to one action of `Jail` or to none;
  `FreshInv`, `StatusInv` and `PidInv` supply what the guards of the contract ask for:
  a call answers only with the child reaped (`StatusInv`), and a signal that names a pid
  ends at most one running child (`PidInv`). A handle being spawned cannot be fired at
  (`FreshInv`).
* *environment*. `EntryInv` says what an entry of the command may be once the base is laid:
  a secret that was seen is removed, or was never taken over; a value of the host is there
  only in Allowlist mode, where nothing of the provider is; and without a provider an entry
  is what its mode and the secret test make of it, until `env_set` overrides it. `SettingsInv` follows `env_set`
  entry by entry. `BuilderInv` says that no setter forgets a name to strip. `ChildInv` adds
  the four properties of the child, which the step that spawns establishes.
* *lines*. `RecvInv` says that the frame being read holds no newline before its last byte
  and is within the limit; `FrameInv` that earlier frames lie before it; `LineInv` that it
  begins behind a newline as long as every line fits; `SendInv` that what is still to be
  written ends in its newline.
* *usage*. `CachedInv` (a status is in `Child` only when the child is reaped) and `CallInv`:
  a call that began before anybody had the status holds figures of its own child, save for
  the peak a left-over directory came with, or somebody has taken the status since and the
  call will fail in `child.wait()`.

Only model-checked: everything that says something must happen (`WaitReturns`,
`TimeoutSweeps`, `IOReleased`, `CascadeEnds`, `SpawnReturns`, `RecvReturns`, the liveness in
`ImplementsLatch` and in `ImplementsJail`), for the prover has neither fairness nor
`ENABLED`. What is proved of them is their safety half: `WaitWatched` for `WaitReturns` and
`IOReleased`, `TimeoutHits` for `TimeoutSweeps`, `NoLostWakeup` for the latch, and
`KillAwaitsTheDead` for the `kill` and `drop` of the contract. Every invariant a passing run
checks is stated by a theorem. `TypeOK` of `WatchdogCancel`, `StatusOnlyByGroup`,
`StrayOnlyByName`, `SignalsHitOwn`, `LaunchersNeverStart` and `SilentOnlyWithoutPipe` are
proved and belong to no run: they say of all hosts what the runs show of one, or narrow down
what a run that expects a violation refutes. No data is defined by recursion, and no induction over data is needed.

## What the modelling showed

Where a comment, doc or test of the repository says otherwise, a run checks it and the
finding in `PROJECT.json` quotes it: `cascade_survives`, `status_stolen`, `stale_cgroup`,
`spawn_failure_reported`, `probed_starts`. Other things a reader of the code may want to know:

* A harness that exits by itself just as its timeout strikes is reported as killed: the flag
  is stored before the signal (`builder.rs:661`), which `TimeoutReported` needs. The doc of
  the field says "killed by the parent watchdog" (`mod.rs:77`). `Jail` states what is true:
  it tells whether the timeout had struck.
* `killed_by_timeout` of a handle may turn from false to true: a `wait` that finds the child
  exited just before the flag is stored answers false, and a second one true
  (`mod.rs:462`, `builder.rs:661`).
* No strategy with a launcher can run its harness on any host (`LaunchersNeverStart`), and
  `probed_starts` is not a matter of the host chosen there: `mount` has no rule in the filter.
* A launch that fails is always reported where `close_inherited_fds` finds nothing to close
  (`SilentOnlyWithoutPipe`).
* What a harness forks before `attach_pid` stays outside the cgroup (`mod.rs:188`); the field
  calls it "unescapable" (`mod.rs:75`). `TimeoutSweeps` and `KillSweepsCgroup` therefore
  speak of what is inside. It also survives a spawn that fails later: `kill_and_reap` ends
  the child alone, and `ErrLeavesNoChild` speaks of the child.
* On a kernel before 5.14 there is no `cgroup.kill`, and the error of the write is ignored
  (`mod.rs:375`, `builder.rs:664`). The leader is ended all the same (`NoZombieLeft`,
  `KillAwaitsTheDead`), and its group where the watchdog signals by number; other descendants in
  the cgroup survive `kill` and the timeout, as those without a cgroup do in `cascade_survives`,
  and a `recv` they keep blocked stays so. `KillSweepsCgroup`, the cgroup's part of
  `TimeoutHits` and `TimeoutSweeps`, and `IOReleased` where a pidfd is used, are about kernels
  that have it; `cgroups.rs:97` says which.
* A directory an earlier sandbox left behind is accepted (`cgroups.rs:39`), and its
  `memory.peak` (`cgroups.rs:87-94`) is reported as the new child's, if it is the higher one.
* The figures of `ResourceUsage` are those at the call of `wait_with_usage`, not "when the
  sandboxed process exits" (`mod.rs:31`). Only the CPU time of a child that had already exited
  is final (`ExactOnceExited`); such a child has no `VmPeak` any more, so without a cgroup
  it has no memory figure. Once somebody has collected the status (`is_alive`, an earlier
  wait), the figures may be of another process with the pid: `FiguresOwn` says that this, and
  the peak of a left-over directory, are the only cases.
* A variable that is not UTF-8 makes `spawn` panic, in every mode (`builder.rs:130`).
* In the modes other than Allowlist a secret passes if another thread sets it between the
  build of the command and the fork, or if the provider sets one that the program's
  environment does not hold: `SecretsOnlyLate` says that nothing else passes.
* `max_memory_mb` wraps for very large numbers in a release build, always to less than was asked
  for; the product is written to `memory.max` and read by no other code.
* A `recv` that fails has consumed the bytes it read; the next one goes on behind them. The
  limit cuts a longer line, and may cut a character (`ErrorOnlyAtCut`).
* `stripped_env_vars` does not list the names that are secret by their prefix;
  `strategy()` answers the strategy that was selected even if a provider replaced it;
  `max_disk_bytes` is not enforced anywhere.

## Not modelled

* *Paths and mounts of a launcher's command line* (`build_unshare_command`,
  `build_bwrap_command`, `build_firejail_command`), firejail's `--timeout` included. They are
  arguments that other programs interpret; the models keep what the command asks of the
  kernel (`StrategySelection`), and that building it may fail (`SpawnPipeline`).
* *Setters without effect on another operation* (runtime and its arguments, memory, CPU, files, disk,
  mounts, strategy, timeout, stderr, recv limit). They assign one field; what `spawn` and
  `recv` do with the timeout, the strategy, `require_hardware_limits` and the limit is
  modelled where they act on it, for all their values.
* *A provider's other changes of the command.* They are code of its author.
* *The host changing* between the probe of a launcher and its exec: the host of `SpawnPipeline`
  is fixed, and a launcher that is missing is a case of its own (`ExecFails`).
* *Allocation after the fork* in the `pre_exec` closure, which depends on the C library.
* `lib.rs` and `error.rs` have no state; `sandbox/procjail_bpf_seccomp_sandbox.rs` is declared
  by no module and not compiled; `build.rs`, `bin/debug_env.rs` and `audit_tests.rs` are not
  part of the sandbox.
