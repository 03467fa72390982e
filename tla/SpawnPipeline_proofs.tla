------------------------ MODULE SpawnPipeline_proofs ------------------------
(***************************************************************************)
(* The safety properties of one spawn, whatever fails and however the      *)
(* child and its harness interleave with it.                               *)
(***************************************************************************)
EXTENDS SpawnPipeline, SequenceTheorems, TLAPS

-----------------------------------------------------------------------------
(* The limits that have been written *)

Files == {"memory", "swap", "cpu", "pids"}

LEMMA FourLimits ==
  /\ Limits \in Seq(Files)
  /\ Len(Limits) = 4
  /\ \A i \in 1 .. 4 : Limits[i] \in Files
  BY DEF Limits, Files

\* A prefix of the limits is as long as it says, and one more write makes it
\* the next prefix.
LEMMA PrefixLength ==
  ASSUME NEW n \in 0 .. 4
  PROVE  SubSeq(Limits, 1, n) \in Seq(Files) /\ Len(SubSeq(Limits, 1, n)) = n
<1>1. n \in Int /\ 1 \in Int /\ \A i \in 1 .. n : Limits[i] \in Files
  BY FourLimits
<1>2. SubSeq(Limits, 1, n) \in Seq(Files)
  BY ONLY <1>1, SubSeqProperties, Zenon
<1>3. CASE 1 <= n
  <2>1. Len(SubSeq(Limits, 1, n)) = n - 1 + 1
    BY <1>1, <1>3, SubSeqProperties, Zenon
  <2> QED
    BY <1>2, <2>1
<1>4. CASE n < 1
  BY <1>1, <1>2, <1>4, SubSeqEmpty
<1> QED
  BY <1>3, <1>4

LEMMA NextPrefix ==
  ASSUME NEW n \in 0 .. 3
  PROVE  Append(SubSeq(Limits, 1, n), Limits[n + 1]) = SubSeq(Limits, 1, n + 1)
<1>1. n + 1 \in 1 .. 4 /\ n \in 0 .. 4 /\ (n + 1) - 1 = n /\ n + 1 \in n + 1 .. 4
  OBVIOUS
<1>2. Limits[n + 1] \in Files
  BY <1>1, FourLimits
<1>3. SubSeq(Limits, 1, n + 1) = SubSeq(Limits, 1, (n + 1) - 1) \o <<Limits[n + 1]>>
  <2>1. 1 \in 1 .. Len(Limits) /\ n + 1 \in 1 .. Len(Limits)
    BY <1>1, FourLimits
  <2> QED
    BY <2>1, FourLimits, SubSeqRecursiveSecond, Zenon
<1>4. Append(SubSeq(Limits, 1, n), Limits[n + 1]) = SubSeq(Limits, 1, n) \o <<Limits[n + 1]>>
  BY <1>1, <1>2, PrefixLength, AppendIsConcat, Zenon
<1> QED
  BY <1>1, <1>3, <1>4

LEMMA SixSteps ==
  /\ Len(Closure) = 6
  /\ \A i \in 1 .. 6 : Closure[i] \in Range(Closure)
<1> DOMAIN Closure = 1 .. 6 /\ Len(Closure) = 6
  BY DEF Closure
<1> QED
  BY DEF Range

\* SetLimit writes the next limit, and goes on to the attach after the last.
LEMMA SetLimitFacts ==
  ASSUME TypeOK, CgroupInv, SetLimit
  PROVE  /\ InOrder'
         /\ pc' = "limit" => limits' # Limits
         /\ pc' = "attach" => limits' = Limits
         /\ pc' \in {"limit", "attach"}
<1>1. PICK n \in 0 .. 4 : limits = SubSeq(Limits, 1, n)
  BY FourLimits DEF TypeOK, InOrder
<1>2. SubSeq(Limits, 1, 4) = Limits
  BY FourLimits, SubSeqFull, Zenon
<1>3. n \in 0 .. 3 /\ n + 1 \in 0 .. 4
  BY <1>1, <1>2 DEF CgroupInv, SetLimit, Goto
<1>4. Len(limits) = n /\ limits' = SubSeq(Limits, 1, n + 1)
  <2>1. Len(limits) = n
    BY <1>1, PrefixLength
  <2> QED
    BY <1>1, <1>3, <2>1, NextPrefix DEF SetLimit
<1>5. Len(limits') = n + 1
  BY <1>3, <1>4, PrefixLength
<1>6. pc' = IF n + 1 = 4 THEN "attach" ELSE "limit"
  BY <1>4, FourLimits DEF SetLimit, Goto
<1> QED
  BY <1>2, <1>3, <1>4, <1>5, <1>6, FourLimits DEF InOrder

-----------------------------------------------------------------------------
(* The inductive invariant *)

GivenType == /\ host \in Hosts
             /\ required \in BOOLEAN /\ timeout \in BOOLEAN
             /\ localhost \in BOOLEAN /\ provider \in BOOLEAN
             /\ forced \in Strategies \union {"auto"}

CallerType == /\ pc \in PC
              /\ strategy \in Strategies \union {"unset"}
              /\ dir \in BOOLEAN /\ attached \in BOOLEAN /\ armed \in BOOLEAN

ChildType == /\ child \in {"none", "closure", "running", "dead", "reaped"}
             /\ pipe \in {"open", "closed", "error"}
             /\ image \in {"none", "launcher", "harness", "gave_up"}
             /\ kids \subseteq {"in", "out"}

ClosureType == step \in 1 .. Len(Closure) + 1 /\ applied \subseteq Range(Closure)

\* The type invariant, in the parts that one step or another disturbs.
LEMMA Types ==
  /\ TypeOK <=> GivenType /\ CallerType /\ ChildType /\ ClosureType /\ InOrder
  /\ TypeOK' <=> GivenType' /\ CallerType' /\ ChildType' /\ ClosureType' /\ InOrder'
  BY Zenon DEF TypeOK, GivenType, CallerType, ChildType, ClosureType

\* What the probes lead to is a strategy.
LEMMA BestIsStrategy == ASSUME NEW works PROVE Best(works) \in Strategies \ {"none"}
  BY DEF Best, Strategies, Launchers

LEMMA NoneWorks == ASSUME NEW h \in Host, Best(Works(h)) = "rlimits" PROVE Works(h) = {}
<1>1. Works(h) \subseteq Launchers
  BY DEF Host, Works
<1> QED
  BY <1>1 DEF Best, Launchers

LEMMA InitIInv == Init => IInv
<1> SUFFICES ASSUME Init PROVE IInv
  OBVIOUS
<1>1. limits = SubSeq(Limits, 1, 0) /\ 0 \in 0 .. Len(Limits)
  BY FourLimits, SubSeqEmpty DEF Init
<1>2. InOrder
  BY <1>1 DEF InOrder
<1>3. TypeOK
  <2>0. GivenType
    BY DEF Init, GivenType
  <2>1. CallerType
    BY DEF Init, CallerType, PC, Returned
  <2>2. ChildType
    BY DEF Init, ChildType
  <2>3. ClosureType
    BY SixSteps DEF Init, ClosureType
  <2> QED
    BY <1>2, <2>0, <2>1, <2>2, <2>3, Types
<1> QED
  BY <1>3 DEF Init, IInv, SelectInv, ChildInv, CgroupInv, ClosureInv, ErrLeavesNoChild,
              FailClosed, HarnessIsolated, UnlaunchedOnlyByChoice, Early

\* A limit that is written changes nothing about the child.
LEMMA SetLimitKeeps == IInv /\ SetLimit => IInv'
<1> SUFFICES ASSUME IInv, SetLimit PROVE IInv'
  OBVIOUS
<1>1. TypeOK /\ CgroupInv
  BY DEF IInv
<1>2. /\ InOrder'
      /\ pc' = "limit" => limits' # Limits
      /\ pc' = "attach" => limits' = Limits
      /\ pc' \in {"limit", "attach"}
  BY <1>1, SetLimitFacts
<1>3. TypeOK'
  BY <1>1, <1>2 DEF SetLimit, Goto, given, inside, TypeOK, PC
<1>4. CgroupInv' /\ FailClosed'
  BY <1>1, <1>2 DEF CgroupInv, FailClosed, SetLimit, Goto, Early
<1>5. ChildInv' /\ ErrLeavesNoChild'
  BY <1>2 DEF IInv, ChildInv, ErrLeavesNoChild, SetLimit, Goto, inside, Early
<1>6. ClosureInv' /\ HarnessIsolated'
  BY DEF IInv, ClosureInv, HarnessIsolated, SetLimit, inside
<1>7. SelectInv' /\ UnlaunchedOnlyByChoice'
  BY <1>2 DEF IInv, SelectInv, UnlaunchedOnlyByChoice, ByLauncher, SetLimit, Goto, given, inside
<1> QED
  BY <1>7, <1>3, <1>4, <1>5, <1>6 DEF IInv

\* The strategy is selected once, before anything is started.
LEMMA SelectKeeps == IInv /\ SelectStrategy => IInv'
<1> SUFFICES ASSUME IInv, SelectStrategy PROVE IInv'
  OBVIOUS
<1> USE DEF SelectStrategy, Goto, given, cgroup, inside
<1>1. strategy' = IF forced = "auto" THEN Best(Works(host)) ELSE forced
  OBVIOUS
<1>2. strategy' \in Strategies
  BY <1>1, BestIsStrategy, Types DEF IInv, GivenType
<1>3. TypeOK'
  BY <1>2, Types DEF IInv, GivenType, CallerType, ChildType, ClosureType, InOrder, PC
<1>4. SelectInv' /\ UnlaunchedOnlyByChoice'
  <2>1. Works(host)' = Works(host)
    BY DEF Works
  <2>2. child = "none" /\ image = "none"
    BY DEF IInv, ChildInv, Early
  <2> QED
    BY <1>1, <1>2, <2>1, <2>2
    DEF IInv, SelectInv, UnlaunchedOnlyByChoice, Strategies, Launchers
<1>5. ChildInv' /\ CgroupInv' /\ ErrLeavesNoChild' /\ FailClosed'
  BY DEF IInv, ChildInv, CgroupInv, ErrLeavesNoChild, FailClosed, Early
<1>6. ClosureInv' /\ HarnessIsolated'
  BY DEF IInv, ClosureInv, HarnessIsolated
<1> QED
  BY <1>3, <1>4, <1>5, <1>6 DEF IInv

\* Every other step of the caller leaves the limits, the strategy and what the
\* child has applied as they are.
LEMMA SpawnKeeps == IInv /\ Spawn => IInv'
<1> SUFFICES ASSUME IInv, Spawn PROVE IInv'
  OBVIOUS
<1> USE DEF Spawn, ValidateInputs, FindRuntime, BuildCommand, Check, Step, Goto, Fork,
            ForkFails, AwaitOk, AwaitError, CgroupNew, CgroupUnavailable, Attach, LimitFails,
            Kill, Reap, Finish, ThreadPanics
<1>1. CASE SetLimit
  BY <1>1, SetLimitKeeps
<1>2. CASE SelectStrategy
  BY <1>2, SelectKeeps
<1>3. CASE ~SetLimit /\ ~SelectStrategy
  <2>1. UNCHANGED <<host, required, timeout, localhost, provider, forced, strategy, limits,
                    step, applied, image>>
    BY <1>3 DEF given, cgroup, inside
  <2>2. TypeOK'
    <3>1. InOrder' /\ GivenType' /\ ClosureType'
      BY <2>1, Types DEF IInv, InOrder, GivenType, ClosureType
    <3>2. CallerType'
      BY <1>3, <2>1, Types DEF IInv, GivenType, CallerType, PC, Returned, cgroup
    <3>3. ChildType'
      BY <1>3, Types DEF IInv, ChildType, inside
    <3> QED
      BY <3>1, <3>2, <3>3, Types
  <2>3. ChildInv'
    BY <1>3, <2>1 DEF IInv, ChildInv, TypeOK, Early, inside
  <2>4. SelectInv' /\ UnlaunchedOnlyByChoice'
    <3>1. (pc' \in {"build", "fork"} \/ child' # "none") => strategy # "unset"
      BY <1>3 DEF IInv, SelectInv, ChildInv, Early, inside
    <3>2. Works(host)' = Works(host) /\ ByLauncher' = ByLauncher
      BY <2>1 DEF Works, ByLauncher
    <3> QED
      BY <2>1, <3>1, <3>2 DEF IInv, SelectInv, UnlaunchedOnlyByChoice
  <2>5. CgroupInv'
    <3>1. limits = <<>> => limits # Limits
      BY FourLimits
    <3>2. CASE CgroupNew \/ CgroupUnavailable \/ Attach \/ LimitFails
      BY <2>1, <3>1, <3>2 DEF IInv, CgroupInv, FailClosed, Early, cgroup
    <3>3. CASE Kill \/ Reap \/ Finish \/ ThreadPanics
      BY <2>1, <3>3 DEF IInv, CgroupInv, Early, cgroup
    <3>4. CASE \/ ValidateInputs \/ FindRuntime \/ BuildCommand
               \/ Fork \/ ForkFails \/ AwaitOk \/ AwaitError
      BY <2>1, <3>4 DEF IInv, CgroupInv, Early, cgroup
    <3> QED
      BY <1>3, <3>2, <3>3, <3>4
  <2>6. ErrLeavesNoChild'
    BY <1>3, <2>1 DEF IInv, ChildInv, CgroupInv, ErrLeavesNoChild, Early, cgroup, inside
  <2>7. FailClosed'
    BY <1>3, <2>1 DEF IInv, CgroupInv, FailClosed, cgroup
  <2>8. ClosureInv' /\ HarnessIsolated'
    BY <2>1 DEF IInv, ClosureInv, HarnessIsolated
  <2> QED
    BY <2>2, <2>3, <2>4, <2>5, <2>6, <2>7, <2>8 DEF IInv
<1> QED
  BY <1>1, <1>2, <1>3

\* The child leaves the caller's state alone, applies its closure in order and
\* executes what the strategy says.
LEMMA ChildKeeps == IInv /\ (Isolate \/ ChildFails \/ Harness) => IInv'
<1> SUFFICES ASSUME IInv, Isolate \/ ChildFails \/ Harness PROVE IInv'
  OBVIOUS
<1> USE DEF IInv, Isolate, ChildFails, Harness, CloseFds, CloseNothing, ApplyNext, Exec,
            ExecFails, Launch, HarnessForks, HarnessExits, KidExits
<1>1. UNCHANGED <<given, pc, strategy, cgroup, armed>>
  BY DEF parent
<1>2. CgroupInv' /\ FailClosed'
  BY <1>1 DEF CgroupInv, FailClosed, given, cgroup
<1>3. ChildInv' /\ ErrLeavesNoChild'
  BY <1>1 DEF ChildInv, ErrLeavesNoChild, TypeOK, Early, cgroup
<1>4. ClosureInv'
  <2>1. CASE ApplyNext
    BY <2>1 DEF ClosureInv, TypeOK, Closure
  <2>2. CASE step' = 2 \/ UNCHANGED <<step, applied>>
    BY <2>2 DEF ClosureInv, TypeOK, Closure
  <2> QED
    BY <2>1, <2>2
<1>5. HarnessIsolated'
  <2>1. CASE Exec
    <3>1. \A i \in 2 .. 6 : Closure[i] \in applied
      BY <2>1 DEF ClosureInv, TypeOK, Closure
    <3> QED
      BY <2>1, <3>1 DEF HarnessIsolated, Closure
  <2>2. CASE ~Exec
    BY <2>2 DEF HarnessIsolated
  <2> QED
    BY <2>1, <2>2
<1>6. SelectInv' /\ UnlaunchedOnlyByChoice'
  <2>1. Works(host)' = Works(host) /\ ByLauncher' = ByLauncher
    BY <1>1 DEF given, Works, ByLauncher
  <2>2. SelectInv'
    BY <1>1, <2>1 DEF SelectInv, ChildInv, given
  <2>3. CASE Exec
    <3>1. strategy = IF forced = "auto" THEN Best(Works(host)) ELSE forced
      BY <2>3 DEF SelectInv
    <3>2. strategy \in Launchers \/ provider \/ strategy \in {"rlimits", "none"}
      BY <2>3 DEF SelectInv, TypeOK, Strategies
    <3>3. Best(Works(host)) = "rlimits" => Works(host) = {}
      BY NoneWorks, HostsAssumption DEF TypeOK
    <3>4. Best(Works(host)) # "none"
      BY BestIsStrategy
    <3> QED
      BY <1>1, <2>1, <2>2, <2>3, <3>1, <3>2, <3>3, <3>4
      DEF UnlaunchedOnlyByChoice, ByLauncher, given
  <2>4. CASE ~Exec
    BY <1>1, <2>1, <2>2, <2>4 DEF UnlaunchedOnlyByChoice, SelectInv, given
  <2> QED
    BY <2>3, <2>4
<1>7. TypeOK'
  <2>1. InOrder' /\ GivenType' /\ CallerType'
    BY <1>1, Types DEF InOrder, GivenType, CallerType, given, cgroup
  <2>2. ChildType'
    BY Types DEF ChildType, parent
  <2>3. ClosureType'
    <3>1. CASE ApplyNext
      BY <3>1, SixSteps, Types DEF ClosureType
    <3>2. CASE step' = 2 \/ UNCHANGED step
      <4>1. applied' = applied \/ applied' = applied \union {Closure[1]}
        BY <3>2 DEF Closure
      <4> QED
        BY <3>2, <4>1, SixSteps, Types DEF ClosureType
    <3> QED
      BY <3>1, <3>2
  <2> QED
    BY <2>1, <2>2, <2>3, Types
<1> QED
  BY <1>2, <1>3, <1>4, <1>5, <1>6, <1>7

\* The invariant holds whatever fails and however the two processes interleave.
THEOREM Invariance == Spec => []IInv
<1>1. ASSUME IInv, UNCHANGED vars PROVE IInv'
  <2>1. Works(host)' = Works(host) /\ ByLauncher' = ByLauncher
    BY <1>1 DEF vars, parent, given, Works, ByLauncher
  <2>2. TypeOK' /\ ClosureInv' /\ HarnessIsolated'
    BY <1>1 DEF vars, parent, given, cgroup, inside, IInv, TypeOK, InOrder, ClosureInv,
                HarnessIsolated
  <2>3. ChildInv' /\ CgroupInv' /\ ErrLeavesNoChild' /\ FailClosed'
    BY <1>1 DEF vars, parent, given, cgroup, inside, IInv, ChildInv, CgroupInv,
                ErrLeavesNoChild, FailClosed
  <2>4. SelectInv' /\ UnlaunchedOnlyByChoice'
    BY <1>1, <2>1 DEF vars, parent, given, inside, IInv, SelectInv, UnlaunchedOnlyByChoice
  <2> QED
    BY <2>2, <2>3, <2>4 DEF IInv
<1>2. IInv /\ [Next]_vars => IInv'
  BY <1>1, SpawnKeeps, ChildKeeps DEF Next, Done
<1> QED
  BY <1>2, InitIInv, PTL DEF Spec

\* Type correctness of one spawn and its child; the limits are written and the
\* closure's steps applied in their order (mod.rs:182-192, builder.rs:280-328).
THEOREM TypeCorrect == Spec => []TypeOK
<1>1. IInv => TypeOK
  BY DEF IInv
<1> QED
  BY <1>1, Invariance, PTL

\* An error of spawn leaves no child, no zombie and no directory (mod.rs:165-210).
THEOREM FailureIsCleanedUp == Spec => []ErrLeavesNoChild
<1>1. IInv => ErrLeavesNoChild
  BY DEF IInv
<1> QED
  BY <1>1, Invariance, PTL

\* A sandbox without its cgroup is handed out only to a caller that allows it,
\* and a child is attached only when every limit is in force (mod.rs:184-205).
THEOREM LimitsFailClosed == Spec => []FailClosed
<1>1. IInv => FailClosed
  BY DEF IInv
<1> QED
  BY <1>1, Invariance, PTL

\* No harness runs without its rlimits and its filter (builder.rs:280-328).
THEOREM HarnessIsIsolated == Spec => []HarnessIsolated
<1>1. IInv => HarnessIsolated
  BY DEF IInv
<1> QED
  BY <1>1, Invariance, PTL

\* Whatever fails, spawn never falls back to less containment than was asked for
\* or than the host has (mod.rs:124-126, detect.rs:91-99).
THEOREM NoFallback == Spec => []UnlaunchedOnlyByChoice
<1>1. IInv => UnlaunchedOnlyByChoice
  BY DEF IInv
<1> QED
  BY <1>1, Invariance, PTL

-----------------------------------------------------------------------------
(* The launchers under the filter *)

\* Every launcher mounts something, and no rule of the filter lets it.
LEMMA NoLauncherPasses == \A l \in Launchers : ~Passes(Needed[l])
<1>1. Decision("mount") # "allow"
  BY DEF Decision, Rules, Allowed
<1>2. \A l \in Launchers : "mount" \in Needed[l]
  BY DEF Launchers, Needed
<1> QED
  BY <1>1, <1>2 DEF Passes

LEMMA NextUnlaunched == IInv /\ LaunchersNeverStart /\ [Next]_vars => LaunchersNeverStart'
<1> SUFFICES ASSUME IInv, LaunchersNeverStart, [Next]_vars PROVE LaunchersNeverStart'
  OBVIOUS
<1> USE DEF LaunchersNeverStart
<1>1. CASE SelectStrategy
  <2>1. image' = "none"
    BY <1>1 DEF IInv, ChildInv, Early, SelectStrategy, Goto, inside
  <2> QED
    BY <2>1
<1>2. CASE ~SelectStrategy
  <2>1. ByLauncher' = ByLauncher
    BY <1>2
    DEF Next, Spawn, ValidateInputs, FindRuntime, BuildCommand, Check, Step, Fork, ForkFails,
        AwaitOk, AwaitError, CgroupNew, CgroupUnavailable, SetLimit, Attach, LimitFails, Kill,
        Reap, Finish, ThreadPanics, Isolate, CloseFds, CloseNothing, ApplyNext, Exec, ExecFails,
        ChildFails, Harness, Launch, HarnessForks, HarnessExits, KidExits, Done,
        ByLauncher, parent, given, vars
  <2>2. CASE Launch
    \* The launcher runs under the filter, so it gives up.
    <3>1. "seccomp" \in applied
      BY <2>2 DEF Launch, IInv, HarnessIsolated
    <3>2. ~Starts(strategy, localhost, host, "seccomp" \in applied)
      BY <2>2, <3>1, NoLauncherPasses DEF Launch, Starts, IInv, SelectInv, ByLauncher
    <3>3. image' = "gave_up"
      BY <2>2, <3>2 DEF Launch
    <3> QED
      BY <3>3
  <2>3. CASE Exec
    BY <2>1, <2>3 DEF Exec
  <2>4. CASE ~Launch /\ ~Exec
    <3>1. image' = image
      BY <1>2, <2>4
      DEF Next, Spawn, ValidateInputs, FindRuntime, BuildCommand, Check, Step, Fork, ForkFails,
          AwaitOk, AwaitError, CgroupNew, CgroupUnavailable, SetLimit, Attach, LimitFails, Kill,
          Reap, Finish, ThreadPanics, Isolate, CloseFds, CloseNothing, ApplyNext, ExecFails,
          ChildFails, Harness, HarnessForks, HarnessExits, KidExits, Done, inside, vars
    <3> QED
      BY <2>1, <3>1
  <2> QED
    BY <2>2, <2>3, <2>4
<1> QED
  BY <1>1, <1>2

\* On no host does a strategy with a launcher ever run its harness, whatever the
\* probes have found there (builder.rs:322-326, seccomp/mod.rs:344).
THEOREM NoLauncherStarts == Spec => []LaunchersNeverStart
<1>1. Init => LaunchersNeverStart
  BY DEF Init, LaunchersNeverStart
<1> QED
  BY <1>1, NextUnlaunched, Invariance, PTL DEF Spec

-----------------------------------------------------------------------------
(* The error pipe of Command::spawn *)

LEMMA NextPipe == IInv /\ PipeInv /\ [Next]_vars => PipeInv'
<1> SUFFICES ASSUME IInv, PipeInv, [Next]_vars PROVE PipeInv'
  OBVIOUS
<1> USE DEF PipeInv
<1>1. CASE Spawn
  <2>1. UNCHANGED <<pipe, applied, image>>
    BY <1>1
    DEF Spawn, ValidateInputs, FindRuntime, SelectStrategy, BuildCommand, Check, Step, Fork,
        ForkFails, AwaitOk, AwaitError, CgroupNew, CgroupUnavailable, SetLimit, Attach,
        LimitFails, Kill, Reap, Finish, ThreadPanics, inside
  <2>2. pc' \in {"cgroup", "limit", "attach", "watchdog", "ok"} => pipe = "closed"
    BY <1>1
    DEF Spawn, ValidateInputs, FindRuntime, SelectStrategy, BuildCommand, Check, Step, Goto, Fork,
        ForkFails, AwaitOk, AwaitError, CgroupNew, CgroupUnavailable, SetLimit, Attach,
        LimitFails, Kill, Reap, Finish, ThreadPanics
  <2> QED
    BY <2>1, <2>2
<1>2. CASE Isolate \/ ChildFails \/ Harness
  <2>1. pc' = pc /\ (pipe = "closed" => pipe' = "closed")
    BY <1>2
    DEF Isolate, CloseFds, CloseNothing, ApplyNext, Exec, ExecFails, ChildFails, Harness,
        Launch, HarnessForks, HarnessExits, KidExits, parent
  <2>2. pipe' = "closed" => "fds" \in applied' \/ image' # "none"
    BY <1>2
    DEF Isolate, CloseFds, CloseNothing, ApplyNext, Exec, ExecFails, ChildFails, Harness,
        Launch, HarnessForks, HarnessExits, KidExits
  <2> QED
    BY <2>1, <2>2
<1>3. CASE UNCHANGED vars
  BY <1>3 DEF vars, parent, inside
<1> QED
  BY <1>1, <1>2, <1>3 DEF Next, Done

\* A failure that spawn keeps from its caller is one after close_inherited_fds has
\* closed the pipe it would have come through (builder.rs:186-210, 280).
THEOREM OnlyTheClosedPipeHides == Spec => []SilentOnlyWithoutPipe
<1>1. Init => PipeInv
  BY DEF Init, PipeInv
<1>2. PipeInv => SilentOnlyWithoutPipe
  BY DEF PipeInv, SilentOnlyWithoutPipe, FailureReported
<1> QED
  BY <1>1, <1>2, NextPipe, Invariance, PTL DEF Spec
=============================================================================
