------------------------ MODULE MCSandboxedProcess ------------------------
(* Values for the constants of SandboxedProcess: the handles, and the hosts *)
(* and configurations a run meets.                                          *)
EXTENDS SandboxedProcess, TLC

CONSTANTS s1, s2, p1

OneHandle == {s1}
TwoHandles == {s1, s2}
Symmetry == Permutations(TwoHandles)

\* Two handles share one pid only one after the other: this is pid reuse.
OnePid == {p1}

\* Every host and configuration: nothing reads cgkill without a cgroup, nor
\* require_hardware_limits with one.
AnySetup == {e \in Setup : IF e.cgroup THEN ~e.required ELSE ~e.cgkill}

Limit(c, f) == {e \in Setup : /\ e.cgroup = c /\ e.cgkill = c /\ e.pidfd = f
                              /\ e.sendable /\ e.timeout /\ ~e.required}

\* A host with a working pidfd, without and with cgroup v2 and its cgroup.kill.
PidfdOnly == Limit(FALSE, TRUE)
PidfdAndCgroup == Limit(TRUE, TRUE)

\* Neither pidfd_open nor pidfd_send_signal can be relied on.
NoPidfd == {e \in AnySetup : ~(e.pidfd /\ e.sendable)}
=============================================================================
