---------------------------- MODULE SeccompFilter ----------------------------
(***************************************************************************)
(* The decision of the filter of src/seccomp/mod.rs.  A call stands for    *)
(* the group that the source lists it in.                                  *)
(***************************************************************************)

\* allow_syscall: one call of each group of the list.
Allowed ==
  {"read", "mmap", "rt_sigaction", "dup", "ioctl", "access", "getpid", "execve",
   "fork", "wait4", "exit", "clone", "futex", "clock_gettime", "getrandom", "kill",
   "arch_prctl", "eventfd", "signalfd", "timerfd", "epoll", "poll", "uname", "sysinfo",
   "readlink", "stat", "openat", "lseek", "restart_syscall", "nanosleep", "getcwd",
   "chdir", "umask", "prlimit64", "getgroups", "set_tid_address", "capget", "setuid"}

\* block_syscall_explicit names these and adds no rule for them.
Blocked == {"ptrace", "process_vm_readv", "mount", "umount2", "reboot", "swapon",
            "kexec_load", "bpf", "userfaultfd", "perf_event_open"}

\* The rules of the filter: the map that build_filter fills.
Rules == Allowed

\* The action of a rule is Allow, and that of a call without one is EPERM, be
\* it listed as blocked or not.
Decision(call) == IF call \in Rules THEN "allow" ELSE "EPERM"

Passes(calls) == \A call \in calls : Decision(call) = "allow"
=============================================================================
