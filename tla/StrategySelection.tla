-------------------------- MODULE StrategySelection --------------------------
(***************************************************************************)
(* Which containment a spawn uses: the probes of src/detect.rs, the choice *)
(* among what they find, and what the launcher of a strategy needs of the  *)
(* kernel when it is probed and when it is used (src/process/builder.rs).  *)
(***************************************************************************)
EXTENDS SeccompFilter

Namespaces == {"user", "pid", "mount", "net"}
Launchers == {"unshare", "bubblewrap", "firejail"}
Strategies == Launchers \union {"rlimits", "none"}

\* A host: the launchers installed, and the namespaces its kernel lets an
\* ordinary user create.
Host == [installed : SUBSET Launchers, permits : SUBSET Namespaces]

\* The namespaces that the probe of a launcher creates (check_unshare,
\* check_bubblewrap, check_firejail).
Probed == [unshare    |-> {"user", "pid", "mount"},
           bubblewrap |-> Namespaces,
           firejail   |-> {"pid", "mount"}]

\* The namespaces of the command that is built: a network namespace unless
\* localhost is allowed, and a user namespace for firejail (--noroot).
Built(strategy, localhost) == {"user", "pid", "mount"} \union IF localhost THEN {} ELSE {"net"}

\* The calls, besides those of any program, without which a launcher gives up.
Needed == [unshare    |-> {"unshare", "mount", "fork", "wait4", "execve"},
           bubblewrap |-> {"prctl", "clone", "mount", "pivot_root", "execve"},
           firejail   |-> {"clone", "mount", "prctl", "execve"}]

\* probe_capabilities: a probe runs its launcher, without the filter.
Works(host) == {l \in host.installed : Probed[l] \subseteq host.permits}

\* Mutated form: bubblewrap or nothing.
BestOnly(works) == IF "bubblewrap" \in works THEN "bubblewrap" ELSE "rlimits"

\* The order of probe_capabilities: bubblewrap, unshare, firejail, rlimits.
Best(works) == CASE "bubblewrap" \in works -> "bubblewrap"
                 [] "bubblewrap" \notin works /\ "unshare" \in works -> "unshare"
                 [] works = {"firejail"} -> "firejail"
                 [] OTHER -> "rlimits"

\* A launcher that was executed with the filter in force gets to its harness.
Starts(l, localhost, host, filtered) ==
  /\ Built(l, localhost) \subseteq host.permits
  /\ filtered => Passes(Needed[l])
=============================================================================
