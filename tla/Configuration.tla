--------------------------- MODULE Configuration ---------------------------
(***************************************************************************)
(* What of a SandboxConfig reaches the harness: the builder's setters      *)
(* (src/src/config/builder.rs), the defaults and the secret names          *)
(* (config/mod.rs), the checks and the environment of the command          *)
(* (process/builder.rs) and the limits computed for it.                    *)
(*                                                                         *)
(* The environment and the number of threads belong to the whole program   *)
(* and its user: other threads may change both while one thread spawns.    *)
(* The command is built from one reading of the environment, and           *)
(* std::process::Command takes a second reading when it spawns.            *)
(***************************************************************************)
EXTENDS Naturals, Sequences, FiniteSets

CONSTANTS
  Names,        \* names of environment variables
  Listed,       \* DEFAULT_SECRET_ENV_VARS
  Prefixed,     \* names that begin as DEFAULT_SECRET_ENV_PREFIXES
  Control,      \* the SANTH_ variables
  HostValues,   \* values the program's environment may hold
  Garbled,      \* those of them that are not UTF-8
  SetValues,    \* values given to env_set
  BadNames,     \* empty, or with '=', NUL or white space
  BadValues,    \* with NUL, or longer than MAX_ENV_VALUE_BYTES
  Files,        \* configurations a TOML file may hold
  Hosts,        \* environments the program may start with
  Lists,        \* lists of names given to the setters and set by a provider
  Settings,     \* pairs given to env_set
  Numbers,      \* numbers given to the setters
  Word,         \* 2^64: u64 arithmetic
  Headroom,     \* the 64 of nproc_limit_for_uid
  MaxSets,      \* bound: calls of env_set
  MaxCalls,     \* bound: calls of the builder
  MaxChanges    \* bound: changes by other threads during a spawn

Modes == {"StripSecrets", "Allowlist", "Blocklist"}
Provenance == {"provider", "control"}
Marks == {"keep", "remove", "unset"}
Values == HostValues \union SetValues \union Provenance
SecretNames == Listed \union Prefixed
Environment == [Names -> HostValues \union {"unset"}]
Pairs == (Names \union BadNames) \X (SetValues \union BadValues)
u64 == 0 .. (Word - 1)

SandboxConfig ==
  [env_mode: Modes, env_strip_secrets: BOOLEAN, env_strip: SUBSET Names,
   env_passthrough: SUBSET Names, env_set: Seq(Pairs),
   max_processes: u64, custom_provider: BOOLEAN]

ASSUME NameAssumption == /\ SecretNames \union Control \subseteq Names
                         /\ Names \intersect BadNames = {}
ASSUME ValueAssumption ==
  /\ Garbled \subseteq HostValues
  /\ (HostValues \union SetValues) \intersect (Provenance \union Marks) = {}
  /\ HostValues \intersect SetValues = {}
  /\ BadValues \intersect (Values \union Marks) = {}
ASSUME NumberAssumption == /\ Word \in Nat \ {0} /\ Headroom \in Nat
                           /\ MaxSets \in Nat /\ MaxCalls \in Nat /\ MaxChanges \in Nat
ASSUME InputAssumption ==
  /\ Files \subseteq {c \in SandboxConfig : ~c.custom_provider}
  /\ Hosts \subseteq Environment
  /\ Lists \subseteq SUBSET Names
  /\ Settings \subseteq Pairs
  /\ Numbers \subseteq u64

\* SandboxConfig::default, whose limit on processes is some, not none.
Default == [env_mode |-> "StripSecrets", env_strip_secrets |-> TRUE,
            env_strip |-> {}, env_passthrough |-> {}, env_set |-> <<>>,
            max_processes |-> 1 % Word, custom_provider |-> FALSE]

VARIABLES
  config,    \* the builder's SandboxConfig, then the one spawn is given
  phase,     \* where the owner is: at the builder, or in spawn
  host,      \* the environment of the program
  threads,   \* threads of this user
  cmd,       \* the environment of the Command: cleared?, and its entries
  next,      \* the env_set entry to apply next
  nproc,     \* RLIMIT_NPROC of the child
  child,     \* the environment of the child
  \* history
  asked,     \* names ever given to env_strip
  built,     \* the environment when the command was built
  counted,   \* the threads counted for nproc
  calls,     \* calls of the builder
  changes    \* changes by other threads since spawn was called

history == <<asked, built, counted>>
vars == <<config, phase, host, threads, cmd, next, nproc, child, history, calls, changes>>

Phases == {"config", "provider", "base", "env_set", "isolate", "spawn",
           "running", "rejected", "panicked"}

TypeOK ==
  /\ config \in SandboxConfig
  /\ phase \in Phases
  /\ host \in Environment
  /\ threads \in Nat
  /\ cmd \in [clear: BOOLEAN, vars: [Names -> Values \union {"keep", "remove"}]]
  /\ next \in Nat \ {0}
  /\ nproc \in u64
  /\ child \in [Names -> Values \union {"unset"}]
  /\ asked \in SUBSET Names
  /\ built \in Environment
  /\ counted \in Nat
  /\ calls \in Nat
  /\ changes \in 0 .. MaxChanges

\* builder(), load and from_toml_bytes
Start == {Default} \union Files

Inherit == [clear |-> FALSE, vars |-> [n \in Names |-> "keep"]]

Init ==
  /\ config \in Start
  /\ phase = "config"
  /\ host \in Hosts
  /\ threads = 1
  /\ cmd = Inherit
  /\ next = 1
  /\ nproc = 0
  /\ child = [n \in Names |-> "unset"]
  /\ asked = config.env_strip
  /\ built = host
  /\ counted = 0
  /\ calls = 0
  /\ changes = 0

-----------------------------------------------------------------------------
(* SandboxConfigBuilder.  A configuration that was loaded has no builder:  *)
(* its users may still assign its fields, which are public.                *)

Call == phase = "config" /\ calls < MaxCalls /\ calls' = calls + 1

BuilderFrame == <<phase, host, threads, cmd, next, nproc, child, built, counted, changes>>

\* A setter of one field; the last call wins.
Set(c) == /\ Call
          /\ config' = c
          /\ UNCHANGED <<BuilderFrame, asked>>

env_mode(m) == Set([config EXCEPT !.env_mode = m])
env_strip_secrets(b) == Set([config EXCEPT !.env_strip_secrets = b])
env_passthrough(N) == Set([config EXCEPT !.env_passthrough = N])
max_processes(n) == Set([config EXCEPT !.max_processes = n])
custom_provider == Set([config EXCEPT !.custom_provider = TRUE])

\* It pushes: a name may be set more than once.
env_set(pair) == /\ Len(config.env_set) < MaxSets
                 /\ Set([config EXCEPT !.env_set = Append(config.env_set, pair)])

\* Mutated form: the list replaces the earlier one, as env_passthrough's does.
EnvStripReplaces(N) == /\ Call
                       /\ config' = [config EXCEPT !.env_strip = N]
                       /\ asked' = asked \union N
                       /\ UNCHANGED BuilderFrame

\* It inserts: names accumulate.
env_strip(N) == /\ Call
                /\ config' = [config EXCEPT !.env_strip = config.env_strip \union N]
                /\ asked' = asked \union N
                /\ UNCHANGED BuilderFrame

-----------------------------------------------------------------------------
(* build_command *)

\* is_secret_env_var
IsSecret(n) == \/ n \in config.env_strip
               \/ config.env_strip_secrets /\ n \in SecretNames

Goto(from, to) == phase = from /\ phase' = to

Valid(pair) == pair[1] \notin BadNames /\ pair[2] \notin BadValues

AllValid == \A i \in DOMAIN config.env_set : Valid(config.env_set[i])

SpawnFrame == <<config, host, threads, asked, calls, changes>>

\* A step that only moves on.
Move(from, to) == /\ Goto(from, to)
                  /\ UNCHANGED <<SpawnFrame, cmd, next, nproc, child, built, counted>>

AfterChecks == IF config.custom_provider THEN "provider" ELSE "base"

\* Mutated form: validate_environment checks names only.
ValidateNames == /\ Move("config", AfterChecks)
                 /\ \A i \in DOMAIN config.env_set : config.env_set[i][1] \notin BadNames

\* validate_environment
ValidateEnvironment == Move("config", AfterChecks) /\ AllValid

InvalidEnvironment == Move("config", "rejected") /\ ~AllValid

\* provider.apply_to_command may clear and extend the command's environment,
\* before apply_environment runs.
ProviderApplies(cleared, N) ==
  /\ Goto("provider", "base")
  /\ cmd' = [clear |-> cleared, vars |-> [n \in Names |-> IF n \in N THEN "provider" ELSE "keep"]]
  /\ UNCHANGED <<SpawnFrame, next, nproc, child, built, counted>>

ProviderRejects == Move("provider", "rejected")

Readable == \A n \in Names : host[n] \notin Garbled

\* env_clear, and what env_passthrough names and is no secret.
Allowed == [clear |-> TRUE,
            vars |-> [n \in Names |->
                        IF n \in config.env_passthrough /\ ~IsSecret(n) /\ host[n] # "unset"
                        THEN host[n] ELSE "keep"]]

\* Mutated form: what env_passthrough does not name is removed too.
StrippedUnlessPassed ==
  [clear |-> cmd.clear,
   vars |-> [n \in Names |-> IF n \in config.env_passthrough /\ ~IsSecret(n)
                             THEN cmd.vars[n] ELSE "remove"]]

\* env_remove for every secret that std::env::vars() lists now.
Stripped == [clear |-> cmd.clear,
             vars |-> [n \in Names |->
                         IF IsSecret(n) /\ host[n] # "unset"
                         THEN IF cmd.clear THEN "keep" ELSE "remove"
                         ELSE cmd.vars[n]]]

\* Mutated form: env_passthrough brings back whatever it names.
ApplyBaseResurrecting ==
  /\ Goto("base", "env_set")
  /\ Readable
  /\ cmd' = IF config.env_mode # "Allowlist" THEN Stripped
            ELSE [clear |-> TRUE,
                  vars |-> [n \in Names |->
                              IF n \in config.env_passthrough /\ host[n] # "unset"
                              THEN host[n] ELSE "keep"]]
  /\ built' = host
  /\ UNCHANGED <<SpawnFrame, next, nproc, child, counted>>

\* Step 1 of apply_environment.
ApplyBase ==
  /\ Goto("base", "env_set")
  /\ Readable
  /\ cmd' = IF config.env_mode = "Allowlist" THEN Allowed ELSE Stripped
  /\ built' = host
  /\ UNCHANGED <<SpawnFrame, next, nproc, child, counted>>

\* std::env::vars() panics at a variable that is not UTF-8, in every mode.
EnvironmentPanics == Move("base", "panicked") /\ ~Readable

\* Mutated form: break in place of continue.
ApplySetUntilSecret ==
  /\ phase = "env_set"
  /\ next <= Len(config.env_set)
  /\ LET pair == config.env_set[next]
     IN  IF IsSecret(pair[1])
         THEN cmd' = cmd /\ next' = Len(config.env_set) + 1
         ELSE cmd' = [cmd EXCEPT !.vars[pair[1]] = pair[2]] /\ next' = next + 1
  /\ UNCHANGED <<SpawnFrame, phase, nproc, child, built, counted>>

\* Step 2: one entry of env_set; a secret is skipped.
ApplySet ==
  /\ phase = "env_set"
  /\ next <= Len(config.env_set)
  /\ next' = next + 1
  /\ LET pair == config.env_set[next]
     IN  cmd' = IF IsSecret(pair[1]) THEN cmd
                ELSE [cmd EXCEPT !.vars[pair[1]] = pair[2]]
  /\ UNCHANGED <<SpawnFrame, phase, nproc, child, built, counted>>

\* Step 3: the SANTH_ variables, after everything else.
ApplyControl ==
  /\ Goto("env_set", "isolate")
  /\ next > Len(config.env_set)
  /\ cmd' = [cmd EXCEPT !.vars = [n \in Names |->
                                    IF n \in Control THEN "control" ELSE cmd.vars[n]]]
  /\ UNCHANGED <<SpawnFrame, next, nproc, child, built, counted>>

saturating_add(a, b) == IF a + b < Word THEN a + b ELSE Word - 1

\* Mutated form: a plain +, which wraps in a release build.
wrapping_add(seen) == (seen + config.max_processes + Headroom) % Word

\* nproc_limit_for_uid, of the threads count_threads_for_uid has seen: without
\* /proc, or when a status file cannot be read, fewer than there are.
nproc_limit_for_uid(seen) ==
  saturating_add(saturating_add(seen, config.max_processes), Headroom)

\* apply_pre_exec_isolation, which computes the limit in the parent.
ApplyIsolation(seen) ==
  /\ Goto("isolate", "spawn")
  /\ nproc' = nproc_limit_for_uid(seen)
  /\ counted' = seen
  /\ UNCHANGED <<SpawnFrame, cmd, next, child, built>>

\* Command::spawn: the environment of the program as it is now, unless
\* cleared, and then the entries of the command.
Captured(n) == CASE cmd.vars[n] = "keep" -> IF cmd.clear THEN "unset" ELSE host[n]
                 [] cmd.vars[n] = "remove" -> "unset"
                 [] OTHER -> cmd.vars[n]

Spawn == /\ Goto("spawn", "running")
         /\ child' = [n \in Names |-> Captured(n)]
         /\ UNCHANGED <<SpawnFrame, cmd, next, nproc, built, counted>>

-----------------------------------------------------------------------------
(* Other threads of the program and of the user, while one thread spawns *)

Change == /\ phase \in {"provider", "base", "env_set", "isolate", "spawn"}
          /\ changes < MaxChanges
          /\ changes' = changes + 1
          /\ UNCHANGED <<config, phase, cmd, next, nproc, child, history, calls>>

\* std::env::set_var, or remove_var.
SetVar(n, v) == Change /\ host' = [host EXCEPT ![n] = v] /\ UNCHANGED threads

ThreadsStart(k) == Change /\ threads' = threads + k /\ UNCHANGED host

Finished == phase \in {"running", "rejected", "panicked"} /\ UNCHANGED vars

-----------------------------------------------------------------------------

Builder == \/ \E m \in Modes : env_mode(m)
           \/ \E b \in BOOLEAN : env_strip_secrets(b)
           \/ \E N \in Lists : env_passthrough(N) \/ env_strip(N)
           \/ \E n \in Numbers : max_processes(n)
           \/ \E pair \in Settings : env_set(pair)
           \/ custom_provider

Build == \/ ValidateEnvironment \/ InvalidEnvironment
         \/ \E c \in BOOLEAN, N \in Lists : ProviderApplies(c, N)
         \/ ProviderRejects
         \/ ApplyBase \/ EnvironmentPanics \/ ApplySet \/ ApplyControl
         \/ \E seen \in 0 .. threads : ApplyIsolation(seen)
         \/ Spawn

Others == \/ \E n \in Names, v \in HostValues \union {"unset"} : SetVar(n, v)
          \/ \E k \in 1 .. Headroom : ThreadsStart(k)

Next == Builder \/ Build \/ Others \/ Finished

Spec == Init /\ [][Next]_vars

-----------------------------------------------------------------------------
(* Safety *)

\* A name the caller ever asked to strip, or a well-known secret.
Secret(n) == n \in asked \/ (config.env_strip_secrets /\ n \in SecretNames)

Running == phase = "running"

\* Whatever sequence of builder calls, provider and other threads went before,
\* a secret that was in the environment when the command was built is not in
\* the child's, nor one given to env_set or env_passthrough; what can pass is
\* set by another thread after that, or by the provider (builder.rs:123-164).
SecretsOnlyLate == Running => \A n \in Names \ Control :
  Secret(n) /\ child[n] # "unset" =>
    /\ config.env_mode # "Allowlist"
    /\ built[n] = "unset"
    /\ child[n] \in HostValues \union {"provider"}

\* In Allowlist mode the child sees nothing but what env_passthrough names, as
\* it was when the command was built, and what env_set gives: nothing of later
\* changes and nothing of the provider's (builder.rs:127-136).
AllowlistSealed == Running /\ config.env_mode = "Allowlist" => \A n \in Names \ Control :
  \/ child[n] = "unset"
  \/ ~Secret(n) /\ child[n] \in SetValues
  \/ ~Secret(n) /\ n \in config.env_passthrough /\ child[n] = built[n]

\* Without a provider the environment of the child, but for what env_set gives, is
\* that of the program cut down once: in Allowlist mode to what env_passthrough
\* names and is no secret, as it was when the command was built, and otherwise by
\* the secrets listed then; every other name is as it was when the child was
\* forked, whatever changed in between (builder.rs:123-164).
EnvironmentExact == Running /\ ~config.custom_provider => \A n \in Names \ Control :
  Secret(n) \/ (\A i \in DOMAIN config.env_set : config.env_set[i][1] # n) =>
    child[n] = IF config.env_mode = "Allowlist"
               THEN IF n \in config.env_passthrough /\ ~Secret(n) THEN built[n] ELSE "unset"
               ELSE IF Secret(n) /\ built[n] # "unset" THEN "unset" ELSE host[n]

\* The last env_set of a name that is no secret reaches the child, also behind
\* entries that are skipped, and nothing replaces a SANTH_ variable
\* (builder.rs:157-171).
SettingsReach == Running => \A n \in Names :
  /\ n \in Control => child[n] = "control"
  /\ \A i \in DOMAIN config.env_set :
       /\ n \notin Control /\ ~Secret(n)
       /\ config.env_set[i][1] = n
       /\ \A j \in DOMAIN config.env_set : config.env_set[j][1] = n => j <= i
       => child[n] = config.env_set[i][2]

\* The limit on processes leaves room for what was asked for, though it counts
\* every thread of the user and threads start after the count, as long as
\* they, and those the count missed, are not more than the 64 that
\* nproc_limit_for_uid adds (builder.rs:248-258).
NprocHeadroom == Running /\ threads <= counted + Headroom =>
  nproc = Word - 1 \/ nproc >= threads + config.max_processes
=============================================================================
