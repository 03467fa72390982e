------------------------ MODULE Configuration_proofs ------------------------
(* Proofs that what reaches the child of the environment and of the limits  *)
(* is what Configuration promises, for any names, values, inputs, sequences *)
(* of builder calls and interference by other threads.                      *)
EXTENDS Configuration, TLAPS

-----------------------------------------------------------------------------
(* The inductive invariant *)

\* Every name ever asked for is stripped.
BuilderInv == asked = config.env_strip

\* What has not been checked yet is not used.
ValidInv == phase \in {"provider", "base", "env_set", "isolate", "spawn", "running"}
              => AllValid

\* Until the base is laid, the command holds at most what a provider put there.
ProviderInv ==
  /\ phase \in {"config", "provider", "base"} =>
       next = 1 /\ \A n \in Names : cmd.vars[n] \in {"keep", "provider"}
  /\ phase \in {"config", "provider"} => cmd = Inherit
  /\ phase = "provider" => config.custom_provider
  /\ phase = "base" /\ ~config.custom_provider => cmd = Inherit

Building == phase \in {"env_set", "isolate", "spawn"}

Last(n, i) == \A j \in 1 .. (next - 1) : config.env_set[j][1] = n => j <= i

Unset(n) == \A i \in DOMAIN config.env_set : config.env_set[i][1] # n

\* The entry of the command for n after step 1, if no provider was there before.
BaseEntry(n) ==
  IF config.env_mode = "Allowlist"
  THEN /\ cmd.clear
       /\ cmd.vars[n] = IF n \in config.env_passthrough /\ ~IsSecret(n) /\ built[n] # "unset"
                        THEN built[n] ELSE "keep"
  ELSE /\ ~cmd.clear
       /\ cmd.vars[n] = IF IsSecret(n) /\ built[n] # "unset" THEN "remove" ELSE "keep"

\* What an entry may be from then on.
EntryInv(n) ==
  /\ cmd.vars[n] \in SetValues => ~IsSecret(n)
  /\ IsSecret(n) /\ built[n] # "unset" =>
       cmd.vars[n] = "remove" \/ (cmd.clear /\ cmd.vars[n] = "keep")
  /\ IF config.env_mode = "Allowlist"
     THEN /\ cmd.clear
          /\ cmd.vars[n] # "provider"
          /\ cmd.vars[n] \in HostValues =>
               cmd.vars[n] = built[n] /\ ~IsSecret(n) /\ n \in config.env_passthrough
     ELSE cmd.vars[n] \notin HostValues
  /\ ~config.custom_provider /\ (IsSecret(n) \/ Unset(n)) => BaseEntry(n)

CommandInv == Building =>
  \A n \in Names : \/ n \in Control /\ phase # "env_set"
                   \/ cmd.vars[n] # "control" /\ EntryInv(n)

\* The entries of env_set applied so far, and the variables of step 3.
SettingsInv == Building =>
  /\ next <= Len(config.env_set) + 1
  /\ phase # "env_set" => next = Len(config.env_set) + 1
  /\ \A i \in 1 .. (next - 1) :
       LET n == config.env_set[i][1]
       IN  ~IsSecret(n) /\ Last(n, i) /\ (phase = "env_set" \/ n \notin Control)
             => cmd.vars[n] = config.env_set[i][2]
  /\ phase # "env_set" => \A n \in Control : cmd.vars[n] = "control"

LimitInv == phase \in {"spawn", "running"} => nproc = nproc_limit_for_uid(counted)

ChildInv == SecretsOnlyLate /\ AllowlistSealed /\ EnvironmentExact /\ SettingsReach

IInv == /\ TypeOK /\ BuilderInv /\ ValidInv /\ ProviderInv
        /\ CommandInv /\ SettingsInv /\ LimitInv /\ ChildInv

-----------------------------------------------------------------------------
(* Lemmas *)

USE DEF Environment, Values, Provenance, Marks, Phases, u64

LEMMA Modulus == ASSUME NEW a \in Nat, NEW w \in Nat \ {0}
                 PROVE  a % w \in 0 .. (w - 1)
  OBVIOUS

LEMMA Saturating == ASSUME NEW a \in Nat, NEW b \in Nat
                    PROVE  /\ saturating_add(a, b) \in u64
                           /\ saturating_add(a, b) = Word - 1 \/ saturating_add(a, b) = a + b
  BY NumberAssumption DEF saturating_add

\* nproc_limit_for_uid is a u64, and either no limit or the sum.
LEMMA NprocLimit ==
  ASSUME NEW seen \in Nat, config.max_processes \in u64
  PROVE  /\ nproc_limit_for_uid(seen) \in u64
         /\ \/ nproc_limit_for_uid(seen) = Word - 1
            \/ nproc_limit_for_uid(seen) = seen + config.max_processes + Headroom
<1>1. PICK m : m = saturating_add(seen, config.max_processes)
  OBVIOUS
<1>2. config.max_processes \in Nat
  BY NumberAssumption
<1>3. m \in u64 /\ (m = Word - 1 \/ m = seen + config.max_processes)
  BY <1>1, <1>2, Saturating
<1>4. nproc_limit_for_uid(seen) = saturating_add(m, Headroom)
  BY <1>1 DEF nproc_limit_for_uid
<1> QED
  BY <1>2, <1>3, <1>4, NumberAssumption DEF saturating_add

LEMMA SecretIs == ASSUME asked = config.env_strip, NEW n
                  PROVE  Secret(n) <=> IsSecret(n)
  BY DEF Secret, IsSecret

LEMMA DefaultIsConfig == Default \in SandboxConfig
<1>1. 1 % Word \in u64
  BY NumberAssumption, Modulus
<1>2. <<>> \in Seq(Pairs)
  OBVIOUS
<1> QED
  BY <1>1, <1>2 DEF Default, SandboxConfig, Modes

-----------------------------------------------------------------------------
(* The invariant holds at first, and every step keeps it *)

LEMMA InitInv == Init => IInv
<1> SUFFICES ASSUME Init PROVE IInv
  OBVIOUS
<1>1. config \in SandboxConfig
  BY DefaultIsConfig, InputAssumption DEF Init, Start
<1>2. TypeOK
  BY <1>1, NumberAssumption, InputAssumption DEF Init, TypeOK, Inherit, SandboxConfig
<1>3. BuilderInv
  BY <1>1, NumberAssumption DEF Init, BuilderInv, SandboxConfig
<1>4. ProviderInv
  BY DEF Init, ProviderInv, Inherit
<1> QED
  BY <1>2, <1>3, <1>4
     DEF Init, IInv, ValidInv, CommandInv, Building, SettingsInv, LimitInv, ChildInv,
         SecretsOnlyLate, AllowlistSealed, EnvironmentExact, SettingsReach, Running

\* Calls of the builder keep a configuration a configuration.
LEMMA BuilderConfig ==
  ASSUME TypeOK, BuilderInv, Builder
  PROVE  /\ config' \in SandboxConfig
         /\ asked' \in SUBSET Names /\ BuilderInv'
<1> USE DEF Set, Call, BuilderFrame, BuilderInv
<1>0. /\ config \in SandboxConfig /\ asked \in SUBSET Names
      /\ Numbers \subseteq Nat /\ Numbers \subseteq u64
  BY InputAssumption, NumberAssumption DEF TypeOK
<1>1. ASSUME NEW m \in Modes, env_mode(m)
      PROVE  config' \in SandboxConfig /\ asked' = asked /\ BuilderInv'
  BY <1>0, <1>1 DEF env_mode, SandboxConfig
<1>2. ASSUME NEW b \in BOOLEAN, env_strip_secrets(b)
      PROVE  config' \in SandboxConfig /\ asked' = asked /\ BuilderInv'
  BY <1>0, <1>2 DEF env_strip_secrets, SandboxConfig
<1>3. ASSUME NEW N \in Lists, env_passthrough(N)
      PROVE  config' \in SandboxConfig /\ asked' = asked /\ BuilderInv'
  BY <1>0, <1>3, InputAssumption DEF env_passthrough, SandboxConfig
<1>4. ASSUME NEW N \in Lists, env_strip(N)
      PROVE  /\ config' \in SandboxConfig /\ asked' \in SUBSET Names
             /\ BuilderInv'
  BY <1>0, <1>4, InputAssumption DEF env_strip, SandboxConfig
<1>5. ASSUME NEW n \in Numbers, max_processes(n)
      PROVE  config' \in SandboxConfig /\ asked' = asked /\ BuilderInv'
  BY <1>0, <1>5 DEF max_processes, SandboxConfig
<1>6. ASSUME NEW pair \in Settings, env_set(pair)
      PROVE  config' \in SandboxConfig /\ asked' = asked /\ BuilderInv'
  <2>1. Append(config.env_set, pair) \in Seq(Pairs)
    BY <1>0, InputAssumption DEF SandboxConfig
  <2> QED
    BY <1>0, <1>6, <2>1 DEF env_set, SandboxConfig
<1>7. ASSUME custom_provider
      PROVE  config' \in SandboxConfig /\ asked' = asked /\ BuilderInv'
  BY <1>0, <1>7 DEF custom_provider, SandboxConfig
<1> QED
  BY <1>0, <1>1, <1>2, <1>3, <1>4, <1>5, <1>6, <1>7 DEF Builder

\* The configuration settles before the command is built.
LEMMA BuilderStep == ASSUME IInv, Builder PROVE IInv'
<1>1. /\ phase = "config" /\ UNCHANGED BuilderFrame /\ calls' = calls + 1
  BY DEF Builder, env_mode, env_strip_secrets, env_passthrough, env_strip, max_processes,
         env_set, custom_provider, Set, Call
<1>2. config' \in SandboxConfig /\ asked' \in SUBSET Names /\ BuilderInv'
  BY BuilderConfig DEF IInv
<1>3. TypeOK'
  BY <1>1, <1>2 DEF IInv, TypeOK, BuilderFrame
<1>4. ProviderInv'
  BY <1>1 DEF IInv, ProviderInv, BuilderFrame, Inherit
<1> QED
  BY <1>1, <1>2, <1>3, <1>4
     DEF IInv, BuilderFrame, ValidInv, CommandInv, Building, SettingsInv, LimitInv, ChildInv,
         SecretsOnlyLate, AllowlistSealed, EnvironmentExact, SettingsReach, Running

\* What depends on the configuration alone does not move with it unchanged.
LEMMA Frame == ASSUME UNCHANGED config
               PROVE  \A n : IsSecret(n)' = IsSecret(n) /\ Unset(n)' = Unset(n)
  BY DEF IsSecret, Unset

\* The steps that only move on.
LEMMA MoveStep ==
  ASSUME IInv,
         ValidateEnvironment \/ InvalidEnvironment \/ ProviderRejects \/ EnvironmentPanics
  PROVE  IInv'
<1> USE DEF Move, Goto, SpawnFrame, AfterChecks
<1>1. TypeOK' /\ BuilderInv'
  BY DEF IInv, TypeOK, BuilderInv, ValidateEnvironment, InvalidEnvironment,
         ProviderRejects, EnvironmentPanics
<1>2. ValidInv' /\ ProviderInv'
  BY DEF IInv, TypeOK, SandboxConfig, ValidInv, ProviderInv, AllValid, Valid, Inherit, ValidateEnvironment,
         InvalidEnvironment, ProviderRejects, EnvironmentPanics
<1>3. phase' \in {"provider", "base", "rejected", "panicked"}
  BY DEF ValidateEnvironment, InvalidEnvironment, ProviderRejects, EnvironmentPanics
<1> QED
  BY <1>1, <1>2, <1>3
     DEF IInv, CommandInv, Building, SettingsInv, LimitInv, ChildInv, SecretsOnlyLate,
         AllowlistSealed, EnvironmentExact, SettingsReach, Running

LEMMA ProviderStep ==
  ASSUME IInv, NEW c \in BOOLEAN, NEW N \in Lists, ProviderApplies(c, N)
  PROVE  IInv'
<1> USE DEF ProviderApplies, Goto, SpawnFrame
<1>1. TypeOK' /\ BuilderInv'
  BY DEF IInv, TypeOK, BuilderInv
<1>2. ValidInv'
  BY DEF IInv, ValidInv, AllValid, Valid
<1>3. config.custom_provider
  BY DEF IInv, ProviderInv
<1>4. ProviderInv'
  BY <1>3 DEF IInv, ProviderInv
<1> QED
  BY <1>1, <1>2, <1>4
     DEF IInv, CommandInv, Building, SettingsInv, LimitInv, ChildInv, SecretsOnlyLate,
         AllowlistSealed, EnvironmentExact, SettingsReach, Running

\* Step 1 of apply_environment lays the base.
LEMMA BaseStep == ASSUME IInv, ApplyBase PROVE IInv'
<1> USE DEF ApplyBase, Goto, SpawnFrame
<1>0. /\ config \in SandboxConfig /\ host \in Environment
      /\ phase = "base" /\ phase' = "env_set" /\ UNCHANGED <<config, next>> /\ built' = host
      /\ next = 1
  BY DEF IInv, TypeOK, ProviderInv
<1>1. TypeOK'
  <2>1. Allowed \in [clear: BOOLEAN, vars: [Names -> Values \union {"keep", "remove"}]]
    BY <1>0 DEF Allowed
  <2>2. Stripped \in [clear: BOOLEAN, vars: [Names -> Values \union {"keep", "remove"}]]
    BY <1>0 DEF IInv, TypeOK, Stripped
  <2> QED
    BY <1>0, <2>1, <2>2 DEF IInv, TypeOK
<1>2. BuilderInv' /\ ValidInv'
  BY <1>0 DEF IInv, BuilderInv, ValidInv, AllValid, Valid
<1>3. ASSUME NEW n \in Names
      PROVE  (cmd.vars[n] # "control" /\ EntryInv(n))'
  <2>1. IsSecret(n)' = IsSecret(n) /\ Unset(n)' = Unset(n)
    BY <1>0, Frame
  <2>2. /\ host[n] \in HostValues \union {"unset"}
        /\ cmd.vars[n] \in {"keep", "provider"}
        /\ ~config.custom_provider => cmd.vars[n] = "keep" /\ ~cmd.clear
    BY <1>0 DEF IInv, ProviderInv, Inherit
  <2>3. CASE config.env_mode = "Allowlist"
    <3>1. /\ cmd'.clear
          /\ cmd'.vars[n] = IF n \in config.env_passthrough /\ ~IsSecret(n) /\ host[n] # "unset"
                            THEN host[n] ELSE "keep"
      BY <1>0, <2>3 DEF Allowed
    <3> QED
      BY <1>0, <2>1, <2>2, <2>3, <3>1, ValueAssumption DEF EntryInv, BaseEntry
  <2>4. CASE config.env_mode # "Allowlist"
    <3>1. /\ cmd'.clear = cmd.clear
          /\ cmd'.vars[n] = IF IsSecret(n) /\ host[n] # "unset"
                            THEN IF cmd.clear THEN "keep" ELSE "remove"
                            ELSE cmd.vars[n]
      BY <1>0, <2>4 DEF Stripped
    <3>2. cmd.clear \in BOOLEAN
      BY DEF IInv, TypeOK
    <3>3. cmd'.vars[n] \in {"keep", "remove", "provider"}
      BY <2>2, <3>1
    <3>4. cmd'.vars[n] \notin SetValues \union HostValues /\ cmd'.vars[n] # "control"
      BY <3>3, ValueAssumption
    <3>5. IsSecret(n) /\ built'[n] # "unset" =>
            cmd'.vars[n] = "remove" \/ (cmd'.clear /\ cmd'.vars[n] = "keep")
      BY <1>0, <3>1, <3>2
    <3>6. ~config.custom_provider => BaseEntry(n)'
      BY <1>0, <2>1, <2>2, <2>4, <3>1 DEF BaseEntry
    <3> QED
      BY <1>0, <2>1, <2>4, <3>4, <3>5, <3>6 DEF EntryInv
  <2> QED
    BY <2>3, <2>4
<1>4. CommandInv'
  BY <1>3 DEF CommandInv
<1>5. SettingsInv'
  BY <1>0 DEF SettingsInv, Building, SandboxConfig
<1> QED
  BY <1>0, <1>1, <1>2, <1>4, <1>5
     DEF IInv, ProviderInv, LimitInv, ChildInv, SecretsOnlyLate, AllowlistSealed, EnvironmentExact,
         SettingsReach, Running

\* Step 2, one entry of env_set.
LEMMA SetStep == ASSUME IInv, ApplySet PROVE IInv'
<1>0. /\ config \in SandboxConfig /\ config.env_set \in Seq(Pairs)
      /\ phase = "env_set" /\ UNCHANGED <<phase, config, built>>
      /\ next \in 1 .. Len(config.env_set) /\ next' = next + 1
      /\ UNCHANGED <<host, threads, nproc, child, asked, counted, calls, changes>>
  BY DEF IInv, TypeOK, SandboxConfig, ApplySet, SpawnFrame
<1> DEFINE key == config.env_set[next][1]
           value == config.env_set[next][2]
<1>1. key \in Names /\ value \in SetValues
  <2>1. config.env_set[next] \in Pairs
    BY <1>0
  <2>2. Valid(config.env_set[next])
    BY <1>0 DEF IInv, ValidInv, AllValid
  <2> QED
    BY <2>1, <2>2 DEF Valid, Pairs
<1> HIDE DEF key, value
<1>2. cmd' = IF IsSecret(key) THEN cmd ELSE [cmd EXCEPT !.vars[key] = value]
  BY DEF key, value, ApplySet
<1>3. TypeOK'
  <2>1. cmd \in [clear: BOOLEAN, vars: [Names -> Values \union {"keep", "remove"}]]
    BY DEF IInv, TypeOK
  <2>2. [cmd EXCEPT !.vars[key] = value]
          \in [clear: BOOLEAN, vars: [Names -> Values \union {"keep", "remove"}]]
    BY <1>1, <2>1
  <2>3. cmd' \in [clear: BOOLEAN, vars: [Names -> Values \union {"keep", "remove"}]]
    BY <1>2, <2>1, <2>2
  <2> QED
    BY <1>0, <2>3 DEF IInv, TypeOK
<1>4. BuilderInv' /\ ValidInv'
  BY <1>0 DEF IInv, BuilderInv, ValidInv, AllValid, Valid
<1>5. /\ cmd'.clear = cmd.clear
      /\ \A n \in Names : cmd'.vars[n] = IF n = key /\ ~IsSecret(key) THEN value ELSE cmd.vars[n]
  BY <1>1, <1>2 DEF IInv, TypeOK
<1>6. ASSUME NEW n \in Names
      PROVE  (cmd.vars[n] # "control" /\ EntryInv(n))'
  <2>1. IsSecret(n)' = IsSecret(n) /\ Unset(n)' = Unset(n)
    BY <1>0, Frame
  <2>2. cmd.vars[n] # "control" /\ EntryInv(n)
    BY <1>0 DEF IInv, CommandInv, Building
  <2>3. CASE n = key /\ ~IsSecret(n)
    <3>1. cmd'.vars[n] = value /\ value \notin HostValues \union {"control", "provider"}
      BY <1>1, <1>5, <2>3, ValueAssumption
    <3>2. ~Unset(n)
      BY <1>0, <2>3 DEF Unset, key
    <3> QED
      BY <1>0, <1>5, <2>1, <2>2, <2>3, <3>1, <3>2 DEF EntryInv, BaseEntry
  <2>4. CASE ~(n = key /\ ~IsSecret(n))
    <3>1. cmd'.vars[n] = cmd.vars[n]
      BY <1>5, <2>4
    <3> QED
      BY <1>0, <1>5, <2>1, <2>2, <3>1 DEF EntryInv, BaseEntry
  <2> QED
    BY <2>3, <2>4
<1>7. CommandInv'
  BY <1>6 DEF CommandInv
<1>8. SettingsInv'
  <2>1. next' <= Len(config.env_set) + 1
    BY <1>0
  <2>2. ASSUME NEW i \in 1 .. (next' - 1),
               ~IsSecret(config.env_set[i][1]),
               \A j \in 1 .. (next' - 1) : config.env_set[j][1] = config.env_set[i][1] => j <= i
        PROVE  cmd'.vars[config.env_set[i][1]] = config.env_set[i][2]
    <3>1. CASE i = next
      BY <1>1, <1>5, <2>2, <3>1 DEF key, value
    <3>2. CASE i # next
      <4>1. i \in 1 .. (next - 1) /\ next \in 1 .. (next' - 1)
        BY <1>0, <3>2
      <4>2. key # config.env_set[i][1]
        BY <1>0, <2>2, <4>1 DEF key
      <4>3. config.env_set[i][1] \in Names
        <5>1. i \in DOMAIN config.env_set /\ config.env_set[i] \in Pairs
          BY <1>0, <4>1
        <5>2. Valid(config.env_set[i])
          BY <1>0, <5>1 DEF IInv, ValidInv, AllValid
        <5> QED
          BY <5>1, <5>2 DEF Valid, Pairs
      <4>4. \A j \in 1 .. (next - 1) : config.env_set[j][1] = config.env_set[i][1] => j <= i
        BY <1>0, <2>2
      <4>5. cmd.vars[config.env_set[i][1]] = config.env_set[i][2]
        BY <1>0, <2>2, <4>1, <4>4 DEF IInv, SettingsInv, Building, Last
      <4> QED
        BY <1>5, <4>2, <4>3, <4>5
    <3> QED
      BY <3>1, <3>2
  <2>3. \A n : IsSecret(n)' = IsSecret(n)
    BY <1>0, Frame
  <2> QED
    BY <1>0, <2>1, <2>2, <2>3 DEF SettingsInv, Building, Last
<1> QED
  BY <1>0, <1>3, <1>4, <1>7, <1>8
     DEF IInv, ProviderInv, LimitInv, ChildInv, SecretsOnlyLate, AllowlistSealed, EnvironmentExact,
         SettingsReach, Running

\* Step 3, the SANTH_ variables.
LEMMA ControlStep == ASSUME IInv, ApplyControl PROVE IInv'
<1> USE DEF ApplyControl, Goto, SpawnFrame
<1>0. /\ config \in SandboxConfig /\ config.env_set \in Seq(Pairs)
      /\ phase = "env_set" /\ phase' = "isolate" /\ UNCHANGED <<config, built, next>>
      /\ next = Len(config.env_set) + 1
  BY DEF IInv, TypeOK, SandboxConfig, SettingsInv, Building
<1>1. /\ cmd'.clear = cmd.clear
      /\ \A n \in Names : cmd'.vars[n] = IF n \in Control THEN "control" ELSE cmd.vars[n]
      /\ cmd' \in [clear: BOOLEAN, vars: [Names -> Values \union {"keep", "remove"}]]
  <2>1. cmd \in [clear: BOOLEAN, vars: [Names -> Values \union {"keep", "remove"}]]
    BY DEF IInv, TypeOK
  <2>2. [n \in Names |-> IF n \in Control THEN "control" ELSE cmd.vars[n]]
          \in [Names -> Values \union {"keep", "remove"}]
    BY <2>1
  <2> QED
    BY <2>1, <2>2
<1>2. TypeOK'
  BY <1>0, <1>1 DEF IInv, TypeOK
<1>3. BuilderInv' /\ ValidInv'
  BY <1>0 DEF IInv, BuilderInv, ValidInv, AllValid, Valid
<1>4. ASSUME NEW n \in Names, n \notin Control
      PROVE  (cmd.vars[n] # "control" /\ EntryInv(n))'
  <2>1. cmd.vars[n] # "control" /\ EntryInv(n)
    BY <1>0 DEF IInv, CommandInv, Building
  <2>2. IsSecret(n)' = IsSecret(n) /\ Unset(n)' = Unset(n)
    BY <1>0, Frame
  <2> QED
    BY <1>0, <1>1, <1>4, <2>1, <2>2 DEF EntryInv, BaseEntry
<1>5. CommandInv'
  BY <1>0, <1>4 DEF CommandInv
<1>6. SettingsInv'
  <2>1. \A n \in Control : cmd'.vars[n] = "control"
    BY <1>1, NameAssumption
  <2>2. ASSUME NEW i \in 1 .. (next - 1),
               ~IsSecret(config.env_set[i][1]), Last(config.env_set[i][1], i),
               config.env_set[i][1] \notin Control
        PROVE  cmd'.vars[config.env_set[i][1]] = config.env_set[i][2]
    <3>1. i \in DOMAIN config.env_set /\ config.env_set[i] \in Pairs
      BY <1>0
    <3>2. Valid(config.env_set[i])
      BY <1>0, <3>1 DEF IInv, ValidInv, AllValid
    <3>3. config.env_set[i][1] \in Names
      BY <3>1, <3>2 DEF Valid, Pairs
    <3>4. cmd.vars[config.env_set[i][1]] = config.env_set[i][2]
      BY <1>0, <2>2 DEF IInv, SettingsInv, Building
    <3> QED
      BY <1>1, <2>2, <3>3, <3>4
  <2>3. \A n : IsSecret(n)' = IsSecret(n)
    BY <1>0, Frame
  <2> QED
    BY <1>0, <2>1, <2>2, <2>3 DEF SettingsInv, Building, Last
<1> QED
  BY <1>0, <1>2, <1>3, <1>5, <1>6
     DEF IInv, ProviderInv, LimitInv, ChildInv, SecretsOnlyLate, AllowlistSealed, EnvironmentExact,
         SettingsReach, Running

LEMMA IsolationStep ==
  ASSUME IInv, NEW seen \in 0 .. threads, ApplyIsolation(seen)
  PROVE  IInv'
<1> USE DEF ApplyIsolation, Goto, SpawnFrame
<1>0. seen \in Nat /\ config.max_processes \in u64 /\ UNCHANGED <<config, cmd, built, next>>
  BY DEF IInv, TypeOK, SandboxConfig
<1>1. TypeOK'
  BY <1>0, NprocLimit DEF IInv, TypeOK
<1>2. BuilderInv' /\ ValidInv'
  BY <1>0 DEF IInv, BuilderInv, ValidInv, AllValid, Valid
<1>3. CommandInv'
  BY <1>0, Frame DEF IInv, CommandInv, Building, EntryInv, BaseEntry
<1>4. SettingsInv'
  BY <1>0, Frame DEF IInv, SettingsInv, Building, Last
<1>5. LimitInv'
  BY <1>0 DEF LimitInv, nproc_limit_for_uid, saturating_add
<1> QED
  BY <1>1, <1>2, <1>3, <1>4, <1>5
     DEF IInv, ProviderInv, ChildInv, SecretsOnlyLate, AllowlistSealed, EnvironmentExact,
         SettingsReach, Running

\* The second reading of the environment.
LEMMA SpawnStep == ASSUME IInv, Spawn PROVE IInv'
<1> USE DEF Spawn, Goto, SpawnFrame
<1>0. /\ config \in SandboxConfig /\ config.env_set \in Seq(Pairs)
      /\ phase = "spawn" /\ phase' = "running"
      /\ UNCHANGED <<config, cmd, host, built, next, nproc, counted, asked>>
      /\ asked = config.env_strip
      /\ cmd \in [clear: BOOLEAN, vars: [Names -> Values \union {"keep", "remove"}]]
      /\ host \in Environment
  BY DEF IInv, TypeOK, SandboxConfig, BuilderInv
<1>1. ASSUME NEW n \in Names
      PROVE  /\ child'[n] = Captured(n)
             /\ Captured(n) \in Values \union {"unset"}
             /\ cmd.vars[n] = "keep" => Captured(n) = IF cmd.clear THEN "unset" ELSE host[n]
             /\ cmd.vars[n] = "remove" => Captured(n) = "unset"
             /\ cmd.vars[n] \notin {"keep", "remove"} => Captured(n) = cmd.vars[n]
             /\ cmd.vars[n] \in Values \union {"keep", "remove"}
             /\ host[n] \in HostValues \union {"unset"}
  BY <1>0 DEF Captured
<1>2. TypeOK'
  BY <1>0, <1>1 DEF IInv, TypeOK
<1>3. BuilderInv' /\ ValidInv' /\ LimitInv'
  BY <1>0 DEF IInv, BuilderInv, ValidInv, AllValid, Valid, LimitInv,
              nproc_limit_for_uid, saturating_add
<1>4. \A n : Secret(n)' <=> IsSecret(n)
  BY <1>0 DEF Secret, IsSecret
<1>5. ASSUME NEW n \in Names \ Control
      PROVE  cmd.vars[n] # "control" /\ EntryInv(n)
  BY <1>0 DEF IInv, CommandInv, Building
<1>6. SecretsOnlyLate'
  <2> SUFFICES ASSUME NEW n \in Names \ Control, IsSecret(n), Captured(n) # "unset"
               PROVE  /\ config.env_mode # "Allowlist"
                      /\ built[n] = "unset"
                      /\ Captured(n) \in HostValues \union {"provider"}
    BY <1>0, <1>1, <1>4 DEF SecretsOnlyLate
  <2> QED
    BY <1>0, <1>1, <1>5, ValueAssumption DEF EntryInv
<1>7. AllowlistSealed'
  <2> SUFFICES ASSUME config.env_mode = "Allowlist", NEW n \in Names \ Control
               PROVE  \/ Captured(n) = "unset"
                      \/ ~IsSecret(n) /\ Captured(n) \in SetValues
                      \/ ~IsSecret(n) /\ n \in config.env_passthrough /\ Captured(n) = built[n]
    BY <1>0, <1>1, <1>4 DEF AllowlistSealed
  <2> QED
    BY <1>0, <1>1, <1>5, ValueAssumption DEF EntryInv
<1>8. EnvironmentExact'
  <2> SUFFICES ASSUME ~config.custom_provider, NEW n \in Names \ Control,
                      IsSecret(n) \/ Unset(n)
               PROVE  Captured(n) =
                        IF config.env_mode = "Allowlist"
                        THEN IF n \in config.env_passthrough /\ ~IsSecret(n)
                             THEN built[n] ELSE "unset"
                        ELSE IF IsSecret(n) /\ built[n] # "unset" THEN "unset" ELSE host[n]
    BY <1>0, <1>1, <1>4 DEF EnvironmentExact, Unset
  <2>1. BaseEntry(n)
    BY <1>5 DEF EntryInv
  <2>2. built[n] \in HostValues \union {"unset"}
    BY DEF IInv, TypeOK
  <2> QED
    BY <1>1, <2>1, <2>2, ValueAssumption DEF BaseEntry
<1>9. SettingsReach'
  <2>1. ASSUME NEW n \in Control PROVE child'[n] = "control"
    BY <1>0, <1>1, NameAssumption DEF IInv, SettingsInv, Building
  <2>2. ASSUME NEW n \in Names \ Control, ~IsSecret(n), NEW i \in DOMAIN config.env_set,
               config.env_set[i][1] = n,
               \A j \in DOMAIN config.env_set : config.env_set[j][1] = n => j <= i
        PROVE  child'[n] = config.env_set[i][2]
    <3>1. i \in 1 .. (next - 1) /\ next = Len(config.env_set) + 1
      BY <1>0 DEF IInv, SettingsInv, Building
    <3>2. Last(n, i)
      BY <1>0, <2>2, <3>1 DEF Last
    <3>3. cmd.vars[n] = config.env_set[i][2]
      BY <1>0, <2>2, <3>1, <3>2 DEF IInv, SettingsInv, Building
    <3>4. config.env_set[i][2] \in SetValues
      <4>1. config.env_set[i] \in Pairs
        BY <1>0, <2>2
      <4>2. Valid(config.env_set[i])
        BY <1>0, <2>2 DEF IInv, ValidInv, AllValid
      <4> QED
        BY <4>1, <4>2 DEF Valid, Pairs
    <3> QED
      BY <1>1, <3>3, <3>4, ValueAssumption
  <2> SUFFICES ASSUME NEW n \in Names
               PROVE  /\ n \in Control => child'[n] = "control"
                      /\ \A i \in DOMAIN config.env_set :
                           /\ n \notin Control /\ ~IsSecret(n)
                           /\ config.env_set[i][1] = n
                           /\ \A j \in DOMAIN config.env_set : config.env_set[j][1] = n => j <= i
                           => child'[n] = config.env_set[i][2]
    BY <1>0, <1>4 DEF SettingsReach
  <2> QED
    BY <2>1, <2>2
<1> QED
  BY <1>0, <1>2, <1>3, <1>6, <1>7, <1>8, <1>9
     DEF IInv, ProviderInv, CommandInv, SettingsInv, Building, ChildInv

\* Other threads touch only what the second reading will see.
LEMMA ChangeStep == ASSUME IInv, Others PROVE IInv'
<1> USE DEF Change, history
<1>0. /\ UNCHANGED <<config, phase, cmd, next, nproc, child, asked, built, counted, calls>>
      /\ phase # "running"
      /\ changes < MaxChanges /\ changes' = changes + 1
      /\ host' \in Environment /\ threads' \in Nat
  BY NumberAssumption DEF IInv, TypeOK, Others, SetVar, ThreadsStart
<1>1. TypeOK'
  BY <1>0, NumberAssumption DEF IInv, TypeOK
<1>2. BuilderInv' /\ ValidInv' /\ ProviderInv'
  BY <1>0 DEF IInv, BuilderInv, ValidInv, AllValid, Valid, ProviderInv, Inherit
<1>3. CommandInv' /\ SettingsInv' /\ LimitInv'
  BY <1>0, Frame DEF IInv, CommandInv, EntryInv, BaseEntry, SettingsInv, Building, Last, LimitInv,
                     nproc_limit_for_uid, saturating_add
<1> QED
  BY <1>0, <1>1, <1>2, <1>3 DEF IInv, ChildInv, SecretsOnlyLate, AllowlistSealed, EnvironmentExact,
                                SettingsReach, Running

LEMMA StutterStep == ASSUME IInv, UNCHANGED vars PROVE IInv'
<1>1. TypeOK' /\ BuilderInv' /\ ValidInv' /\ ProviderInv' /\ LimitInv'
  BY DEF IInv, vars, history, TypeOK, BuilderInv, ValidInv, AllValid, Valid,
         ProviderInv, Inherit, LimitInv, nproc_limit_for_uid, saturating_add
<1>2. CommandInv' /\ SettingsInv'
  BY Frame DEF IInv, vars, history, CommandInv, EntryInv, BaseEntry, SettingsInv, Building, Last
<1>3. ChildInv'
  BY DEF IInv, vars, history, ChildInv, SecretsOnlyLate, AllowlistSealed, EnvironmentExact,
         SettingsReach, Running, Secret
<1> QED
  BY <1>1, <1>2, <1>3 DEF IInv

\* IInv is an invariant of every configuration, host and interference.
THEOREM Invariance == Spec => []IInv
<1>1. ASSUME IInv, [Next]_vars PROVE IInv'
  <2>1. CASE Builder
    BY <1>1, <2>1, BuilderStep
  <2>2. CASE Build
    <3>1. CASE ValidateEnvironment \/ InvalidEnvironment \/ ProviderRejects \/ EnvironmentPanics
      BY <1>1, <3>1, MoveStep
    <3>2. CASE \E c \in BOOLEAN, N \in Lists : ProviderApplies(c, N)
      BY <1>1, <3>2, ProviderStep
    <3>3. CASE ApplyBase
      BY <1>1, <3>3, BaseStep
    <3>4. CASE ApplySet
      BY <1>1, <3>4, SetStep
    <3>5. CASE ApplyControl
      BY <1>1, <3>5, ControlStep
    <3>6. CASE \E seen \in 0 .. threads : ApplyIsolation(seen)
      BY <1>1, <3>6, IsolationStep
    <3>7. CASE Spawn
      BY <1>1, <3>7, SpawnStep
    <3> QED
      BY <2>2, <3>1, <3>2, <3>3, <3>4, <3>5, <3>6, <3>7 DEF Build
  <2>3. CASE Others
    BY <1>1, <2>3, ChangeStep
  <2>4. CASE Finished \/ UNCHANGED vars
    BY <1>1, <2>4, StutterStep DEF Finished
  <2> QED
    BY <1>1, <2>1, <2>2, <2>3, <2>4 DEF Next
<1> QED
  BY InitInv, <1>1, PTL DEF Spec

-----------------------------------------------------------------------------
(* What follows from it *)

\* Type correctness.
THEOREM TypeCorrect == Spec => []TypeOK
<1>1. IInv => TypeOK
  BY DEF IInv
<1> QED
  BY Invariance, <1>1, PTL

\* No secret of the environment the command was built from reaches the child.
THEOREM SecretsAreKept == Spec => []SecretsOnlyLate
<1>1. IInv => SecretsOnlyLate
  BY DEF IInv, ChildInv
<1> QED
  BY Invariance, <1>1, PTL

\* An allowlist seals the child's environment when the command is built.
THEOREM AllowlistIsSealed == Spec => []AllowlistSealed
<1>1. IInv => AllowlistSealed
  BY DEF IInv, ChildInv
<1> QED
  BY Invariance, <1>1, PTL

\* The environment of the child is determined, though other threads change that
\* of the program meanwhile (builder.rs:123-164).
THEOREM EnvironmentIsExact == Spec => []EnvironmentExact
<1>1. IInv => EnvironmentExact
  BY DEF IInv, ChildInv
<1> QED
  BY Invariance, <1>1, PTL

\* env_set and the SANTH_ variables arrive.
THEOREM SettingsDoReach == Spec => []SettingsReach
<1>1. IInv => SettingsReach
  BY DEF IInv, ChildInv
<1> QED
  BY Invariance, <1>1, PTL

\* The limit on processes leaves the room asked for.
THEOREM NprocLeavesRoom == Spec => []NprocHeadroom
<1>1. IInv => NprocHeadroom
  <2> SUFFICES ASSUME IInv, phase = "running", threads <= counted + Headroom
               PROVE  nproc = Word - 1 \/ nproc >= threads + config.max_processes
    BY DEF NprocHeadroom, Running
  <2>1. config.max_processes \in u64 /\ counted \in Nat /\ threads \in Nat
    BY DEF IInv, TypeOK, SandboxConfig
  <2>2. nproc = nproc_limit_for_uid(counted)
    BY DEF IInv, LimitInv
  <2>3. nproc = Word - 1 \/ nproc = counted + config.max_processes + Headroom
    BY <2>1, <2>2, NprocLimit
  <2> QED
    BY <2>1, <2>3, NumberAssumption
<1> QED
  BY Invariance, <1>1, PTL
=============================================================================
