----------------------- MODULE ConfigResolution_proofs -----------------------
(***************************************************************************)
(* Proofs about the resolution of a configuration, for whatever files,     *)
(* environments and command lines there may be.                            *)
(*                                                                         *)
(* The argument: up to ApplyDefaults a field may hold a zero where its     *)
(* default is meant, after it the field holds what the sources read so far *)
(* mean; and the second WithDefaults, in New, finds nothing to do.         *)
(***************************************************************************)
EXTENDS ConfigResolution, TLAPS

Resolvable == Fields \ {"port", "verbose"}

\* What the environment and the file mean.
BelowFlags(f) ==
    IF env[f] \notin {Unset, Garbage} THEN Meant(f, env[f]) ELSE Meant(f, file[f])

\* Each field but the port, at each stage.
FieldsInv ==
    /\ stage = "load"     => cfg = NewConfig /\ \A f \in Fields : file[f] = Zero(f)
    /\ stage = "env"      => \A f \in Resolvable : Meant(f, cfg[f]) = Meant(f, file[f])
    /\ stage = "defaults" => \A f \in Resolvable : Meant(f, cfg[f]) = BelowFlags(f)
    /\ stage = "flags"    => \A f \in Resolvable : cfg[f] = BelowFlags(f)

\* The port, when the environment asks for any.
PortInv == (stage \in {"defaults", "flags"} /\ env["port"] = 0) => cfg["port"] = 0

ConfigInv == FieldsInv /\ PortInv /\ Precedence /\ AutoAssignKept

-----------------------------------------------------------------------------
(* The operators of the configuration.                                     *)

\* WithDefaults makes of a field what it means.
LEMMA DefaultsGiveMeaning ==
  ASSUME NEW c, NEW f \in Resolvable
  PROVE  WithDefaults(c)[f] = Meant(f, c[f])
BY DEF WithDefaults, Meant, Resolvable

\* A zero is left only where it is the default, so to do it again is idle.
LEMMA MeantTwice ==
  ASSUME NEW f, NEW value
  PROVE  Meant(f, Meant(f, value)) = Meant(f, value)
BY DEF Meant

\* A port that asks for any keeps asking.
LEMMA PortZeroSurvives ==
  ASSUME NEW c, c["port"] = 0
  PROVE  WithDefaults(c)["port"] = 0
BY DEF WithDefaults, Fields, Zero

\* NewConfig has no value but defaults and zeros.
LEMMA NewConfigMeansDefaults ==
  ASSUME NEW f \in Resolvable
  PROVE  Meant(f, NewConfig[f]) = Default(f)
BY DEF Meant, NewConfig, Resolvable, Fields

-----------------------------------------------------------------------------
(* The steps.                                                              *)

LEMMA StepConfigInv ==
  ASSUME ConfigInv, ConfigNext
  PROVE  ConfigInv'
<1>1. CASE LoadFile
  <2>1. stage' = "env" /\ cfg' = file'
    BY <1>1 DEF LoadFile, Goto
  <2> QED
    BY <2>1 DEF ConfigInv, FieldsInv, PortInv, Precedence, AutoAssignKept, Resolved
<1>2. CASE NoFile
  <2>1. stage = "load" /\ stage' = "env" /\ cfg' = cfg /\ file' = file
    BY <1>2 DEF NoFile, Goto
  <2>2. ASSUME NEW f \in Resolvable PROVE Meant(f, cfg[f]) = Meant(f, file[f])
    <3>1. cfg = NewConfig /\ file[f] = Zero(f)
      BY <2>1 DEF ConfigInv, FieldsInv, Resolvable
    <3>2. Meant(f, Zero(f)) = Default(f)
      BY DEF Meant
    <3> QED
      BY <3>1, <3>2, NewConfigMeansDefaults
  <2> QED
    BY <2>1, <2>2 DEF ConfigInv, FieldsInv, PortInv, Precedence, AutoAssignKept, Resolved
<1>3. CASE LoadFails \/ RejectConfig \/ NewFails
  <2>1. stage' = "ended"
    BY <1>3 DEF LoadFails, RejectConfig, NewFails, Goto
  <2> QED
    BY <2>1 DEF ConfigInv, FieldsInv, PortInv, Precedence, AutoAssignKept, Resolved
<1>4. CASE ApplyEnv
  <2>1. /\ stage = "env" /\ stage' = "defaults" /\ file' = file
        /\ cfg' = [f \in Fields |-> FromEnv(f, env'[f], cfg[f])]
    BY <1>4 DEF ApplyEnv, Goto
  <2>2. ASSUME NEW f \in Resolvable PROVE Meant(f, cfg'[f]) = BelowFlags(f)'
    <3>1. f \in Fields /\ f # "verbose" /\ Meant(f, cfg[f]) = Meant(f, file[f])
      BY <2>1 DEF ConfigInv, FieldsInv, Resolvable
    <3>2. cfg'[f] = IF env'[f] \in {Unset, Garbage} THEN cfg[f] ELSE env'[f]
      BY <2>1, <3>1 DEF FromEnv
    <3> QED
      BY <2>1, <3>1, <3>2 DEF BelowFlags
  <2>3. env'["port"] = 0 => cfg'["port"] = 0
    BY <2>1, ConfigAssumption DEF FromEnv, Fields
  <2> QED
    BY <2>1, <2>2, <2>3 DEF ConfigInv, FieldsInv, PortInv, Precedence, AutoAssignKept, Resolved
<1>5. CASE ApplyDefaults
  <2>1. /\ stage = "defaults" /\ stage' = "flags" /\ file' = file /\ env' = env
        /\ cfg' = WithDefaults(cfg)
    BY <1>5 DEF ApplyDefaults, Goto
  <2>2. ASSUME NEW f \in Resolvable PROVE cfg'[f] = BelowFlags(f)'
    BY <2>1, DefaultsGiveMeaning DEF ConfigInv, FieldsInv, BelowFlags
  <2>3. env'["port"] = 0 => cfg'["port"] = 0
    BY <2>1, PortZeroSurvives DEF ConfigInv, PortInv
  <2> QED
    BY <2>1, <2>2, <2>3 DEF ConfigInv, FieldsInv, PortInv, Precedence, AutoAssignKept, Resolved
<1>6. CASE ApplyFlags
  <2>1. /\ stage = "flags" /\ stage' = "check" /\ file' = file /\ env' = env
        /\ cfg' = Merge(cfg, FlagConfig(flags'))
    BY <1>6 DEF ApplyFlags, Goto
  <2>2. ASSUME NEW f \in Resolvable PROVE cfg'[f] = Documented(f)'
    <3> DEFINE given == FlagConfig(flags')[f]
    <3>1. f \in Fields /\ cfg[f] = BelowFlags(f)'
      BY <2>1 DEF ConfigInv, FieldsInv, Resolvable, BelowFlags
    <3>2. cfg'[f] = IF given = Zero(f) THEN cfg[f] ELSE given
      BY <2>1, <3>1 DEF Merge
    <3>3. flags'[f] = Unset => given = Zero(f)
      BY <3>1 DEF FlagConfig
    <3> HIDE DEF given
    <3>4. Documented(f)' = IF flags'[f] # Unset /\ given # Zero(f) THEN given ELSE BelowFlags(f)'
      BY DEF Documented, BelowFlags, given
    <3> QED
      BY <3>1, <3>2, <3>3, <3>4
  <2>3. (env'["port"] = 0 /\ flags'["port"] = Unset) => cfg'["port"] = 0
    BY <2>1 DEF ConfigInv, PortInv, Merge, FlagConfig, Zero, Fields, TextFields, Durations
  <2> QED
    BY <2>1, <2>2, <2>3 DEF ConfigInv, FieldsInv, PortInv, Precedence, AutoAssignKept, Resolvable
<1>7. CASE NewAgent
  <2>1. /\ stage = "check" /\ stage' = "new" /\ UNCHANGED <<file, env, flags>>
        /\ cfg' = WithDefaults(cfg)
    BY <1>7 DEF NewAgent, Goto
  <2>2. ASSUME NEW f \in Resolvable PROVE cfg'[f] = Documented(f)
    <3>1. cfg[f] = Documented(f)
      BY <2>1 DEF ConfigInv, Precedence, Resolved, Resolvable
    <3>2. Meant(f, Documented(f)) = Documented(f)
      BY MeantTwice DEF Documented, Meant
    <3> QED
      BY <2>1, <3>1, <3>2, DefaultsGiveMeaning
  <2>3. \A f \in Fields : Documented(f)' = Documented(f)
    BY <2>1 DEF Documented
  <2>4. AutoAssignKept'
    BY <2>1, PortZeroSurvives DEF ConfigInv, AutoAssignKept, Resolved
  <2> QED
    BY <2>1, <2>2, <2>3, <2>4 DEF ConfigInv, FieldsInv, PortInv, Precedence, Resolvable
<1>8. CASE StartProbing
  <2>1. /\ stage = "new" /\ stage' \in {"running", "panicked"}
        /\ UNCHANGED <<file, env, flags, cfg>>
    BY <1>8 DEF StartProbing, Goto
  <2>2. \A f \in Fields : Documented(f)' = Documented(f)
    BY <2>1 DEF Documented
  <2> QED
    BY <2>1, <2>2 DEF ConfigInv, FieldsInv, PortInv, Precedence, AutoAssignKept, Resolved
<1> QED
  BY <1>1, <1>2, <1>3, <1>4, <1>5, <1>6, <1>7, <1>8 DEF ConfigNext

\* Each stage leaves the fields as the sources read so far mean them.
THEOREM ConfigInvHolds == ConfigSpec => []ConfigInv
<1>1. ConfigInit => ConfigInv
  BY DEF ConfigInit, ConfigInv, FieldsInv, PortInv, Precedence, AutoAssignKept, Resolved
<1>2. ConfigInv /\ [ConfigNext]_configVars => ConfigInv'
  <2> SUFFICES ASSUME ConfigInv, [ConfigNext]_configVars
               PROVE  ConfigInv'
    OBVIOUS
  <2>1. CASE UNCHANGED configVars
    BY <2>1 DEF ConfigInv, FieldsInv, BelowFlags, PortInv, Precedence, Documented,
                AutoAssignKept, Resolved, configVars
  <2> QED
    BY <2>1, StepConfigInv
<1> QED
  BY <1>1, <1>2, PTL DEF ConfigSpec

\* Flags over environment over file over defaults, for whatever these say
\* (README.md:109-114; main.go:53-133).
THEOREM PrecedenceHolds == ConfigSpec => []Precedence
<1>1. ConfigInv => Precedence
  BY DEF ConfigInv
<1> QED
  BY <1>1, ConfigInvHolds, PTL

\* A port of 0 in the environment survives both calls of WithDefaults
\* (config.go:154).
THEOREM AutoAssignKeptHolds == ConfigSpec => []AutoAssignKept
<1>1. ConfigInv => AutoAssignKept
  BY DEF ConfigInv
<1> QED
  BY <1>1, ConfigInvHolds, PTL
-----------------------------------------------------------------------------
(* What runs.                                                              *)

\* What the sources say of the probe interval; no flag says anything of it.
SourcesInv ==
    /\ file["probe"] \in Int
    /\ env["probe"] \in {Unset, Garbage} \/ env["probe"] \in Int
    /\ flags["probe"] = Unset

\* The second WithDefaults makes nothing invalid.
LEMMA DefaultsStayValid ==
  ASSUME NEW c, Validate(c)
  PROVE  Validate(WithDefaults(c))
<1> DEFINE d == WithDefaults(c)
<1>1. \A f \in Fields \ {"port"} : d[f] = IF c[f] = Zero(f) THEN Default(f) ELSE c[f]
  BY DEF WithDefaults
<1>2. d["port"] = IF c["port"] < 0 THEN Default("port") ELSE c["port"]
  BY DEF WithDefaults, Fields
<1> HIDE DEF d
<1>3. {"name", "peers", "cliPath", "timeout"} \subseteq Fields \ {"port"}
  BY DEF Fields, TextFields, Durations
<1>4. d["name"] = c["name"]
  <2>1. Zero("name") = ""
    BY DEF Zero, TextFields, Durations
  <2> QED
    BY <1>1, <1>3, <2>1 DEF Validate
<1>5. d["port"] = c["port"]
  <2>1. MaxPort \in Nat
    BY DEF MaxPort
  <2>2. c["port"] \in 0 .. MaxPort
    BY DEF Validate
  <2>3. ~(c["port"] < 0)
    BY <2>1, <2>2
  <2> QED
    BY <1>2, <2>3
<1>6. d["peers"] = c["peers"] /\ d["cliPath"] = c["cliPath"]
  <2>1. Default("peers") = Zero("peers") /\ Default("cliPath") = Zero("cliPath")
    BY DEF Default
  <2> QED
    BY <1>1, <1>3, <2>1
<1>7. d["timeout"] >= 0
  <2>1. Default("timeout") = 120 /\ Zero("timeout") = 0
    BY DEF Default, Zero, TextFields, Durations
  <2>2. d["timeout"] = IF c["timeout"] = 0 THEN 120 ELSE c["timeout"]
    BY <1>1, <1>3, <2>1
  <2>3. c["timeout"] >= 0
    BY DEF Validate
  <2> QED
    BY <2>2, <2>3
<1>8. Validate(d)
  BY <1>4, <1>5, <1>6, <1>7 DEF Validate
<1> QED
  BY <1>8 DEF d

\* An interval that does not tick is one that somebody asked for.
LEMMA SlowProbe ==
  ASSUME SourcesInv, cfg["probe"] = Documented("probe"), ~(cfg["probe"] > 0)
  PROVE  cfg["probe"] < 0 /\ cfg["probe"] \in {file["probe"], env["probe"]}
<1>1. Documented("probe") = IF env["probe"] \notin {Unset, Garbage}
                            THEN Meant("probe", env["probe"]) ELSE Meant("probe", file["probe"])
  BY DEF Documented, SourcesInv
<1>2. ASSUME NEW v \in Int, ~(Meant("probe", v) > 0)
      PROVE  Meant("probe", v) = v /\ v < 0
  <2>1. Zero("probe") = 0 /\ Default("probe") = 30
    BY DEF Zero, Default, TextFields, Durations
  <2> QED
    BY <1>2, <2>1 DEF Meant
<1> QED
  BY <1>1, <1>2 DEF SourcesInv

\* What an agent runs with is valid, whatever the sources say; it fails to
\* probe only where a negative interval is asked for (validate.go:29,
\* agent.go:47, 52, 513).
THEOREM RunsAsValidatedHolds == ConfigSpec => []RunsAsValidated
<1>1. ConfigInit => SourcesInv /\ RunsAsValidated
  <2> SUFFICES ASSUME ConfigInit PROVE SourcesInv /\ RunsAsValidated
    OBVIOUS
  <2>1. "probe" \in Fields /\ Zero("probe") = 0
    BY DEF Zero, Fields, TextFields, Durations
  <2> QED
    BY <2>1 DEF ConfigInit, SourcesInv, RunsAsValidated
<1>2. SourcesInv /\ [ConfigNext]_configVars => SourcesInv'
  <2> SUFFICES ASSUME SourcesInv, [ConfigNext]_configVars PROVE SourcesInv'
    OBVIOUS
  <2>1. UNCHANGED file \/ file' \in Files
    BY DEF ConfigNext, configVars, LoadFile, NoFile, LoadFails, ApplyEnv, ApplyDefaults, ApplyFlags,
           RejectConfig, NewAgent, NewFails, StartProbing
  <2>2. UNCHANGED env \/ env' \in Environments
    BY DEF ConfigNext, configVars, LoadFile, NoFile, LoadFails, ApplyEnv, ApplyDefaults, ApplyFlags,
           RejectConfig, NewAgent, NewFails, StartProbing
  <2>3. UNCHANGED flags \/ flags' \in CommandLines
    BY DEF ConfigNext, configVars, LoadFile, NoFile, LoadFails, ApplyEnv, ApplyDefaults, ApplyFlags,
           RejectConfig, NewAgent, NewFails, StartProbing
  <2>4. \A given \in CommandLines : given["probe"] = Unset
    BY ConfigAssumption DEF Fields, FlagFields, TextFields, Durations
  <2> QED
    BY <2>1, <2>2, <2>3, <2>4, ConfigAssumption DEF SourcesInv
<1>3. ConfigInv /\ SourcesInv /\ RunsAsValidated /\ [ConfigNext]_configVars => RunsAsValidated'
  <2> SUFFICES ASSUME ConfigInv, SourcesInv, RunsAsValidated, [ConfigNext]_configVars
               PROVE  RunsAsValidated'
    OBVIOUS
  <2>1. CASE UNCHANGED configVars
    BY <2>1 DEF RunsAsValidated, Validate, configVars
  <2>2. CASE \/ LoadFile \/ NoFile \/ LoadFails \/ ApplyEnv \/ ApplyDefaults \/ ApplyFlags
             \/ RejectConfig \/ NewFails
    <3>1. stage' \in {"env", "ended", "defaults", "flags", "check"}
      BY <2>2 DEF LoadFile, NoFile, LoadFails, ApplyEnv, ApplyDefaults, ApplyFlags, RejectConfig,
                  NewFails, Goto
    <3> QED
      BY <3>1 DEF RunsAsValidated
  <2>3. CASE NewAgent
    <3>1. stage' = "new" /\ cfg' = WithDefaults(cfg) /\ Validate(cfg)
      BY <2>3 DEF NewAgent, Goto
    <3>2. Validate(cfg')
      BY <3>1, DefaultsStayValid
    <3>3. Validate(cfg)'
      BY <3>2 DEF Validate
    <3> QED
      BY <3>1, <3>3 DEF RunsAsValidated
  <2>4. CASE StartProbing
    <3>1. /\ stage = "new" /\ UNCHANGED <<file, env, flags, cfg>>
          /\ stage' = IF cfg["probe"] > 0 THEN "running" ELSE "panicked"
      BY <2>4 DEF StartProbing, Goto
    <3>2. cfg["probe"] = Documented("probe")
      BY <3>1 DEF ConfigInv, Precedence, Resolved, Fields, Durations
    <3>3. Validate(cfg)'
      BY <3>1 DEF RunsAsValidated, Validate
    <3> QED
      BY <3>1, <3>2, <3>3, SlowProbe DEF RunsAsValidated
  <2> QED
    BY <2>1, <2>2, <2>3, <2>4 DEF ConfigNext
<1> QED
  BY <1>1, <1>2, <1>3, ConfigInvHolds, PTL DEF ConfigSpec
=============================================================================
