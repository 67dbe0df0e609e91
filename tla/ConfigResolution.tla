-------------------------- MODULE ConfigResolution --------------------------
(***************************************************************************)
(* From the configuration's sources to a running agent: loadConfig and     *)
(* runServer of cmd/wingmate/main.go, WithEnv, WithDefaults and Merge of   *)
(* internal/agent/config.go, Validate of internal/agent/validate.go, and   *)
(* what New and backgroundProbe of internal/agent/agent.go make of it.     *)
(*                                                                         *)
(* A configuration is a record, taken as a function from its fields, and   *)
(* so is what each source says.  Texts are strings, the empty one being    *)
(* Go's zero value; peers are sequences of "url" (a valid URL), "junk"     *)
(* (anything else) and "" (empty, between two commas).                     *)
(***************************************************************************)
EXTENDS Integers, Sequences

CONSTANTS
    Files,         \* what config files may say: zero values where they say nothing
    Environments,  \* what the environment may say
    CommandLines,  \* what the flags may say
    Unset,         \* a variable that is empty, a flag that is not given
    Garbage        \* a variable that does not parse

TextFields == {"name", "description", "logFile", "cliPath", "model", "systemPrompt"}
Durations  == {"timeout", "probe"}
Fields     == TextFields \union Durations \union {"port", "peers", "verbose"}

\* The fields with a command-line flag.
FlagFields == {"name", "description", "port", "peers", "logFile", "verbose"}

ASSUME ConfigAssumption ==
    /\ \A given \in Files \union Environments \union CommandLines : DOMAIN given = Fields
    /\ \A given \in CommandLines, f \in Fields \ FlagFields : given[f] = Unset
    /\ \A given \in Files : given["probe"] \in Int
    /\ \A given \in Environments : given["probe"] \in {Unset, Garbage} \/ given["probe"] \in Int
    /\ 0 \notin {Unset, Garbage}

VARIABLES
    stage,             \* how far the process has come
    file, env, flags,  \* what the sources say
    cfg,               \* cfg of loadConfig and runServer, then a.config
    exit               \* exit code, 0 until the process ends

configVars == <<stage, file, env, flags, cfg, exit>>

\* Go's zero values.
Zero(f) == CASE f \in TextFields -> ""
             [] f \in Durations \union {"port"} -> 0
             [] f = "peers" -> <<>>
             [] f = "verbose" -> FALSE

\* A bug: the probe interval has no default.
DefaultNoProbe(f) == CASE f = "port" -> 9000
                       [] f = "timeout" -> 120
                       [] f \in {"description", "logFile", "systemPrompt"} -> "default"
                       [] OTHER -> Zero(f)

\* The Default constants; name, cliPath and model have none.
Default(f) == CASE f = "port" -> 9000
                [] f = "timeout" -> 120
                [] f = "probe" -> 30
                [] f \in {"description", "logFile", "systemPrompt"} -> "default"
                [] OTHER -> Zero(f)

\* NewConfig.
NewConfig == [f \in Fields |-> IF f \in {"port", "logFile"} THEN Default(f) ELSE Zero(f)]

ConfigInit ==
    /\ stage = "load" /\ cfg = NewConfig /\ exit = 0
    /\ file = [f \in Fields |-> Zero(f)]
    /\ env = [f \in Fields |-> Unset] /\ flags = [f \in Fields |-> Unset]

Goto(from, to) == stage = from /\ stage' = to

-----------------------------------------------------------------------------
(* loadConfig.                                                             *)

\* A file replaces the defaults of NewConfig: what it does not say is zero.
LoadFile ==
    /\ Goto("load", "env")
    /\ file' \in Files
    /\ cfg' = file'
    /\ UNCHANGED <<env, flags, exit>>

NoFile == Goto("load", "env") /\ UNCHANGED <<file, env, flags, cfg, exit>>

\* A file that cannot be read or parsed.
LoadFails == Goto("load", "ended") /\ exit' = 1 /\ UNCHANGED <<file, env, flags, cfg>>

\* What the environment makes of a field: numbers and durations that do not
\* parse are ignored, verbose is true only for "true" and "1", and the peers
\* keep their empty entries.
FromEnv(f, given, value) ==
    IF given = Unset THEN value
    ELSE IF f = "verbose" THEN given = TRUE
    ELSE IF given = Garbage THEN value ELSE given

ApplyEnv ==
    /\ Goto("env", "defaults")
    /\ env' \in Environments
    /\ cfg' = [f \in Fields |-> FromEnv(f, env'[f], cfg[f])]
    /\ UNCHANGED <<file, flags, exit>>

\* A bug: a port of zero counts as missing, too.
WithDefaultPort(c) ==
    [f \in Fields |-> IF (f = "port" /\ c[f] <= 0) \/ (f # "port" /\ c[f] = Zero(f))
                      THEN Default(f) ELSE c[f]]

\* Port 0 asks for any port; a negative one is replaced.
WithDefaults(c) ==
    [f \in Fields |-> IF (f = "port" /\ c[f] < 0) \/ (f # "port" /\ c[f] = Zero(f))
                      THEN Default(f) ELSE c[f]]

ApplyDefaults ==
    /\ Goto("defaults", "flags")
    /\ cfg' = WithDefaults(cfg)
    /\ UNCHANGED <<file, env, flags, exit>>

\* parsePeers drops empty entries; a flag that is not given has its zero value.
FlagConfig(given) ==
    [f \in Fields |-> IF given[f] = Unset THEN Zero(f)
                      ELSE IF f = "peers" THEN SelectSeq(given[f], LAMBDA p : p # "")
                      ELSE given[f]]

\* A bug: a flag is used only where nothing else has said anything.
MergeUnder(c, given) ==
    [f \in Fields |-> IF given[f] # Zero(f) /\ c[f] = Default(f) THEN given[f] ELSE c[f]]

\* Merge: flags that are not zero win.
Merge(c, given) == [f \in Fields |-> IF given[f] = Zero(f) THEN c[f] ELSE given[f]]

ApplyFlags ==
    /\ Goto("flags", "check")
    /\ flags' \in CommandLines
    /\ cfg' = Merge(cfg, FlagConfig(flags'))
    /\ UNCHANGED <<file, env, exit>>

-----------------------------------------------------------------------------
(* runServer, New and Start.                                               *)

\* validatePeerURL, for each of the peers.
ValidPeers(peers) == \A i \in DOMAIN peers : peers[i] = "url"

MaxPort == 65535

\* Validate.  A cliPath that does not exist is "missing".
Validate(c) ==
    /\ c["name"] # "" /\ c["port"] \in 0 .. MaxPort
    /\ ValidPeers(c["peers"])
    /\ c["cliPath"] # "missing"
    /\ c["timeout"] >= 0

RejectConfig ==
    /\ Goto("check", "ended")
    /\ ~Validate(cfg)
    /\ exit' = 1
    /\ UNCHANGED <<file, env, flags, cfg>>

\* New validates again and applies the defaults again.
NewAgent ==
    /\ Goto("check", "new")
    /\ Validate(cfg)
    /\ cfg' = WithDefaults(cfg)
    /\ UNCHANGED <<file, env, flags, exit>>

\* The flight log cannot be opened.
NewFails ==
    /\ Goto("check", "ended")
    /\ Validate(cfg)
    /\ exit' = 3
    /\ UNCHANGED <<file, env, flags, cfg>>

\* Start gets to backgroundProbe, whose ticker panics unless its interval is positive.
StartProbing ==
    /\ Goto("new", IF cfg["probe"] > 0 THEN "running" ELSE "panicked")
    /\ UNCHANGED <<file, env, flags, cfg, exit>>

ConfigNext ==
    \/ LoadFile \/ NoFile \/ LoadFails
    \/ ApplyEnv \/ ApplyDefaults \/ ApplyFlags
    \/ RejectConfig \/ NewAgent \/ NewFails
    \/ StartProbing

ConfigSpec == ConfigInit /\ [][ConfigNext]_configVars
-----------------------------------------------------------------------------
(* Properties.                                                             *)

\* The sources of a field, the strongest first: what is documented to decide.
\* A value of the environment that does not parse says nothing, and a zero
\* stands for the default.
Meant(f, value) == IF value = Zero(f) THEN Default(f) ELSE value

Documented(f) ==
    IF flags[f] # Unset /\ FlagConfig(flags)[f] # Zero(f) THEN FlagConfig(flags)[f]
    ELSE IF env[f] \notin {Unset, Garbage} THEN Meant(f, env[f])
    ELSE Meant(f, file[f])

Resolved == stage \in {"check", "new", "running", "panicked"}

\* Texts, durations and peers are resolved by the documented precedence:
\* flags, environment, file, defaults (README.md:109-114).
Precedence ==
    Resolved => \A f \in Fields \ {"port", "verbose"} : cfg[f] = Documented(f)

\* config.go:154: a port of 0 is not overridden by the default, neither in
\* loadConfig nor by the second WithDefaults in New.
AutoAssignKept ==
    (Resolved /\ env["port"] = 0 /\ flags["port"] = Unset) => cfg["port"] = 0

\* The configuration an agent runs with is as valid as the one main validated,
\* whatever New has made of it; and the one thing in it that keeps an agent from
\* probing is a negative interval that the file or the environment asks for
\* (validate.go:29, agent.go:47, 52, 513).
RunsAsValidated ==
    /\ stage \in {"new", "running", "panicked"} => Validate(cfg)
    /\ stage = "panicked" => cfg["probe"] < 0 /\ cfg["probe"] \in {file["probe"], env["probe"]}

=============================================================================
