------------------------------ MODULE Settings ------------------------------
(***************************************************************************)
(* What a binary runs with (internal/config): variables of the environment *)
(* over those of a .env file over the defaults, parsed, checked and        *)
(* completed, and the operator who repairs what a refused start reports.   *)
(*                                                                         *)
(* A text is a name; texts that are numbers stand in Number.  Of the       *)
(* thirty-one variables there is one or two of every kind; the three text  *)
(* sources that are only bounded in length are one, "token".               *)
(***************************************************************************)
EXTENDS Integers, Sequences, FiniteSets, FiniteSetsExt, Functions

CONSTANTS
    Number,        \* the texts a number can be read from, and that number
    TooLong, Dirty, \* texts over their length limit; with a control character
    HostPorts, URLs, \* texts that are a host and port; an HTTP URL
    BaseOf,        \* the URL that a host and port is dialled at (httpBaseFromAddr)
    EndpointOf,    \* the endpoint of every provider (defaultLLMBaseURL)
    Good,          \* what an operator repairs a variable to
    Environments, DotEnvFiles, CostFiles,
    Minted         \* a credential that managed mode generated

Unset == ""
Absent == "absent"
Managed == "managed"
External == "external"
NoProvider == "none"

Texts == {"mode", "provider", "secret", "token", "dsn", "sim", "pay", "endpoint"}
Numbers == {"skew", "attempts", "scale"}
Names == Texts \cup Numbers

\* What anybody writes; nobody guesses a credential before it is minted.
Written == STRING \ {Minted}

FileLines == [form : {"plain", "dirty", "noEquals"}, key : STRING, value : Written]

ASSUME SettingsConstants ==
    /\ {Unset, Absent} \cap (TooLong \cup Dirty \cup DOMAIN Number) = {}
    /\ {Unset, Absent} \subseteq Written
    /\ Unset \notin URLs
    /\ Environments \subseteq [Names -> Written]
    /\ DotEnvFiles \subseteq [size : {"plain", "large"}, lines : Seq(FileLines)]

VARIABLES
    environment,  \* the variables of the process, Absent or a text
    dotEnv,       \* the file: its size and its lines
    costFile,     \* the shared cost table: "absent", "complete" or "broken"
    process,      \* the run: where it is, its configuration, what it reported
    refusals      \* starts refused in a row

settingsVars == <<environment, dotEnv, costFile, process, refusals>>

Default ==
    [k \in Names |->
        CASE k = "mode" -> Managed
          [] k = "provider" -> NoProvider
          [] k = "sim" -> "sim:8081"
          [] k = "skew" -> 300
          [] k = "attempts" -> 3
          [] k = "scale" -> 1
          [] OTHER -> Unset]

-----------------------------------------------------------------------------
(* The sources                                                             *)

Ours(line) == line.form \in {"plain", "dirty"} /\ line.key \in Names

\* A line that stops the reading of the file; another tool's lines do not.
Refused(line) == line.form = "noEquals" \/ (Ours(line) /\ line.form = "dirty")

BadLines(f) == {n \in DOMAIN f.lines : Refused(f.lines[n])}

\* The first error of the file, if any: the reader stops there.
DotEnvErrors(f) ==
    CASE f.size = "large" -> {<<"file", 0>>}
      [] f.size = "plain" /\ BadLines(f) # {} -> {<<"line", Min(BadLines(f))>>}
      [] OTHER -> {}

\* The last line of a name counts.
FileValue(f, k) ==
    LET of == {n \in DOMAIN f.lines : Ours(f.lines[n]) /\ f.lines[n].key = k}
    IN  IF of = {} THEN Absent ELSE f.lines[Max(of)].value

FileWins(env, f) == [k \in Names |-> IF FileValue(f, k) # Absent THEN FileValue(f, k) ELSE env[k]]

\* The environment wins, be it with an empty value.
WithDotEnv(env, f) == [k \in Names |-> IF env[k] # Absent THEN env[k] ELSE FileValue(f, k)]

-----------------------------------------------------------------------------
(* Parsing                                                                 *)

Screened(v) == v \in TooLong \cup Dirty

Found(v) == v \notin {Absent, Unset} /\ ~Screened(v)

Unreadable(k, v) == k \in Numbers /\ Found(v) /\ v \notin DOMAIN Number

ParseErrors(vs) == {<<k, 1>> : k \in {k \in Names : Screened(vs[k]) \/ Unreadable(k, vs[k])}}

Parsed(vs) ==
    [k \in Names |->
        IF ~Found(vs[k]) \/ Unreadable(k, vs[k]) THEN Default[k]
        ELSE IF k \in Numbers THEN Number[vs[k]] ELSE vs[k]]

-----------------------------------------------------------------------------
(* Validate                                                                *)

Lowered(v) == IF v = "EXTERNAL" THEN External ELSE v

\* Endpoints follow from what they belong to unless they are pinned.
Derived(c) ==
    LET n == [c EXCEPT !["mode"] = Lowered(@)]
    IN  [n EXCEPT
            !["endpoint"] = IF @ # Unset THEN @
                            ELSE IF n["provider"] \in DOMAIN EndpointOf
                                 THEN EndpointOf[n["provider"]] ELSE Unset,
            !["pay"] = IF @ # Unset THEN @
                       ELSE IF n["sim"] \in HostPorts THEN BaseOf[n["sim"]] ELSE Unset]

\* Managed mode mints what it may.
GenerateIfUnset(c) ==
    IF c["mode"] # Managed THEN c
    ELSE [k \in Names |-> IF k \in {"secret", "token"} /\ c[k] = Unset THEN Minted ELSE c[k]]

Bounds == [k \in Numbers |->
    CASE k = "skew" -> 1..3600 [] k = "attempts" -> 1..10 [] k = "scale" -> 1..10000]

Misfits(c) ==
    {k \in Numbers : c[k] \notin Bounds[k]}
    \cup {k \in {"mode"} : c[k] \notin {Managed, External}}
    \cup {k \in {"provider"} : c[k] \notin DOMAIN EndpointOf \cup {NoProvider}}
    \cup {k \in {"sim"} : c[k] \notin HostPorts}
    \cup {k \in {"pay"} : c[k] \notin URLs}
    \cup {k \in {"endpoint"} : c["provider"] # NoProvider /\ c[k] \notin URLs}
    \cup {k \in {"secret", "dsn", "token"} : c["mode"] = External /\ c[k] = Unset}

\* What an operator sets is right.
ASSUME GoodAssumption ==
    /\ Good \in [Names -> Written]
    /\ \A k \in Names : Found(Good[k])
    /\ \A k \in Numbers : Good[k] \in DOMAIN Number /\ Number[Good[k]] \in Bounds[k]
    /\ Lowered(Good["mode"]) \in {Managed, External}
    /\ Good["provider"] \in DOMAIN EndpointOf \cup {NoProvider}
    /\ Good["sim"] \in HostPorts
    /\ Good["pay"] \in URLs /\ Good["endpoint"] \in URLs

Validate(c) ==
    LET d == Derived(c)
    IN  [config |-> GenerateIfUnset(d), errs |-> {<<k, 1>> : k \in Misfits(d)}]

LiveInferenceEnabled(c) == c["provider"] # NoProvider /\ c["endpoint"] # Unset

-----------------------------------------------------------------------------
(* LoadConfig                                                              *)

CostErrors == IF costFile = "broken" THEN {<<"costs", 0>>} ELSE {}

\* Each stage is entered only when those before it found nothing; a stage
\* reports all it finds, but for the reader of the file.
LoadConfig ==
    LET vs == WithDotEnv(environment, dotEnv)
        v == Validate(Parsed(vs))
        refused(errs) == [at |-> "refused", config |-> Default, errs |-> errs]
    IN  CASE DotEnvErrors(dotEnv) # {} -> refused(DotEnvErrors(dotEnv))
          [] DotEnvErrors(dotEnv) = {} /\ ParseErrors(vs) # {} -> refused(ParseErrors(vs))
          [] DotEnvErrors(dotEnv) \cup ParseErrors(vs) = {} /\ CostErrors # {} -> refused(CostErrors)
          [] DotEnvErrors(dotEnv) \cup ParseErrors(vs) \cup CostErrors = {} /\ v.errs # {} ->
                refused(v.errs)
          [] OTHER -> [at |-> "up", config |-> v.config, errs |-> {}]

NotRunning == [at |-> "off", config |-> Default, errs |-> {}]

Unstarted == process = NotRunning /\ refusals = 0

SettingsInit ==
    /\ environment \in Environments
    /\ dotEnv \in DotEnvFiles
    /\ costFile \in CostFiles
    /\ Unstarted

Start ==
    /\ process.at = "off"
    /\ process' = LoadConfig
    /\ refusals' = IF LoadConfig.at = "refused" THEN refusals + 1 ELSE 0
    /\ UNCHANGED <<environment, dotEnv, costFile>>

Without(lines, n) == [m \in 1..(Len(lines) - 1) |-> IF m < n THEN lines[m] ELSE lines[m + 1]]

\* The operator repairs everything the refused start named, and nothing else.
Repair ==
    LET errs == process.errs
    IN  /\ process.at = "refused"
        /\ process' = NotRunning
        /\ environment' = [k \in Names |-> IF <<k, 1>> \in errs THEN Good[k] ELSE environment[k]]
        /\ dotEnv' = CASE <<"file", 0>> \in errs -> [dotEnv EXCEPT !.size = "plain"]
                       [] \E n \in DOMAIN dotEnv.lines : <<"line", n>> \in errs ->
                            [dotEnv EXCEPT !.lines = Without(@, Min(BadLines(dotEnv)))]
                       [] OTHER -> dotEnv
        /\ costFile' = IF <<"costs", 0>> \in errs THEN "complete" ELSE costFile
        /\ UNCHANGED refusals

Leave == process.at = "up" /\ process' = NotRunning /\ UNCHANGED <<environment, dotEnv, costFile, refusals>>

SettingsNext == Start \/ Repair \/ Leave

SettingsSpec == SettingsInit /\ [][SettingsNext]_settingsVars

-----------------------------------------------------------------------------
(* What the configuration promises                                         *)

\* A running binary has every credential its mode is to have, a client that
\* dials what is configured to answer, and a configuration that passes the same
\* checks again unchanged (config.go, "It is idempotent").
RunsOnSaneValues ==
    process.at = "up" =>
        LET c == process.config
        IN  /\ Validate(c) = [config |-> c, errs |-> {}]
            /\ c["secret"] # Unset /\ c["token"] # Unset
            /\ c["mode"] = External => c["dsn"] # Unset /\ Minted \notin {c["secret"], c["token"]}
            /\ environment["pay"] = Absent /\ FileValue(dotEnv, "pay") = Absent =>
                 c["pay"] = BaseOf[c["sim"]]
            /\ LiveInferenceEnabled(c) => c["endpoint"] \in URLs

\* What the environment sets nobody overrides, what only the file sets takes
\* effect, and what neither sets is the default (dotenv.go, "The real
\* environment always wins").
EveryLayerCounts ==
    process.at = "up" =>
        \A k \in Names :
            LET c == process.config[k]
                own == environment[k]
                lines == {n \in DOMAIN dotEnv.lines : dotEnv.lines[n].key = k}
                below == IF lines = {} THEN Absent ELSE dotEnv.lines[Max(lines)].value
                says(v) == c = IF k \in Numbers THEN Number[v]
                               ELSE IF k = "mode" THEN Lowered(v) ELSE v
            IN  /\ own \notin {Absent, Unset} => says(own)
                /\ own = Absent /\ below \notin {Absent, Unset} => says(below)
                /\ k \in Numbers /\ {own, below} \subseteq {Absent, Unset} => c = Default[k]

\* An operator who repairs what is reported is up after a refusal for each bad
\* line of the file and five more, however many variables are wrong (config.go,
\* "every broken variable in one pass, not one per restart").
FewRefusals ==
    \E f \in DotEnvFiles :
        refusals + Cardinality(BadLines(dotEnv)) <= 5 + Cardinality(BadLines(f))

SettingsSound == RunsOnSaneValues /\ EveryLayerCounts /\ FewRefusals

=============================================================================
