----------------------------- MODULE MCControl -----------------------------
\* The gate, what informs it and what it leaves behind, in one instance for
\* TLC: components that never meet in one state, of which the initial state
\* picks the one that moves, and how.
EXTENDS Cycle, Telemetry, Downtime, Process, Learner, Attest, MCInputs

CONSTANTS i1, i2, q1, q2, k1, p1, f1, f2, l1, l2

VARIABLE part

vars == <<part, cycleVars, telemetryVars, downtimeVars, processVars, learnerVars,
          attestVars, cassetteVars, diagnosisVars, policyVars, settingsVars>>

\* Ages on both sides of every limit the gate has.
MCHourBuckets == {-169, -1, 0, 24, 720, 721}

MCKeyOf == [n \in Notices |-> k1]

\* Issuers are alike, and so are recorders: these are the first ones'.
FirstOutcome ==
    /\ recorded' # <<>> => recorded'[1].issuer = i1
    /\ Len(recorded') = 1 => sending'[q2] = {}

\* A snapshot is taken where no pipeline is sent twice.
RepeatOrRead == repeats' = 0 \/ (reading' = {} /\ snapshot' = {})

\* One notice for long, or two that overlap for a shorter time.
OneNotice ==
    feed' = {d \in feed' : d.id = 1} /\ parked' = parked /\ changes' + time' <= 4

TwoNotices == changes' <= 2 /\ time' <= 2 /\ changes' + time' <= 3

\* A context for the first pass of f1, one for its later ones, one for f2.
MCContext == [i \in Failures, n \in 1..(LastAttempt + 1) |->
                IF i = f2 THEN "other" ELSE IF n = 1 THEN "first" ELSE "later"]

\* Two failures in one process, or one in two.
TwoFailures ==
    /\ turn'[f1].attempt <= LastAttempt /\ turn'[f2].attempt <= 2
    /\ \A i \in Failures : turn'[i].at \in {"gate", "act"} => turn'[i].l = l1

OneFailure == turn'[f2] = turn[f2]

\* Runs are alike, and begin in this order.
RunsInTurn ==
    /\ run'["rb"].phase # "off" => run'["ra"].phase # "off"
    /\ run'["rc"].phase # "off" => run'["rb"].phase # "off"

\* One edit says as much as many.
OneEdit == Cardinality({k \in DOMAIN entries' : entries'[k].edited}) <= 1

-----------------------------------------------------------------------------

Parts == {"cycle", "window", "one_notice", "two_notices", "process",
          "two_failures", "one_failure", "evidence", "policy",
          "settings"} \cup DiagnosisParts

\* An idle component has one initial state.
Init ==
    /\ part \in Parts
    /\ CycleInit /\ TelemetryInit /\ DowntimeInit /\ ProcessInit /\ LearnerInit /\ AttestInit
    /\ FromPart(part)
    /\ question \in (IF part = "policy" THEN MCPolicyQuestions ELSE {NoQuestion}) /\ Unreplied
    /\ environment \in (IF part = "settings" THEN MCEnvironments ELSE {EmptyEnvironment})
    /\ dotEnv \in (IF part = "settings" THEN MCDotEnvFiles ELSE {NoSources})
    /\ costFile \in (IF part = "settings" THEN CostFiles ELSE {"absent"}) /\ Unstarted
    /\ part # "cycle" =>
        /\ caller = "worker" /\ payment.recurring
        /\ payment.category = "general" /\ payment.amount = CHOOSE a \in Amounts : TRUE

Next ==
    /\ UNCHANGED part
    /\ \/ /\ part = "cycle" /\ CycleNext
          /\ UNCHANGED <<telemetryVars, downtimeVars, processVars, learnerVars, attestVars, cassetteVars, diagnosisVars, policyVars, settingsVars>>
       \/ /\ part = "window" /\ TelemetryNext /\ FirstOutcome /\ RepeatOrRead
          /\ UNCHANGED <<cycleVars, downtimeVars, processVars, learnerVars, attestVars, cassetteVars, diagnosisVars, policyVars, settingsVars>>
       \/ /\ part \in {"one_notice", "two_notices"} /\ DowntimeNext
          /\ part = "one_notice" => OneNotice
          /\ part = "two_notices" => TwoNotices
          /\ UNCHANGED <<cycleVars, telemetryVars, processVars, learnerVars, attestVars, cassetteVars, diagnosisVars, policyVars, settingsVars>>
       \/ /\ part = "process" /\ ProcessNext /\ RunsInTurn
          /\ UNCHANGED <<cycleVars, telemetryVars, downtimeVars, learnerVars, attestVars, cassetteVars, diagnosisVars, policyVars, settingsVars>>
       \/ /\ part \in {"two_failures", "one_failure"} /\ LearnerNext
          /\ part = "two_failures" => TwoFailures
          /\ part = "one_failure" => OneFailure
          /\ UNCHANGED <<cycleVars, telemetryVars, downtimeVars, processVars, attestVars, cassetteVars, diagnosisVars, policyVars, settingsVars>>
       \/ /\ part = "evidence" /\ AttestNext /\ OneEdit
          /\ UNCHANGED <<cycleVars, telemetryVars, downtimeVars, processVars, learnerVars, cassetteVars, diagnosisVars, policyVars, settingsVars>>
       \/ /\ part \in DiagnosisParts /\ DiagnosisNext /\ InPart(part)
          /\ UNCHANGED <<cycleVars, telemetryVars, downtimeVars, processVars, learnerVars, attestVars, policyVars, settingsVars>>
       \/ /\ part = "policy" /\ PolicyNext
          /\ UNCHANGED <<cycleVars, telemetryVars, downtimeVars, processVars, learnerVars, attestVars, cassetteVars, diagnosisVars, settingsVars>>
       \/ /\ part = "settings" /\ SettingsNext
          /\ UNCHANGED <<cycleVars, telemetryVars, downtimeVars, processVars, learnerVars, attestVars, cassetteVars, diagnosisVars, policyVars>>

Spec == Init /\ [][Next]_vars

=============================================================================
