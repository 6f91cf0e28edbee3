----------------------------- MODULE Classifier -----------------------------
\* What a diagnosis is about and what it may say: the context put to a tier, the
\* proposal a tier returns, the rules every proposal must pass, the digest under
\* which one is recorded, and the rule table that answers when nothing else does.
\*
\* Free text is left out: no rule, digest or check reads it. A rate is in
\* hundredths, a confidence too; an error code is in lower case, as every set of
\* codes folds it.
EXTENDS Integers, FiniteSets, FiniteSetsExt

CONSTANTS
    MinSamples,     \* outcomes below which a window says nothing (DegradedMinSamples)
    AbsoluteRate,   \* the rate below which an issuer is degraded whatever its peers
    MaxDelay,       \* the longest delay a proposal may recommend, in seconds
    MaxNotices      \* notices a digest covers (maxDigestDowntimes)

ASSUME ClassifierConstants ==
    /\ MinSamples \in Nat \ {0} /\ AbsoluteRate \in 0..100
    /\ MaxDelay \in Nat /\ MaxDelay >= 6 * 3600 /\ MaxNotices \in Nat

RailsKnown == {"upi_intent", "card", "netbanking", "wallet", "upi_collect", "none"}

ActionsKnown == {"IN_SESSION_RAIL_MORPH", "ASYNC_EXPONENTIAL_RETRY",
                 "MANDATE_COMPLIANT_CASCADE", "INSTRUMENT_REFRESH", "PERMANENT_ABSTAIN"}

ClassesKnown == {"TRANSIENT_ISSUER_DEGRADATION", "ISSUER_OUTAGE", "NETWORK_TIMEOUT",
                 "PSP_DEGRADATION", "CUSTOMER_ACTION_REQUIRED", "INSUFFICIENT_FUNDS",
                 "INSTRUMENT_STALE", "PERMANENT_INSTRUMENT_FAILURE", "UNKNOWN"}

Modes == {"LIVE", "REPLAY", "HEURISTIC", "SKIPPED"}

Refreshable == {"card_expired", "card_not_supported"}

SoftDecline == {"insufficient_funds", "payment_failed", "invalid_otp", "incorrect_otp",
                "authentication_failed", "upi_collect_expired", "mandate_not_active"}

InfraFault == {"bank_technical_error", "gateway_technical_error", "gateway_error",
               "server_error"}

FailingRail(method) ==
    CASE method = "upi" -> "upi_intent"
      [] method \in {"card", "emi"} -> "card"
      [] method \in {"netbanking", "wallet"} -> method
      [] OTHER -> "none"

-----------------------------------------------------------------------------
\* Proposals

Answer(i, class, confidence, action, delay, rail, mode, degraded) ==
    [incident |-> i, class |-> class, confidence |-> confidence, action |-> action,
     delay |-> delay, rail |-> rail, mode |-> mode, degraded |-> degraded]

AbstainProposal(i, mode) == Answer(i, "UNKNOWN", 0, "PERMANENT_ABSTAIN", 0, "none", mode, TRUE)

\* The fields of a proposal.
IsProposal(p) ==
    p = Answer(p.incident, p.class, p.confidence, p.action, p.delay, p.rail, p.mode, p.degraded)

\* A confidence that is no number, or infinite, is outside 0..100 too.
Valid(p) ==
    /\ p.confidence \in 0..100
    /\ p.delay \in 0..MaxDelay
    /\ p.action \in ActionsKnown /\ p.rail \in RailsKnown

RailOffered(rail, dc) == rail = "none" \/ rail \in dc.rails

\* An incident the tier names is never believed; a class nobody knows is no
\* reason to refuse.
Finalized(p, dc) ==
    [p EXCEPT !.incident = dc.incident,
              !.class = IF @ \in ClassesKnown THEN @ ELSE "UNKNOWN"]

Acceptable(p, dc) == Valid(p) /\ RailOffered(p.rail, dc)

-----------------------------------------------------------------------------
\* Evidence

\* The window of outcomes shows an issuer far below its floor or its peers.
WindowDegraded(t) ==
    /\ t.samples >= MinSamples
    /\ \/ t.rate < AbsoluteRate
       \/ t.baseline > 0 /\ 2 * t.rate < t.baseline

SeverityRank(s) == CASE s = "high" -> 3 [] s = "medium" -> 2 [] s = "low" -> 1 [] OTHER -> 0

Matching(dc) == {n \in dc.notices : n.matches /\ n.status # "resolved"}

MatchingDowntime(dc) ==
    CHOOSE n \in Matching(dc) : \A o \in Matching(dc) : SeverityRank(n.severity) >= SeverityRank(o.severity)

DeclaredOutage(dc) == Matching(dc) # {} /\ MatchingDowntime(dc).severity = "high"

-----------------------------------------------------------------------------
\* The digest

BucketRate(r) == (r + 5) \div 10

BucketSamples(n) ==
    CASE n <= 0 -> 0 [] n < 8 -> 1 [] n < 50 -> 2 [] n < 200 -> 3 [] OTHER -> 4

BucketAge(s) == CASE s <= 60 -> 0 [] s <= 300 -> 1 [] s <= 1800 -> 2 [] OTHER -> 3

BucketAttempt(n) == IF n > 6 THEN 6 ELSE n

\* Notices in the order of their renderings, which begin with the key.
Rendered(dc) ==
    {[n EXCEPT !.age = BucketAge(@)] :
        n \in {m \in dc.notices : Cardinality({o \in dc.notices : o.key < m.key}) < MaxNotices}}

\* What two contexts must share to be one question: every field a rule reads,
\* coarsely, and none that names the incident or is free text.
ContextDigest(dc) ==
    [code |-> dc.code, method |-> dc.method, session |-> dc.session,
     attempt |-> BucketAttempt(dc.attempt),
     rate |-> BucketRate(dc.window.rate), baseline |-> BucketRate(dc.window.baseline),
     samples |-> BucketSamples(dc.window.samples), degraded |-> WindowDegraded(dc.window),
     notices |-> Rendered(dc), rails |-> dc.rails]

-----------------------------------------------------------------------------
\* The rule table

MorphPreference == <<"upi_intent", "card", "netbanking", "wallet", "upi_collect">>

MorphRails(dc) == {k \in 1..5 : MorphPreference[k] \in dc.rails \ {FailingRail(dc.method)}}

MorphRail(dc) ==
    IF MorphRails(dc) = {} THEN "none" ELSE MorphPreference[Min(MorphRails(dc))]

\* A payer who is still there is moved to another rail, if there is one.
MorphIfPossible(p, dc) ==
    IF dc.session /\ MorphRail(dc) # "none"
    THEN [p EXCEPT !.action = "IN_SESSION_RAIL_MORPH", !.rail = MorphRail(dc), !.delay = 0]
    ELSE p

Retry(dc, class, confidence, delay) ==
    Answer(dc.incident, class, confidence, "ASYNC_EXPONENTIAL_RETRY", delay, "none", "HEURISTIC", TRUE)

Classify(dc) ==
    CASE DeclaredOutage(dc) -> Retry(dc, "ISSUER_OUTAGE", 80, 900)
      [] ~DeclaredOutage(dc) /\ (WindowDegraded(dc.window) \/ Matching(dc) # {}) ->
            MorphIfPossible(Retry(dc, "TRANSIENT_ISSUER_DEGRADATION", 65, 120), dc)
      [] OTHER ->
            CASE dc.code = "payment_timed_out" -> Retry(dc, "NETWORK_TIMEOUT", 70, 30)
              [] dc.code = "upi_psp_error" ->
                    MorphIfPossible(Retry(dc, "PSP_DEGRADATION", 68, 180), dc)
              [] dc.code \in Refreshable ->
                    [Retry(dc, "INSTRUMENT_STALE", 66, 0) EXCEPT !.action = "INSTRUMENT_REFRESH"]
              [] dc.code = "insufficient_funds" ->
                    MorphIfPossible(Retry(dc, "INSUFFICIENT_FUNDS", 66, 6 * 3600), dc)
              [] dc.code \in SoftDecline \ {"insufficient_funds"} ->
                    MorphIfPossible(Retry(dc, "CUSTOMER_ACTION_REQUIRED", 66, 600), dc)
              [] dc.code \in InfraFault ->
                    MorphIfPossible(Retry(dc, "TRANSIENT_ISSUER_DEGRADATION", 60, 60), dc)
              [] OTHER -> AbstainProposal(dc.incident, "HEURISTIC")

\* The heuristic tier never declines: a proposal its own check refuses, it
\* replaces by an abstention.
Heuristic(dc) ==
    IF Acceptable(Classify(dc), dc) THEN Finalized(Classify(dc), dc)
    ELSE AbstainProposal(dc.incident, "HEURISTIC")

=============================================================================
