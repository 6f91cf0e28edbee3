------------------------------ MODULE MCInputs ------------------------------
\* What TLC asks of the diagnosis, of the policy engine and of the configuration.
EXTENDS Diagnosis, Policy, Settings, TLC

CONSTANTS r1, r2, w1, w2

-----------------------------------------------------------------------------
\* Contexts, replies and files for the diagnosis in TLC, and its three parts: the
\* rule table over every kind of evidence, one diagnosis down every stack, and the
\* corpus under recorders and stops.

OutcomeWindow(s, r, b) == [samples |-> s, rate |-> r, baseline |-> b]

\* No outcome; a broken issuer; two that differ from their peers by less than a
\* bucket, one degraded; a healthy one.
Windows == {OutcomeWindow(0, 0, 0), OutcomeWindow(8, 34, 90), OutcomeWindow(9, 40, 76),
            OutcomeWindow(9, 40, 84), OutcomeWindow(60, 95, 95)}

Notice(k, severity, status, matches, age) ==
    [key |-> k, severity |-> severity, status |-> status, matches |-> matches, age |-> age]

NoticeSets ==
    {{}, {Notice(1, "high", "started", TRUE, 50)}, {Notice(1, "low", "started", TRUE, 50)},
     {Notice(1, "high", "resolved", TRUE, 50), Notice(2, "medium", "started", FALSE, 400)},
     {Notice(1, "medium", "started", TRUE, 50), Notice(2, "high", "scheduled", TRUE, 400)}}

Ctx(i, c, m, s, n, w, ns, rs) ==
    [incident |-> i, code |-> c, method |-> m, session |-> s, attempt |-> n, window |-> w,
     notices |-> ns, rails |-> rs]

Codes == {"payment_timed_out", "upi_psp_error", "card_expired", "insufficient_funds",
          "invalid_otp", "gateway_error", "issuer_down"}

\* Two questions that differ in the rails on offer only.
Both == Ctx("in1", "gateway_error", "card", TRUE, 1, OutcomeWindow(9, 40, 76), {}, {"card", "upi_intent"})
CardOnly == [Both EXCEPT !.incident = "in2", !.rails = {"card"}]

MCRecordable == {Both, CardOnly}

MCContexts ==
    MCRecordable
    \cup {Ctx("in1", c, "card", s, 1, w, ns, {"card", "upi_intent"}) :
            c \in Codes, s \in BOOLEAN, w \in Windows, ns \in NoticeSets}
    \cup {Ctx("in1", c, "upi", TRUE, n, OutcomeWindow(0, 0, 0), {}, {"card"}) :
            c \in {"upi_psp_error", "server_error"}, n \in {6, 7}}

Says(rail, confidence, class) ==
    Answer("in1", class, confidence, "ASYNC_EXPONENTIAL_RETRY", 60, rail, "NONE", TRUE)

\* A good answer, one out of range, and one of a class nobody knows.
MCContents == {Says("upi_intent", 70, "NETWORK_TIMEOUT"), Says("none", 101, "NETWORK_TIMEOUT"),
               Says("card", 50, "WEATHER")}

MCClaims == {[Says("wallet", 70, "NETWORK_TIMEOUT") EXCEPT !.mode = "LIVE"],
             Says("none", 70, "UNKNOWN")}

\* No corpus, one recording, and one beside a file edited by hand.
MCFirstFiles ==
    {Nothing, ContextDigest(Both) :> OnDisk(Says("upi_intent", 60, "UNKNOWN")),
     ContextDigest(Both) :> Edited @@ ContextDigest(CardOnly) :> OnDisk(Says("none", 60, "UNKNOWN"))}

MCStacks ==
    {StackOf([url |-> u, model |-> TRUE, dir |-> d]) : u, d \in BOOLEAN}
        \cup {<<"own", "replay">>, <<"live">>}

DiagnosisParts == {"rules", "stack", "corpus"}

\* An idle diagnosis has one initial state.
FromPart(p) ==
    /\ asker = r1
    /\ stack \in CASE p = "stack" -> MCStacks
                   [] p = "corpus" -> {<<"replay", "heuristic">>}
                   [] OTHER -> {<<"heuristic">>}
    /\ asked \in CASE p = "rules" -> MCContexts [] p = "stack" -> MCRecordable [] OTHER -> {Both}
    /\ files \in IF p \in {"stack", "corpus"} THEN MCFirstFiles ELSE {Nothing}
    /\ Unasked

InPart(p) ==
    /\ p \in {"rules", "stack"} => recordings' = 0 /\ crashes' = 0 /\ runner'[r2] = runner[r2]
    /\ p = "corpus" => UNCHANGED diagnosisVars

-----------------------------------------------------------------------------
\* Questions for the policy engine in TLC: every class at attempts on both sides of
\* every limit, rails with windows of every kind, and prices at the bounds.

Measured(o, a, k, b, g) ==
    [open |-> o, attempts |-> a, successes |-> k, baseline |-> b, age |-> g]

Unknown == Measured(FALSE, 0, 0, 0, 0)

\* Healthy, one success only, too few to tell, far below the floor, below half the
\* baseline, an outage, corrupt, above the cut, open, and stale news of both kinds.
MeasuredWindows ==
    {Measured(FALSE, 50, 40, 80, 5), Measured(FALSE, 1, 1, 0, 5),
     Measured(FALSE, 7, 0, 0, 5), Measured(FALSE, 50, 16, 0, 5),
     Measured(FALSE, 50, 20, 90, 5), Measured(FALSE, 50, 1, 90, 5),
     Measured(FALSE, 3, 9, 0, 5), Measured(FALSE, 2000, 1999, 80, 5),
     Measured(TRUE, 50, 40, 80, 5),
     Measured(FALSE, 60, 60, 80, 901), Measured(FALSE, 60, 2, 80, 901)}

FailureClasses ==
    {"NETWORK_TIMEOUT", "TRANSIENT_ISSUER_DEGRADATION", "PSP_DEGRADATION", "ISSUER_OUTAGE",
     "CUSTOMER_ACTION_REQUIRED", "INSUFFICIENT_FUNDS", "UNKNOWN"}

MCIssuerIds == {"one", "two"}

MCWaits ==
    [kind : {"backoff"}, attempt : {-1, 0, 1, 2, 3, 7, 8, 64, 65}, class : FailureClasses,
     snap : MeasuredWindows \cup {Unknown}, cancelled : BOOLEAN]

\* Lists with a repetition, with the failing rail, and with nothing usable.
Lists == {<<"card", "netbanking", "card">>, <<"upi_collect", "card", "upi_intent">>,
          <<"none", "wallet", "netbanking">>, <<"card">>, <<>>}

\* One window for each of two methods, a second method or a second issuer for one
\* of them, and nothing known at all.
Landscapes ==
    {<<"card", "one">> :> a @@ <<m, "one">> :> b :
        a \in MeasuredWindows, b \in MeasuredWindows, m \in {"netbanking", "upi"}}
    \cup {<<"card", "one">> :> a @@ i :> b @@ <<"upi", "two">> :> Measured(FALSE, 50, 40, 80, 5) :
        a \in MeasuredWindows, b \in MeasuredWindows, i \in {<<"emi", "one">>, <<"card", "two">>}}
    \cup {<<>>}

MCMoves ==
    [kind : {"rail"}, current : {"upi_intent", "card"}, available : Lists,
     snaps : Landscapes, cancelled : {FALSE}]
    \cup [kind : {"rail"}, current : {"card"}, available : Lists, snaps : {<<>>}, cancelled : {TRUE}]

MCPrices ==
    [kind : {"value"}, amount : {-5, 0, 19, 100, 101}, bps : {-1, 0, 5000, 9999, 10000, 10001},
     attempts : {-1, 0, 3, 5}, fee : {-1, 0, 2, 11}, friction : {-1, 0, 3}, cancelled : BOOLEAN]

MCPolicyQuestions == MCWaits \cup MCMoves \cup MCPrices

NoQuestion == [kind |-> "none"]

-----------------------------------------------------------------------------
\* Sources for the configuration in TLC: an environment that differs from an
\* empty or a complete one in at most two variables, and files of every kind.

MCNumber == "0" :> 0 @@ "2" :> 2 @@ "300" :> 300 @@ "99999" :> 99999

MCGood ==
    [n \in Names |->
        CASE n = "mode" -> External [] n = "provider" -> "groq" [] n = "sim" -> "sim:9000"
          [] n \in {"pay", "endpoint"} -> "http://other" [] n \in Numbers -> "2" [] OTHER -> "given"]

MCBaseOf == "sim:8081" :> "http://sim:8081" @@ "sim:9000" :> "http://sim:9000"

MCEndpointOf == "groq" :> "http://groq" @@ "ollama" :> "http://ollama"

\* What may be wrong with a variable, and what may be right.
Values(n) ==
    {Unset, "long", MCGood[n]}
        \cup (IF n \in Numbers THEN {"99999", "soon"} ELSE {"mistyped"})
        \cup (IF n = "mode" THEN {"EXTERNAL"} ELSE {})

EmptyEnvironment == [n \in Names |-> Absent]

Complete == [EmptyEnvironment EXCEPT !["mode"] = External, !["secret"] = "given", !["dsn"] = "given",
                                     !["token"] = "given", !["provider"] = "ollama"]

\* Everything wrong at once.
AllWrong == [n \in Names |-> IF n \in Numbers THEN "soon" ELSE IF n = "token" THEN "long" ELSE "mistyped"]

MCEnvironments ==
    {Complete, AllWrong}
    \cup UNION {{[EmptyEnvironment EXCEPT ![a] = x, ![b] = y] : x \in Values(a), y \in Values(b)} :
                  a, b \in Names}
    \cup UNION {{[Complete EXCEPT ![a] = x] : x \in Values(a) \cup {Absent}} : a \in Names}

Line(form, n, value) == [form |-> form, key |-> n, value |-> value]

Lines(s) == [size |-> "plain", lines |-> s]

MCDotEnvFiles ==
    {Lines(<<>>), [size |-> "large", lines |-> <<Line("noEquals", "", ""), Line("dirty", "dsn", "dirty")>>],
     Lines(<<Line("plain", "secret", "filed"), Line("plain", "skew", "2"), Line("plain", "skew", "300")>>),
     Lines(<<Line("dirty", "PATH", "x"), Line("plain", "mode", "external"), Line("plain", "pay", "http://other")>>),
     Lines(<<Line("noEquals", "", ""), Line("plain", "sim", "sim:9000"), Line("dirty", "token", "dirty")>>)}

NoSources == [size |-> "plain", lines |-> <<>>]

=============================================================================
