------------------------------ MODULE Breaker ------------------------------
(***************************************************************************)
(* The circuit breaker of one issuer (internal/breaker): the hash and the  *)
(* window list that its two Lua scripts read and write in Redis, and the   *)
(* passes of the workers that ask it (Pool.diagnose) and report to it      *)
(* (Pool.recordOutcome).  A script is one step; everything between two     *)
(* scripts, a whole attempt included, may interleave.                      *)
(*                                                                         *)
(* Time is in ticks, kept as saturating ages and a countdown to the expiry *)
(* of the keys.  Issuers share nothing but the index of the operations     *)
(* console, which is left out.                                             *)
(***************************************************************************)
EXTENDS Integers, Sequences, FiniteSets

CONSTANTS
    Workers,            \* passes of Pool.Handle in flight for this issuer
    HalfOpenProbes,     \* breaker.Config.HalfOpenProbes
    MinSamples,         \* breaker.Config.MinSamples
    WindowSize,         \* breaker.Config.WindowSize
    RateNum, RateDen,   \* breaker.Config.TripRate, as a fraction
    Cooldown,           \* breaker.Config.Cooldown, in ticks; also the probe lease
    KeyTTL,             \* the expiry of the keys, in ticks
    Horizon,            \* ticks after which `elapsed` stands still (a bound)
    Faults              \* the kinds of fault that happen

\* What withDefaults and New establish.
ASSUME BreakerAssumption ==
    /\ HalfOpenProbes \in Nat \ {0}
    /\ MinSamples \in Nat \ {0}
    /\ WindowSize \in Nat /\ MinSamples <= WindowSize
    /\ RateDen \in Nat \ {0} /\ RateNum \in 1..RateDen
    /\ Cooldown \in Nat \ {0}
    /\ KeyTTL \in Nat /\ KeyTTL > Cooldown
    /\ Horizon \in Nat /\ Horizon >= Cooldown
    /\ Faults \subseteq {"redis", "foreign"}

VARIABLES
    \* the issuer's keys
    state,      \* field state; "CLOSED" when there is none
    openAge,    \* 0..Cooldown, ticks since opened_at
    probes,     \* field probes
    leaseAge,   \* 0..Cooldown, ticks since half_open_at
    window,     \* Seq(BOOLEAN), the outcomes, newest first
    ttl,        \* 0..KeyTTL, ticks until the keys expire; 0 without expiry
    \* the workers and the issuer
    pass,       \* [Workers -> Place]
    healthy,    \* BOOLEAN, the issuer's
    \* what an onlooker counts
    elapsed,    \* 0..Horizon, ticks since it last opened
    admitted,   \* admissions since then, as long as elapsed counts
    fresh,      \* 0..MinSamples, outcomes recorded since it last closed
    failed      \* 0..WindowSize, failures among them

hashVars == <<state, openAge, probes, leaseAge>>
keyVars  == <<hashVars, window, ttl>>
counts   == <<elapsed, admitted, fresh, failed>>
vars     == <<keyVars, pass, healthy, counts>>

\* "FOREIGN" stands for a value this package did not write.
BreakerState == {"CLOSED", "OPEN", "HALF_OPEN", "FOREIGN"}

\* Between passes; after Allow: cleared, shed, or left without an answer;
\* after the attempt, before its outcome is reported.
Place == {"idle", "cleared", "shed", "unverified", "succeeded", "failed"}

AtMost(n, bound) == IF n <= bound THEN n ELSE bound

-----------------------------------------------------------------------------
(* allowScript *)

CooldownNeverOver == openAge > Cooldown

CooldownOver == openAge >= Cooldown

LeaseOverAtOnce == leaseAge >= 0

LeaseOver == leaseAge >= Cooldown

\* Probes of the present episode; an episode as old as its lease is given up.
ProbesSpent == IF LeaseOver THEN 0 ELSE probes

Admits ==
    \/ state = "CLOSED"
    \/ state = "OPEN" /\ CooldownOver
    \/ state = "HALF_OPEN" /\ ProbesSpent < HalfOpenProbes

RestartCounts == elapsed' = 0 /\ admitted' = 0 /\ UNCHANGED <<fresh, failed>>

CountAdmission ==
    /\ admitted' = IF elapsed < Horizon THEN admitted + 1 ELSE admitted
    /\ UNCHANGED <<elapsed, fresh, failed>>

\* Neither a closed breaker nor a refusal writes anything.
AllowPlainly ==
    /\ state = "CLOSED" \/ (state \in {"OPEN", "HALF_OPEN"} /\ ~Admits)
    /\ UNCHANGED <<keyVars, counts>>

HalfOpen ==
    /\ state = "OPEN" /\ CooldownOver
    /\ state' = "HALF_OPEN"
    /\ probes' = 1
    /\ leaseAge' = 0
    /\ ttl' = KeyTTL
    /\ CountAdmission
    /\ UNCHANGED <<openAge, window>>

SpendProbe ==
    /\ state = "HALF_OPEN" /\ Admits
    /\ probes' = ProbesSpent + 1
    /\ leaseAge' = IF LeaseOver THEN 0 ELSE leaseAge
    /\ ttl' = KeyTTL
    /\ CountAdmission
    /\ UNCHANGED <<state, openAge, window>>

Repair ==
    /\ state = "FOREIGN"
    /\ state' = "OPEN"
    /\ openAge' = 0
    /\ probes' = 0
    /\ leaseAge' = 0
    /\ ttl' = KeyTTL
    /\ RestartCounts
    /\ UNCHANGED window

AllowScript == AllowPlainly \/ HalfOpen \/ SpendProbe \/ Repair

-----------------------------------------------------------------------------
(* reportScript *)

NotRefreshed == ttl

\* PEXPIRE on every report, whatever it did.
Refreshed == KeyTTL

Recorded(success) == SubSeq(<<success>> \o window, 1, AtMost(Len(window) + 1, WindowSize))

TripsEarly(w) ==
    /\ Len(w) + 1 >= MinSamples
    /\ Cardinality({i \in DOMAIN w : w[i]}) * RateDen < Len(w) * RateNum

Trips(w) ==
    /\ Len(w) >= MinSamples
    /\ Cardinality({i \in DOMAIN w : w[i]}) * RateDen < Len(w) * RateNum

\* openNow.
Open ==
    /\ state' = "OPEN"
    /\ openAge' = 0
    /\ probes' = 0
    /\ leaseAge' = Cooldown
    /\ window' = <<>>

Close ==
    /\ state' = "CLOSED"
    /\ openAge' = Cooldown
    /\ probes' = 0
    /\ leaseAge' = Cooldown
    /\ window' = <<>>

CountOutcome(success) ==
    /\ fresh' = AtMost(fresh + 1, MinSamples)
    /\ failed' = IF success THEN failed ELSE AtMost(failed + 1, WindowSize)

\* The outcome of any attempt ends a half-open episode, a probe's or not.
EndEpisode(success) ==
    /\ state = "HALF_OPEN"
    /\ IF success
       THEN /\ Close
            /\ fresh' = 0 /\ failed' = 0
            /\ UNCHANGED <<elapsed, admitted>>
       ELSE Open /\ RestartCounts

IgnoreWhileOpen ==
    /\ state = "OPEN"
    /\ UNCHANGED <<hashVars, window, counts>>

Record(success) ==
    /\ state = "CLOSED"
    /\ CountOutcome(success)
    /\ IF Trips(Recorded(success))
       THEN Open /\ elapsed' = 0 /\ admitted' = 0
       ELSE /\ window' = Recorded(success)
            /\ UNCHANGED <<hashVars, elapsed, admitted>>

OpenForeign ==
    /\ state = "FOREIGN"
    /\ Open
    /\ RestartCounts

ReportScript(success) ==
    /\ EndEpisode(success) \/ IgnoreWhileOpen \/ Record(success) \/ OpenForeign
    /\ ttl' = Refreshed

-----------------------------------------------------------------------------
(* A pass of a worker *)

Turn(w, place) == pass' = [pass EXCEPT ![w] = place]

\* Pool.diagnose asks.
Allow(w) ==
    /\ pass[w] = "idle"
    /\ Turn(w, IF Admits THEN "cleared" ELSE "shed")
    /\ AllowScript
    /\ UNCHANGED healthy

\* Redis fails before the script or after it: the pass goes on as if cleared.
AllowError(w) ==
    /\ "redis" \in Faults
    /\ pass[w] = "idle"
    /\ Turn(w, "unverified")
    /\ AllowScript \/ UNCHANGED <<keyVars, counts>>
    /\ UNCHANGED healthy

\* The gate abstains or defers, a statement fails, the process dies: a pass
\* ends without an attempt, and a probe with it.
Leave(w) ==
    /\ pass[w] \in {"cleared", "shed", "unverified"}
    /\ Turn(w, "idle")
    /\ UNCHANGED <<keyVars, healthy, counts>>

\* A shed pass has only skipped its inference: a due one still reaches the gateway.
Attempt(w) ==
    /\ pass[w] \in {"cleared", "shed", "unverified"}
    /\ Turn(w, IF healthy THEN "succeeded" ELSE "failed")
    /\ UNCHANGED <<keyVars, healthy, counts>>

\* Pool.recordOutcome reports.
Report(w) ==
    /\ pass[w] \in {"succeeded", "failed"}
    /\ Turn(w, "idle")
    /\ ReportScript(pass[w] = "succeeded")
    /\ UNCHANGED healthy

\* A report that fails is logged and given up; so is that of a process that dies.
LoseReport(w) ==
    /\ "redis" \in Faults
    /\ pass[w] \in {"succeeded", "failed"}
    /\ Turn(w, "idle")
    /\ UNCHANGED <<keyVars, healthy, counts>>

-----------------------------------------------------------------------------
(* The surroundings *)

IssuerTurns ==
    /\ healthy' = ~healthy
    /\ UNCHANGED <<keyVars, pass, counts>>

\* Something else writes the field; the expiry of the key stands.
ForeignWrite ==
    /\ "foreign" \in Faults
    /\ state # "FOREIGN"
    /\ state' = "FOREIGN"
    /\ UNCHANGED <<openAge, probes, leaseAge, window, ttl, pass, healthy, counts>>

\* The keys expire: a forgotten breaker is a closed one.  The window is read
\* only while the breaker is closed, when both keys expire together.
Forget ==
    /\ state' = "CLOSED"
    /\ openAge' = Cooldown
    /\ probes' = 0
    /\ leaseAge' = Cooldown
    /\ window' = <<>>
    /\ fresh' = 0 /\ failed' = 0

Tick ==
    /\ IF ttl = 1
       THEN Forget
       ELSE /\ openAge' = AtMost(openAge + 1, Cooldown)
            /\ leaseAge' = AtMost(leaseAge + 1, Cooldown)
            /\ UNCHANGED <<state, probes, window, fresh, failed>>
    /\ ttl' = IF ttl = 0 THEN 0 ELSE ttl - 1
    /\ elapsed' = AtMost(elapsed + 1, Horizon)
    /\ UNCHANGED <<admitted, pass, healthy>>

-----------------------------------------------------------------------------
(* The specification *)

Init ==
    /\ state = "CLOSED"
    /\ openAge = Cooldown
    /\ probes = 0
    /\ leaseAge = Cooldown
    /\ window = <<>>
    /\ ttl = 0
    /\ pass = [w \in Workers |-> "idle"]
    /\ healthy = TRUE
    /\ elapsed = Horizon
    /\ admitted = 0
    /\ fresh = 0
    /\ failed = 0

Pass(w) == Allow(w) \/ AllowError(w) \/ Leave(w) \/ Attempt(w) \/ Report(w) \/ LoseReport(w)

Next ==
    \/ \E w \in Workers : Pass(w)
    \/ IssuerTurns \/ ForeignWrite \/ Tick

Spec == Init /\ [][Next]_vars

\* Traffic goes on, and Redis answers, as the breaker needs them to: now and
\* then a pass it can admit is told so, one it has cleared reaches the gateway,
\* and a report arrives.  Of the passes it sheds only that they end is asked.
Fairness ==
    /\ WF_vars(Tick)
    /\ SF_vars(\E w \in Workers : Admits /\ Allow(w))
    /\ SF_vars(\E w \in Workers : pass[w] = "cleared" /\ Attempt(w))
    /\ SF_vars(\E w \in Workers : Report(w))
    /\ \A w \in Workers : WF_vars(Leave(w) \/ Attempt(w))

FairSpec == Spec /\ Fairness

-----------------------------------------------------------------------------
(* Properties *)

TypeOK ==
    /\ state \in BreakerState
    /\ openAge \in 0..Cooldown
    /\ probes \in 0..HalfOpenProbes
    /\ leaseAge \in 0..Cooldown
    /\ window \in Seq(BOOLEAN) /\ Len(window) <= WindowSize
    /\ ttl \in 0..KeyTTL
    /\ pass \in [Workers -> Place]
    /\ healthy \in BOOLEAN
    /\ elapsed \in 0..Horizon
    /\ admitted \in Nat
    /\ fresh \in 0..MinSamples
    /\ failed \in 0..WindowSize

\* After a trip, a failed probe or a repair nobody is admitted for a whole
\* cooldown: late successes do not close it, and the keys do not expire first.
CooldownHonoured ==
    [][\A w \in Workers :
        pass[w] = "idle" /\ pass'[w] = "cleared" => elapsed >= Cooldown]_vars

\* Until it closes, an open breaker admits at most HalfOpenProbes passes for
\* each cooldown since it opened, whatever became of the probes before: no
\* herd crosses the boundary together, and a given-up episode grants no more.
AdmissionRate ==
    state \in {"OPEN", "HALF_OPEN"} => admitted <= HalfOpenProbes * (elapsed \div Cooldown)

\* A trip rests on outcomes recorded since the breaker last closed: on
\* MinSamples of them, and on as many failures as the rate requires.  What
\* opened it the last time counts for nothing.
TripRestsOnEvidence ==
    [][state = "CLOSED" /\ state' = "OPEN" =>
        /\ fresh' >= MinSamples
        /\ failed' * RateDen > (RateDen - RateNum) * MinSamples]_vars

\* Never wedged: once the issuer stays healthy the breaker closes and stays
\* closed, whatever probes are lost and whatever late failures arrive.
EventuallyClosed ==
    <>[](healthy /\ state # "FOREIGN") => <>[](state = "CLOSED")

=============================================================================
