------------------------------- MODULE Policy -------------------------------
\* The arithmetic behind a decision: the rail a payer is moved to, the wait before
\* the next attempt, and what that attempt is worth. One engine is asked one
\* question; its answer rests on nothing but the question and one draw.
\*
\* Times are in seconds, money in paisa, probabilities in basis points.
EXTENDS Integers, Sequences, FiniteSets, Functions

CONSTANTS
    PolicyQuestions,     \* what the engine is asked
    IssuerIds,           \* the names of issuers under one method of payment
    SmallestBackoff,     \* MinBackoff
    LargestBackoff,      \* MaxBackoff
    MaxDoublings,        \* attempts beyond it wait no longer (maxBackoffDoublings)
    MaxSamples,          \* a counter above it is cut to it
    MaxRailsScanned,     \* entries of a merchant's list that are read
    MaxAmount, MaxCost, MaxPriced,
    SnapshotStaleAfter,  \* age at which a window says nothing good any more
    FewSamples, FloorPct \* what the verdict of degradation rests on

KnownRails == {"upi_intent", "upi_collect", "card", "netbanking", "wallet"}

\* What is known of one issuer: its breaker, its counters, its baseline and its age.
Readings == [open : BOOLEAN, attempts : Nat, successes : Nat, baseline : Nat, age : Int]

\* Readings are kept under a method of payment and an issuer.
IssuerNames == {"upi", "card", "emi", "netbanking", "wallet"} \X IssuerIds

Waits == [kind : {"backoff"}, attempt : Int, class : STRING, snap : Readings, cancelled : BOOLEAN]

IsMove(q) ==
    /\ q.kind = "rail" /\ q.cancelled \in BOOLEAN
    /\ q.current \in KnownRails \cup {"none"}
    /\ q.available \in Seq(KnownRails \cup {"none"})
    /\ DOMAIN q.snaps \subseteq IssuerNames /\ q.snaps \in [DOMAIN q.snaps -> Readings]

Prices ==
    [kind : {"value"}, amount : Int, bps : Int, attempts : Int, fee : Int, friction : Int,
     cancelled : BOOLEAN]

ASSUME PolicyConstants ==
    /\ \A q \in PolicyQuestions : q \in Waits \/ q \in Prices \/ IsMove(q)
    /\ IsFiniteSet(IssuerIds)
    /\ SmallestBackoff \in Nat \ {0} /\ LargestBackoff \in Nat
    /\ SmallestBackoff < LargestBackoff
    /\ MaxDoublings \in Nat \ {0} /\ MaxSamples \in Nat /\ MaxSamples >= 10
    /\ MaxRailsScanned \in Nat
    /\ MaxAmount \in Nat /\ MaxCost \in Nat /\ MaxPriced \in Nat
    /\ SnapshotStaleAfter \in Nat /\ FewSamples \in Nat /\ FloorPct \in Nat

VARIABLES question, reply

policyVars == <<question, reply>>

Clamp(v, lo, hi) == IF v < lo THEN lo ELSE IF v > hi THEN hi ELSE v

ClampCount(v) == Clamp(v, 0, MaxSamples)

\* A window with more successes than attempts is corrupt: the smaller counts.
Succeeded(s) == IF ClampCount(s.successes) > ClampCount(s.attempts)
                THEN ClampCount(s.attempts) ELSE ClampCount(s.successes)

\* An issuer far below its floor, or below half its peers' rate.
Wobbles(s) ==
    /\ s.attempts >= FewSamples
    /\ \/ 100 * s.successes < FloorPct * s.attempts
       \/ s.baseline > 0 /\ 200 * s.successes < s.baseline * s.attempts

-----------------------------------------------------------------------------
\* The wait

BaseBackoff(class) ==
    CASE class = "NETWORK_TIMEOUT" -> 15
      [] class = "TRANSIENT_ISSUER_DEGRADATION" -> 60
      [] class = "PSP_DEGRADATION" -> 300
      [] class = "ISSUER_OUTAGE" -> 900
      [] class = "CUSTOMER_ACTION_REQUIRED" -> 3600
      [] class = "INSUFFICIENT_FUNDS" -> 86400
      [] OTHER -> LargestBackoff

\* How far gone the issuer looks: its breaker, or successes below one in twenty.
OutageDepth(s) ==
    CASE s.open -> 4
      [] ~s.open /\ ~Wobbles(s) -> 1
      [] OTHER -> IF ClampCount(s.attempts) > 0
                     /\ (Succeeded(s) * 10000) \div ClampCount(s.attempts) < 500
                  THEN 4 ELSE 2

FirstBackoff(class, s) ==
    BaseBackoff(class) * (IF class = "ISSUER_OUTAGE" THEN OutageDepth(s) ELSE 1)

\* Doubling stops at the limit, not after it.
Doubled(first, times) ==
    LET wait[n \in 0..MaxDoublings] ==
          IF n = 0 THEN first
          ELSE LET before == wait[n - 1]
               IN  IF before < LargestBackoff THEN 2 * before ELSE before
    IN  wait[times]

BackoffCeiling(attempt, class, s) ==
    Clamp(Doubled(FirstBackoff(class, s), Clamp(attempt, 1, MaxDoublings) - 1),
          SmallestBackoff, LargestBackoff)

\* Full jitter between the floor and the ceiling; the ceiling when shutting down.
Draws(q) ==
    LET top == BackoffCeiling(q.attempt, q.class, q.snap)
    IN  IF q.cancelled THEN {top} ELSE {SmallestBackoff, (SmallestBackoff + top) \div 2, top}

-----------------------------------------------------------------------------
\* The rail

Methods(rail) ==
    CASE rail \in {"upi_intent", "upi_collect"} -> {"upi"}
      [] rail = "card" -> {"card", "emi"}
      [] rail \in {"netbanking", "wallet"} -> {rail}
      [] OTHER -> {}

\* Rails in the order of their names, which breaks ties.
NameOrder == <<"card", "netbanking", "upi_collect", "upi_intent", "wallet">>

Before(a, b) == \E i, j \in 1..5 : i < j /\ NameOrder[i] = a /\ NameOrder[j] = b

\* The issuers of a rail that anything is known of.
IssuerKeys(rail, snaps) == {i \in DOMAIN snaps : i[1] \in Methods(rail)}

Blocked(s) == s.open \/ Wobbles(s)

Fresh(s) == s.age <= SnapshotStaleAfter

\* The rails of a list that are looked at, as a set.
Scanned(current, available) ==
    {available[k] : k \in 1..Clamp(Len(available), 0, MaxRailsScanned)}
        \cap (KnownRails \ {current})

\* A rail is out when every issuer of it that anything is known of is out.
Usable(rail, snaps) ==
    IssuerKeys(rail, snaps) # {} => \E i \in IssuerKeys(rail, snaps) : ~Blocked(snaps[i])

\* The windows that speak for a rail: the fresh ones of its issuers that are not out.
Heard(rail, snaps) ==
    {i \in IssuerKeys(rail, snaps) : ~Blocked(snaps[i]) /\ Fresh(snaps[i])}

Total(count) == FoldFunction(+, 0, count)

Tally(rail, snaps) ==
    LET n == ClampCount(Total([i \in Heard(rail, snaps) |-> ClampCount(snaps[i].attempts)]))
        k == ClampCount(Total([i \in Heard(rail, snaps) |-> Succeeded(snaps[i])]))
    IN  [attempts |-> n, successes |-> IF k > n THEN n ELSE k]

\* A mean of no attempts is none: the prior keeps a rail nobody tried comparable.
OutranksByRate(a, b, snaps) ==
    LET x == Tally(a, snaps)
        y == Tally(b, snaps)
        lhs == x.successes * y.attempts
        rhs == y.successes * x.attempts
    IN  lhs > rhs \/ (lhs = rhs /\ Before(a, b))

\* (s+1)/(n+2), compared without division.
Outranks(a, b, snaps) ==
    LET x == Tally(a, snaps)
        y == Tally(b, snaps)
        lhs == (x.successes + 1) * (y.attempts + 2)
        rhs == (y.successes + 1) * (x.attempts + 2)
    IN  lhs > rhs \/ (lhs = rhs /\ Before(a, b))

Candidates(current, available, snaps) ==
    {r \in Scanned(current, available) : Usable(r, snaps)}

ChooseRail(cancelled, current, available, snaps) ==
    LET cands == Candidates(current, available, snaps)
    IN  IF cancelled \/ cands = {} THEN "none"
        ELSE CHOOSE r \in cands : \A o \in cands \ {r} : Outranks(r, o, snaps)

-----------------------------------------------------------------------------
\* The worth

BasisPoints == 10000

\* Division towards zero of a product that is never negative.
ExpectedValue(q) ==
    LET bps == IF q.cancelled THEN 0 ELSE Clamp(q.bps, 0, BasisPoints)
        gross == (Clamp(q.amount, 0, MaxAmount) * bps) \div BasisPoints
    IN  gross - Clamp(q.attempts, 0, MaxPriced) * Clamp(q.fee, 0, MaxCost)
              - Clamp(q.friction, 0, MaxCost)

-----------------------------------------------------------------------------

Unanswered == [kind |-> "none"]

Unreplied == reply = Unanswered

PolicyInit == question \in PolicyQuestions /\ Unreplied

AnswerWith(r) == Unreplied /\ reply' = r /\ UNCHANGED question

PickRail ==
    /\ question.kind = "rail"
    /\ AnswerWith([kind |-> "rail",
                   rail |-> ChooseRail(question.cancelled, question.current, question.available,
                                       question.snaps)])

BackoffFor ==
    /\ question.kind = "backoff"
    /\ \E d \in Draws(question) : AnswerWith([kind |-> "backoff", delay |-> d])

Price ==
    question.kind = "value" /\ AnswerWith([kind |-> "value", paisa |-> ExpectedValue(question)])

PolicyNext == PickRail \/ BackoffFor \/ Price

PolicySpec == PolicyInit /\ [][PolicyNext]_policyVars

-----------------------------------------------------------------------------
\* What the engine promises

\* What is said of a wait drawn for a question.
Ordered(q, delay) ==
    LET top == BackoffCeiling(q.attempt, q.class, q.snap)
        next == BackoffCeiling(q.attempt + 1, q.class, q.snap)
        first == FirstBackoff(q.class, q.snap)
    IN  /\ delay \in SmallestBackoff..top /\ top <= LargestBackoff
        /\ top <= next
        /\ q.snap.successes > 0 =>
             top <= BackoffCeiling(q.attempt, q.class, [q.snap EXCEPT !.successes = @ - 1])
        /\ top <= BackoffCeiling(q.attempt, q.class, [q.snap EXCEPT !.open = TRUE])
        /\ q.attempt <= 1 => top = Clamp(first, SmallestBackoff, LargestBackoff)
        /\ q.attempt \in 1..(MaxDoublings - 1) /\ first >= SmallestBackoff =>
             next = Clamp(2 * top, SmallestBackoff, LargestBackoff)

\* The wait is within its bounds, never shorter after one attempt more or on worse
\* news of the issuer; the first bound is what the class says, and every attempt
\* doubles the one before up to the limit (policy.go, "the bound it is drawn from
\* must be monotone in attempt and must respect the clamp").
BackoffIsOrdered == reply.kind = "backoff" => Ordered(question, reply.delay)

\* One failure less in every window that speaks for a rail.
Better(rail, snaps) ==
    [i \in DOMAIN snaps |->
        IF i \in Heard(rail, snaps) /\ snaps[i].successes < snaps[i].attempts
        THEN [snaps[i] EXCEPT !.successes = @ + 1] ELSE snaps[i]]

Offers(q) == Range(q.available) \cap (KnownRails \ {q.current})

\* Every issuer of the rail that anything is known of is out, and some is known.
OutOfUse(rail, snaps) ==
    /\ IssuerKeys(rail, snaps) # {}
    /\ \A i \in IssuerKeys(rail, snaps) : Blocked(snaps[i])

\* Ten payments or more, three successes in four.
Proven(s) == s.attempts >= 10 /\ 4 * s.successes >= 3 * s.attempts

\* What is said of the rail chosen for a question.
Earned(q, r) ==
    IF r = "none" THEN q.cancelled \/ \A o \in Offers(q) : OutOfUse(o, q.snaps)
    ELSE /\ r \in Offers(q) /\ ~OutOfUse(r, q.snaps)
         /\ \A p \in Bijection(DOMAIN q.available, DOMAIN q.available) :
              ChooseRail(q.cancelled, q.current,
                         [k \in DOMAIN q.available |-> q.available[p[k]]], q.snaps) = r
         /\ Methods(ChooseRail(q.cancelled, q.current, q.available, Better(r, q.snaps)))
              = Methods(r)
         /\ Tally(r, q.snaps).attempts <= 1 =>
              \A o \in Offers(q) : \A i \in Heard(o, q.snaps) :
                 Proven(q.snaps[i]) => Heard(o, q.snaps) # {i}

\* A payer is moved to a rail on offer other than the failing one, of which some
\* issuer is not known to be out, and is told there is none only when there is
\* none; the order of the list does not matter, nor would one failure less have
\* moved them elsewhere; and a rail hardly tried does not beat one that proved
\* itself on ten times the payments (policy.go, "it keeps losing until it has
\* earned enough evidence to win on merit").
RailIsEarned == reply.kind = "rail" => Earned(question, reply.rail)

\* What is said of the worth put on a question.
NotOverstated(q, paisa) ==
    LET amount == Clamp(q.amount, 0, MaxAmount)
        bps == Clamp(q.bps, 0, BasisPoints)
    IN  /\ BasisPoints * (paisa + Clamp(q.friction, 0, MaxCost)) <= amount * bps
        /\ q.cancelled => paisa <= 0
        /\ paisa <= MaxAmount

\* An attempt is never worth more than its share of the amount less its costs, and
\* nothing once the caller shuts down (policy.go, "the system never overstates").
WorthIsNotOverstated == reply.kind = "value" => NotOverstated(question, reply.paisa)

PolicySound == BackoffIsOrdered /\ RailIsEarned /\ WorthIsNotOverstated

=============================================================================
