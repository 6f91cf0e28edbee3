----------------------------- MODULE RateLimit -----------------------------
(***************************************************************************)
(* The limiter of the HTTP edge (internal/ratelimit): token buckets in a   *)
(* list of fixed capacity, ordered by last use, with idle ones swept.  It  *)
(* is set beside what it stands in for: a bucket for each key, for ever.   *)
(*                                                                         *)
(* Tokens are counted in units: a tick brings Refill of them, a request    *)
(* takes Cost, and a full bucket holds Full.  The bucket itself is that of *)
(* golang.org/x/time/rate.                                                 *)
(***************************************************************************)
EXTENDS Integers, Sequences, FiniteSets

CONSTANTS
    Keys,
    Watched,            \* the key whose requests are counted
    Capacity, IdleTTL, MaxSweep,
    Refill, Cost, Full,
    MaxTime,            \* ticks (a bound)
    MaxAdmitted,        \* requests admitted for the key watched (a bound)
    MaxStepsBack        \* times the clock is set back (a bound)

\* An idle bucket has filled up before it is swept: twenty requests a second
\* against a burst of forty and ten minutes.
ASSUME RateAssumption ==
    /\ {Capacity, IdleTTL, MaxSweep, Refill, Cost, Full} \subseteq Nat \ {0}
    /\ Watched \in Keys
    /\ Cost <= Full /\ Full <= IdleTTL * Refill
    /\ {MaxTime, MaxAdmitted, MaxStepsBack} \subseteq Nat

VARIABLES
    time,
    recent,     \* Seq of [key, seen, tokens, last], most recently used first
    ideal,      \* [tokens, last], a bucket the watched key has for ever
    passed, earned,   \* its requests that the limiter, that this bucket admitted
    stepsBack,
    pressed     \* a bucket in use had to make room

rateVars == <<time, recent, ideal, passed, earned, stepsBack, pressed>>

-----------------------------------------------------------------------------
(* rate.Limiter.AllowN(now, 1) *)

Smaller(a, b) == IF a < b THEN a ELSE b

\* A clock set back brings no tokens.
Available(b) == Smaller(Full, b.tokens + (time - Smaller(b.last, time)) * Refill)

Ok(b) == Available(b) >= Cost

Drawn(b) ==
    IF Ok(b) THEN [b EXCEPT !.tokens = Available(b) - Cost, !.last = time] ELSE b

-----------------------------------------------------------------------------
(* Limiter.Allow *)

IdleTooSoon(b) == time - b.seen >= IdleTTL - 1

IsIdle(b) == time - b.seen >= IdleTTL

\* sweepLocked: from the oldest, up to the first in use, and so many at once.
Sweeps(i) ==
    i > Len(recent) - MaxSweep /\ \A j \in i..Len(recent) : IsIdle(recent[j])

Swept == SubSeq(recent, 1, Cardinality({i \in DOMAIN recent : ~Sweeps(i)}))

FreshBucket(k) == [key |-> k, seen |-> time, tokens |-> Full, last |-> time]

\* MoveToFront, with the time of the request.
MovedToFront(list, i) ==
    [j \in DOMAIN list |-> IF j = 1 THEN [list[i] EXCEPT !.seen = time]
                           ELSE IF j <= i THEN list[j - 1] ELSE list[j]]

Has(list, k) == \E i \in DOMAIN list : list[i].key = k

\* evictOldestLocked until there is room for a new bucket in front.
Touched(list, k) ==
    IF Has(list, k) THEN MovedToFront(list, CHOOSE i \in DOMAIN list : list[i].key = k)
    ELSE <<FreshBucket(k)>> \o SubSeq(list, 1, Smaller(Len(list), Capacity - 1))

AllowKey(k) ==
    LET list == Touched(Swept, k)
    IN  /\ recent' = [list EXCEPT ![1] = Drawn(@)]
        /\ IF k = Watched
           THEN /\ passed < MaxAdmitted
                /\ passed' = IF Ok(list[1]) THEN passed + 1 ELSE passed
                /\ ideal' = Drawn(ideal)
                /\ earned' = IF Ok(ideal) THEN earned + 1 ELSE earned
           ELSE UNCHANGED <<passed, ideal, earned>>
        /\ pressed' = (pressed \/ (~Has(Swept, k) /\ Len(Swept) >= Capacity))
        /\ UNCHANGED <<time, stepsBack>>

ClockRuns ==
    /\ time < MaxTime
    /\ time' = time + 1
    /\ UNCHANGED <<recent, ideal, passed, earned, stepsBack, pressed>>

ClockStepsBack ==
    /\ stepsBack < MaxStepsBack
    /\ time' \in 0..time - 1
    /\ stepsBack' = stepsBack + 1
    /\ UNCHANGED <<recent, ideal, passed, earned, pressed>>

RateInit ==
    /\ time = 0 /\ recent = <<>>
    /\ ideal = [tokens |-> Full, last |-> 0]
    /\ passed = 0 /\ earned = 0
    /\ stepsBack = 0 /\ pressed = FALSE

RateNext == (\E k \in Keys : AllowKey(k)) \/ ClockRuns \/ ClockStepsBack

RateSpec == RateInit /\ [][RateNext]_rateVars

-----------------------------------------------------------------------------
(* Properties *)

\* The list is bounded and holds no key twice; buckets never overflow.
RateTypeOK ==
    /\ time \in 0..MaxTime /\ stepsBack \in 0..MaxStepsBack
    /\ Len(recent) <= Capacity
    /\ \A i, j \in DOMAIN recent : recent[i].key = recent[j].key => i = j
    /\ \A i \in DOMAIN recent : recent[i].tokens \in 0..Full
    /\ passed \in 0..MaxAdmitted /\ earned \in Nat

\* limiter.go of Allow, "an eviction can only ever be generous to the evicted
\* client, never punitive to an innocent one": whatever other keys press it
\* out, a key is let through as often as alone.  (Not so once the clock was set
\* back: what an eviction gave it then delays its refill.)
NeverPunitive == passed >= earned

\* Forgetting idle keys gives nothing away: until buckets in use are pressed
\* out, the answers are those of a limiter that forgets nothing.
SweepIsExact == ~pressed => passed = earned

\* The list is ordered by last use, which is what lets the sweep stop early
\* and the capacity fall on the key that has been away longest.
OldestIsLast ==
    \A i, j \in DOMAIN recent : i < j => recent[i].seen >= recent[j].seen

\* The answers are fair whatever is forgotten, while the clock runs forward.
LimiterFair == stepsBack = 0 => NeverPunitive /\ SweepIsExact /\ OldestIsLast

\* The list is what it should be, and so are the answers.
LimiterSound == RateTypeOK /\ LimiterFair

=============================================================================
