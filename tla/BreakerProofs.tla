--------------------------- MODULE BreakerProofs ---------------------------
(***************************************************************************)
(* Theorems about Breaker, for any number of passes, probes and samples    *)
(* and any cooldown.                                                       *)
(*                                                                         *)
(*   1. BreakerTyped   every variable keeps its type                       *)
(*   2. Honoured       nobody is admitted before the cooldown has passed   *)
(*   3. Frugal         an open breaker admits at most its probes for each  *)
(*                     cooldown                                            *)
(*   4. Evidential     a closed breaker trips only on enough outcomes,     *)
(*                     with enough failures, recorded since it closed      *)
(***************************************************************************)
EXTENDS Breaker, FiniteSetTheorems, TLAPS

\* While a cooldown runs, the breaker is open or unreadable, opened_at is no
\* older than the opening, and the keys outlive the cooldown.
Cooling ==
    /\ state = "OPEN" => openAge <= elapsed
    /\ elapsed < Cooldown => state \in {"OPEN", "FOREIGN"} /\ ttl + elapsed > Cooldown

\* The admissions of an open breaker: none before the first episode, and then
\* a full ration for each episode before the present one, whose start lies
\* leaseAge back.  At the Horizon the count stands still and only the ration
\* itself remains.
Rationing ==
    /\ state = "OPEN" => admitted = 0
    /\ state = "HALF_OPEN" =>
        /\ admitted <= HalfOpenProbes * (elapsed \div Cooldown)
        /\ elapsed < Horizon =>
            /\ elapsed - leaseAge >= Cooldown
            /\ admitted <= HalfOpenProbes * ((elapsed - leaseAge) \div Cooldown - 1) + probes

BreakerInv == TypeOK /\ Cooling /\ Rationing

-----------------------------------------------------------------------------
(* Arithmetic *)

LEMMA OneLess ==
    ASSUME NEW c \in Nat \ {0}, NEW e \in Nat, e >= c
    PROVE  (e - c) \div c = (e \div c) - 1
  OBVIOUS

LEMMA DivGrows ==
    ASSUME NEW c \in Nat \ {0}, NEW a \in Nat, NEW b \in Nat, a <= b
    PROVE  a \div c <= b \div c
  OBVIOUS

LEMMA DivPositive ==
    ASSUME NEW c \in Nat \ {0}, NEW e \in Nat
    PROVE  e \div c \in Nat /\ (e >= c => e \div c >= 1)
  OBVIOUS

LEMMA TimesGrows ==
    ASSUME NEW p \in Nat, NEW a \in Int, NEW b \in Int, a <= b
    PROVE  p * a <= p * b
  OBVIOUS

LEMMA TimesLess ==
    ASSUME NEW p \in Int, NEW a \in Int
    PROVE  p * (a - 1) = p * a - p
  OBVIOUS
-----------------------------------------------------------------------------
(* Types *)

LEMMA RecordedType ==
    ASSUME TypeOK, NEW success \in BOOLEAN
    PROVE  /\ Recorded(success) \in Seq(BOOLEAN)
           /\ Len(Recorded(success)) <= WindowSize
<1>. DEFINE longer == <<success>> \o window
            n == AtMost(Len(window) + 1, WindowSize)
<1>1. longer \in Seq(BOOLEAN) /\ Len(longer) = Len(window) + 1
  BY DEF TypeOK
<1>2. n \in 0..Len(longer) /\ n <= WindowSize
  BY <1>1, BreakerAssumption DEF AtMost, TypeOK
<1>. HIDE DEF longer, n
<1>3. SubSeq(longer, 1, n) \in Seq(BOOLEAN) /\ Len(SubSeq(longer, 1, n)) = n
  BY <1>1, <1>2
<1>. QED
  BY <1>2, <1>3 DEF Recorded, longer, n

LEMMA AllowType ==
    ASSUME TypeOK, AllowScript
    PROVE  /\ state' \in BreakerState
           /\ openAge' \in 0..Cooldown
           /\ probes' \in 0..HalfOpenProbes
           /\ leaseAge' \in 0..Cooldown
           /\ window' = window
           /\ ttl' \in 0..KeyTTL
           /\ elapsed' \in 0..Horizon
           /\ admitted' \in Nat
           /\ fresh' = fresh /\ failed' = failed
<1>1. CASE AllowPlainly
  BY <1>1 DEF AllowPlainly, keyVars, hashVars, counts, TypeOK
<1>2. CASE HalfOpen
  BY <1>2, BreakerAssumption DEF HalfOpen, CountAdmission, TypeOK, BreakerState
<1>3. CASE SpendProbe
  BY <1>3, BreakerAssumption
  DEF SpendProbe, Admits, ProbesSpent, CountAdmission, TypeOK, BreakerState
<1>4. CASE Repair
  BY <1>4, BreakerAssumption DEF Repair, RestartCounts, TypeOK, BreakerState
<1>. QED
  BY <1>1, <1>2, <1>3, <1>4 DEF AllowScript

\* What an opening, a closing, and a count of one more outcome leave behind.
LEMMA OpenOrCloseType ==
    ASSUME Open \/ Close
    PROVE  /\ state' \in BreakerState
           /\ openAge' \in 0..Cooldown
           /\ probes' \in 0..HalfOpenProbes
           /\ leaseAge' \in 0..Cooldown
           /\ window' \in Seq(BOOLEAN) /\ Len(window') <= WindowSize
<1>1. window' = <<>>
  BY DEF Open, Close
<1>2. <<>> \in Seq(BOOLEAN) /\ Len(<<>>) <= WindowSize
  BY BreakerAssumption
<1>3. state' \in BreakerState
  BY DEF Open, Close, BreakerState
<1>4. openAge' \in 0..Cooldown /\ probes' \in 0..HalfOpenProbes /\ leaseAge' \in 0..Cooldown
  BY BreakerAssumption DEF Open, Close
<1>. QED
  BY <1>1, <1>2, <1>3, <1>4, Zenon

LEMMA CountType ==
    ASSUME TypeOK, NEW success \in BOOLEAN, CountOutcome(success)
    PROVE  fresh' \in 0..MinSamples /\ failed' \in 0..WindowSize
<1>1. fresh' \in 0..MinSamples
  BY BreakerAssumption DEF CountOutcome, AtMost, TypeOK
<1>2. CASE success
  BY <1>1, <1>2 DEF CountOutcome, TypeOK
<1>3. CASE ~success
  BY <1>1, <1>3, BreakerAssumption DEF CountOutcome, AtMost, TypeOK
<1>. QED
  BY <1>2, <1>3

LEMMA ReportType ==
    ASSUME TypeOK, NEW success \in BOOLEAN, ReportScript(success)
    PROVE  /\ state' \in BreakerState
           /\ openAge' \in 0..Cooldown
           /\ probes' \in 0..HalfOpenProbes
           /\ leaseAge' \in 0..Cooldown
           /\ window' \in Seq(BOOLEAN) /\ Len(window') <= WindowSize
           /\ ttl' \in 0..KeyTTL
           /\ elapsed' \in 0..Horizon
           /\ admitted' \in Nat
           /\ fresh' \in 0..MinSamples
           /\ failed' \in 0..WindowSize
<1>. ttl' \in 0..KeyTTL
  BY BreakerAssumption DEF ReportScript, Refreshed
<1>. 0 \in 0..Horizon /\ 0 \in Nat /\ 0 \in 0..MinSamples /\ 0 \in 0..WindowSize
  BY BreakerAssumption
<1>1. CASE EndEpisode(success)
  <2>1. CASE success
    BY <1>1, <2>1, OpenOrCloseType DEF EndEpisode, TypeOK
  <2>2. CASE ~success
    BY <1>1, <2>2, OpenOrCloseType DEF EndEpisode, RestartCounts, TypeOK
  <2>. QED
    BY <2>1, <2>2
<1>2. CASE IgnoreWhileOpen
  BY <1>2 DEF IgnoreWhileOpen, hashVars, counts, TypeOK
<1>3. CASE Record(success)
  <2>1. fresh' \in 0..MinSamples /\ failed' \in 0..WindowSize
    BY <1>3, CountType DEF Record
  <2>2. CASE Trips(Recorded(success))
    BY <1>3, <2>1, <2>2, OpenOrCloseType DEF Record
  <2>3. CASE ~Trips(Recorded(success))
    BY <1>3, <2>1, <2>3, RecordedType DEF Record, hashVars, TypeOK
  <2>. QED
    BY <2>2, <2>3
<1>4. CASE OpenForeign
  BY <1>4, OpenOrCloseType DEF OpenForeign, RestartCounts, TypeOK
<1>. QED
  BY <1>1, <1>2, <1>3, <1>4 DEF ReportScript

LEMMA TurnType ==
    ASSUME TypeOK, NEW w \in Workers, NEW place \in Place, Turn(w, place)
    PROVE  pass' \in [Workers -> Place]
  BY DEF TypeOK, Turn

LEMMA TickType == TypeOK /\ Tick => TypeOK'
<1>. SUFFICES ASSUME TypeOK, Tick PROVE TypeOK'
  OBVIOUS
<1>1. /\ ttl' \in 0..KeyTTL
      /\ elapsed' \in 0..Horizon
      /\ UNCHANGED <<admitted, pass, healthy>>
  BY BreakerAssumption DEF Tick, TypeOK, AtMost
<1>2. CASE ttl = 1
  BY <1>1, <1>2, BreakerAssumption DEF Tick, Forget, TypeOK, BreakerState
<1>3. CASE ttl # 1
  BY <1>1, <1>3, BreakerAssumption DEF Tick, TypeOK, AtMost
<1>. QED
  BY <1>2, <1>3

LEMMA TypeStep == TypeOK /\ [Next]_vars => TypeOK'
<1>. SUFFICES ASSUME TypeOK, [Next]_vars PROVE TypeOK'
  OBVIOUS
<1>1. ASSUME NEW w \in Workers, Allow(w) PROVE TypeOK'
  <2>1. pass' \in [Workers -> Place]
    BY <1>1, TurnType DEF Allow, Place
  <2>. QED
    BY <1>1, <2>1, AllowType DEF Allow, TypeOK
<1>2. ASSUME NEW w \in Workers, AllowError(w) PROVE TypeOK'
  <2>1. pass' \in [Workers -> Place]
    BY <1>2, TurnType DEF AllowError, Place
  <2>2. CASE AllowScript
    BY <1>2, <2>1, <2>2, AllowType DEF AllowError, TypeOK
  <2>3. CASE UNCHANGED <<keyVars, counts>>
    BY <1>2, <2>1, <2>3 DEF AllowError, TypeOK, keyVars, hashVars, counts
  <2>. QED
    BY <1>2, <2>2, <2>3 DEF AllowError
<1>3. ASSUME NEW w \in Workers, Leave(w) \/ LoseReport(w) PROVE TypeOK'
  BY <1>3, TurnType DEF Leave, LoseReport, Place, TypeOK, keyVars, hashVars, counts
<1>4. ASSUME NEW w \in Workers, Attempt(w) PROVE TypeOK'
  BY <1>4, TurnType DEF Attempt, Place, TypeOK, keyVars, hashVars, counts
<1>5. ASSUME NEW w \in Workers, Report(w) PROVE TypeOK'
  <2>1. pass' \in [Workers -> Place]
    BY <1>5, TurnType DEF Report, Place
  <2>. QED
    BY <1>5, <2>1, ReportType DEF Report, TypeOK
<1>6. CASE IssuerTurns
  BY <1>6 DEF IssuerTurns, TypeOK, keyVars, hashVars, counts
<1>7. CASE ForeignWrite
  BY <1>7 DEF ForeignWrite, TypeOK, BreakerState, counts
<1>8. CASE Tick
  BY <1>8, TickType
<1>9. CASE UNCHANGED vars
  BY <1>9 DEF vars, TypeOK, keyVars, hashVars, counts
<1>. QED
  BY <1>1, <1>2, <1>3, <1>4, <1>5, <1>6, <1>7, <1>8, <1>9 DEF Next, Pass

LEMMA TypeInit == Init => TypeOK
  BY BreakerAssumption DEF Init, TypeOK, BreakerState, Place

\* Every variable of Breaker keeps its type: the window never outgrows its
\* bound and a half-open episode never hands out more than its probes.
THEOREM BreakerTyped == Spec => []TypeOK
  BY TypeInit, TypeStep, PTL DEF Spec
-----------------------------------------------------------------------------
(* The cooldown *)

LEMMA CoolingInit == Init => Cooling
  BY BreakerAssumption DEF Init, Cooling

LEMMA AllowCools ==
    ASSUME TypeOK, Cooling, AllowScript
    PROVE  Cooling'
<1>1. CASE AllowPlainly
  BY <1>1 DEF AllowPlainly, keyVars, hashVars, counts, Cooling
<1>2. CASE HalfOpen
  BY <1>2, BreakerAssumption DEF HalfOpen, CooldownOver, CountAdmission, Cooling, TypeOK
<1>3. CASE SpendProbe
  BY <1>3, BreakerAssumption DEF SpendProbe, CountAdmission, Cooling, TypeOK
<1>4. CASE Repair
  BY <1>4, BreakerAssumption DEF Repair, RestartCounts, Cooling
<1>. QED
  BY <1>1, <1>2, <1>3, <1>4 DEF AllowScript

LEMMA ReportCools ==
    ASSUME TypeOK, Cooling, NEW success \in BOOLEAN, ReportScript(success)
    PROVE  Cooling'
<1>. ttl' = KeyTTL
  BY DEF ReportScript, Refreshed
<1>1. CASE Open /\ elapsed' = 0
  BY <1>1, BreakerAssumption DEF Open, Cooling
<1>2. CASE EndEpisode(success)
  <2>1. CASE success
    BY <1>2, <2>1 DEF EndEpisode, Close, Cooling, TypeOK
  <2>2. CASE ~success
    BY <1>1, <1>2, <2>2 DEF EndEpisode, RestartCounts
  <2>. QED
    BY <2>1, <2>2
<1>3. CASE IgnoreWhileOpen
  BY <1>3, BreakerAssumption DEF IgnoreWhileOpen, hashVars, counts, Cooling, TypeOK
<1>4. CASE Record(success)
  <2>1. CASE Trips(Recorded(success))
    BY <1>1, <1>4, <2>1 DEF Record
  <2>2. CASE ~Trips(Recorded(success))
    BY <1>4, <2>2 DEF Record, hashVars, Cooling, TypeOK
  <2>. QED
    BY <2>1, <2>2
<1>5. CASE OpenForeign
  BY <1>1, <1>5 DEF OpenForeign, RestartCounts
<1>. QED
  BY <1>2, <1>3, <1>4, <1>5 DEF ReportScript

LEMMA TickCools ==
    ASSUME TypeOK, Cooling, Tick
    PROVE  Cooling'
<1>. elapsed' = AtMost(elapsed + 1, Horizon)
  BY DEF Tick
<1>1. CASE ttl = 1
  <2>1. elapsed >= Cooldown
    BY <1>1, BreakerAssumption DEF Cooling, TypeOK
  <2>. QED
    BY <1>1, <2>1, BreakerAssumption DEF Tick, Forget, AtMost, Cooling, TypeOK
<1>2. CASE ttl # 1
  BY <1>2, BreakerAssumption DEF Tick, AtMost, Cooling, TypeOK
<1>. QED
  BY <1>1, <1>2

LEMMA CoolingStep == TypeOK /\ Cooling /\ [Next]_vars => Cooling'
<1>. SUFFICES ASSUME TypeOK, Cooling, [Next]_vars PROVE Cooling'
  OBVIOUS
<1>1. CASE UNCHANGED <<keyVars, counts>>
  BY <1>1 DEF keyVars, hashVars, counts, Cooling
<1>2. ASSUME NEW w \in Workers, Pass(w) PROVE Cooling'
  BY <1>1, <1>2, AllowCools, ReportCools
  DEF Pass, Allow, AllowError, Leave, Attempt, Report, LoseReport
<1>3. CASE ForeignWrite
  BY <1>3 DEF ForeignWrite, counts, Cooling
<1>4. CASE IssuerTurns \/ UNCHANGED vars
  BY <1>1, <1>4 DEF IssuerTurns, vars
<1>. QED
  BY <1>2, <1>3, <1>4, TickCools DEF Next

\* Only Allow clears a pass, and only Admits lets it.
LEMMA ClearedIsAdmitted ==
    ASSUME TypeOK, Next, NEW w \in Workers, pass[w] = "idle", pass'[w] = "cleared"
    PROVE  Admits
<1>1. ASSUME NEW v \in Workers, NEW place, Turn(v, place), place # "cleared" PROVE FALSE
  BY <1>1 DEF Turn, TypeOK
<1>2. CASE UNCHANGED pass
  BY <1>2
<1>3. ASSUME NEW v \in Workers, Pass(v) PROVE Admits
  BY <1>1, <1>3 DEF Pass, Allow, AllowError, Leave, Attempt, Report, LoseReport
<1>. QED
  BY <1>2, <1>3 DEF Next, IssuerTurns, ForeignWrite, Tick

LEMMA AdmittedIsCooled ==
    ASSUME TypeOK, Cooling, Admits
    PROVE  elapsed >= Cooldown
  BY BreakerAssumption DEF Admits, CooldownOver, Cooling, TypeOK

\* Nobody is admitted before the cooldown has passed: late reports do not close
\* an open breaker, and its keys outlive the cooldown, whoever overwrites them.
THEOREM Honoured == Spec => CooldownHonoured
<1>1. TypeOK /\ Cooling /\ [Next]_vars =>
        [\A w \in Workers :
            pass[w] = "idle" /\ pass'[w] = "cleared" => elapsed >= Cooldown]_vars
  BY ClearedIsAdmitted, AdmittedIsCooled
<1>. QED
  BY <1>1, TypeInit, TypeStep, CoolingInit, CoolingStep, PTL DEF Spec, CooldownHonoured
-----------------------------------------------------------------------------
(* The ration *)

\* The rationing of a half-open breaker, e ticks after the opening, l ticks
\* into the episode, with n probes spent in it and a admissions in all.
Rationed(e, l, n, a) ==
    /\ a <= HalfOpenProbes * (e \div Cooldown)
    /\ e < Horizon =>
        /\ e - l >= Cooldown
        /\ a <= HalfOpenProbes * ((e - l) \div Cooldown - 1) + n

LEMMA RationingInit == Init => Rationing
  BY DEF Init, Rationing

\* One more probe of the present episode.
LEMMA OneMore ==
    ASSUME NEW e \in Nat, NEW l \in Nat, NEW n \in Nat, NEW a \in Nat,
           Rationed(e, l, n, a), e < Horizon, n < HalfOpenProbes
    PROVE  Rationed(e, l, n + 1, a + 1)
<1>. HalfOpenProbes \in Nat /\ Cooldown \in Nat \ {0}
  BY BreakerAssumption
<1>. DEFINE q == (e - l) \div Cooldown
            d == e \div Cooldown
<1>1. e - l \in Nat /\ e - l <= e /\ a <= HalfOpenProbes * (q - 1) + n
  BY DEF Rationed
<1>2. q \in Nat /\ d \in Nat /\ q <= d
  BY <1>1, DivGrows, DivPositive
<1>3. HalfOpenProbes * (q - 1) = HalfOpenProbes * q - HalfOpenProbes
  BY <1>2, TimesLess
<1>4. HalfOpenProbes * q <= HalfOpenProbes * d
  BY <1>2, TimesGrows
<1>5. HalfOpenProbes * q \in Int /\ HalfOpenProbes * d \in Int
  BY <1>2
<1>. HIDE DEF q, d
<1>6. a + 1 <= HalfOpenProbes * d
  BY <1>1, <1>3, <1>4, <1>5
<1>7. a + 1 <= HalfOpenProbes * (q - 1) + (n + 1)
  BY <1>1, <1>3, <1>5
<1>. QED
  BY <1>1, <1>6, <1>7 DEF Rationed, q, d

\* The first probe of an episode that starts as the old one is given up.
LEMMA Anew ==
    ASSUME NEW e \in Nat, NEW n \in 0..HalfOpenProbes, NEW a \in Nat,
           Rationed(e, Cooldown, n, a), e < Horizon
    PROVE  Rationed(e, 0, 1, a + 1)
<1>. HalfOpenProbes \in Nat \ {0} /\ Cooldown \in Nat \ {0}
  BY BreakerAssumption
<1>. DEFINE q == (e - Cooldown) \div Cooldown
            d == e \div Cooldown
<1>1. e - Cooldown >= Cooldown /\ a <= HalfOpenProbes * (q - 1) + n
  BY DEF Rationed
<1>2. e >= Cooldown /\ e - Cooldown \in Nat
  BY <1>1
<1>3. q = d - 1 /\ d \in Nat /\ q \in Int
  <2>1. d \in Nat
    BY <1>2, DivPositive
  <2>2. q = d - 1
    BY <1>2, OneLess
  <2>. QED
    BY <2>1, <2>2
<1>4. HalfOpenProbes * (q - 1) = HalfOpenProbes * q - HalfOpenProbes
  BY <1>3, TimesLess
<1>5. HalfOpenProbes * q \in Int /\ HalfOpenProbes * d \in Int
  BY <1>3
<1>6. HalfOpenProbes * (d - 1) = HalfOpenProbes * d - HalfOpenProbes
  BY <1>3, TimesLess
<1>. HIDE DEF q, d
<1>7. a <= HalfOpenProbes * (d - 1)
  BY <1>1, <1>3, <1>4, <1>5
<1>8. a + 1 <= HalfOpenProbes * d
  BY <1>5, <1>6, <1>7
<1>9. a + 1 <= HalfOpenProbes * (d - 1) + 1
  BY <1>3, <1>5, <1>6, <1>7
<1>. QED
  BY <1>2, <1>8, <1>9 DEF Rationed, d

\* The first probe after the cooldown.
LEMMA FirstProbe ==
    ASSUME NEW e \in Nat, e >= Cooldown
    PROVE  Rationed(e, 0, 1, 1)
<1>. HalfOpenProbes \in Nat \ {0} /\ Cooldown \in Nat \ {0}
  BY BreakerAssumption
<1>. DEFINE d == e \div Cooldown
<1>1. d \in Nat /\ d >= 1
  BY DivPositive
<1>2. HalfOpenProbes * 1 <= HalfOpenProbes * d /\ HalfOpenProbes * 0 <= HalfOpenProbes * (d - 1)
  BY <1>1, TimesGrows
<1>3. HalfOpenProbes * d \in Int /\ HalfOpenProbes * (d - 1) \in Int
  BY <1>1
<1>. HIDE DEF d
<1>4. 1 <= HalfOpenProbes * d /\ 1 <= HalfOpenProbes * (d - 1) + 1
  BY <1>2, <1>3
<1>. QED
  BY <1>4 DEF Rationed, d

\* A tick ages the opening, and the episode unless it stands at Cooldown.
LEMMA Ageing ==
    ASSUME NEW e \in Nat, NEW l \in Nat, NEW k \in Nat, NEW n \in Nat, NEW a \in Nat,
           Rationed(e, l, n, a), e < Horizon, k <= l + 1
    PROVE  Rationed(e + 1, k, n, a)
<1>. HalfOpenProbes \in Nat /\ Cooldown \in Nat \ {0}
  BY BreakerAssumption
<1>. DEFINE q == (e - l) \div Cooldown
            r == (e + 1 - k) \div Cooldown
            d == e \div Cooldown
            f == (e + 1) \div Cooldown
<1>1. /\ e - l \in Nat /\ e + 1 - k \in Nat
      /\ e - l <= e + 1 - k /\ e + 1 - k >= Cooldown
      /\ a <= HalfOpenProbes * d /\ a <= HalfOpenProbes * (q - 1) + n
  BY DEF Rationed
<1>2. /\ q \in Nat /\ r \in Nat /\ q <= r
      /\ d \in Nat /\ f \in Nat /\ d <= f
  BY <1>1, DivGrows, DivPositive
<1>3. /\ HalfOpenProbes * (q - 1) <= HalfOpenProbes * (r - 1)
      /\ HalfOpenProbes * d <= HalfOpenProbes * f
  BY <1>2, TimesGrows
<1>4. /\ HalfOpenProbes * (q - 1) \in Int /\ HalfOpenProbes * (r - 1) \in Int
      /\ HalfOpenProbes * d \in Int /\ HalfOpenProbes * f \in Int
  BY <1>2
<1>. HIDE DEF q, r, d, f
<1>5. a <= HalfOpenProbes * f /\ a <= HalfOpenProbes * (r - 1) + n
  BY <1>1, <1>3, <1>4
<1>. QED
  BY <1>1, <1>5 DEF Rationed, r, f

LEMMA RationingIs ==
    Rationing <=> /\ state = "OPEN" => admitted = 0
                  /\ state = "HALF_OPEN" => Rationed(elapsed, leaseAge, probes, admitted)
  BY DEF Rationing, Rationed
LEMMA AllowRations ==
    ASSUME TypeOK, Cooling, Rationing, AllowScript
    PROVE  Rationing'
<1>1. CASE AllowPlainly
  BY <1>1 DEF AllowPlainly, keyVars, hashVars, counts, Rationing
<1>2. CASE HalfOpen
  <2>1. elapsed \in Nat /\ elapsed >= Cooldown /\ admitted = 0
    BY <1>2, BreakerAssumption DEF HalfOpen, CooldownOver, Cooling, Rationing, TypeOK
  <2>2. Rationed(elapsed, 0, 1, 1)
    BY <2>1, FirstProbe
  <2>3. CASE elapsed < Horizon
    BY <1>2, <2>1, <2>2, <2>3 DEF HalfOpen, CountAdmission, Rationing, Rationed
  <2>4. CASE ~(elapsed < Horizon)
    <3>1. admitted' = 0 /\ elapsed' = elapsed /\ state' = "HALF_OPEN"
      BY <1>2, <2>1, <2>4 DEF HalfOpen, CountAdmission
    <3>2. 0 <= HalfOpenProbes * (elapsed \div Cooldown)
      <4>1. elapsed \div Cooldown \in Nat
        BY <2>1, BreakerAssumption, DivPositive
      <4>. QED
        BY <4>1, BreakerAssumption, TimesGrows
    <3>. QED
      BY <2>4, <3>1, <3>2 DEF Rationing
  <2>. QED
    BY <2>3, <2>4
<1>3. CASE SpendProbe
  <2>1. /\ Rationed(elapsed, leaseAge, probes, admitted)
        /\ state = "HALF_OPEN" /\ state' = "HALF_OPEN" /\ elapsed' = elapsed
    BY <1>3, RationingIs DEF SpendProbe, CountAdmission
  <2>2. /\ elapsed \in Nat /\ leaseAge \in Nat /\ probes \in Nat /\ admitted \in Nat
        /\ probes \in 0..HalfOpenProbes
    BY BreakerAssumption DEF TypeOK
  <2>3. CASE elapsed < Horizon /\ LeaseOver
    <3>1. leaseAge = Cooldown
      BY <2>3, BreakerAssumption DEF LeaseOver, TypeOK
    <3>2. Rationed(elapsed, 0, 1, admitted + 1)
      BY <2>1, <2>2, <2>3, <3>1, Anew
    <3>3. leaseAge' = 0 /\ probes' = 1 /\ admitted' = admitted + 1
      BY <1>3, <2>3 DEF SpendProbe, ProbesSpent, CountAdmission
    <3>. QED
      BY <2>1, <3>2, <3>3 DEF Rationing, Rationed
  <2>4. CASE elapsed < Horizon /\ ~LeaseOver
    <3>1. probes < HalfOpenProbes
      BY <1>3, <2>1, <2>4 DEF SpendProbe, Admits, ProbesSpent
    <3>2. Rationed(elapsed, leaseAge, probes + 1, admitted + 1)
      BY <2>1, <2>2, <2>4, <3>1, OneMore
    <3>3. leaseAge' = leaseAge /\ probes' = probes + 1 /\ admitted' = admitted + 1
      BY <1>3, <2>4 DEF SpendProbe, ProbesSpent, CountAdmission
    <3>. QED
      BY <2>1, <3>2, <3>3 DEF Rationing, Rationed
  <2>5. CASE ~(elapsed < Horizon)
    <3>1. admitted' = admitted
      BY <1>3, <2>5 DEF SpendProbe, CountAdmission
    <3>. QED
      BY <2>1, <2>5, <3>1 DEF Rationing, Rationed
  <2>. QED
    BY <2>3, <2>4, <2>5
<1>4. CASE Repair
  BY <1>4 DEF Repair, RestartCounts, Rationing
<1>. QED
  BY <1>1, <1>2, <1>3, <1>4 DEF AllowScript

LEMMA ReportRations ==
    ASSUME Rationing, NEW success \in BOOLEAN, ReportScript(success)
    PROVE  Rationing'
<1>1. CASE EndEpisode(success)
  BY <1>1 DEF EndEpisode, Close, Open, RestartCounts, Rationing
<1>2. CASE IgnoreWhileOpen
  BY <1>2 DEF IgnoreWhileOpen, hashVars, counts, Rationing
<1>3. CASE Record(success)
  BY <1>3 DEF Record, Open, hashVars, Rationing
<1>4. CASE OpenForeign
  BY <1>4 DEF OpenForeign, Open, RestartCounts, Rationing
<1>. QED
  BY <1>1, <1>2, <1>3, <1>4 DEF ReportScript

LEMMA TickRations ==
    ASSUME TypeOK, Rationing, Tick
    PROVE  Rationing'
<1>1. elapsed' = AtMost(elapsed + 1, Horizon) /\ admitted' = admitted
  BY DEF Tick
<1>2. CASE ttl = 1
  BY <1>2 DEF Tick, Forget, Rationing
<1>3. CASE ttl # 1
  <2>1. state' = state /\ probes' = probes /\ leaseAge' = AtMost(leaseAge + 1, Cooldown)
    BY <1>3 DEF Tick
  <2>2. CASE state # "HALF_OPEN"
    BY <1>1, <2>1, <2>2 DEF Rationing
  <2>3. CASE state = "HALF_OPEN" /\ elapsed < Horizon
    <3>1. /\ elapsed \in Nat /\ leaseAge \in Nat /\ probes \in Nat /\ admitted \in Nat
          /\ leaseAge' \in Nat /\ leaseAge' <= leaseAge + 1
          /\ elapsed' = elapsed + 1
      BY <1>1, <2>1, <2>3, BreakerAssumption DEF AtMost, TypeOK
    <3>2. Rationed(elapsed, leaseAge, probes, admitted)
      BY <2>3, RationingIs
    <3>3. Rationed(elapsed + 1, leaseAge', probes, admitted)
      BY <2>3, <3>1, <3>2, Ageing
    <3>. QED
      BY <1>1, <2>1, <2>3, <3>1, <3>3 DEF Rationing, Rationed
  <2>4. CASE state = "HALF_OPEN" /\ ~(elapsed < Horizon)
    <3>1. elapsed' = elapsed
      BY <1>1, <2>4, BreakerAssumption DEF AtMost, TypeOK
    <3>. QED
      BY <1>1, <2>1, <2>4, <3>1 DEF Rationing
  <2>. QED
    BY <2>2, <2>3, <2>4
<1>. QED
  BY <1>2, <1>3

LEMMA RationingStep == TypeOK /\ Cooling /\ Rationing /\ [Next]_vars => Rationing'
<1>. SUFFICES ASSUME TypeOK, Cooling, Rationing, [Next]_vars PROVE Rationing'
  OBVIOUS
<1>1. CASE UNCHANGED <<keyVars, counts>>
  BY <1>1 DEF keyVars, hashVars, counts, Rationing
<1>2. ASSUME NEW w \in Workers, Pass(w) PROVE Rationing'
  BY <1>1, <1>2, AllowRations, ReportRations
  DEF Pass, Allow, AllowError, Leave, Attempt, Report, LoseReport
<1>3. CASE ForeignWrite
  BY <1>3 DEF ForeignWrite, Rationing
<1>4. CASE IssuerTurns \/ UNCHANGED vars
  BY <1>1, <1>4 DEF IssuerTurns, vars
<1>. QED
  BY <1>2, <1>3, <1>4, TickRations DEF Next

LEMMA RationSuffices == TypeOK /\ Rationing => AdmissionRate
<1>. SUFFICES ASSUME TypeOK, Rationing, state = "OPEN"
              PROVE  admitted <= HalfOpenProbes * (elapsed \div Cooldown)
  BY DEF Rationing, AdmissionRate
<1>1. elapsed \in Nat /\ admitted = 0
  BY BreakerAssumption DEF TypeOK, Rationing
<1>2. elapsed \div Cooldown \in Nat
  BY <1>1, BreakerAssumption, DivPositive
<1>3. HalfOpenProbes * 0 <= HalfOpenProbes * (elapsed \div Cooldown)
  BY <1>2, BreakerAssumption, TimesGrows
<1>. QED
  BY <1>1, <1>3, BreakerAssumption

\* Until it closes, an open breaker admits no more passes than HalfOpenProbes for
\* each cooldown since it opened, however many ask at once and however many
\* episodes are given up because their probes never reported.
THEOREM Frugal == Spec => []AdmissionRate
<1>1. Init => BreakerInv
  BY TypeInit, CoolingInit, RationingInit DEF BreakerInv
<1>2. BreakerInv /\ [Next]_vars => BreakerInv'
  BY TypeStep, CoolingStep, RationingStep DEF BreakerInv
<1>3. BreakerInv => AdmissionRate
  BY RationSuffices DEF BreakerInv
<1>. QED
  BY <1>1, <1>2, <1>3, PTL DEF Spec

-----------------------------------------------------------------------------
(* The evidence of a trip *)

Failures(w) == {i \in DOMAIN w : ~w[i]}

\* While the breaker is closed its window holds nothing that was not counted
\* since it closed.
Evidence ==
    state = "CLOSED" =>
        /\ fresh >= AtMost(Len(window), MinSamples)
        /\ Cardinality(Failures(window)) <= failed

LEMMA FailuresAreFew ==
    ASSUME NEW w \in Seq(BOOLEAN)
    PROVE  /\ IsFiniteSet(Failures(w)) /\ Cardinality(Failures(w)) \in Nat
           /\ Cardinality({i \in DOMAIN w : w[i]}) = Len(w) - Cardinality(Failures(w))
<1>1. DOMAIN w = 1..Len(w) /\ Len(w) \in Nat
  OBVIOUS
<1>2. IsFiniteSet(DOMAIN w) /\ Cardinality(DOMAIN w) = Len(w)
  BY <1>1, FS_Interval
<1>3. Failures(w) \subseteq DOMAIN w
  BY DEF Failures
<1>4. IsFiniteSet(Failures(w)) /\ Cardinality(Failures(w)) \in Nat
  BY <1>2, <1>3, FS_Subset, FS_CardinalityType
<1>5. {i \in DOMAIN w : w[i]} = DOMAIN w \ Failures(w)
  BY Zenon DEF Failures
<1>6. DOMAIN w \cap Failures(w) = Failures(w)
  BY <1>3
<1>. QED
  BY <1>2, <1>4, <1>5, <1>6, FS_Difference

\* A trip takes as many failures as the rate requires of MinSamples outcomes.
LEMMA TripEvidence ==
    ASSUME NEW w \in Seq(BOOLEAN), Trips(w)
    PROVE  /\ Len(w) >= MinSamples
           /\ Cardinality(Failures(w)) * RateDen > (RateDen - RateNum) * MinSamples
<1>. DEFINE f == Cardinality(Failures(w))
            n == Len(w)
<1>1. f \in Nat /\ n \in Nat
  <2>1. n \in Nat
    OBVIOUS
  <2>2. f \in Nat
    BY FailuresAreFew
  <2>. QED
    BY <2>1, <2>2
<1>2. n >= MinSamples /\ (n - f) * RateDen < n * RateNum
  BY FailuresAreFew DEF Trips
<1>3. RateDen \in Nat /\ RateNum \in Nat /\ RateDen - RateNum \in Nat /\ MinSamples \in Nat
  BY BreakerAssumption
<1>. HIDE DEF f, n
<1>4. (n - f) * RateDen = n * RateDen - f * RateDen
  BY <1>1, <1>3
<1>5. (RateDen - RateNum) * n = n * RateDen - n * RateNum
  BY <1>1, <1>3
<1>6. (RateDen - RateNum) * MinSamples <= (RateDen - RateNum) * n
  BY <1>1, <1>2, <1>3, TimesGrows
<1>7. /\ f * RateDen \in Int /\ n * RateDen \in Int /\ n * RateNum \in Int
      /\ (RateDen - RateNum) * MinSamples \in Int
  BY <1>1, <1>3
<1>8. f * RateDen > (RateDen - RateNum) * MinSamples
  BY <1>2, <1>4, <1>5, <1>6, <1>7
<1>. QED
  BY <1>2, <1>8 DEF f, n

LEMMA RecordedIs ==
    ASSUME TypeOK, NEW success \in BOOLEAN
    PROVE  /\ Recorded(success) \in Seq(BOOLEAN)
           /\ Len(Recorded(success)) <= Len(window) + 1
           /\ \A i \in DOMAIN Recorded(success) :
                IF i = 1 THEN Recorded(success)[i] = success
                         ELSE i - 1 \in DOMAIN window /\ Recorded(success)[i] = window[i - 1]
<1>. DEFINE longer == <<success>> \o window
            n == AtMost(Len(window) + 1, WindowSize)
<1>1. /\ longer \in Seq(BOOLEAN) /\ Len(longer) = Len(window) + 1
      /\ \A i \in 1..Len(longer) :
            IF i = 1 THEN longer[i] = success
                     ELSE i - 1 \in DOMAIN window /\ longer[i] = window[i - 1]
  BY DEF TypeOK
<1>2. n \in 0..Len(longer)
  BY <1>1, BreakerAssumption DEF AtMost, TypeOK
<1>. HIDE DEF longer, n
<1>3. /\ SubSeq(longer, 1, n) \in Seq(BOOLEAN) /\ Len(SubSeq(longer, 1, n)) = n
      /\ \A i \in 1..n : SubSeq(longer, 1, n)[i] = longer[i]
  BY <1>1, <1>2
<1>4. n <= Len(window) + 1
  BY <1>1, <1>2
<1>5. DOMAIN SubSeq(longer, 1, n) = 1..n
  BY <1>3
<1>6. \A i \in 1..n :
        IF i = 1 THEN SubSeq(longer, 1, n)[i] = success
                 ELSE i - 1 \in DOMAIN window /\ SubSeq(longer, 1, n)[i] = window[i - 1]
  BY <1>1, <1>2, <1>3
<1>. QED
  BY <1>3, <1>4, <1>5, <1>6 DEF Recorded, longer, n

\* One more outcome adds at most itself to the failures of the window.
LEMMA OneMoreFailure ==
    ASSUME TypeOK, NEW success \in BOOLEAN
    PROVE  Cardinality(Failures(Recorded(success)))
             <= Cardinality(Failures(window)) + (IF success THEN 0 ELSE 1)
<1>. DEFINE r == Recorded(success)
            target == IF success THEN Failures(window) ELSE Failures(window) \cup {0}
            f == [i \in Failures(r) |-> i - 1]
<1>1. IsFiniteSet(Failures(window)) /\ Cardinality(Failures(window)) \in Nat
  BY FailuresAreFew DEF TypeOK
<1>2. IsFiniteSet(target) /\ Cardinality(target) = Cardinality(Failures(window)) + (IF success THEN 0 ELSE 1)
  <2>1. 0 \notin Failures(window)
    BY DEF Failures, TypeOK
  <2>. QED
    BY <1>1, <2>1, FS_AddElement
<1>3. \A i \in Failures(r) : i \in Nat /\ i - 1 \in target
  <2>. SUFFICES ASSUME NEW i \in Failures(r) PROVE i \in Nat /\ i - 1 \in target
    OBVIOUS
  <2>1. i \in DOMAIN r /\ ~r[i] /\ i \in Nat
    BY RecordedIs DEF Failures
  <2>2. CASE i = 1
    BY <2>1, <2>2, RecordedIs
  <2>3. CASE i # 1
    BY <2>1, <2>3, RecordedIs DEF Failures
  <2>. QED
    BY <2>1, <2>2, <2>3
<1>. HIDE DEF r, target
<1>4. f \in Injection(Failures(r), target)
  <2>1. f \in [Failures(r) -> target]
    BY <1>3
  <2>2. \A a, b \in Failures(r) : f[a] = f[b] => a = b
    BY <1>3
  <2>. QED
    BY <2>1, <2>2 DEF Injection, IsInjective
<1>5. Cardinality(Failures(r)) <= Cardinality(target)
  BY <1>2, <1>4, FS_Injection
<1>. QED
  BY <1>2, <1>5 DEF r

\* What recording one outcome leaves is still covered by what was counted.
LEMMA EvidenceGrows ==
    ASSUME TypeOK, Evidence, NEW success \in BOOLEAN, Record(success)
    PROVE  /\ fresh' >= AtMost(Len(Recorded(success)), MinSamples)
           /\ Cardinality(Failures(Recorded(success))) <= failed'
<1>1. /\ state = "CLOSED"
      /\ fresh' = AtMost(fresh + 1, MinSamples)
      /\ failed' = IF success THEN failed ELSE AtMost(failed + 1, WindowSize)
  BY DEF Record, CountOutcome
<1>2. /\ Recorded(success) \in Seq(BOOLEAN)
      /\ Len(Recorded(success)) <= WindowSize
      /\ Len(Recorded(success)) <= Len(window) + 1
  BY RecordedType, RecordedIs
<1>3. fresh' >= AtMost(Len(Recorded(success)), MinSamples)
  BY <1>1, <1>2, BreakerAssumption DEF Evidence, AtMost, TypeOK
<1>4. /\ Cardinality(Failures(Recorded(success))) \in Nat
      /\ Cardinality(Failures(Recorded(success))) <= Len(Recorded(success))
  <2>1. Cardinality({i \in DOMAIN Recorded(success) : Recorded(success)[i]}) \in Nat
    <3>1. IsFiniteSet(DOMAIN Recorded(success))
      BY <1>2, FS_Interval
    <3>2. {i \in DOMAIN Recorded(success) : Recorded(success)[i]} \subseteq DOMAIN Recorded(success)
      BY Zenon
    <3>. QED
      BY <3>1, <3>2, FS_Subset, FS_CardinalityType
  <2>. QED
    BY <1>2, <2>1, FailuresAreFew
<1>5. Cardinality(Failures(window)) \in Nat /\ Cardinality(Failures(window)) <= failed
  BY <1>1, FailuresAreFew DEF Evidence, TypeOK
<1>6. CASE success
  <2>1. Cardinality(Failures(Recorded(success))) <= Cardinality(Failures(window)) + 0
    BY <1>6, OneMoreFailure
  <2>2. failed' = failed /\ failed \in Int
    BY <1>1, <1>6, BreakerAssumption DEF TypeOK
  <2>. QED
    BY <1>3, <1>4, <1>5, <2>1, <2>2
<1>7. CASE ~success
  <2>1. Cardinality(Failures(Recorded(success))) <= Cardinality(Failures(window)) + 1
    BY <1>7, OneMoreFailure
  <2>. QED
    BY <1>1, <1>2, <1>3, <1>4, <1>5, <1>7, <2>1, BreakerAssumption DEF AtMost, TypeOK
<1>. QED
  BY <1>3, <1>6, <1>7

LEMMA EvidenceAnew ==
    ASSUME window' = <<>>, fresh' \in Nat, failed' \in Nat
    PROVE  Evidence'
<1>1. Failures(<<>>) = {}
  BY DEF Failures
<1>2. AtMost(Len(<<>>), MinSamples) <= 0 /\ Cardinality(Failures(<<>>)) = 0
  BY <1>1, FS_EmptySet, BreakerAssumption DEF AtMost
<1>. QED
  BY <1>2, BreakerAssumption DEF Evidence, AtMost

LEMMA EvidenceStep == TypeOK /\ Evidence /\ [Next]_vars => Evidence'
<1>. SUFFICES ASSUME TypeOK, Evidence, [Next]_vars PROVE Evidence'
  OBVIOUS
<1>. USE DEF keyVars, hashVars, counts
<1>1. CASE UNCHANGED <<window, fresh, failed>> /\ (state' = "CLOSED" => state = "CLOSED")
  BY <1>1 DEF Evidence
<1>2. AllowScript => UNCHANGED <<window, fresh, failed>> /\ (state' = "CLOSED" => state = "CLOSED")
  BY DEF AllowScript, AllowPlainly, HalfOpen, SpendProbe, Repair, RestartCounts, CountAdmission
<1>3. TypeOK'
  BY TypeStep
<1>4. ASSUME NEW success \in BOOLEAN, ReportScript(success) PROVE Evidence'
  <2>1. CASE EndEpisode(success)
    BY <1>3, <2>1, EvidenceAnew, BreakerAssumption DEF EndEpisode, Open, Close, TypeOK
  <2>2. CASE IgnoreWhileOpen
    BY <1>1, <2>2 DEF IgnoreWhileOpen
  <2>3. CASE Record(success)
    <3>1. CASE Trips(Recorded(success))
      BY <2>3, <3>1 DEF Record, Open, Evidence
    <3>2. CASE ~Trips(Recorded(success))
      BY <2>3, <3>2, EvidenceGrows DEF Record, Evidence
    <3>. QED
      BY <3>1, <3>2
  <2>4. CASE OpenForeign
    BY <2>4 DEF OpenForeign, Open, Evidence
  <2>. QED
    BY <1>4, <2>1, <2>2, <2>3, <2>4 DEF ReportScript
<1>5. ASSUME NEW w \in Workers, Pass(w) PROVE Evidence'
  <2>1. CASE Report(w)
    BY <1>4, <2>1 DEF Report
  <2>2. CASE ~Report(w)
    BY <1>1, <1>2, <1>5, <2>2 DEF Pass, Allow, AllowError, Leave, Attempt, LoseReport
  <2>. QED
    BY <2>1, <2>2
<1>6. CASE Tick
  <2>1. CASE ttl = 1
    BY <1>6, <2>1, EvidenceAnew DEF Tick, Forget
  <2>2. CASE ttl # 1
    BY <1>1, <1>6, <2>2 DEF Tick
  <2>. QED
    BY <2>1, <2>2
<1>7. CASE IssuerTurns \/ ForeignWrite \/ UNCHANGED vars
  BY <1>1, <1>7 DEF IssuerTurns, ForeignWrite, vars
<1>. QED
  BY <1>5, <1>6, <1>7 DEF Next

LEMMA EvidenceInit == Init => Evidence
<1>1. Failures(<<>>) = {}
  BY DEF Failures
<1>. QED
  BY <1>1, FS_EmptySet, BreakerAssumption DEF Init, Evidence, AtMost

\* A closed breaker trips only on MinSamples outcomes recorded since it closed,
\* with the failures among them that the rate requires: nothing of an earlier
\* window, of an open spell or of a forgotten key tips the balance.
THEOREM Evidential == Spec => TripRestsOnEvidence
<1>1. TypeOK /\ Evidence /\ [Next]_vars =>
        [state = "CLOSED" /\ state' = "OPEN" =>
            /\ fresh' >= MinSamples
            /\ failed' * RateDen > (RateDen - RateNum) * MinSamples]_vars
  <2>. SUFFICES ASSUME TypeOK, Evidence, [Next]_vars, state = "CLOSED", state' = "OPEN"
                PROVE  /\ fresh' >= MinSamples
                       /\ failed' * RateDen > (RateDen - RateNum) * MinSamples
    OBVIOUS
  <2>1. PICK success \in BOOLEAN : Record(success) /\ Trips(Recorded(success))
    <3>. USE DEF keyVars, hashVars, counts
    <3>1. ~AllowScript
      BY DEF AllowScript, AllowPlainly, HalfOpen, SpendProbe, Repair
    <3>2. \E w \in Workers : Report(w)
      BY <3>1 DEF Next, vars, Pass, Allow, AllowError, Leave, Attempt, LoseReport,
                IssuerTurns, ForeignWrite, Tick, Forget
    <3>3. PICK success \in BOOLEAN : ReportScript(success)
      BY <3>2 DEF Report
    <3>4. Record(success) /\ Trips(Recorded(success))
      BY <3>3 DEF ReportScript, EndEpisode, IgnoreWhileOpen, OpenForeign, Record
    <3>. QED
      BY <3>4
  <2>2. /\ fresh' >= AtMost(Len(Recorded(success)), MinSamples)
        /\ Cardinality(Failures(Recorded(success))) <= failed'
    BY <2>1, EvidenceGrows
  <2>3. Recorded(success) \in Seq(BOOLEAN) /\ Cardinality(Failures(Recorded(success))) \in Nat
    BY RecordedIs, FailuresAreFew
  <2>4. /\ Len(Recorded(success)) >= MinSamples
        /\ Cardinality(Failures(Recorded(success))) * RateDen > (RateDen - RateNum) * MinSamples
    BY <2>1, <2>3, TripEvidence
  <2>5. failed' \in Nat
    BY TypeStep, BreakerAssumption DEF TypeOK
  <2>6. RateDen * Cardinality(Failures(Recorded(success))) <= RateDen * failed'
    BY <2>2, <2>3, <2>5, TimesGrows, BreakerAssumption
  <2>7. fresh' >= MinSamples
    <3>1. Len(Recorded(success)) \in Nat
      BY <2>3
    <3>2. AtMost(Len(Recorded(success)), MinSamples) = MinSamples
      BY <2>4, <3>1, BreakerAssumption DEF AtMost
    <3>. QED
      BY <2>2, <3>2
  <2>8. failed' * RateDen > (RateDen - RateNum) * MinSamples
    <3>. DEFINE f == Cardinality(Failures(Recorded(success)))
    <3>1. f \in Nat /\ RateDen \in Nat /\ RateNum \in Nat /\ MinSamples \in Nat
      BY <2>3, BreakerAssumption
    <3>. HIDE DEF f
    <3>2. RateDen * f = f * RateDen /\ RateDen * failed' = failed' * RateDen
      BY <2>5, <3>1
    <3>3. f * RateDen \in Int /\ failed' * RateDen \in Int /\ (RateDen - RateNum) * MinSamples \in Int
      BY <2>5, <3>1
    <3>4. f * RateDen <= failed' * RateDen
      BY <2>6, <3>2 DEF f
    <3>5. f * RateDen > (RateDen - RateNum) * MinSamples
      BY <2>4 DEF f
    <3>. QED
      BY <3>3, <3>4, <3>5
  <2>. QED
    BY <2>7, <2>8
<1>. QED
  BY <1>1, EvidenceInit, EvidenceStep, BreakerTyped, PTL DEF Spec, TripRestsOnEvidence
=============================================================================
