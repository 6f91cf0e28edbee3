----------------------------- MODULE GateProofs -----------------------------
(***************************************************************************)
(* Theorems about the gate (Gate), about a mandate's life under it         *)
(* (Cycle), for any ceilings, caps and windows, any rails and any inputs,  *)
(* and about the run of the gatekeeper over faulty ports (Simulation).     *)
(*                                                                         *)
(*   1. Compliant          every command the gate gives complies           *)
(*   2. Vetoing            what stops a payment only ever makes it abstain *)
(*   3. CycleTyped, AlwaysCompliant, OnlyVetoes   the same along the life  *)
(*                         of a mandate, under either caller               *)
(*   4. ExplorerClaimed    what the explorer claims of its own transitions *)
(*   5. GateIsSound        all of it, as the run checks it                 *)
(*   6. SimulationIsSound  what the run of the gatekeeper rests on, with   *)
(*                         however many faults fit into a cooling window   *)
(*                                                                         *)
(* A decision passes from rule to rule; each lemma says what one rule adds *)
(* and that it takes nothing of the earlier ones back.  In the simulation  *)
(* each debit of the mandate keeps to a slot of its own, a window from any *)
(* other's; each lemma says that one operation leaves it there.            *)
(***************************************************************************)
EXTENDS Cycle, Simulation, SequenceTheorems, FiniteSetTheorems, TLAPS

\* The rules a decision may cite (gatekeeper.go, the Rule constants).
Rules ==
    {"TERMINAL_DECLINE", "STOP_RULE_MAX_ATTEMPTS", "LOW_CONFIDENCE_ABSTAIN",
     "UNRECOVERABLE_CLASS", "RAIL_ALLOWLIST", "SESSION_REQUIRED_FOR_MORPH",
     "RBI_MANDATE_COOLING", "RBI_PRE_DEBIT_NOTICE", "RBI_AFA_CEILING", "MANDATE_HALTED",
     "MANDATE_CYCLE_CAP", "INSTRUMENT_REFRESH_ALLOWED"}

Decisions ==
    [action : Actions, rail : Rails \cup {"none"}, presentation : {"unchanged", "network_token"},
     delay : Int, preDebit : BOOLEAN, rules : SUBSET Rules]

\* Nothing about the payment or its incident forbids another charge.
Chargeable(in) ==
    /\ in.amount > 0 /\ in.attempt <= MaxAttempts
    /\ ~in.terminal /\ in.confident /\ in.recoverable /\ ~in.foreign

\* What holds of a decision that still stands, rule after rule.
Allowed(in, d) == d.action # "abstain" => Chargeable(in)
Railed(in, d) == d.action # "abstain" /\ in.rail \in Rails => d.rail \in Rails
Spaced(in, d) ==
    d.action # "abstain" /\ in.recurring =>
        d.preDebit /\ d.delay >= Required(in) /\ Required(in) <= MaxRecommendedDelay
Affordable(in, d) == d.action # "abstain" /\ in.recurring => in.amount <= CeilingOf(in)
Mandated(in, d) ==
    d.action # "abstain" => \A m \in in.mandate : ~m.halted /\ m.attempts < CycleCap

LEMMA Limits ==
    /\ MaxAttempts \in Nat \ {0} /\ CycleCap \in Nat \ {0} /\ Cooling \in Nat \ {0}
    /\ MaxRecommendedDelay \in Nat \ {0} /\ NoticeValidity \in Nat \ {0}
    /\ GeneralCeiling \in Nat \ {0} /\ ElevatedCeiling \in Nat \ {0}
    /\ Cooling <= MaxRecommendedDelay /\ "none" \notin Rails
  BY GateAssumption

LEMMA InputTypes ==
    ASSUME NEW in \in GateInputs
    PROVE  /\ in.recurring \in BOOLEAN /\ in.amount \in Int /\ in.rail \in Rails \cup {"none"}
           /\ in.attempt \in Int /\ in.session \in BOOLEAN /\ in.available \subseteq Rails
           /\ in.mandate \subseteq Mandates
           /\ in.terminal \in BOOLEAN /\ in.confident \in BOOLEAN /\ in.recoverable \in BOOLEAN
           /\ in.foreign \in BOOLEAN /\ in.action \in Actions \cup {"injected"}
           /\ in.target \in Rails \cup {"none"} /\ in.delay \in Int
  BY DEF GateInputs

\* The cooling window, and the mandate's own wait if that is longer.
LEMMA RequiredIs ==
    ASSUME NEW in \in GateInputs
    PROVE  Required(in) \in Int /\ Required(in) >= Cooling
<1>. DEFINE waits == UNION {m.wait : m \in in.mandate}
            later == {w \in waits : w > Cooling}
<1>1. \A w \in later : w \in Int /\ w > Cooling
  <2>1. \A m \in in.mandate : m.wait \subseteq Int
    BY InputTypes DEF Mandates
  <2>. QED
    BY <2>1
<1>2. Required(in) = IF later = {} THEN Cooling ELSE CHOOSE w \in later : TRUE
  BY DEF Required
<1>. HIDE DEF later
<1>3. later # {} => (CHOOSE w \in later : TRUE) \in later
  OBVIOUS
<1>. QED
  BY <1>1, <1>2, <1>3, Limits

-----------------------------------------------------------------------------
(* The rules, one by one *)

LEMMA Fields ==
    ASSUME NEW d \in Decisions
    PROVE  /\ d.action \in Actions /\ d.rail \in Rails \cup {"none"} /\ d.delay \in Int
           /\ d.presentation \in {"unchanged", "network_token"}
           /\ d.preDebit \in BOOLEAN /\ d.rules \subseteq Rules
  BY DEF Decisions

LEMMA VetoIs ==
    ASSUME NEW d \in Decisions, NEW rule \in Rules
    PROVE  /\ Veto(d, rule) \in Decisions
           /\ Veto(d, rule).action = "abstain" /\ Veto(d, rule).rail = d.rail
           /\ Veto(d, rule).delay = d.delay /\ Veto(d, rule).preDebit = d.preDebit
           /\ Veto(d, rule).rules = d.rules \cup {rule}
<1>1. d.rules \cup {rule} \in SUBSET Rules /\ "abstain" \in Actions
  BY Fields DEF Actions
<1>. DEFINE rules == d.rules \cup {rule}
<1>. HIDE DEF rules
<1>2. [d EXCEPT !.action = "abstain", !.rules = rules] \in Decisions
  BY <1>1 DEF Decisions, rules
<1>. QED
  BY <1>2 DEF Veto, rules, Decisions

LEMMA NormalisedIs ==
    ASSUME NEW in \in GateInputs
    PROVE  LET d == Normalised(in)
           IN  /\ d \in Decisions
               /\ d.action # "morph" => d.rail = in.rail
               /\ d.rules = {} /\ d.preDebit = FALSE /\ d.delay = 0
<1>1. (IF in.foreign \/ in.action = "injected" THEN "abstain"
       ELSE IF in.action = "cascade" /\ ~in.recurring THEN "async" ELSE in.action) \in Actions
  BY InputTypes DEF Actions, Executable
<1>. QED
  BY <1>1, InputTypes DEF Normalised, Decisions

LEMMA StoppedIs ==
    ASSUME NEW in \in GateInputs, NEW d \in Decisions
    PROVE  LET s == Stopped(in, d)
           IN  /\ s \in Decisions /\ Allowed(in, s)
               /\ s.action # "abstain" => s = d
               /\ s.rail = d.rail /\ s.preDebit = d.preDebit /\ s.delay = d.delay
               /\ "MANDATE_CYCLE_CAP" \notin d.rules => "MANDATE_CYCLE_CAP" \notin s.rules
<1>. DEFINE pinned == IF in.amount > 0 THEN d ELSE [d EXCEPT !.action = "abstain"]
            decline == VetoIf(in.terminal, pinned, "TERMINAL_DECLINE")
            stop == VetoIf(in.attempt > MaxAttempts, decline, "STOP_RULE_MAX_ATTEMPTS")
            low == VetoIf(~in.confident, stop, "LOW_CONFIDENCE_ABSTAIN")
            s == VetoIf(in.foreign \/ ~in.recoverable, low, "UNRECOVERABLE_CLASS")
<1>1. /\ pinned \in Decisions
      /\ pinned.action # "abstain" => in.amount > 0 /\ pinned = d
      /\ pinned.rail = d.rail /\ pinned.preDebit = d.preDebit /\ pinned.delay = d.delay
      /\ pinned.rules = d.rules
  BY InputTypes DEF Decisions, Actions
<1>. HIDE DEF pinned
<1>2. /\ decline \in Decisions
      /\ decline.action # "abstain" => ~in.terminal /\ decline = pinned
      /\ decline.rail = d.rail /\ decline.preDebit = d.preDebit /\ decline.delay = d.delay
      /\ decline.rules \subseteq d.rules \cup {"TERMINAL_DECLINE"}
  BY <1>1, VetoIs, InputTypes DEF VetoIf, Rules
<1>. HIDE DEF decline
<1>3. /\ stop \in Decisions
      /\ stop.action # "abstain" => in.attempt <= MaxAttempts /\ stop = decline
      /\ stop.rail = d.rail /\ stop.preDebit = d.preDebit /\ stop.delay = d.delay
      /\ stop.rules \subseteq decline.rules \cup {"STOP_RULE_MAX_ATTEMPTS"}
  BY <1>2, VetoIs, InputTypes, Limits DEF VetoIf, Rules
<1>. HIDE DEF stop
<1>4. /\ low \in Decisions
      /\ low.action # "abstain" => in.confident /\ low = stop
      /\ low.rail = d.rail /\ low.preDebit = d.preDebit /\ low.delay = d.delay
      /\ low.rules \subseteq stop.rules \cup {"LOW_CONFIDENCE_ABSTAIN"}
  BY <1>3, VetoIs, InputTypes DEF VetoIf, Rules
<1>. HIDE DEF low
<1>5. /\ s \in Decisions
      /\ s.action # "abstain" => ~in.foreign /\ in.recoverable /\ s = low
      /\ s.rail = d.rail /\ s.preDebit = d.preDebit /\ s.delay = d.delay
      /\ s.rules \subseteq low.rules \cup {"UNRECOVERABLE_CLASS"}
  BY <1>4, VetoIs, InputTypes DEF VetoIf, Rules
<1>6. s = Stopped(in, d)
  BY DEF Stopped, s, low, stop, decline, pinned
<1>. HIDE DEF s
<1>. QED
  BY <1>1, <1>2, <1>3, <1>4, <1>5, <1>6 DEF Allowed, Chargeable

LEMMA MorphedIs ==
    ASSUME NEW in \in GateInputs, NEW d \in Decisions, Allowed(in, d),
           d.action \notin {"morph", "abstain"} => d.rail = in.rail
    PROVE  LET m == Morphed(in, d)
           IN  /\ m \in Decisions /\ Allowed(in, m) /\ Railed(in, m)
               /\ m.preDebit = d.preDebit /\ m.delay = d.delay
               /\ d.action = "abstain" => m = d
               /\ "MANDATE_CYCLE_CAP" \notin d.rules => "MANDATE_CYCLE_CAP" \notin m.rules
  BY InputTypes DEF Morphed, Decisions, Rules, Actions, Executable, Allowed, Railed

LEMMA ScheduledIs ==
    ASSUME NEW in \in GateInputs, NEW backoff \in Int, NEW d \in Decisions,
           Allowed(in, d), Railed(in, d)
    PROVE  LET s == Scheduled(in, backoff, d)
           IN  /\ s \in Decisions /\ Allowed(in, s) /\ Railed(in, s)
               /\ s.action = d.action /\ s.rules = d.rules
  BY InputTypes DEF Scheduled, Decisions, Allowed, Railed

LEMMA CooledIs ==
    ASSUME NEW in \in GateInputs, NEW d \in Decisions, Allowed(in, d), Railed(in, d)
    PROVE  LET c == Cooled(in, d)
           IN  /\ c \in Decisions /\ Allowed(in, c) /\ Railed(in, c) /\ Spaced(in, c)
               /\ d.action = "abstain" => c.action = "abstain"
               /\ "MANDATE_CYCLE_CAP" \notin d.rules => "MANDATE_CYCLE_CAP" \notin c.rules
<1>1. CASE Abstained(d) \/ ~in.recurring
  BY <1>1, InputTypes DEF Cooled, Abstained, Spaced
<1>2. CASE ~(Abstained(d) \/ ~in.recurring) /\ Required(in) > MaxRecommendedDelay
  BY <1>2 DEF Cooled, Abstained, Veto, Decisions, Rules, Actions, Allowed, Railed, Spaced
<1>3. CASE ~(Abstained(d) \/ ~in.recurring) /\ ~(Required(in) > MaxRecommendedDelay)
  <2>1. Larger(d.delay, Required(in)) \in Int /\ Larger(d.delay, Required(in)) >= Required(in)
    BY RequiredIs DEF Larger, Decisions
  <2>2. Required(in) <= MaxRecommendedDelay
    BY <1>3, RequiredIs, Limits
  <2>. QED
    BY <1>3, <2>1, <2>2, InputTypes DEF Cooled, Abstained, Decisions, Rules, Actions, Executable, Allowed,
       Railed, Spaced
<1>. QED
  BY <1>1, <1>2, <1>3

LEMMA CeilingIs ==
    ASSUME NEW in \in GateInputs
    PROVE  CeilingOf(in) \in Int
  BY Limits DEF CeilingOf, AFACeiling

LEMMA RegulatedIs ==
    ASSUME NEW in \in GateInputs, NEW d \in Decisions,
           Allowed(in, d), Railed(in, d), Spaced(in, d)
    PROVE  LET r == Regulated(in, d)
           IN  /\ r \in Decisions /\ Allowed(in, r) /\ Railed(in, r) /\ Spaced(in, r)
               /\ Affordable(in, r)
               /\ d.action = "abstain" => r.action = "abstain"
               /\ "MANDATE_CYCLE_CAP" \notin d.rules => "MANDATE_CYCLE_CAP" \notin r.rules
<1>1. CASE Abstained(d) \/ ~in.recurring
  BY <1>1, InputTypes DEF Regulated, Abstained, Affordable
<1>2. CASE ~(Abstained(d) \/ ~in.recurring)
  <2>. DEFINE e == IF NoticeSatisfied(in) THEN d
                   ELSE [d EXCEPT !.preDebit = TRUE, !.rules = @ \cup {"RBI_PRE_DEBIT_NOTICE"}]
              r == VetoIf(in.amount > CeilingOf(in), e, "RBI_AFA_CEILING")
  <2>1. /\ e \in Decisions /\ e.action = d.action /\ e.rail = d.rail /\ e.delay = d.delay
        /\ (d.preDebit => e.preDebit) /\ e.rules \subseteq d.rules \cup {"RBI_PRE_DEBIT_NOTICE"}
    BY DEF Decisions, Rules
  <2>2. Regulated(in, d) = r
    BY <1>2 DEF Regulated
  <2>. HIDE DEF e
  <2>3. /\ r \in Decisions /\ (r.action # "abstain" => in.amount <= CeilingOf(in) /\ r = e)
        /\ r.rules \subseteq e.rules \cup {"RBI_AFA_CEILING"}
        /\ (e.action = "abstain" => r.action = "abstain")
    BY <2>1, VetoIs, CeilingIs, InputTypes DEF VetoIf, Rules
  <2>. HIDE DEF r
  <2>. QED
    BY <2>1, <2>2, <2>3 DEF Allowed, Railed, Spaced, Affordable
<1>. QED
  BY <1>1, <1>2

LEMMA PermittedIs ==
    ASSUME NEW in \in GateInputs, NEW d \in Decisions,
           Allowed(in, d), Railed(in, d), Spaced(in, d), Affordable(in, d)
    PROVE  LET p == Permitted(in, d)
           IN  /\ p \in Decisions /\ Allowed(in, p) /\ Railed(in, p) /\ Spaced(in, p)
               /\ Affordable(in, p) /\ Mandated(in, p)
               /\ d.action = "abstain" => p.action = "abstain"
               /\ "MANDATE_CYCLE_CAP" \notin d.rules /\ "MANDATE_CYCLE_CAP" \in p.rules =>
                    \E m \in in.mandate : m.attempts >= CycleCap
<1>. DEFINE h == VetoIf(\E m \in in.mandate : m.halted, d, "MANDATE_HALTED")
            p == VetoIf(\E m \in in.mandate : m.attempts >= CycleCap, h, "MANDATE_CYCLE_CAP")
<1>1. /\ h \in Decisions /\ (h.action # "abstain" => ~(\E m \in in.mandate : m.halted) /\ h = d)
      /\ h.rules \subseteq d.rules \cup {"MANDATE_HALTED"}
      /\ (d.action = "abstain" => h.action = "abstain")
  BY VetoIs DEF VetoIf, Rules
<1>. HIDE DEF h
<1>2. /\ p \in Decisions
      /\ (p.action # "abstain" => ~(\E m \in in.mandate : m.attempts >= CycleCap) /\ p = h)
      /\ p.rules = IF \E m \in in.mandate : m.attempts >= CycleCap
                   THEN h.rules \cup {"MANDATE_CYCLE_CAP"} ELSE h.rules
      /\ (h.action = "abstain" => p.action = "abstain")
  BY <1>1, VetoIs DEF VetoIf, Rules
<1>3. \A m \in in.mandate : m.attempts \in Nat /\ m.halted \in BOOLEAN
  BY InputTypes DEF Mandates
<1>4. Permitted(in, d) = p
  BY DEF Permitted, p, h
<1>. HIDE DEF p
<1>5. Mandated(in, p)
  BY <1>1, <1>2, <1>3, Limits DEF Mandated
<1>. QED
  BY <1>1, <1>2, <1>4, <1>5 DEF Allowed, Railed, Spaced, Affordable

LEMMA RefreshedIs ==
    ASSUME NEW in \in GateInputs, NEW d \in Decisions,
           Allowed(in, d), Railed(in, d), Spaced(in, d), Affordable(in, d), Mandated(in, d)
    PROVE  LET r == Refreshed(in, d)
           IN  /\ r \in Decisions /\ Allowed(in, r) /\ Railed(in, r) /\ Spaced(in, r)
               /\ Affordable(in, r) /\ Mandated(in, r)
               /\ d.action = "abstain" => r.action = "abstain"
               /\ "MANDATE_CYCLE_CAP" \in r.rules => "MANDATE_CYCLE_CAP" \in d.rules
<1>1. CASE d.action # "refresh"
  BY <1>1 DEF Refreshed
<1>2. CASE d.action = "refresh"
  BY <1>2, InputTypes DEF Refreshed, Veto, Decisions, Rules, Actions, Executable, Allowed, Railed, Spaced,
     Affordable, Mandated
<1>. QED
  BY <1>1, <1>2

LEMMA BoundedIs ==
    ASSUME NEW in \in GateInputs, NEW d \in Decisions,
           Allowed(in, d), Railed(in, d), Spaced(in, d), Affordable(in, d), Mandated(in, d)
    PROVE  LET b == Bounded(d)
           IN  /\ b \in Decisions /\ b.action = d.action /\ b.rules = d.rules
               /\ b.action = "abstain" => b.delay = 0 /\ b.rail = "none" /\ ~b.preDebit
               /\ Allowed(in, b) /\ Railed(in, b) /\ Spaced(in, b)
               /\ Affordable(in, b) /\ Mandated(in, b)
               /\ b.action # "abstain" => b.delay \in 0..MaxRecommendedDelay
<1>1. CASE Abstained(d)
  <2>. DEFINE b1 == [d EXCEPT !.delay = 0]
              b2 == [b1 EXCEPT !.rail = "none"]
              b3 == [b2 EXCEPT !.preDebit = FALSE]
              b == [b3 EXCEPT !.presentation = "unchanged"]
  <2>0. Bounded(d) = b
    BY <1>1 DEF Bounded
  <2>1. /\ b \in Decisions /\ b.action = d.action /\ b.rules = d.rules
        /\ b.delay = 0 /\ b.rail = "none" /\ b.preDebit = FALSE
    <3>1. b1 \in Decisions /\ b1.action = d.action /\ b1.rules = d.rules /\ b1.delay = 0
      BY DEF Decisions
    <3>. HIDE DEF b1
    <3>2. /\ b2 \in Decisions /\ b2.action = d.action /\ b2.rules = d.rules /\ b2.delay = 0
          /\ b2.rail = "none"
      BY <3>1 DEF Decisions
    <3>. HIDE DEF b2
    <3>3. /\ b3 \in Decisions /\ b3.action = d.action /\ b3.rules = d.rules /\ b3.delay = 0
          /\ b3.rail = "none" /\ b3.preDebit = FALSE
      BY <3>2 DEF Decisions
    <3>. HIDE DEF b3
    <3>. QED
      BY <3>3 DEF Decisions
  <2>. HIDE DEF b
  <2>. QED
    BY <1>1, <2>0, <2>1 DEF Abstained, Allowed, Railed, Spaced, Affordable, Mandated
<1>2. CASE ~Abstained(d)
  <2>. DEFINE delay == IF d.delay > MaxRecommendedDelay THEN MaxRecommendedDelay
                       ELSE Larger(d.delay, 0)
              b == [d EXCEPT !.delay = delay]
  <2>1. d.delay \in Int
    BY DEF Decisions
  <2>2. /\ delay \in 0..MaxRecommendedDelay
        /\ \A x \in Int : d.delay >= x /\ x <= MaxRecommendedDelay => delay >= x
    BY <2>1, Limits DEF Larger
  <2>3. Bounded(d) = b
    BY <1>2 DEF Bounded
  <2>. HIDE DEF delay
  <2>4. /\ b \in Decisions /\ b.action = d.action /\ b.rules = d.rules /\ b.rail = d.rail
        /\ b.preDebit = d.preDebit /\ b.delay = delay
    BY <2>2 DEF Decisions
  <2>. HIDE DEF b
  <2>. QED
    BY <1>2, <2>2, <2>3, <2>4, RequiredIs
       DEF Abstained, Allowed, Railed, Spaced, Affordable, Mandated
<1>. QED
  BY <1>1, <1>2

-----------------------------------------------------------------------------
(* The gate *)

\* The decision before and after the permission of the mandate.
Weighed(in, backoff) ==
    Regulated(in, Cooled(in, Scheduled(in, backoff, Morphed(in, Stopped(in, Normalised(in))))))
Settled(in, backoff) == Bounded(Refreshed(in, Permitted(in, Weighed(in, backoff))))

LEMMA WeighedIs ==
    ASSUME NEW in \in GateInputs, NEW backoff \in Int
    PROVE  LET w == Weighed(in, backoff)
           IN  /\ w \in Decisions /\ Allowed(in, w) /\ Railed(in, w) /\ Spaced(in, w)
               /\ Affordable(in, w)
               /\ "MANDATE_CYCLE_CAP" \notin w.rules
<1>. DEFINE n == Normalised(in)
            s == Stopped(in, n)
            m == Morphed(in, s)
            t == Scheduled(in, backoff, m)
            c == Cooled(in, t)
            w == Regulated(in, c)
<1>1. n \in Decisions /\ (n.action # "morph" => n.rail = in.rail) /\ n.rules = {}
  BY NormalisedIs
<1>. HIDE DEF n
<1>2. /\ s \in Decisions /\ Allowed(in, s) /\ (s.action # "abstain" => s = n)
      /\ s.rail = n.rail /\ "MANDATE_CYCLE_CAP" \notin s.rules
  BY <1>1, StoppedIs
<1>. HIDE DEF s
<1>3. m \in Decisions /\ Allowed(in, m) /\ Railed(in, m) /\ "MANDATE_CYCLE_CAP" \notin m.rules
  BY <1>1, <1>2, MorphedIs
<1>. HIDE DEF m
<1>4. t \in Decisions /\ Allowed(in, t) /\ Railed(in, t) /\ "MANDATE_CYCLE_CAP" \notin t.rules
  BY <1>3, ScheduledIs
<1>. HIDE DEF t
<1>5. /\ c \in Decisions /\ Allowed(in, c) /\ Railed(in, c) /\ Spaced(in, c)
      /\ "MANDATE_CYCLE_CAP" \notin c.rules
  BY <1>4, CooledIs
<1>. HIDE DEF c
<1>6. /\ w \in Decisions /\ Allowed(in, w) /\ Railed(in, w) /\ Spaced(in, w)
      /\ Affordable(in, w) /\ "MANDATE_CYCLE_CAP" \notin w.rules
  BY <1>5, RegulatedIs
<1>7. w = Weighed(in, backoff)
  BY DEF Weighed, w, c, t, m, s, n
<1>. QED
  BY <1>6, <1>7

LEMMA SettledIs ==
    ASSUME NEW in \in GateInputs, NEW backoff \in Int
    PROVE  LET b == Settled(in, backoff)
           IN  /\ b \in Decisions /\ Allowed(in, b) /\ Railed(in, b) /\ Spaced(in, b)
               /\ Affordable(in, b) /\ Mandated(in, b)
               /\ b.action = "abstain" => b.delay = 0 /\ b.rail = "none" /\ ~b.preDebit
               /\ b.action # "abstain" => b.delay \in 0..MaxRecommendedDelay
               /\ "MANDATE_CYCLE_CAP" \in b.rules => \E m \in in.mandate : m.attempts >= CycleCap
<1>. DEFINE w == Weighed(in, backoff)
            p == Permitted(in, w)
            r == Refreshed(in, p)
<1>1. /\ w \in Decisions /\ Allowed(in, w) /\ Railed(in, w) /\ Spaced(in, w)
      /\ Affordable(in, w) /\ "MANDATE_CYCLE_CAP" \notin w.rules
  BY WeighedIs
<1>. HIDE DEF w
<1>2. /\ p \in Decisions /\ Allowed(in, p) /\ Railed(in, p) /\ Spaced(in, p)
      /\ Affordable(in, p) /\ Mandated(in, p)
      /\ "MANDATE_CYCLE_CAP" \in p.rules => \E m \in in.mandate : m.attempts >= CycleCap
  BY <1>1, PermittedIs
<1>. HIDE DEF p
<1>3. /\ r \in Decisions /\ Allowed(in, r) /\ Railed(in, r) /\ Spaced(in, r)
      /\ Affordable(in, r) /\ Mandated(in, r)
      /\ "MANDATE_CYCLE_CAP" \in r.rules => "MANDATE_CYCLE_CAP" \in p.rules
  BY <1>2, RefreshedIs
<1>. HIDE DEF r
<1>4. Settled(in, backoff) = Bounded(r)
  BY DEF Settled, r, p, w
<1>. QED
  BY <1>2, <1>3, <1>4, BoundedIs

\* What the gate hands to the executor, in the fields its callers read.
LEMMA DecideIs ==
    ASSUME NEW in \in GateInputs, NEW backoff \in Int
    PROVE  LET c == Decide(in, backoff)
               b == Settled(in, backoff)
           IN  /\ c.action = b.action /\ c.rail = b.rail /\ c.delay = b.delay
               /\ c.preDebit = b.preDebit /\ c.amount = in.amount
               /\ c.attempt = IF in.attempt > MaxAttempts THEN MaxAttempts
                              ELSE Larger(in.attempt, 0)
               /\ c.rules = b.rules \cup {"AMOUNT_PINNED", "DELAY_BOUNDS"}
<1>1. Decide(in, backoff) = Command(in, Settled(in, backoff))
  BY DEF Decide, Settled, Weighed
<1>. QED
  BY <1>1 DEF Command

\* Whatever is known of a payment and whatever is proposed for it, the command
\* of the gatekeeper satisfies its compliance suite (invariants.go): no charge
\* over a halt, a cap or a ceiling, none before the window or without a notice.
THEOREM Compliant ==
    ASSUME NEW in \in GateInputs, NEW backoff \in Int
    PROVE  Complies(in, Decide(in, backoff))
<1>. DEFINE c == Decide(in, backoff)
            b == Settled(in, backoff)
<1>1. /\ b \in Decisions /\ Allowed(in, b) /\ Railed(in, b) /\ Spaced(in, b)
      /\ Affordable(in, b) /\ Mandated(in, b)
      /\ b.action = "abstain" => b.delay = 0 /\ b.rail = "none" /\ ~b.preDebit
      /\ b.action # "abstain" => b.delay \in 0..MaxRecommendedDelay
  BY SettledIs
<1>2. /\ c.action = b.action /\ c.rail = b.rail /\ c.delay = b.delay
      /\ c.preDebit = b.preDebit /\ c.amount = in.amount
      /\ c.attempt = IF in.attempt > MaxAttempts THEN MaxAttempts ELSE Larger(in.attempt, 0)
  BY DecideIs
<1>. SUFFICES Complies(in, c)
  OBVIOUS
<1>. HIDE DEF c, b
<1>3. c.attempt \in 0..MaxAttempts
  BY <1>2, InputTypes, Limits DEF Larger
<1>4. b.action \in Executable <=> b.action # "abstain"
  BY <1>1, Fields DEF Actions, Executable
<1>5. CASE b.action = "abstain"
  BY <1>1, <1>2, <1>3, <1>4, <1>5 DEF Complies
<1>6. CASE b.action # "abstain"
  BY <1>1, <1>2, <1>3, <1>4, <1>6
     DEF Complies, Allowed, Chargeable, Railed, Spaced, Affordable, Mandated
<1>. QED
  BY <1>5, <1>6

\* A verdict that asks for a halt has seen a mandate at its cycle cap.
LEMMA HaltIsEarned ==
    ASSUME NEW in \in GateInputs, NEW backoff \in Int, RequiresMandateHalt(Decide(in, backoff))
    PROVE  \E m \in in.mandate : m.attempts >= CycleCap
  BY SettledIs, DecideIs DEF RequiresMandateHalt

\* Decline codes, exhausted attempts, a shaky or foreign diagnosis: whatever
\* stops a payment makes the gate abstain, whatever else is known of it.
THEOREM Vetoing ==
    ASSUME NEW in \in GateInputs, NEW backoff \in Int, ~Chargeable(in)
    PROVE  Decide(in, backoff).action = "abstain"
  BY SettledIs, DecideIs DEF Allowed

-----------------------------------------------------------------------------
(* The life of a mandate *)

Payments ==
    [recurring : BOOLEAN, amount : Amounts, category : Categories, rail : {"card"}]

\* The explorer counts in the row what it presents, and halts at the cap only;
\* the worker never writes the attempts of the row.
CycleInv ==
    /\ CycleTypeOK
    /\ caller \in {"explorer", "worker"} /\ payment \in Payments
    /\ ExplorerClaims
    /\ IF caller = "explorer" THEN presented = attempts ELSE attempts = 0

LEMMA Bounds ==
    /\ Amounts \subseteq Int /\ HourBuckets \subseteq Int /\ Backoffs \subseteq Int
    /\ Delays \subseteq Int /\ "card" \in Rails /\ "upi_intent" \in Rails
    /\ MaxPresented \in Nat
  BY CycleAssumption

LEMMA CycleFacts ==
    ASSUME CycleInv
    PROVE  /\ caller \in {"explorer", "worker"} /\ attempts \in Nat /\ hours \in Int
           /\ notified \in BOOLEAN /\ halted \in BOOLEAN /\ incident \in Int
           /\ incident >= Closed /\ incident <= MaxAttempts /\ Closed = -1
           /\ presented \in Nat /\ presented <= MaxPresented /\ attempts <= CycleCap + 1
           /\ payment.recurring \in BOOLEAN /\ payment.amount \in Int
           /\ payment.category \in Categories /\ payment.rail = "card"
<1>1. /\ attempts \in 0..CycleCap + 1 /\ hours \in HourBuckets \cup {0}
      /\ notified \in BOOLEAN /\ halted \in BOOLEAN
      /\ incident \in Closed..MaxAttempts /\ presented \in 0..MaxPresented
      /\ caller \in {"explorer", "worker"} /\ Closed = -1
  BY DEF CycleInv, CycleTypeOK, Closed
<1>2. /\ payment.recurring \in BOOLEAN /\ payment.amount \in Amounts
      /\ payment.category \in Categories /\ payment.rail = "card"
  BY DEF CycleInv, Payments
<1>3. hours \in Int /\ payment.amount \in Int
  <2>1. hours \in HourBuckets \cup {0} /\ payment.amount \in Amounts
    BY <1>1, <1>2
  <2>2. HourBuckets \subseteq Int /\ Amounts \subseteq Int /\ 0 \in Int
    BY Bounds
  <2>. QED
    BY <2>1, <2>2
<1>4. attempts \in Nat /\ attempts <= CycleCap + 1
  BY <1>1, Limits
<1>5. incident \in Int /\ incident >= Closed /\ incident <= MaxAttempts
  BY <1>1, Limits
<1>6. presented \in Nat /\ presented <= MaxPresented
  BY <1>1, Bounds
<1>. QED
  BY <1>1, <1>2, <1>3, <1>4, <1>5, <1>6

\* What either caller asks is a question the gate can answer.
LEMMA Askable ==
    ASSUME CycleInv, NEW proposal \in Proposals, NEW browser \in BOOLEAN
    PROVE  Input(proposal, browser) \in GateInputs
<1>1. /\ proposal.action \in Actions \cup {"injected"} /\ proposal.delay \in Int
      /\ proposal.target \in Rails \cup {"none"}
  <2>1. proposal.delay \in Int
    BY Bounds DEF Proposals
  <2>2. payment.rail \in Rails
    BY CycleFacts, Bounds
  <2>. QED
    <3>1. CASE proposal \in [action : (Actions \ {"morph"}) \cup {"injected"}, target : {"none"},
                             delay : Delays]
      BY <2>1, <3>1
    <3>2. CASE proposal \in [action : {"morph"}, target : {"upi_intent", payment.rail},
                             delay : Delays]
      <4>1. proposal.action = "morph" /\ proposal.target \in {"upi_intent", payment.rail}
        BY <3>2
      <4>2. "morph" \in Actions /\ "upi_intent" \in Rails
        BY Bounds DEF Actions, Executable
      <4>. QED
        BY <2>1, <2>2, <4>1, <4>2
    <3>. QED
      BY <3>1, <3>2 DEF Proposals
<1>. DEFINE m == [wait |-> IF caller = "explorer" THEN {Cooling - hours} ELSE {},
                  notice |-> IF notified THEN {hours} ELSE {},
                  attempts |-> attempts, halted |-> halted, category |-> payment.category]
            set == IF caller = "worker" /\ ~payment.recurring THEN {} ELSE {m}
            attempt == IF caller = "explorer" THEN attempts ELSE incident + 1
            available == {"card", "upi_intent"}
<1>2. m \in Mandates
  <2>1. Cooling - hours \in Int
    BY CycleFacts, Limits
  <2>. QED
    BY <2>1, CycleFacts DEF Mandates
<1>. HIDE DEF m
<1>3. set \subseteq Mandates
  BY <1>2
<1>4. attempt \in Int
  BY CycleFacts
<1>5. available \subseteq Rails
  BY Bounds
<1>6. payment.recurring \in BOOLEAN /\ payment.amount \in Int /\ payment.rail \in Rails \cup {"none"}
  BY CycleFacts, Bounds
<1>7. Input(proposal, browser) =
        [recurring |-> payment.recurring, amount |-> payment.amount, rail |-> payment.rail,
         attempt |-> attempt, session |-> browser, available |-> available, mandate |-> set,
         terminal |-> FALSE, confident |-> TRUE, recoverable |-> TRUE, foreign |-> FALSE,
         action |-> proposal.action, target |-> proposal.target, delay |-> proposal.delay]
  BY DEF Input, set, m, attempt, available
<1>. HIDE DEF set, attempt, available
<1>. QED
  BY <1>1, <1>3, <1>4, <1>5, <1>6, <1>7 DEF GateInputs

LEMMA InputIs ==
    ASSUME CycleInv, NEW proposal, NEW browser
    PROVE  /\ Input(proposal, browser).attempt =
                 IF caller = "explorer" THEN attempts ELSE incident + 1
           /\ \A m \in Input(proposal, browser).mandate : m.attempts = attempts
           /\ caller = "explorer" => \E m \in Input(proposal, browser).mandate : TRUE
<1>. DEFINE set == IF caller = "worker" /\ ~payment.recurring THEN {}
                   ELSE {[wait |-> IF caller = "explorer" THEN {Cooling - hours} ELSE {},
                          notice |-> IF notified THEN {hours} ELSE {},
                          attempts |-> attempts, halted |-> halted,
                          category |-> payment.category]}
<1>1. /\ Input(proposal, browser).attempt = IF caller = "explorer" THEN attempts ELSE incident + 1
      /\ Input(proposal, browser).mandate = set
  BY DEF Input
<1>2. \A m \in set : m.attempts = attempts
  OBVIOUS
<1>3. caller = "explorer" => \E m \in set : TRUE
  OBVIOUS
<1>. HIDE DEF set
<1>. QED
  BY <1>1, <1>2, <1>3

LEMMA CycleInitial == CycleInit => CycleInv
<1>. SUFFICES ASSUME CycleInit PROVE CycleInv
  OBVIOUS
<1>1. /\ caller \in {"explorer", "worker"} /\ payment \in Payments
      /\ hours \in HourBuckets /\ attempts = 0 /\ notified = FALSE /\ halted = FALSE
      /\ incident = -1 /\ presented = 0
  BY DEF CycleInit, Payments, Closed
<1>2. CycleTypeOK
  <2>1. 0 \in 0..CycleCap + 1 /\ -1 \in Closed..MaxAttempts /\ 0 \in 0..MaxPresented
    BY Limits, Bounds DEF Closed
  <2>. QED
    BY <1>1, <2>1 DEF CycleTypeOK
<1>3. ExplorerClaims
  BY <1>1, Limits DEF ExplorerClaims
<1>. QED
  BY <1>1, <1>2, <1>3 DEF CycleInv

\* The gate presents below the cap only, and asks for a halt at it only.
LEMMA Verdict ==
    ASSUME CycleInv, NEW proposal \in Proposals, NEW browser \in BOOLEAN, NEW backoff \in Backoffs
    PROVE  LET cmd == Decide(Input(proposal, browser), backoff)
           IN  /\ caller = "explorer" /\ cmd.action \in Executable => attempts < CycleCap
               /\ RequiresMandateHalt(cmd) => attempts >= CycleCap
               /\ cmd.preDebit \in BOOLEAN
               /\ cmd.attempt = IF caller = "explorer" THEN cmd.attempt
                                ELSE IF incident + 1 > MaxAttempts THEN MaxAttempts
                                ELSE Larger(incident + 1, 0)
<1>. DEFINE in == Input(proposal, browser)
            cmd == Decide(in, backoff)
<1>1. in \in GateInputs /\ backoff \in Int
  BY Askable, Bounds
<1>2. /\ in.attempt = IF caller = "explorer" THEN attempts ELSE incident + 1
      /\ \A m \in in.mandate : m.attempts = attempts
      /\ caller = "explorer" => \E m \in in.mandate : TRUE
  BY InputIs
<1>. HIDE DEF in
<1>3. Complies(in, cmd)
  BY <1>1, Compliant
<1>4. RequiresMandateHalt(cmd) => \E m \in in.mandate : m.attempts >= CycleCap
  BY <1>1, HaltIsEarned
<1>5. /\ cmd.preDebit \in BOOLEAN
      /\ cmd.attempt = IF in.attempt > MaxAttempts THEN MaxAttempts ELSE Larger(in.attempt, 0)
  BY <1>1, DecideIs, SettledIs, Fields
<1>. HIDE DEF cmd
<1>6. cmd.action \in Executable => \A m \in in.mandate : m.attempts < CycleCap
  BY <1>3 DEF Complies
<1>. QED
  BY <1>2, <1>4, <1>5, <1>6 DEF in, cmd

LEMMA ExplorerStep == CycleInv /\ ExplorerExecutes => CycleInv'
<1>. SUFFICES ASSUME CycleInv, ExplorerExecutes PROVE CycleInv'
  OBVIOUS
<1>1. PICK proposal \in Proposals, browser \in BOOLEAN, backoff \in Backoffs :
        LET cmd == Decide(Input(proposal, browser), backoff)
            executed == cmd.action \in Executable
        IN  /\ attempts' = IF executed THEN attempts + 1 ELSE attempts
            /\ hours' = IF executed THEN 0 ELSE hours
            /\ notified' = (notified \/ (executed /\ cmd.preDebit))
            /\ halted' = (halted \/ RequiresMandateHalt(cmd))
            /\ presented' = IF executed THEN presented + 1 ELSE presented
  BY DEF ExplorerExecutes
<1>. DEFINE cmd == Decide(Input(proposal, browser), backoff)
<1>2. /\ cmd.action \in Executable => attempts < CycleCap
      /\ RequiresMandateHalt(cmd) => attempts >= CycleCap
  BY Verdict DEF ExplorerExecutes
<1>3. RequiresMandateHalt(cmd) \in BOOLEAN
  BY DEF RequiresMandateHalt
<1>4. /\ attempts' = IF cmd.action \in Executable THEN attempts + 1 ELSE attempts
      /\ hours' = IF cmd.action \in Executable THEN 0 ELSE hours
      /\ notified' = (notified \/ (cmd.action \in Executable /\ cmd.preDebit))
      /\ halted' = (halted \/ RequiresMandateHalt(cmd))
      /\ presented' = IF cmd.action \in Executable THEN presented + 1 ELSE presented
  BY <1>1
<1>5. /\ caller = "explorer" /\ presented < MaxPresented
      /\ caller' = caller /\ payment' = payment /\ incident' = incident
  BY DEF ExplorerExecutes
<1>. HIDE DEF cmd
<1>6. attempts' \in 0..CycleCap /\ attempts' >= attempts /\ presented' \in 0..MaxPresented
      /\ presented' = attempts'
  BY <1>2, <1>4, <1>5, CycleFacts, Limits, Bounds DEF CycleInv, ExplorerClaims
<1>7. CycleTypeOK'
  BY <1>2, <1>3, <1>4, <1>5, <1>6, CycleFacts, Limits DEF CycleInv, CycleTypeOK
<1>8. ExplorerClaims'
  BY <1>2, <1>4, <1>5, <1>6, CycleFacts, Limits DEF CycleInv, ExplorerClaims
<1>. QED
  BY <1>5, <1>6, <1>7, <1>8 DEF CycleInv

LEMMA WorkerStep == CycleInv /\ WorkerPasses => CycleInv'
<1>. SUFFICES ASSUME CycleInv, WorkerPasses PROVE CycleInv'
  OBVIOUS
<1>1. PICK proposal \in Proposals, browser \in BOOLEAN, backoff \in Backoffs :
        LET cmd == Decide(Input(proposal, browser), backoff)
        IN  IF cmd.action \in Executable
            THEN /\ presented' = presented + 1
                 /\ \/ incident' = Closed
                    \/ cmd.attempt < MaxAttempts /\ incident' = incident + 1
                 /\ notified' = (notified \/ cmd.preDebit)
                 /\ hours' = IF cmd.preDebit THEN 0 ELSE hours
            ELSE /\ incident' = Closed
                 /\ UNCHANGED <<presented, notified, hours>>
  BY DEF WorkerPasses
<1>. DEFINE cmd == Decide(Input(proposal, browser), backoff)
<1>2. /\ cmd.preDebit \in BOOLEAN
      /\ cmd.attempt = IF incident + 1 > MaxAttempts THEN MaxAttempts ELSE Larger(incident + 1, 0)
  BY Verdict DEF WorkerPasses
<1>3. /\ presented' \in {presented, presented + 1} /\ hours' \in {hours, 0}
      /\ incident' = Closed \/ (cmd.attempt < MaxAttempts /\ incident' = incident + 1)
      /\ notified' = notified \/ notified' = (notified \/ cmd.preDebit)
  BY <1>1
<1>4. /\ caller = "worker" /\ incident # Closed /\ presented < MaxPresented
      /\ caller' = caller /\ payment' = payment /\ attempts' = attempts /\ halted' = halted
  BY DEF WorkerPasses
<1>. HIDE DEF cmd
<1>5. incident' \in Closed..MaxAttempts
  BY <1>2, <1>3, <1>4, CycleFacts, Limits DEF Larger
<1>6. presented' \in 0..MaxPresented
  BY <1>3, <1>4, CycleFacts, Bounds
<1>7. CycleTypeOK'
  BY <1>2, <1>3, <1>4, <1>5, <1>6, CycleFacts DEF CycleInv, CycleTypeOK
<1>. QED
  BY <1>4, <1>7 DEF CycleInv, ExplorerClaims

LEMMA CycleStep == CycleInv /\ [CycleNext]_cycleVars => CycleInv'
<1>. SUFFICES ASSUME CycleInv, [CycleNext]_cycleVars PROVE CycleInv'
  OBVIOUS
<1>. USE CycleFacts, Limits, Bounds DEF CycleInv, CycleTypeOK, ExplorerClaims
<1>1. CASE ExplorerExecutes
  BY <1>1, ExplorerStep
<1>2. CASE TimePasses
  BY <1>2 DEF TimePasses
<1>3. CASE NoticeDelivered
  BY <1>3 DEF NoticeDelivered
<1>4. CASE NewCycle
  <2>1. /\ caller' = caller /\ payment' = payment /\ halted' = halted /\ incident' = incident
        /\ presented' = 0
        /\ caller = "explorer" => attempts' = 0 /\ notified' = FALSE /\ hours' = 0 /\ ~halted
        /\ caller # "explorer" => attempts' = attempts /\ notified' = notified /\ hours' = hours
    BY <1>4 DEF NewCycle
  <2>2. CycleTypeOK'
    <3>1. 0 \in 0..CycleCap + 1 /\ 0 \in 0..MaxPresented
      BY Limits, Bounds
    <3>. QED
      BY <2>1, <3>1
  <2>3. ExplorerClaims'
    BY <2>1
  <2>. QED
    BY <2>1, <2>2, <2>3
<1>5. CASE IncidentOpens
  BY <1>5 DEF IncidentOpens, row
<1>6. CASE WorkerPasses
  BY <1>6, WorkerStep
<1>7. CASE OperatorHalts
  BY <1>7 DEF OperatorHalts
<1>8. CASE UNCHANGED cycleVars
  BY <1>8 DEF cycleVars, row
<1>. QED
  BY <1>1, <1>2, <1>3, <1>4, <1>5, <1>6, <1>7, <1>8 DEF CycleNext

LEMMA CycleAlways == CycleSpec => []CycleInv
  BY CycleInitial, CycleStep, PTL DEF CycleSpec

-----------------------------------------------------------------------------

\* The row of a mandate and the counts of its callers keep their types; the
\* attempts of a worker's incident never pass the ceiling.
THEOREM CycleTyped == CycleSpec => []CycleTypeOK
<1>1. CycleInv => CycleTypeOK
  BY DEF CycleInv
<1>. QED
  BY <1>1, CycleAlways, PTL

\* At every point of a mandate's life, every proposal of an advisor, under both
\* callers, is turned into a compliant command.
THEOREM AlwaysCompliant == CycleSpec => []EveryCommandComplies
<1>1. CycleInv => EveryCommandComplies
  BY Askable, Bounds, Compliant DEF EveryCommandComplies
<1>. QED
  BY <1>1, CycleAlways, PTL

\* The dimensions the explorer holds fixed (modelcheck/model.go) are sound to
\* leave out: a terminal code, a low confidence or an unrecoverable class only
\* takes transitions away.
THEOREM OnlyVetoes == CycleSpec => []PinnedInputsOnlyVeto
<1>1. CycleInv => PinnedInputsOnlyVeto
  <2>. SUFFICES ASSUME CycleInv,
                       NEW proposal \in Proposals, NEW browser \in BOOLEAN, NEW backoff \in Backoffs,
                       NEW other \in {[Input(proposal, browser) EXCEPT !.terminal = TRUE],
                                      [Input(proposal, browser) EXCEPT !.confident = FALSE],
                                      [Input(proposal, browser) EXCEPT !.recoverable = FALSE]}
                PROVE  Decide(other, backoff).action \notin Executable
    BY DEF PinnedInputsOnlyVeto
  <2>1. Input(proposal, browser) \in GateInputs
    BY Askable
  <2>2. other \in GateInputs /\ ~Chargeable(other)
    BY <2>1 DEF GateInputs, Chargeable
  <2>3. Decide(other, backoff).action = "abstain"
    BY <2>2, Bounds, Vetoing
  <2>. QED
    BY <2>3 DEF Executable
<1>. QED
  BY <1>1, CycleAlways, PTL

\* What the explorer claims of every state it reaches (modelcheck/bfs.go),
\* without its bounds: no attempt beyond the cap, no halt below it, no
\* future-dated row after an attempt, at most CycleCap presentations in a cycle.
THEOREM ExplorerClaimed == CycleSpec => []ExplorerClaims
<1>1. CycleInv => ExplorerClaims
  BY DEF CycleInv
<1>. QED
  BY <1>1, CycleAlways, PTL

\* All of it, as the run checks it.
THEOREM GateIsSound == CycleSpec => []GateSound
  BY CycleTyped, AlwaysCompliant, ExplorerClaimed, OnlyVetoes, PTL DEF GateSound

-----------------------------------------------------------------------------
(***************************************************************************)
(* The simulation (Simulation)                                             *)
(***************************************************************************)

IsSeq(s) == \E S : s \in Seq(S)

Times == {{}} \cup {{t} : t \in Nat}

MandateRows == [last : Times, next : Times, cycle : Nat, halted : BOOLEAN]

OutboxRows ==
    [inc : Incidents, phase : {"decide", "execute"}, attempt : Nat, at : Nat,
     deferrals : Nat, tries : Nat, leased : BOOLEAN, failed : BOOLEAN]

BreakerStates ==
    [state : {"closed", "open", "half"}, cooled : BOOLEAN, probes : 0..MaxProbes, ok : Nat, bad : Nat]

Monitors ==
    [debits : SUBSET [inc : Incidents, attempt : Nat, ok : BOOLEAN],
     recorded : SUBSET (Incidents \X Nat), notified : BOOLEAN, last : Times,
     breaches : SUBSET {"ATTEMPT_CAP"}]

\* Types, and what the types rest on: an incident nobody has touched has no attempt
\* counted, a mandate is there before its debits, and a row that is not parked has
\* a publication left.
IncidentsOK ==
    /\ incidents \in [Incidents -> [state : States, count : Nat]]
    /\ \A i \in Incidents : incidents[i].state \in {"none", "RECEIVED"} => incidents[i].count = 0

WorldOK ==
    /\ recurring \subseteq Incidents /\ due \in [Incidents -> Nat]
    /\ session \subseteq Incidents \ recurring /\ alive \subseteq Pollers /\ up \in BOOLEAN
    /\ now \in Nat /\ slips \in 0..MaxSlips

MandateOK ==
    /\ mandate \subseteq MandateRows /\ \A r, q \in mandate : r = q
    /\ (\E i \in recurring : incidents[i].state # "none") => mandate # {}

Publishable(entry) ==
    entry.tries <= MaxPublishAttempts /\ (entry.failed \/ entry.tries < MaxPublishAttempts)

OutboxOK == outbox \in Seq(OutboxRows) /\ \A entry \in Range(outbox) : Publishable(entry)

QueuesOK == IsSeq(ready) /\ IsSeq(hand) /\ IsSeq(retries)

WatchOK == breaker \in BreakerStates /\ monitor \in Monitors

FaultsOK == faults \in 0..MaxFaults

SimTyped ==
    IncidentsOK /\ WorldOK /\ MandateOK /\ OutboxOK /\ QueuesOK /\ WatchOK /\ FaultsOK

\* A debit has a slot of its own, which what disturbs the run moves by less than a
\* cooling window.  t is when the debit is due.
Slots == [inc : Incidents, attempt : Nat, at : Nat]

Near(s, t) == s.at <= t + faults /\ t <= s.at + slips /\ now <= s.at + slips

\* What holds of an execution under way: its number is the next one, or spent, and
\* a debit of the mandate has been announced and keeps to its slot.
Due(slots, i, attempt, t) ==
    /\ attempt <= incidents[i].count + 1
    /\ i \in recurring =>
         /\ monitor.notified
         /\ attempt > incidents[i].count =>
              \E s \in slots : s.inc = i /\ s.attempt = attempt /\ Near(s, t)

RowFine(slots, entry) ==
    entry.failed \/ /\ incidents[entry.inc].state # "none"
                    /\ entry.phase = "execute" => Due(slots, entry.inc, entry.attempt, entry.at)

MessageFine(slots, m) ==
    /\ m.inc \in Incidents /\ m.attempt \in Nat /\ m.deferrals \in Nat
    /\ m.phase \in {"decide", "execute"}
    /\ incidents[m.inc].state # "none"
    /\ m.phase = "execute" => Due(slots, m.inc, m.attempt, now)

TaskFine(slots, t) ==
    /\ t.stage \in {"ingest", "decide", "execute", "commit", "reconcile"} /\ t.ok \in BOOLEAN
    /\ t.msg.inc \in Incidents /\ t.msg.attempt \in Nat
    /\ t.stage # "ingest" => incidents[t.msg.inc].state # "none"
    /\ t.stage \in {"decide", "execute"} => MessageFine(slots, t.msg)
    /\ t.stage = "execute" => t.msg.phase = "execute"

Flying == Range(ready) \cup delivered \cup Range(hand)

Items(slots) ==
    /\ \A entry \in Range(outbox) : RowFine(slots, entry)
    /\ \A m \in Flying : MessageFine(slots, m)
    /\ \A t \in Range(retries) : TaskFine(slots, t)

\* Slots are a cooling window apart, and the mandate is reserved beyond them.
Plan(slots, top) ==
    /\ \A s, t \in slots : s = t \/ s.at + Cooling <= t.at \/ t.at + Cooling <= s.at
    /\ \A s \in slots : s.at + Cooling <= top
    /\ mandate = {} => top = 0
    /\ \A r \in mandate : /\ r.next = {} => top = 0
                          /\ \A n \in r.next : top <= n + faults

\* The tasks that record a debit.
Committing(t) == t.stage = "commit"
PendingDebit == \E t \in Range(retries) : Committing(t) /\ t.msg.inc \in recurring

LastDebits == UNION {r.last : r \in mandate}

\* A debit that took place, in its slot.
Took(slots, d) ==
    /\ d <= now
    /\ \E s \in slots : /\ s.attempt <= incidents[s.inc].count
                        /\ s.at <= d + faults /\ d <= s.at + slips

\* What the monitor saw, and what the mandate knows of it.
Money(slots) ==
    /\ \A d \in monitor.debits : d.attempt <= incidents[d.inc].count
    /\ \A d \in monitor.debits : d.ok =>
         \/ incidents[d.inc].state \in Terminal
         \/ \E t \in Range(retries) : Committing(t) /\ t.msg.inc = d.inc /\ t.ok
    /\ \A d \in monitor.last \cup LastDebits : Took(slots, d)
    /\ \A d \in monitor.last : d \in LastDebits \/ (d = now /\ PendingDebit)
    /\ PendingDebit => monitor.last = {now}

\* Once the workers have gone nothing is left that could be half-way.
Gone ==
    "worker" \notin alive =>
        /\ hand = <<>> /\ delivered = {}
        /\ \A i \in Incidents : incidents[i].state \in Terminal \cup {"none", "RECEIVED"}
        /\ \A t \in Range(retries) :
             t.stage \in {"decide", "execute", "commit"} => incidents[t.msg.inc].state \in Terminal

Holds(slots, top) == SimTyped /\ Gone /\ Items(slots) /\ Plan(slots, top) /\ Money(slots)

SimInv == \E slots \in SUBSET Slots, top \in Nat : Holds(slots, top)

-----------------------------------------------------------------------------
(* Sequences *)

LEMMA RangeAppend ==
    ASSUME NEW s, IsSeq(s), NEW e
    PROVE  IsSeq(Append(s, e)) /\ Range(Append(s, e)) = Range(s) \cup {e}
<1>1. PICK S : s \in Seq(S)
  BY DEF IsSeq
<1>2. s \in Seq(S \cup {e}) /\ Len(s) \in Nat /\ DOMAIN s = 1..Len(s)
  BY <1>1
<1>3. /\ Append(s, e) \in Seq(S \cup {e}) /\ Len(Append(s, e)) = Len(s) + 1
      /\ DOMAIN Append(s, e) = 1..(Len(s) + 1)
      /\ \A k \in 1..Len(s) : Append(s, e)[k] = s[k]
      /\ Append(s, e)[Len(s) + 1] = e
  BY <1>2
<1>4. Range(Append(s, e)) = Range(s) \cup {e}
  BY <1>2, <1>3 DEF Range
<1>. QED
  BY <1>3, <1>4 DEF IsSeq

LEMMA RangeTail ==
    ASSUME NEW s, IsSeq(s), s # <<>>
    PROVE  IsSeq(Tail(s)) /\ Range(s) = Range(Tail(s)) \cup {Head(s)}
<1>1. PICK S : s \in Seq(S)
  BY DEF IsSeq
<1>2. Len(s) \in Nat \ {0} /\ DOMAIN s = 1..Len(s)
  BY <1>1
<1>3. /\ Tail(s) \in Seq(S) /\ Len(Tail(s)) = Len(s) - 1
      /\ DOMAIN Tail(s) = 1..(Len(s) - 1)
      /\ \A k \in 1..(Len(s) - 1) : Tail(s)[k] = s[k + 1]
  BY <1>1, <1>2
<1>4. Head(s) = s[1]
  BY <1>1, <1>2
<1>5. ASSUME NEW x \in Range(s) PROVE x \in Range(Tail(s)) \cup {Head(s)}
  <2>1. PICK k \in 1..Len(s) : x = s[k]
    BY <1>2, <1>5 DEF Range
  <2>2. CASE k # 1
    <3>1. k - 1 \in 1..(Len(s) - 1) /\ (k - 1) + 1 = k
      BY <1>2, <2>2
    <3>. QED
      BY <1>3, <2>1, <3>1 DEF Range
  <2>. QED
    BY <1>4, <2>1, <2>2
<1>6. ASSUME NEW x \in Range(Tail(s)) PROVE x \in Range(s)
  <2>1. PICK k \in 1..(Len(s) - 1) : x = Tail(s)[k]
    BY <1>3, <1>6 DEF Range
  <2>2. k + 1 \in DOMAIN s /\ x = s[k + 1]
    BY <1>2, <1>3, <2>1
  <2>. QED
    BY <2>2 DEF Range
<1>7. Head(s) \in Range(s)
  BY <1>2, <1>4 DEF Range
<1>. QED
  BY <1>3, <1>5, <1>6, <1>7 DEF IsSeq

LEMMA RangeSmall ==
    ASSUME NEW e
    PROVE  /\ IsSeq(<<>>) /\ Range(<<>>) = {}
           /\ IsSeq(<<e>>) /\ Range(<<e>>) = {e}
           /\ IsSeq(<<e, e>>) /\ Range(<<e, e>>) = {e}
<1>1. <<>> \in Seq({e}) /\ <<e>> \in Seq({e}) /\ <<e, e>> \in Seq({e})
  OBVIOUS
<1>2. DOMAIN <<>> = {} /\ DOMAIN <<e>> = {1} /\ DOMAIN <<e, e>> = {1, 2}
  OBVIOUS
<1>3. Range(<<>>) = {} /\ Range(<<e>>) = {e} /\ Range(<<e, e>>) = {e}
  BY <1>2 DEF Range
<1>. QED
  BY <1>1, <1>3 DEF IsSeq

LEMMA RangeRemoved ==
    ASSUME NEW S, NEW s \in Seq(S), NEW k \in DOMAIN s
    PROVE  RemoveAt(s, k) \in Seq(S) /\ Range(RemoveAt(s, k)) \subseteq Range(s)
<1>1. k \in 1..Len(s) /\ Len(s) \in Nat
  OBVIOUS
<1>2. PICK a : a = SubSeq(s, 1, k - 1)
  OBVIOUS
<1>3. PICK b : b = SubSeq(s, k + 1, Len(s))
  OBVIOUS
<1>a. /\ a \in Seq(S) /\ Len(a) = k - 1
      /\ \A j \in 1..(k - 1) : a[j] = s[j]
  <2>1. 1 \in 1..(Len(s) + 1) /\ k - 1 \in (1 - 1)..Len(s)
    BY <1>1
  <2>2. /\ a \in Seq(S) /\ Len(a) = IF 1 <= k - 1 THEN (k - 1) - 1 + 1 ELSE 0
        /\ \A j \in 1..((k - 1) - 1 + 1) : a[j] = s[1 + j - 1]
    BY <1>2, <2>1, SubSeqProperties
  <2>. QED
    BY <1>1, <2>2
<1>b. /\ b \in Seq(S) /\ Len(b) = Len(s) - k
      /\ \A j \in 1..(Len(s) - k) : b[j] = s[k + j]
  <2>1. k + 1 \in 1..(Len(s) + 1) /\ Len(s) \in ((k + 1) - 1)..Len(s)
    BY <1>1
  <2>2. /\ b \in Seq(S) /\ Len(b) = IF k + 1 <= Len(s) THEN Len(s) - (k + 1) + 1 ELSE 0
        /\ \A j \in 1..(Len(s) - (k + 1) + 1) : b[j] = s[(k + 1) + j - 1]
    BY <1>3, <2>1, SubSeqProperties
  <2>3. Len(s) - (k + 1) + 1 = Len(s) - k
    BY <1>1
  <2>4. \A j \in 1..(Len(s) - k) : (k + 1) + j - 1 = k + j
    BY <1>1
  <2>. QED
    BY <1>1, <2>2, <2>3, <2>4
<1>c. RemoveAt(s, k) = a \o b
  BY <1>2, <1>3 DEF RemoveAt
<1>4. /\ a \o b \in Seq(S) /\ Len(a \o b) = Len(a) + Len(b)
      /\ \A j \in 1..(Len(a) + Len(b)) :
            (a \o b)[j] = IF j <= Len(a) THEN a[j] ELSE b[j - Len(a)]
  BY <1>a, <1>b, ConcatProperties
<1>5. ASSUME NEW j \in DOMAIN (a \o b) PROVE (a \o b)[j] \in Range(s)
  <2>1. j \in 1..(Len(s) - 1)
    BY <1>1, <1>a, <1>b, <1>4
  <2>2. CASE j <= k - 1
    <3>1. (a \o b)[j] = s[j] /\ j \in DOMAIN s
      <4>1. Len(a) = k - 1 /\ Len(b) = Len(s) - k
        BY <1>a, <1>b
      <4>2. j \in 1..(Len(a) + Len(b)) /\ j <= Len(a) /\ j \in 1..(k - 1)
        BY <1>1, <2>1, <2>2, <4>1
      <4>3. (a \o b)[j] = IF j <= Len(a) THEN a[j] ELSE b[j - Len(a)]
        BY <1>4, <4>2
      <4>4. a[j] = s[j] /\ j \in DOMAIN s
        BY <1>1, <1>a, <2>1, <4>2
      <4>. QED
        BY <4>2, <4>3, <4>4
    <3>. QED
      BY <3>1 DEF Range
  <2>3. CASE j > k - 1
    <3>1. (a \o b)[j] = s[j + 1] /\ j + 1 \in DOMAIN s
      <4>1. j - (k - 1) \in 1..(Len(s) - k) /\ k + (j - (k - 1)) = j + 1
        BY <1>1, <2>1, <2>3
      <4>2. (a \o b)[j] = b[j - (k - 1)]
        <5>1. Len(a) = k - 1 /\ Len(b) = Len(s) - k
          BY <1>a, <1>b
        <5>2. j \in 1..(Len(a) + Len(b)) /\ ~(j <= Len(a))
          BY <1>1, <2>1, <2>3, <5>1
        <5>3. (a \o b)[j] = IF j <= Len(a) THEN a[j] ELSE b[j - Len(a)]
          BY <1>4, <5>2
        <5>. QED
          BY <5>1, <5>2, <5>3
      <4>3. b[j - (k - 1)] = s[k + (j - (k - 1))]
        BY <1>b, <4>1
      <4>4. j + 1 \in DOMAIN s
        BY <1>1, <2>1
      <4>. QED
        BY <4>1, <4>2, <4>3, <4>4
    <3>. QED
      BY <3>1 DEF Range
  <2>. QED
    BY <1>1, <2>1, <2>2, <2>3
<1>. QED
  BY <1>4, <1>5, <1>c DEF Range

LEMMA RangeExcept ==
    ASSUME NEW S, NEW s \in Seq(S), NEW k \in DOMAIN s, NEW e \in S
    PROVE  /\ [s EXCEPT ![k] = e] \in Seq(S)
           /\ Range([s EXCEPT ![k] = e]) \subseteq Range(s) \cup {e}
<1>1. [s EXCEPT ![k] = e] \in Seq(S)
  OBVIOUS
<1>2. DOMAIN [s EXCEPT ![k] = e] = DOMAIN s
  OBVIOUS
<1>3. \A j \in DOMAIN s : [s EXCEPT ![k] = e][j] = IF j = k THEN e ELSE s[j]
  OBVIOUS
<1>. QED
  BY <1>1, <1>2, <1>3 DEF Range

-----------------------------------------------------------------------------
(* What a step within a tick keeps *)

Calm ==
    /\ now' = now /\ slips' = slips /\ recurring' = recurring
    /\ faults' \in Nat /\ faults <= faults'
    /\ \A i \in Incidents : /\ incidents'[i].count \in Nat
                            /\ incidents[i].count <= incidents'[i].count
                            /\ incidents[i].state # "none" => incidents'[i].state # "none"
    /\ monitor.notified => monitor'.notified

LEMMA Numbers ==
    ASSUME SimTyped
    PROVE  /\ now \in Nat /\ slips \in Nat /\ faults \in Nat
           /\ MaxSlips \in Nat /\ MaxFaults \in Nat /\ Cooling \in Nat \ {0}
           /\ slips <= MaxSlips /\ faults <= MaxFaults /\ MaxSlips + MaxFaults < Cooling
  BY SimulationAssumption, GateAssumption DEF SimTyped, WorldOK, FaultsOK

LEMMA Counts ==
    ASSUME SimTyped, NEW i \in Incidents
    PROVE  /\ incidents[i] \in [state : States, count : Nat]
           /\ incidents[i].count \in Nat /\ incidents[i].state \in States
  BY DEF SimTyped, IncidentsOK

LEMMA Outboxed ==
    ASSUME SimTyped, NEW entry \in Range(outbox)
    PROVE  /\ entry \in OutboxRows
           /\ entry.inc \in Incidents /\ entry.attempt \in Nat /\ entry.at \in Nat
           /\ entry.deferrals \in Nat /\ entry.tries \in Nat
<1>1. entry \in OutboxRows
  BY DEF SimTyped, OutboxOK, Range
<1>. QED
  BY <1>1 DEF OutboxRows

LEMMA Kept ==
    ASSUME SimTyped
    PROVE  /\ \A r \in mandate : /\ r \in MandateRows /\ r.last \subseteq Nat /\ r.next \subseteq Nat
                                 /\ r.last \in Times /\ r.next \in Times /\ r.cycle \in Nat
                                 /\ r.halted \in BOOLEAN
           /\ LastDebits \subseteq Nat
           /\ \A t, u \in LastDebits : t = u
<1>1. \A ts \in Times : ts \subseteq Nat /\ \A t, u \in ts : t = u
  BY DEF Times
<1>2. \A r \in mandate : /\ r \in MandateRows /\ r.last \in Times /\ r.next \in Times
                         /\ r.cycle \in Nat /\ r.halted \in BOOLEAN
  BY DEF SimTyped, MandateOK, MandateRows
<1>3. \A r, q \in mandate : r = q
  BY DEF SimTyped, MandateOK
<1>. QED
  BY <1>1, <1>2, <1>3 DEF LastDebits

LEMMA Watched ==
    ASSUME SimTyped
    PROVE  /\ monitor.last \subseteq Nat /\ monitor.last \in Times
           /\ monitor.notified \in BOOLEAN /\ monitor.breaches \subseteq {"ATTEMPT_CAP"}
           /\ \A d \in monitor.debits : /\ d.inc \in Incidents /\ d.attempt \in Nat /\ d.ok \in BOOLEAN
           /\ \A t, u \in monitor.last : t = u
<1>1. \A ts \in Times : ts \subseteq Nat /\ \A t, u \in ts : t = u
  BY DEF Times
<1>2. /\ monitor.debits \subseteq [inc : Incidents, attempt : Nat, ok : BOOLEAN]
      /\ monitor.notified \in BOOLEAN /\ monitor.last \in Times
      /\ monitor.breaches \subseteq {"ATTEMPT_CAP"}
  BY DEF SimTyped, WatchOK, Monitors
<1>3. \A d \in monitor.debits : /\ d.inc \in Incidents /\ d.attempt \in Nat /\ d.ok \in BOOLEAN
  BY <1>2
<1>. QED
  BY <1>1, <1>2, <1>3

LEMMA CalmCounts ==
    ASSUME SimTyped, Calm, NEW i \in Incidents
    PROVE  /\ incidents[i].count \in Nat /\ incidents'[i].count \in Nat
           /\ incidents[i].count <= incidents'[i].count
  BY Counts DEF Calm

LEMMA DueKeeps ==
    ASSUME SimTyped, Calm, NEW slots \in SUBSET Slots, NEW more \in SUBSET Slots, slots \subseteq more,
           NEW i \in Incidents, NEW a \in Nat, NEW t \in Nat, Due(slots, i, a, t)
    PROVE  Due(more, i, a, t)'
<1>1. ASSUME NEW s \in slots, Near(s, t) PROVE Near(s, t)'
  BY <1>1, Numbers DEF Near, Calm, Slots
<1>2. ASSUME i \in recurring', a > incidents'[i].count
      PROVE  \E s \in more : s.inc = i /\ s.attempt = a /\ Near(s, t)'
  <2>1. a > incidents[i].count /\ i \in recurring
    <3>1. i \in recurring
      BY <1>2 DEF Calm
    <3>. QED
      BY <1>2, <3>1, CalmCounts
  <2>2. PICK s \in slots : s.inc = i /\ s.attempt = a /\ Near(s, t)
    BY <2>1 DEF Due
  <2>. QED
    BY <1>1, <2>2
<1>3. a <= incidents'[i].count + 1
  <2>1. a <= incidents[i].count + 1
    BY DEF Due
  <2>. QED
    BY <2>1, CalmCounts
<1>4. i \in recurring' => monitor'.notified
  BY DEF Due, Calm
<1>. QED
  BY <1>2, <1>3, <1>4 DEF Due

LEMMA RowKeeps ==
    ASSUME SimTyped, Calm, NEW slots \in SUBSET Slots, NEW more \in SUBSET Slots, slots \subseteq more,
           NEW entry \in OutboxRows, RowFine(slots, entry)
    PROVE  RowFine(more, entry)'
<1>1. entry.inc \in Incidents /\ entry.attempt \in Nat /\ entry.at \in Nat
  BY DEF OutboxRows
<1>2. CASE entry.failed
  BY <1>2 DEF RowFine
<1>3. CASE ~entry.failed
  <2>1. incidents'[entry.inc].state # "none"
    BY <1>1, <1>3 DEF RowFine, Calm
  <2>2. entry.phase = "execute" => Due(more, entry.inc, entry.attempt, entry.at)'
    BY <1>1, <1>3, DueKeeps DEF RowFine
  <2>. QED
    BY <2>1, <2>2 DEF RowFine
<1>. QED
  BY <1>2, <1>3

LEMMA MessageKeeps ==
    ASSUME SimTyped, Calm, NEW slots \in SUBSET Slots, NEW more \in SUBSET Slots, slots \subseteq more,
           NEW m, MessageFine(slots, m)
    PROVE  MessageFine(more, m)'
<1>1. PICK t \in Nat : t = now
  BY Numbers
<1>2. m.inc \in Incidents /\ m.attempt \in Nat
  BY DEF MessageFine
<1>3. m.phase = "execute" => Due(more, m.inc, m.attempt, t)'
  <2>. SUFFICES ASSUME m.phase = "execute" PROVE Due(more, m.inc, m.attempt, t)'
    OBVIOUS
  <2>1. Due(slots, m.inc, m.attempt, t)
    BY <1>1 DEF MessageFine
  <2>. QED
    BY <1>2, <2>1, DueKeeps
<1>4. t = now'
  BY <1>1 DEF Calm
<1>5. m.phase = "execute" => Due(more, m.inc, m.attempt, now)'
  BY <1>3, <1>4 DEF Due, Near
<1>. QED
  BY <1>2, <1>5 DEF MessageFine, Calm

LEMMA TaskKeeps ==
    ASSUME SimTyped, Calm, NEW slots \in SUBSET Slots, NEW more \in SUBSET Slots, slots \subseteq more,
           NEW t, TaskFine(slots, t)
    PROVE  TaskFine(more, t)'
<1>1. t.stage \in {"decide", "execute"} => MessageFine(more, t.msg)'
  BY MessageKeeps DEF TaskFine
<1>2. t.stage # "ingest" => incidents'[t.msg.inc].state # "none"
  BY DEF TaskFine, Calm
<1>. QED
  BY <1>1, <1>2 DEF TaskFine

\* What is new is fine; the rest was.
LEMMA ItemsKeep ==
    ASSUME SimTyped, Calm, NEW slots \in SUBSET Slots, NEW more \in SUBSET Slots, slots \subseteq more,
           Items(slots),
           \A entry \in Range(outbox') : entry \in Range(outbox) \/ RowFine(more, entry)',
           \A m \in Flying' : m \in Flying \/ MessageFine(more, m)',
           \A t \in Range(retries') : t \in Range(retries) \/ TaskFine(more, t)'
    PROVE  Items(more)'
<1>1. \A entry \in Range(outbox) : entry \in OutboxRows
  BY Outboxed
<1>2. \A entry \in Range(outbox') : RowFine(more, entry)'
  BY <1>1, RowKeeps DEF Items
<1>3. \A m \in Flying' : MessageFine(more, m)'
  BY MessageKeeps DEF Items
<1>4. \A t \in Range(retries') : TaskFine(more, t)'
  BY TaskKeeps DEF Items
<1>. QED
  BY <1>2, <1>3, <1>4 DEF Items

LEMMA MoneyKeeps ==
    ASSUME SimTyped, Calm, NEW slots \in SUBSET Slots, NEW more \in SUBSET Slots, slots \subseteq more,
           Money(slots), monitor'.debits = monitor.debits, monitor'.last = monitor.last,
           LastDebits' = LastDebits,
           \A i \in Incidents : incidents[i].state \in Terminal => incidents'[i].state \in Terminal,
           \A t : Committing(t) => (t \in Range(retries') <=> t \in Range(retries))
    PROVE  Money(more)'
<1>1. \A d \in monitor.debits : d.inc \in Incidents /\ d.attempt \in Nat
  BY Watched
<1>2. \A d \in monitor'.debits : d.attempt <= incidents'[d.inc].count
  <2>. SUFFICES ASSUME NEW d \in monitor.debits PROVE d.attempt <= incidents'[d.inc].count
    OBVIOUS
  <2>1. d.attempt <= incidents[d.inc].count
    BY DEF Money
  <2>. QED
    BY <1>1, <2>1, CalmCounts
<1>3. \A d \in monitor'.debits : d.ok =>
         \/ incidents'[d.inc].state \in Terminal
         \/ \E t \in Range(retries') : Committing(t) /\ t.msg.inc = d.inc /\ t.ok
  BY <1>1 DEF Money
<1>4. ASSUME NEW d \in Nat, Took(slots, d) PROVE Took(more, d)'
  <2>1. PICK s \in slots : /\ s.attempt <= incidents[s.inc].count
                           /\ s.at <= d + faults /\ d <= s.at + slips
    BY <1>4 DEF Took
  <2>2. s.inc \in Incidents /\ s.at \in Nat /\ s.attempt \in Nat /\ s \in more
    BY DEF Slots
  <2>3. s.attempt <= incidents'[s.inc].count
    BY <2>1, <2>2, CalmCounts
  <2>4. s.at <= d + faults' /\ d <= s.at + slips'
    BY <2>1, <2>2, Numbers DEF Calm
  <2>. QED
    BY <1>4, <2>2, <2>3, <2>4 DEF Took, Calm
<1>5. monitor.last \cup LastDebits \subseteq Nat
  BY Kept, Watched
<1>6. \A d \in monitor'.last \cup LastDebits' : Took(more, d)'
  BY <1>4, <1>5 DEF Money
<1>7. PendingDebit' <=> PendingDebit
  BY DEF PendingDebit, Committing, Calm
<1>8. now' = now
  BY DEF Calm
<1>. QED
  BY <1>2, <1>3, <1>6, <1>7, <1>8 DEF Money

LEMMA PlanKeeps ==
    ASSUME SimTyped, Calm, NEW slots \in SUBSET Slots, NEW top \in Nat, Plan(slots, top),
           mandate' = {} => mandate = {},
           \A r \in mandate' : \E q \in mandate : r.next = q.next
    PROVE  Plan(slots, top)'
<1>1. ASSUME NEW r \in mandate' PROVE /\ r.next = {} => top = 0
                                     /\ \A n \in r.next : top <= n + faults'
  <2>1. PICK q \in mandate : r.next = q.next
    OBVIOUS
  <2>2. q.next \subseteq Nat
    BY Kept
  <2>. QED
    BY <2>1, <2>2, Numbers DEF Plan, Calm
<1>. QED
  BY <1>1 DEF Plan

LEMMA StepHolds ==
    ASSUME NEW slots \in SUBSET Slots, NEW top \in Nat, Holds(slots, top),
           NEW more \in SUBSET Slots, NEW over \in Nat, slots \subseteq more,
           Calm, SimTyped', Gone', Plan(more, over)', Money(more)',
           \A entry \in Range(outbox') : entry \in Range(outbox) \/ RowFine(more, entry)',
           \A m \in Flying' : m \in Flying \/ MessageFine(more, m)',
           \A t \in Range(retries') : t \in Range(retries) \/ TaskFine(more, t)'
    PROVE  Holds(more, over)'
<1>1. SimTyped /\ Items(slots)
  BY DEF Holds
<1>2. Items(more)'
  BY <1>1, ItemsKeep
<1>. QED
  BY <1>2 DEF Holds

\* A step that touches neither the incidents nor the mandate nor what the monitor
\* has seen.
LEMMA QuietHolds ==
    ASSUME NEW slots \in SUBSET Slots, NEW top \in Nat, Holds(slots, top),
           UNCHANGED <<incidents, mandate, monitor, recurring, now, slips>>,
           WorldOK', FaultsOK', faults <= faults', OutboxOK', QueuesOK', breaker' \in BreakerStates,
           Gone',
           \A t : Committing(t) => (t \in Range(retries') <=> t \in Range(retries)),
           \A entry \in Range(outbox') : entry \in Range(outbox) \/ RowFine(slots, entry),
           \A m \in Flying' : m \in Flying \/ MessageFine(slots, m),
           \A t \in Range(retries') : t \in Range(retries) \/ TaskFine(slots, t)
    PROVE  Holds(slots, top)'
<1>1. SimTyped /\ Plan(slots, top) /\ Money(slots)
  BY DEF Holds
<1>2. SimTyped'
  <2>1. IncidentsOK' /\ MandateOK' /\ WatchOK'
    BY <1>1 DEF SimTyped, IncidentsOK, MandateOK, WatchOK
  <2>. QED
    BY <2>1 DEF SimTyped
<1>3. Calm
  <2>1. \A i \in Incidents : incidents'[i].count \in Nat /\ incidents[i].count <= incidents'[i].count
    BY <1>1, Counts
  <2>2. faults' \in Nat
    BY Numbers, <1>2, SimulationAssumption DEF FaultsOK
  <2>. QED
    BY <2>1, <2>2 DEF Calm
<1>4. Plan(slots, top)'
  BY <1>1, <1>3, PlanKeeps
<1>5. LastDebits' = LastDebits
  BY DEF LastDebits
<1>6. Money(slots)'
  BY <1>1, <1>3, <1>5, MoneyKeeps
<1>7. \A entry \in Range(outbox') : entry \in Range(outbox) \/ RowFine(slots, entry)'
  <2>1. \A entry \in Range(outbox') : entry \in OutboxRows
    BY DEF OutboxOK, Range
  <2>. QED
    BY <1>1, <1>3, <2>1, RowKeeps
<1>8. \A m \in Flying' : m \in Flying \/ MessageFine(slots, m)'
  BY <1>1, <1>3, MessageKeeps
<1>9. \A t \in Range(retries') : t \in Range(retries) \/ TaskFine(slots, t)'
  BY <1>1, <1>3, TaskKeeps
<1>. QED
  BY <1>2, <1>3, <1>4, <1>6, <1>7, <1>8, <1>9, StepHolds

-----------------------------------------------------------------------------
(* The injector and the queue *)

LEMMA CountedIs ==
    ASSUME FaultsOK, NEW points, NEW stop \in Stop(points), Counted(stop)
    PROVE  FaultsOK' /\ faults <= faults'
  BY SimulationAssumption DEF FaultsOK, Stop, Counted

LEMMA CountedBothIs ==
    ASSUME FaultsOK, NEW stop, NEW other \in BOOLEAN, CountedBoth(stop, other)
    PROVE  FaultsOK' /\ faults <= faults' /\ (other => faults + 1 <= faults')
<1>1. Cardinality({stop} \ {"none"}) \in {0, 1}
  <2>1. CASE stop = "none"
    <3>1. {stop} \ {"none"} = {}
      BY <2>1
    <3>. QED
      BY <3>1, FS_EmptySet
  <2>2. CASE stop # "none"
    <3>1. {stop} \ {"none"} = {stop}
      BY <2>2
    <3>. QED
      BY <3>1, FS_Singleton
  <2>. QED
    BY <2>1, <2>2
<1>. DEFINE struck == Cardinality({stop} \ {"none"})
<1>2. struck \in {0, 1} /\ faults' = faults + struck + (IF other THEN 1 ELSE 0) /\ faults' <= MaxFaults
  BY <1>1 DEF CountedBoth
<1>. HIDE DEF struck
<1>. QED
  BY <1>2, SimulationAssumption DEF FaultsOK

LEMMA HitIs ==
    ASSUME FaultsOK, NEW kind, Hit(kind) \/ Spared
    PROVE  FaultsOK' /\ faults <= faults'
  BY SimulationAssumption DEF FaultsOK, Hit, Spared

LEMMA AgainIs ==
    ASSUME NEW waiting, IsSeq(waiting), NEW task, NEW stop, Again(stop, task, waiting)
    PROVE  /\ IsSeq(retries')
           /\ Range(retries') = Range(waiting) \cup (IF stop = "none" THEN {} ELSE {task})
  BY RangeAppend DEF Again

LEMMA ConcludeIs ==
    ASSUME NEW waiting, IsSeq(waiting), NEW task, NEW stop, Conclude(stop, task, waiting)
    PROVE  /\ ready' = ready /\ up' = up /\ delivered' \subseteq delivered
           /\ IsSeq(retries')
           /\ Range(retries') = Range(waiting) \cup (IF stop = "none" THEN {} ELSE {task})
  BY AgainIs DEF Conclude, Ack, queueVars

-----------------------------------------------------------------------------
(* Pollers that move what there is *)

LEMMA ExpireHolds ==
    ASSUME NEW slots \in SUBSET Slots, NEW top \in Nat, Holds(slots, top),
           NEW i \in Incidents, ExpireSession(i)
    PROVE  Holds(slots, top)'
<1>1. SimTyped /\ Gone
  BY DEF Holds
<1>2. UNCHANGED <<incidents, mandate, outbox, ready, delivered, up, hand, retries, breaker, faults,
                  monitor, recurring, due, alive, now, slips>>
  BY DEF ExpireSession, storeVars, queueVars
<1>3. WorldOK' /\ FaultsOK' /\ OutboxOK' /\ QueuesOK' /\ breaker' \in BreakerStates
  BY <1>1, <1>2 DEF SimTyped, WorldOK, FaultsOK, OutboxOK, QueuesOK, WatchOK, ExpireSession
<1>4. Gone' /\ Flying' = Flying
  BY <1>1, <1>2 DEF Gone, Flying
<1>5. faults <= faults'
  BY <1>1, <1>2, Numbers
<1>. QED
  BY <1>2, <1>3, <1>4, <1>5, QuietHolds

LEMMA OutageEndsHolds ==
    ASSUME NEW slots \in SUBSET Slots, NEW top \in Nat, Holds(slots, top), OutageEnds
    PROVE  Holds(slots, top)'
<1>1. SimTyped /\ Gone
  BY DEF Holds
<1>2. UNCHANGED <<incidents, mandate, outbox, ready, delivered, hand, retries, breaker, faults,
                  monitor, recurring, due, session, alive, now, slips>> /\ up' = TRUE
  BY DEF OutageEnds, storeVars, worldVars
<1>3. WorldOK' /\ FaultsOK' /\ OutboxOK' /\ QueuesOK' /\ breaker' \in BreakerStates
  BY <1>1, <1>2 DEF SimTyped, WorldOK, FaultsOK, OutboxOK, QueuesOK, WatchOK
<1>4. Gone' /\ Flying' = Flying
  BY <1>1, <1>2 DEF Gone, Flying
<1>5. faults <= faults'
  BY <1>1, <1>2, Numbers
<1>. QED
  BY <1>2, <1>3, <1>4, <1>5, QuietHolds

LEMMA CoolHolds ==
    ASSUME NEW slots \in SUBSET Slots, NEW top \in Nat, Holds(slots, top), Cool
    PROVE  Holds(slots, top)'
<1>1. SimTyped /\ Gone
  BY DEF Holds
<1>2. UNCHANGED <<incidents, mandate, outbox, ready, delivered, up, hand, retries, faults,
                  monitor, recurring, due, session, alive, now, slips>>
  BY DEF Cool, storeVars, queueVars, worldVars
<1>3. WorldOK' /\ FaultsOK' /\ OutboxOK' /\ QueuesOK' /\ breaker' \in BreakerStates
  BY <1>1, <1>2 DEF SimTyped, WorldOK, FaultsOK, OutboxOK, QueuesOK, WatchOK, Cool, BreakerStates
<1>4. Gone' /\ Flying' = Flying
  BY <1>1, <1>2 DEF Gone, Flying
<1>5. faults <= faults'
  BY <1>1, <1>2, Numbers
<1>. QED
  BY <1>2, <1>3, <1>4, <1>5, QuietHolds

\* A poller leaves when everything is closed or has not begun.
LEMMA LeaveHolds ==
    ASSUME NEW slots \in SUBSET Slots, NEW top \in Nat, Holds(slots, top),
           NEW p \in Pollers, Leave(p)
    PROVE  Holds(slots, top)'
<1>1. SimTyped /\ Gone /\ Items(slots)
  BY DEF Holds
<1>2. UNCHANGED <<incidents, mandate, outbox, ready, delivered, up, hand, retries, breaker, faults,
                  monitor, recurring, due, session, now, slips>>
  BY DEF Leave, storeVars, queueVars
<1>3. WorldOK' /\ FaultsOK' /\ OutboxOK' /\ QueuesOK' /\ breaker' \in BreakerStates
  BY <1>1, <1>2 DEF SimTyped, WorldOK, FaultsOK, OutboxOK, QueuesOK, WatchOK, Leave
<1>4. Gone'
  <2>1. hand' = <<>> /\ delivered' = {}
    BY <1>2 DEF Leave, Quiesced
  <2>2. \A i \in Incidents : incidents'[i].state \in Terminal \cup {"none"}
    BY <1>2 DEF Leave, Quiesced
  <2>3. \A t \in Range(retries') :
           t.stage \in {"decide", "execute", "commit"} => incidents'[t.msg.inc].state \in Terminal
    BY <1>1, <1>2, <2>2 DEF Items, TaskFine
  <2>. QED
    BY <2>1, <2>2, <2>3 DEF Gone
<1>5. Flying' = Flying
  BY <1>2 DEF Flying
<1>6. faults <= faults'
  BY <1>1, <1>2, Numbers
<1>. QED
  BY <1>2, <1>3, <1>4, <1>5, <1>6, QuietHolds

LEMMA ConsumeHolds ==
    ASSUME NEW slots \in SUBSET Slots, NEW top \in Nat, Holds(slots, top), Consume
    PROVE  Holds(slots, top)'
<1>1. SimTyped /\ IsSeq(ready) /\ ready # <<>>
  BY DEF Holds, SimTyped, QueuesOK, Consume
<1>2. UNCHANGED <<incidents, mandate, outbox, up, retries, breaker, monitor, recurring, due, session,
                  alive, now, slips>>
  BY DEF Consume, storeVars, worldVars
<1>3. IsSeq(Tail(ready)) /\ Range(ready) = Range(Tail(ready)) \cup {Head(ready)}
  BY <1>1, RangeTail
<1>4. IsSeq(hand') /\ Range(hand') = {Head(ready)}
  BY RangeSmall DEF Consume
<1>5. Flying' \subseteq Flying
  <2>1. ready' = Tail(ready) /\ delivered' = delivered \cup {Head(ready)}
    BY DEF Consume
  <2>. QED
    BY <1>3, <1>4, <2>1 DEF Flying
<1>6. FaultsOK' /\ faults <= faults'
  BY <1>1, HitIs DEF Consume, SimTyped
<1>7. WorldOK' /\ OutboxOK' /\ QueuesOK' /\ breaker' \in BreakerStates
  <2>1. ready' = Tail(ready)
    BY DEF Consume
  <2>2. QueuesOK'
    BY <1>1, <1>2, <1>3, <1>4, <2>1 DEF SimTyped, QueuesOK
  <2>. QED
    BY <1>1, <1>2, <2>2 DEF SimTyped, WorldOK, OutboxOK, WatchOK
<1>8. Gone'
  BY <1>2 DEF Gone, Consume
<1>. QED
  BY <1>2, <1>5, <1>6, <1>7, <1>8, QuietHolds

LEMMA ReclaimHolds ==
    ASSUME NEW slots \in SUBSET Slots, NEW top \in Nat, Holds(slots, top), Reclaim
    PROVE  Holds(slots, top)'
<1>1. SimTyped /\ Gone
  BY DEF Holds
<1>2. UNCHANGED <<incidents, mandate, outbox, ready, delivered, up, retries, breaker, faults, monitor,
                  recurring, due, session, alive, now, slips>>
  BY DEF Reclaim, storeVars, queueVars, worldVars
<1>3. PICK m \in delivered : hand' = <<m>>
  BY DEF Reclaim
<1>4. IsSeq(hand') /\ Range(hand') = {m}
  BY <1>3, RangeSmall
<1>5. Flying' \subseteq Flying
  BY <1>2, <1>3, <1>4 DEF Flying
<1>6. FaultsOK' /\ faults <= faults'
  BY <1>1, <1>2, Numbers DEF SimTyped, FaultsOK
<1>7. WorldOK' /\ OutboxOK' /\ QueuesOK' /\ breaker' \in BreakerStates
  BY <1>1, <1>2, <1>4 DEF SimTyped, WorldOK, OutboxOK, QueuesOK, WatchOK
<1>8. Gone'
  BY <1>1, <1>2, <1>3 DEF Gone
<1>. QED
  BY <1>2, <1>5, <1>6, <1>7, <1>8, QuietHolds

-----------------------------------------------------------------------------
(* The relay, and what else moves rows *)

\* A row that differs from a fine one in its claim, its charges, or, if no debit of
\* the mandate, its time.
LEMMA RowLike ==
    ASSUME NEW slots \in SUBSET Slots, NEW e, NEW f, RowFine(slots, e), e.failed => f.failed,
           f.inc = e.inc, f.phase = e.phase, f.attempt = e.attempt,
           f.at = e.at \/ e.inc \notin recurring
    PROVE  RowFine(slots, f)
<1>1. CASE f.failed
  BY <1>1 DEF RowFine
<1>2. CASE ~f.failed
  <2>1. incidents[e.inc].state # "none" /\ (e.phase = "execute" => Due(slots, e.inc, e.attempt, e.at))
    BY <1>2 DEF RowFine
  <2>2. e.phase = "execute" => Due(slots, e.inc, e.attempt, f.at)
    BY <2>1 DEF Due
  <2>. QED
    BY <2>1, <2>2 DEF RowFine
<1>. QED
  BY <1>1, <1>2

LEMMA RowsOf ==
    ASSUME SimTyped, NEW k \in DOMAIN outbox
    PROVE  outbox[k] \in Range(outbox) /\ outbox[k] \in OutboxRows /\ Publishable(outbox[k])
  BY DEF SimTyped, OutboxOK, Range

\* What the relay may publish, a worker may handle at once.
LEMMA MessageIs ==
    ASSUME NEW slots \in SUBSET Slots, SimTyped, Items(slots), NEW k \in DOMAIN outbox, Claimable(k)
    PROVE  MessageFine(slots, Message(outbox[k]))
<1>. DEFINE e == outbox[k]
            m == Message(outbox[k])
<1>1. e \in Range(outbox) /\ e \in OutboxRows
  BY RowsOf
<1>2. e.inc \in Incidents /\ e.attempt \in Nat /\ e.at \in Nat /\ e.deferrals \in Nat
      /\ e.phase \in {"decide", "execute"}
  BY <1>1 DEF OutboxRows
<1>3. ~e.failed /\ e.at <= now
  BY DEF Claimable
<1>4. incidents[e.inc].state # "none" /\ (e.phase = "execute" => Due(slots, e.inc, e.attempt, e.at))
  BY <1>1, <1>3 DEF Items, RowFine
<1>5. m.inc = e.inc /\ m.phase = e.phase /\ m.attempt = e.attempt /\ m.deferrals = e.deferrals
  BY DEF Message
<1>. HIDE DEF e, m
<1>6. ASSUME NEW s \in slots, Near(s, e.at) PROVE Near(s, now)
  BY <1>2, <1>3, <1>6, Numbers DEF Near, Slots
<1>7. e.phase = "execute" => Due(slots, e.inc, e.attempt, now)
  BY <1>4, <1>6 DEF Due
<1>8. MessageFine(slots, m)
  BY <1>2, <1>4, <1>5, <1>7 DEF MessageFine
<1>. QED
  BY <1>8 DEF m

\* Rows that change in place.
LEMMA RowChanged ==
    ASSUME SimTyped, NEW slots \in SUBSET Slots, Items(slots), NEW k \in DOMAIN outbox,
           NEW e \in OutboxRows, Publishable(e), RowFine(slots, e),
           outbox' = [outbox EXCEPT ![k] = e]
    PROVE  OutboxOK' /\ \A f \in Range(outbox') : f \in Range(outbox) \/ RowFine(slots, f)
<1>1. outbox \in Seq(OutboxRows) /\ \A f \in Range(outbox) : Publishable(f)
  BY DEF SimTyped, OutboxOK
<1>2. outbox' \in Seq(OutboxRows) /\ Range(outbox') \subseteq Range(outbox) \cup {e}
  BY <1>1, RangeExcept
<1>. QED
  BY <1>1, <1>2 DEF OutboxOK, Publishable

LEMMA RowGone ==
    ASSUME SimTyped, NEW k \in DOMAIN outbox, outbox' = RemoveAt(outbox, k)
    PROVE  OutboxOK' /\ Range(outbox') \subseteq Range(outbox)
<1>1. outbox \in Seq(OutboxRows) /\ \A f \in Range(outbox) : Publishable(f)
  BY DEF SimTyped, OutboxOK
<1>2. outbox' \in Seq(OutboxRows) /\ Range(outbox') \subseteq Range(outbox)
  BY <1>1, RangeRemoved
<1>. QED
  BY <1>1, <1>2 DEF OutboxOK, Publishable

LEMMA RowAdded ==
    ASSUME SimTyped, NEW e \in OutboxRows, Publishable(e), outbox' = Append(outbox, e)
    PROVE  OutboxOK' /\ Range(outbox') = Range(outbox) \cup {e}
<1>1. outbox \in Seq(OutboxRows) /\ \A f \in Range(outbox) : Publishable(f)
  BY DEF SimTyped, OutboxOK
<1>2. outbox' \in Seq(OutboxRows) /\ Range(outbox') = Range(outbox) \cup {e}
  BY <1>1, RangeAppend DEF IsSeq
<1>. QED
  BY <1>1, <1>2 DEF OutboxOK, Publishable

LEMMA PublishIs ==
    ASSUME SimTyped, NEW slots \in SUBSET Slots, Items(slots), NEW k \in DOMAIN outbox,
           Claimable(k), Publish(k)
    PROVE  /\ OutboxOK' /\ \A e \in Range(outbox') : e \in Range(outbox) \/ RowFine(slots, e)
           /\ IsSeq(ready') /\ \A m \in Range(ready') : m \in Range(ready) \/ MessageFine(slots, m)
           /\ FaultsOK' /\ faults <= faults'
<1>. DEFINE e == outbox[k]
            claimed == [e EXCEPT !.leased = TRUE]
            parks == e.tries + 1 >= MaxPublishAttempts
            charged == [e EXCEPT !.tries = @ + 1, !.failed = parks]
<1>1. e \in Range(outbox) /\ e \in OutboxRows /\ Publishable(e) /\ ~e.failed /\ RowFine(slots, e)
  BY RowsOf DEF Claimable, Items
<1>2. MaxPublishAttempts \in Nat /\ e.tries \in Nat
  BY <1>1, SimulationAssumption DEF OutboxRows
<1>3. /\ claimed \in OutboxRows /\ charged \in OutboxRows
      /\ claimed.inc = e.inc /\ claimed.phase = e.phase /\ claimed.attempt = e.attempt
      /\ claimed.at = e.at /\ claimed.tries = e.tries /\ claimed.failed = e.failed
      /\ charged.inc = e.inc /\ charged.phase = e.phase /\ charged.attempt = e.attempt
      /\ charged.at = e.at /\ charged.tries = e.tries + 1
      /\ charged.failed = parks
  <2>1. parks \in BOOLEAN /\ e.tries + 1 \in Nat /\ e.at \in Nat
    BY <1>1, <1>2 DEF OutboxRows
  <2>2. PICK x \in OutboxRows : x = e
    BY <1>1
  <2>3. PICK b \in BOOLEAN : b = parks
    BY <2>1
  <2>4. PICK n \in Nat : n = x.tries + 1
    BY <1>1, <2>1, <2>2
  <2>. DEFINE c == [x EXCEPT !.leased = TRUE]
              d == [x EXCEPT !.tries = n, !.failed = b]
  <2>5. /\ c \in OutboxRows /\ c.inc = x.inc /\ c.phase = x.phase /\ c.attempt = x.attempt
        /\ c.at = x.at /\ c.tries = x.tries /\ c.failed = x.failed
    BY DEF OutboxRows
  <2>6. /\ d \in OutboxRows /\ d.inc = x.inc /\ d.phase = x.phase /\ d.attempt = x.attempt
        /\ d.at = x.at /\ d.tries = n /\ d.failed = b
    BY DEF OutboxRows
  <2>7. c = claimed /\ d = charged
    BY <2>2, <2>3, <2>4
  <2>. HIDE DEF c, d, claimed, charged, e, parks
  <2>. QED
    BY <2>2, <2>3, <2>4, <2>5, <2>6, <2>7
<1>. HIDE DEF claimed, charged
<1>4. RowFine(slots, claimed) /\ Publishable(claimed)
  BY <1>1, <1>3, RowLike DEF Publishable
<1>5. RowFine(slots, charged) /\ Publishable(charged)
  <2>1. RowFine(slots, charged)
    BY <1>1, <1>3, RowLike
  <2>2. Publishable(charged)
    <3>1. e.tries < MaxPublishAttempts
      BY <1>1 DEF Publishable
    <3>2. charged.tries <= MaxPublishAttempts /\ (~parks => charged.tries < MaxPublishAttempts)
      BY <1>2, <1>3, <3>1
    <3>. HIDE DEF e, parks
    <3>. QED
      BY <1>3, <3>2 DEF Publishable
  <2>. QED
    BY <2>1, <2>2
<1>6. FaultsOK' /\ faults <= faults'
  BY HitIs DEF Publish, SimTyped
<1>7. \/ outbox' = RemoveAt(outbox, k)
      \/ outbox' = [outbox EXCEPT ![k] = claimed]
      \/ outbox' = [outbox EXCEPT ![k] = charged]
  BY DEF Publish, Unclaimed, Charged, claimed, charged
<1>8. OutboxOK' /\ \A f \in Range(outbox') : f \in Range(outbox) \/ RowFine(slots, f)
  BY <1>3, <1>4, <1>5, <1>7, RowGone, RowChanged
<1>9. IsSeq(ready') /\ \A m \in Range(ready') : m \in Range(ready) \/ MessageFine(slots, m)
  <2>1. ready' = ready \/ ready' = Append(ready, Message(outbox[k]))
    BY DEF Publish
  <2>2. IsSeq(ready)
    BY DEF SimTyped, QueuesOK
  <2>3. MessageFine(slots, Message(outbox[k]))
    BY MessageIs
  <2>4. CASE ready' = ready
    BY <2>2, <2>4
  <2>5. CASE ready' = Append(ready, Message(outbox[k]))
    <3>1. IsSeq(ready') /\ Range(ready') = Range(ready) \cup {Message(outbox[k])}
      BY <2>2, <2>5, RangeAppend
    <3>. QED
      BY <2>3, <3>1
  <2>. QED
    BY <2>1, <2>4, <2>5
<1>. QED
  BY <1>6, <1>8, <1>9

LEMMA RelayHolds ==
    ASSUME NEW slots \in SUBSET Slots, NEW top \in Nat, Holds(slots, top), Relay
    PROVE  Holds(slots, top)'
<1>1. SimTyped /\ Gone /\ Items(slots)
  BY DEF Holds
<1>2. UNCHANGED <<incidents, mandate, delivered, up, hand, retries, breaker, monitor,
                  recurring, due, session, alive, now, slips>>
  BY DEF Relay, worldVars
<1>3. PICK k \in DOMAIN outbox : Claimable(k) /\ Publish(k)
  BY DEF Relay
<1>4. /\ OutboxOK' /\ \A e \in Range(outbox') : e \in Range(outbox) \/ RowFine(slots, e)
      /\ IsSeq(ready') /\ \A m \in Range(ready') : m \in Range(ready) \/ MessageFine(slots, m)
      /\ FaultsOK' /\ faults <= faults'
  BY <1>1, <1>3, PublishIs
<1>5. \A m \in Flying' : m \in Flying \/ MessageFine(slots, m)
  BY <1>2, <1>4 DEF Flying
<1>6. WorldOK' /\ QueuesOK' /\ breaker' \in BreakerStates /\ Gone'
  BY <1>1, <1>2, <1>4 DEF SimTyped, WorldOK, QueuesOK, WatchOK, Gone
<1>. QED
  BY <1>2, <1>4, <1>5, <1>6, QuietHolds

\* Rows that change where they are, each for itself.
LEMMA RowsChanged ==
    ASSUME SimTyped, NEW slots \in SUBSET Slots, Items(slots),
           IsSeq(outbox') , DOMAIN outbox' = DOMAIN outbox,
           \A k \in DOMAIN outbox :
              /\ outbox'[k] \in OutboxRows
              /\ outbox'[k].inc = outbox[k].inc /\ outbox'[k].phase = outbox[k].phase
              /\ outbox'[k].attempt = outbox[k].attempt /\ outbox'[k].tries = outbox[k].tries
              /\ outbox'[k].failed = outbox[k].failed
              /\ outbox'[k].at = outbox[k].at \/ outbox[k].inc \notin recurring
    PROVE  OutboxOK' /\ \A e \in Range(outbox') : RowFine(slots, e)
<1>1. outbox' \in Seq(OutboxRows)
  <2>1. PICK S : outbox' \in Seq(S)
    BY DEF IsSeq
  <2>2. DOMAIN outbox' = 1..Len(outbox') /\ Len(outbox') \in Nat /\ outbox' = [k \in 1..Len(outbox') |-> outbox'[k]]
    BY <2>1
  <2>. QED
    BY <2>2
<1>2. ASSUME NEW k \in DOMAIN outbox PROVE RowFine(slots, outbox'[k]) /\ Publishable(outbox'[k])
  <2>1. outbox[k] \in Range(outbox) /\ Publishable(outbox[k]) /\ RowFine(slots, outbox[k])
    BY <1>2, RowsOf DEF Items
  <2>2. RowFine(slots, outbox'[k])
    BY <1>2, <2>1, RowLike
  <2>. QED
    BY <1>2, <2>1, <2>2 DEF Publishable
<1>. QED
  BY <1>1, <1>2 DEF OutboxOK, Range, Publishable

LEMMA RowsMoved ==
    ASSUME NEW slots \in SUBSET Slots, NEW top \in Nat, Holds(slots, top),
           UNCHANGED <<incidents, mandate, ready, delivered, hand, retries, breaker, monitor,
                       recurring, due, session, alive, now, slips>>,
           up' \in BOOLEAN, FaultsOK', faults <= faults',
           OutboxOK', \A e \in Range(outbox') : e \in Range(outbox) \/ RowFine(slots, e)
    PROVE  Holds(slots, top)'
<1>1. SimTyped /\ Gone
  BY DEF Holds
<1>2. WorldOK' /\ QueuesOK' /\ breaker' \in BreakerStates /\ Gone' /\ Flying' = Flying
  BY <1>1 DEF SimTyped, WorldOK, QueuesOK, WatchOK, Gone, Flying
<1>. QED
  BY <1>2, QuietHolds

LEMMA OutageHolds ==
    ASSUME NEW slots \in SUBSET Slots, NEW top \in Nat, Holds(slots, top), Outage
    PROVE  Holds(slots, top)'
<1>1. SimTyped /\ Items(slots)
  BY DEF Holds
<1>2. UNCHANGED <<incidents, mandate, ready, delivered, hand, retries, breaker, monitor,
                  recurring, due, session, alive, now, slips>> /\ up' = FALSE
  BY DEF Outage, worldVars
<1>3. FaultsOK' /\ faults <= faults'
  BY <1>1, HitIs DEF Outage, SimTyped
<1>4. OutboxOK' /\ \A e \in Range(outbox') : e \in Range(outbox) \/ RowFine(slots, e)
  <2>1. CASE outbox' = outbox
    BY <1>1, <2>1 DEF SimTyped, OutboxOK
  <2>2. CASE outbox' # outbox
    <3>1. outbox' = [k \in DOMAIN outbox |-> [outbox[k] EXCEPT !.leased = @ \/ Claimable(k)]]
      BY <2>2 DEF Outage
    <3>2. DOMAIN outbox = 1..Len(outbox) /\ Len(outbox) \in Nat
      BY <1>1 DEF SimTyped, OutboxOK
    <3>3. ASSUME NEW k \in DOMAIN outbox
          PROVE  /\ outbox'[k] \in OutboxRows
                 /\ outbox'[k].inc = outbox[k].inc /\ outbox'[k].phase = outbox[k].phase
                 /\ outbox'[k].attempt = outbox[k].attempt /\ outbox'[k].tries = outbox[k].tries
                 /\ outbox'[k].failed = outbox[k].failed /\ outbox'[k].at = outbox[k].at
      <4>1. outbox[k] \in OutboxRows
        BY <1>1, RowsOf
      <4>2. (outbox[k].leased \/ Claimable(k)) \in BOOLEAN
        OBVIOUS
      <4>3. outbox'[k] = [outbox[k] EXCEPT !.leased = outbox[k].leased \/ Claimable(k)]
        BY <3>1, <3>3
      <4>4. PICK claim \in BOOLEAN : outbox'[k] = [outbox[k] EXCEPT !.leased = claim]
        BY <4>2, <4>3
      <4>5. PICK e \in OutboxRows : e = outbox[k]
        BY <4>1
      <4>. QED
        BY <4>4, <4>5 DEF OutboxRows
    <3>4. outbox' \in Seq(OutboxRows)
      BY <3>1, <3>2, <3>3
    <3>5. IsSeq(outbox') /\ DOMAIN outbox' = DOMAIN outbox
      BY <3>1, <3>4 DEF IsSeq
    <3>. QED
      BY <1>1, <3>3, <3>5, RowsChanged
  <2>. QED
    BY <2>1, <2>2
<1>. QED
  BY <1>2, <1>3, <1>4, RowsMoved

LEMMA LeaseExpiresHolds ==
    ASSUME NEW slots \in SUBSET Slots, NEW top \in Nat, Holds(slots, top), LeaseExpires
    PROVE  Holds(slots, top)'
<1>1. SimTyped /\ Items(slots)
  BY DEF Holds
<1>2. UNCHANGED <<incidents, mandate, ready, delivered, up, hand, retries, breaker, faults, monitor,
                  recurring, due, session, alive, now, slips>>
  BY DEF LeaseExpires, queueVars, worldVars
<1>3. FaultsOK' /\ faults <= faults' /\ up' \in BOOLEAN
  BY <1>1, <1>2, Numbers DEF SimTyped, FaultsOK, WorldOK
<1>4. OutboxOK' /\ \A e \in Range(outbox') : e \in Range(outbox) \/ RowFine(slots, e)
  <2>1. PICK k \in DOMAIN outbox : outbox' = [outbox EXCEPT ![k].leased = FALSE]
    BY DEF LeaseExpires
  <2>2. PICK e : e = outbox[k]
    OBVIOUS
  <2>3. PICK f : f = [e EXCEPT !.leased = FALSE]
    OBVIOUS
  <2>4. e \in OutboxRows /\ Publishable(e) /\ RowFine(slots, e)
    BY <1>1, <2>2, RowsOf DEF Items
  <2>5. /\ f \in OutboxRows /\ f.inc = e.inc /\ f.phase = e.phase /\ f.attempt = e.attempt
        /\ f.at = e.at /\ f.tries = e.tries /\ f.failed = e.failed
    BY <2>3, <2>4 DEF OutboxRows
  <2>6. RowFine(slots, f) /\ Publishable(f)
    BY <2>4, <2>5, RowLike DEF Publishable
  <2>7. outbox' = [outbox EXCEPT ![k] = f]
    BY <2>1, <2>2, <2>3
  <2>. QED
    BY <1>1, <2>5, <2>6, <2>7, RowChanged
<1>. QED
  BY <1>2, <1>3, <1>4, RowsMoved

\* Only what is no debit of the mandate is brought forward.
LEMMA ReleaseHolds ==
    ASSUME NEW slots \in SUBSET Slots, NEW top \in Nat, Holds(slots, top), Release
    PROVE  Holds(slots, top)'
<1>1. SimTyped /\ Items(slots)
  BY DEF Holds
<1>2. UNCHANGED <<incidents, mandate, ready, delivered, up, hand, retries, breaker, faults, monitor,
                  recurring, due, session, alive, now, slips>>
  BY DEF Release, queueVars, worldVars
<1>3. FaultsOK' /\ faults <= faults' /\ up' \in BOOLEAN
  BY <1>1, <1>2, Numbers DEF SimTyped, FaultsOK, WorldOK
<1>4. OutboxOK' /\ \A e \in Range(outbox') : RowFine(slots, e)
  <2>1. outbox' = [k \in DOMAIN outbox |->
                     IF Releasable(k) THEN [outbox[k] EXCEPT !.at = now] ELSE outbox[k]]
    BY DEF Release
  <2>2. DOMAIN outbox = 1..Len(outbox) /\ Len(outbox) \in Nat
    BY <1>1 DEF SimTyped, OutboxOK
  <2>3. ASSUME NEW k \in DOMAIN outbox
        PROVE  /\ outbox'[k] \in OutboxRows
               /\ outbox'[k].inc = outbox[k].inc /\ outbox'[k].phase = outbox[k].phase
               /\ outbox'[k].attempt = outbox[k].attempt /\ outbox'[k].tries = outbox[k].tries
               /\ outbox'[k].failed = outbox[k].failed
               /\ outbox'[k].at = outbox[k].at \/ outbox[k].inc \notin recurring
    <3>1. outbox[k] \in OutboxRows
      BY <1>1, RowsOf
    <3>2. CASE ~Releasable(k)
      <4>1. outbox'[k] = outbox[k]
        BY <2>1, <2>3, <3>2
      <4>. QED
        BY <3>1, <4>1
    <3>3. CASE Releasable(k)
      <4>1. outbox[k].inc \notin recurring
        BY <3>3 DEF Releasable
      <4>2. outbox'[k] = [outbox[k] EXCEPT !.at = now]
        BY <2>1, <2>3, <3>3
      <4>3. PICK t \in Nat : t = now
        BY <1>1, Numbers
      <4>4. PICK e \in OutboxRows : e = outbox[k]
        BY <3>1
      <4>. QED
        BY <4>1, <4>2, <4>3, <4>4 DEF OutboxRows
    <3>. QED
      BY <3>2, <3>3
  <2>4. outbox' \in Seq(OutboxRows)
    BY <2>1, <2>2, <2>3
  <2>5. IsSeq(outbox') /\ DOMAIN outbox' = DOMAIN outbox
    BY <2>1, <2>4 DEF IsSeq
  <2>. QED
    BY <1>1, <2>3, <2>5, RowsChanged
<1>. QED
  BY <1>2, <1>3, <1>4, RowsMoved

\* A row to decide may be added for whoever is on record.
LEMMA DecideRowIs ==
    ASSUME SimTyped, NEW slots \in SUBSET Slots, NEW i \in Incidents, incidents[i].state # "none"
    PROVE  DecideRow(i) \in OutboxRows /\ Publishable(DecideRow(i)) /\ RowFine(slots, DecideRow(i))
<1>1. MaxPublishAttempts \in Nat \ {0}
  BY SimulationAssumption
<1>2. DecideRow(i) \in OutboxRows /\ Publishable(DecideRow(i))
  BY <1>1 DEF DecideRow, Row, OutboxRows, Publishable
<1>3. DecideRow(i).inc = i /\ DecideRow(i).phase = "decide"
  BY DEF DecideRow, Row
<1>. QED
  BY <1>2, <1>3 DEF RowFine

\* waiting is what stays of the retries.
Waiting(waiting) ==
    /\ IsSeq(waiting) /\ Range(waiting) \subseteq Range(retries)
    /\ \A t \in Range(retries) : Committing(t) => t \in Range(waiting)

LEMMA RederiveHolds ==
    ASSUME NEW slots \in SUBSET Slots, NEW top \in Nat, Holds(slots, top),
           NEW i \in Incidents, incidents[i].state # "none", NEW waiting, Waiting(waiting),
           Rederive(i, waiting)
    PROVE  Holds(slots, top)'
<1>1. SimTyped /\ Items(slots) /\ Gone
  BY DEF Holds
<1>2. UNCHANGED <<incidents, mandate, ready, delivered, up, hand, breaker, monitor,
                  recurring, due, session, alive, now, slips>>
  BY DEF Rederive, queueVars, worldVars
<1>3. PICK stop \in Stop({"none", "tx"}) :
         /\ Counted(stop) /\ Again(stop, Task("reconcile", Webhook(i), FALSE), waiting)
         /\ outbox' = IF stop = "none" THEN Append(outbox, DecideRow(i)) ELSE outbox
  BY DEF Rederive
<1>4. FaultsOK' /\ faults <= faults'
  BY <1>1, <1>3, CountedIs DEF SimTyped
<1>. DEFINE task == Task("reconcile", Webhook(i), FALSE)
<1>5. TaskFine(slots, task) /\ ~Committing(task) /\ task.stage = "reconcile"
  BY <1>1 DEF Task, Webhook, TaskFine, Committing
<1>6. IsSeq(retries') /\ Range(retries') = Range(waiting) \cup (IF stop = "none" THEN {} ELSE {task})
  BY <1>3, AgainIs DEF Waiting
<1>. HIDE DEF task
<1>7. \A t \in Range(retries') : t \in Range(retries) \/ (TaskFine(slots, t) /\ t = task)
  BY <1>5, <1>6 DEF Waiting
<1>8. \A t : Committing(t) => (t \in Range(retries') <=> t \in Range(retries))
  BY <1>5, <1>6 DEF Waiting
<1>9. OutboxOK' /\ \A e \in Range(outbox') : e \in Range(outbox) \/ RowFine(slots, e)
  <2>1. CASE stop = "none"
    <3>1. PICK e : e = DecideRow(i)
      OBVIOUS
    <3>2. e \in OutboxRows /\ Publishable(e) /\ RowFine(slots, e)
      BY <1>1, <3>1, DecideRowIs
    <3>3. outbox' = Append(outbox, e)
      BY <1>3, <2>1, <3>1
    <3>4. OutboxOK' /\ Range(outbox') = Range(outbox) \cup {e}
      BY <1>1, <3>2, <3>3, RowAdded
    <3>. QED
      BY <3>2, <3>4
  <2>2. CASE stop # "none"
    BY <1>1, <1>3, <2>2 DEF SimTyped, OutboxOK
  <2>. QED
    BY <2>1, <2>2
<1>10. WorldOK' /\ QueuesOK' /\ breaker' \in BreakerStates /\ Flying' = Flying
  BY <1>1, <1>2, <1>6 DEF SimTyped, WorldOK, QueuesOK, WatchOK, Flying
<1>11. Gone'
  BY <1>1, <1>2, <1>5, <1>7 DEF Gone
<1>. QED
  BY <1>2, <1>4, <1>7, <1>8, <1>9, <1>10, <1>11, QuietHolds

LEMMA ReconcileHolds ==
    ASSUME NEW slots \in SUBSET Slots, NEW top \in Nat, Holds(slots, top), Reconcile
    PROVE  Holds(slots, top)'
<1>1. IsSeq(retries)
  BY DEF Holds, SimTyped, QueuesOK
<1>2. PICK i \in Incidents : Stalled(i) /\ Rederive(i, retries)
  BY DEF Reconcile
<1>3. incidents[i].state # "none"
  BY <1>2 DEF Stalled
<1>4. Waiting(retries)
  BY <1>1 DEF Waiting
<1>. QED
  BY <1>2, <1>3, <1>4, RederiveHolds

-----------------------------------------------------------------------------
(* Webhooks *)

\* A webhook that was seen before, or that the store refuses, leaves the books.
LEMMA IngestInVain ==
    ASSUME NEW slots \in SUBSET Slots, NEW top \in Nat, Holds(slots, top),
           NEW i \in Incidents, NEW waiting, Waiting(waiting),
           UNCHANGED <<incidents, mandate, outbox, ready, delivered, up, hand, breaker, monitor,
                       recurring, session, alive, now, slips>>,
           due' \in [Incidents -> Nat], FaultsOK', faults <= faults',
           IsSeq(retries'), Range(waiting) \subseteq Range(retries'),
           Range(retries') \subseteq Range(waiting) \cup {Task("ingest", Webhook(i), FALSE)}
    PROVE  Holds(slots, top)'
<1>1. SimTyped /\ Items(slots) /\ Gone
  BY DEF Holds
<1>. DEFINE task == Task("ingest", Webhook(i), FALSE)
<1>2. TaskFine(slots, task) /\ ~Committing(task) /\ task.stage = "ingest"
  BY DEF Task, Webhook, TaskFine, Committing
<1>. HIDE DEF task
<1>3. \A t \in Range(retries') : t \in Range(retries) \/ (TaskFine(slots, t) /\ t = task)
  BY <1>2 DEF Waiting, task
<1>4. \A t : Committing(t) => (t \in Range(retries') <=> t \in Range(retries))
  BY <1>2, <1>3 DEF Waiting
<1>5. WorldOK' /\ OutboxOK' /\ QueuesOK' /\ breaker' \in BreakerStates /\ Flying' = Flying
  BY <1>1 DEF SimTyped, WorldOK, OutboxOK, QueuesOK, WatchOK, Flying
<1>6. Gone'
  BY <1>1, <1>2, <1>3 DEF Gone
<1>. QED
  BY <1>3, <1>4, <1>5, <1>6, QuietHolds

\* The first webhook of an incident opens its books.
LEMMA InsertHolds ==
    ASSUME NEW slots \in SUBSET Slots, NEW top \in Nat, Holds(slots, top),
           NEW i \in Incidents, incidents[i].state = "none", NEW waiting, Waiting(waiting),
           Inserted(i), retries' = waiting, faults' = faults,
           UNCHANGED <<ready, delivered, up, hand, breaker, monitor, recurring, alive, now, slips>>,
           session' = session \/ (i \notin recurring /\ session' = session \cup {i}),
           due' \in [Incidents -> Nat]
    PROVE  Holds(slots, top)'
<1>1. SimTyped /\ Items(slots) /\ Gone /\ Plan(slots, top) /\ Money(slots)
  BY DEF Holds
<1>2. /\ incidents' = [incidents EXCEPT ![i].state = "RECEIVED"]
      /\ outbox' = Append(outbox, DecideRow(i))
      /\ mandate' = MandateOf(i)
  BY DEF Inserted
<1>3. /\ incidents \in [Incidents -> [state : States, count : Nat]]
      /\ \A j \in Incidents : incidents[j].state \in {"none", "RECEIVED"} => incidents[j].count = 0
  BY <1>1 DEF SimTyped, IncidentsOK
<1>4. \A j \in Incidents : /\ incidents'[j].count = incidents[j].count
                           /\ incidents'[j].state = IF j = i THEN "RECEIVED" ELSE incidents[j].state
  BY <1>2, <1>3
<1>5. IncidentsOK'
  <2>1. incidents' \in [Incidents -> [state : States, count : Nat]]
    BY <1>2, <1>3 DEF States
  <2>. QED
    BY <1>3, <1>4, <2>1 DEF IncidentsOK
<1>. DEFINE fresh == [last |-> {}, next |-> {}, cycle |-> 0, halted |-> FALSE]
<1>6. fresh \in MandateRows /\ fresh.last = {} /\ fresh.next = {}
  BY DEF MandateRows, Times
<1>7. mandate' = IF i \in recurring /\ mandate = {} THEN {fresh} ELSE mandate
  BY <1>2 DEF MandateOf
<1>. HIDE DEF fresh
<1>8. MandateOK'
  <2>1. mandate' \subseteq MandateRows /\ \A r, q \in mandate' : r = q
    BY <1>1, <1>6, <1>7 DEF SimTyped, MandateOK
  <2>2. (\E j \in recurring : incidents'[j].state # "none") => mandate' # {}
    <3>. SUFFICES ASSUME NEW j \in recurring, incidents'[j].state # "none" PROVE mandate' # {}
      OBVIOUS
    <3>1. CASE j = i
      BY <1>7, <3>1
    <3>2. CASE j # i
      <4>1. j \in Incidents
        BY <1>1 DEF SimTyped, WorldOK
      <4>2. incidents[j].state # "none"
        BY <1>4, <3>2, <4>1
      <4>3. mandate # {}
        BY <1>1, <4>2 DEF SimTyped, MandateOK
      <4>. QED
        BY <1>7, <4>3
    <3>. QED
      BY <3>1, <3>2
  <2>. QED
    BY <2>1, <2>2 DEF MandateOK
<1>9. PICK e : e = DecideRow(i)
  OBVIOUS
<1>10. e \in OutboxRows /\ Publishable(e) /\ e.inc = i /\ e.phase = "decide"
  <2>1. MaxPublishAttempts \in Nat \ {0}
    BY SimulationAssumption
  <2>. QED
    BY <1>9, <2>1 DEF DecideRow, Row, OutboxRows, Publishable
<1>11. OutboxOK' /\ Range(outbox') = Range(outbox) \cup {e}
  BY <1>1, <1>2, <1>9, <1>10, RowAdded
<1>12. RowFine(slots, e)'
  BY <1>4, <1>10 DEF RowFine
<1>13. WorldOK' /\ FaultsOK' /\ WatchOK' /\ QueuesOK'
  BY <1>1 DEF SimTyped, WorldOK, FaultsOK, WatchOK, QueuesOK, Waiting
<1>14. SimTyped'
  BY <1>5, <1>8, <1>11, <1>13 DEF SimTyped
<1>15. Calm
  BY <1>1, <1>4, Numbers, Counts DEF Calm
<1>16. Plan(slots, top)'
  BY <1>1, <1>6, <1>7 DEF Plan
<1>17. LastDebits' = LastDebits
  BY <1>6, <1>7 DEF LastDebits
<1>18. Money(slots)'
  <2>1. \A j \in Incidents : incidents[j].state \in Terminal => incidents'[j].state \in Terminal
    BY <1>4 DEF Terminal
  <2>2. \A t : Committing(t) => (t \in Range(retries') <=> t \in Range(retries))
    BY DEF Waiting
  <2>. QED
    BY <1>1, <1>15, <1>17, <2>1, <2>2, MoneyKeeps
<1>19. Gone'
  <2>. SUFFICES ASSUME "worker" \notin alive PROVE Gone'
    BY DEF Gone
  <2>1. hand' = <<>> /\ delivered' = {}
    BY <1>1 DEF Gone
  <2>2. \A j \in Incidents : incidents'[j].state \in Terminal \cup {"none", "RECEIVED"}
    BY <1>1, <1>4 DEF Gone
  <2>3. \A t \in Range(retries') :
           t.stage \in {"decide", "execute", "commit"} => incidents'[t.msg.inc].state \in Terminal
    <3>. SUFFICES ASSUME NEW t \in Range(retries), t.stage \in {"decide", "execute", "commit"}
                  PROVE  incidents'[t.msg.inc].state \in Terminal
      BY DEF Waiting
    <3>1. incidents[t.msg.inc].state \in Terminal /\ t.msg.inc \in Incidents
      BY <1>1 DEF Gone, Items, TaskFine
    <3>2. t.msg.inc # i
      BY <3>1 DEF Terminal
    <3>. QED
      BY <1>4, <3>1, <3>2
  <2>. QED
    BY <2>1, <2>2, <2>3 DEF Gone
<1>20. Flying' = Flying /\ Range(retries') \subseteq Range(retries)
  BY DEF Flying, Waiting
<1>. QED
  BY <1>11, <1>12, <1>14, <1>15, <1>16, <1>18, <1>19, <1>20, StepHolds

LEMMA IngestHolds ==
    ASSUME NEW slots \in SUBSET Slots, NEW top \in Nat, Holds(slots, top),
           NEW i \in Incidents, NEW waiting, Waiting(waiting),
           recurring' = recurring, alive' = alive, now' = now, slips' = slips,
           due' \in [Incidents -> Nat], Ingest(i, waiting)
    PROVE  Holds(slots, top)'
<1>1. SimTyped
  BY DEF Holds
<1>2. UNCHANGED <<ready, delivered, up, hand, breaker, monitor>>
  BY DEF Ingest, queueVars
<1>3. CASE incidents[i].state # "none"
  <2>1. retries' = waiting /\ Spared /\ UNCHANGED <<incidents, mandate, outbox, session>>
    BY <1>3 DEF Ingest, storeVars
  <2>2. FaultsOK' /\ faults <= faults'
    BY <1>1, <2>1, HitIs DEF SimTyped
  <2>. QED
    BY <1>2, <2>1, <2>2, IngestInVain DEF Waiting
<1>4. CASE incidents[i].state = "none"
  <2>1. PICK stop \in Stop({"none", "tx"}) :
           /\ Counted(stop) /\ Again(stop, Task("ingest", Webhook(i), FALSE), waiting)
           /\ IF stop = "tx" THEN UNCHANGED <<storeVars, session>>
              ELSE /\ Inserted(i)
                   /\ \/ session' = session
                      \/ i \notin recurring /\ "morph" \in Proposable /\ session' = session \cup {i}
    BY <1>4 DEF Ingest
  <2>2. stop \in {"none", "tx"}
    BY DEF Stop
  <2>3. CASE stop = "tx"
    <3>1. FaultsOK' /\ faults <= faults'
      BY <1>1, <2>1, CountedIs DEF SimTyped
    <3>2. /\ IsSeq(retries')
          /\ Range(retries') = Range(waiting) \cup {Task("ingest", Webhook(i), FALSE)}
      BY <2>1, <2>3, AgainIs DEF Waiting
    <3>3. UNCHANGED <<incidents, mandate, outbox, session>>
      BY <2>1, <2>3 DEF storeVars
    <3>. QED
      BY <1>2, <3>1, <3>2, <3>3, IngestInVain
  <2>4. CASE stop = "none"
    <3>1. retries' = waiting /\ faults' = faults
      BY <2>1, <2>4 DEF Again, Counted
    <3>2. Inserted(i) /\ (session' = session \/ (i \notin recurring /\ session' = session \cup {i}))
      BY <2>1, <2>4
    <3>. QED
      BY <1>2, <1>4, <3>1, <3>2, InsertHolds
  <2>. QED
    BY <2>2, <2>3, <2>4
<1>. QED
  BY <1>3, <1>4

LEMMA DeliverHolds ==
    ASSUME NEW slots \in SUBSET Slots, NEW top \in Nat, Holds(slots, top),
           NEW i \in Incidents, Deliver(i)
    PROVE  Holds(slots, top)'
<1>1. due \in [Incidents -> Nat] /\ IsSeq(retries)
  BY DEF Holds, SimTyped, WorldOK, QueuesOK
<1>2. due' \in [Incidents -> Nat]
  <2>1. due[i] > 0 /\ due' = [due EXCEPT ![i] = due[i] - 1]
    BY DEF Deliver
  <2>2. due[i] - 1 \in Nat
    BY <1>1, <2>1
  <2>. QED
    BY <1>1, <2>1, <2>2
<1>3. Waiting(retries)
  BY <1>1 DEF Waiting
<1>. QED
  BY <1>2, <1>3, IngestHolds DEF Deliver

-----------------------------------------------------------------------------
(* What a handler does, whether a message or a retry calls it *)

Handling(waiting) ==
    /\ Waiting(waiting)
    /\ IsSeq(hand') /\ Range(hand') \subseteq Range(hand) /\ (hand = <<>> => hand' = <<>>)
    /\ UNCHANGED <<recurring, due, session, alive, now, slips>>

\* Incidents only go on.
Onward ==
    \A j \in Incidents : /\ incidents'[j].count \in Nat /\ incidents[j].count <= incidents'[j].count
                         /\ incidents[j].state # "none" => incidents'[j].state # "none"
                         /\ incidents[j].state \in Terminal => incidents'[j].state \in Terminal

LEMMA HandledHolds ==
    ASSUME NEW slots \in SUBSET Slots, NEW top \in Nat, Holds(slots, top),
           NEW more \in SUBSET Slots, NEW over \in Nat, slots \subseteq more,
           NEW waiting, Handling(waiting), NEW task, TaskFine(slots, task), ~Committing(task),
           NEW stop, Conclude(stop, task, waiting),
           FaultsOK', faults <= faults', IncidentsOK', MandateOK', OutboxOK', WatchOK', Onward,
           monitor.notified => monitor'.notified, monitor'.debits = monitor.debits,
           monitor'.last = monitor.last, LastDebits' = LastDebits,
           \A entry \in Range(outbox') : entry \in Range(outbox) \/ RowFine(more, entry)',
           Plan(more, over)',
           "worker" \notin alive => /\ incidents' = incidents
                                    /\ stop = "none" \/ incidents[task.msg.inc].state \in Terminal
    PROVE  Holds(more, over)'
<1>1. SimTyped /\ Items(slots) /\ Gone /\ Money(slots)
  BY DEF Holds
<1>2. /\ ready' = ready /\ up' = up /\ delivered' \subseteq delivered /\ IsSeq(retries')
      /\ Range(retries') = Range(waiting) \cup (IF stop = "none" THEN {} ELSE {task})
  BY ConcludeIs DEF Handling, Waiting
<1>3. SimTyped'
  <2>1. WorldOK' /\ QueuesOK'
    BY <1>1, <1>2 DEF SimTyped, WorldOK, QueuesOK, Handling
  <2>. QED
    BY <2>1 DEF SimTyped
<1>4. Calm
  <2>1. faults' \in Nat
    BY SimulationAssumption DEF FaultsOK
  <2>. QED
    BY <2>1 DEF Calm, Onward, Handling
<1>5. Money(more)'
  <2>1. \A t : Committing(t) => (t \in Range(retries') <=> t \in Range(retries))
    BY <1>2 DEF Handling, Waiting
  <2>. QED
    BY <1>1, <1>4, <2>1, MoneyKeeps DEF Onward
<1>6. \A m \in Flying' : m \in Flying
  BY <1>2 DEF Flying, Handling
<1>7. \A t \in Range(retries') : t \in Range(retries) \/ TaskFine(more, t)'
  <2>1. TaskFine(more, task)'
    BY <1>1, <1>4, TaskKeeps
  <2>. QED
    BY <1>2, <2>1 DEF Handling, Waiting
<1>8. Gone'
  BY <1>1, <1>2 DEF Gone, Handling, Waiting
<1>. QED
  BY <1>3, <1>4, <1>5, <1>6, <1>7, <1>8, StepHolds

\* A stage that finds nothing to do, or not yet.
LEMMA ShrugHolds ==
    ASSUME NEW slots \in SUBSET Slots, NEW top \in Nat, Holds(slots, top),
           NEW waiting, Handling(waiting), NEW task, TaskFine(slots, task), ~Committing(task),
           NEW stop, Conclude(stop, task, waiting), FaultsOK', faults <= faults',
           UNCHANGED <<incidents, mandate, outbox, monitor>>, breaker' \in BreakerStates,
           "worker" \notin alive => stop = "none" \/ incidents[task.msg.inc].state \in Terminal
    PROVE  Holds(slots, top)'
<1>1. SimTyped /\ Plan(slots, top)
  BY DEF Holds
<1>2. IncidentsOK' /\ MandateOK' /\ OutboxOK' /\ WatchOK'
  BY <1>1 DEF SimTyped, IncidentsOK, MandateOK, OutboxOK, WatchOK, Handling
<1>3. Onward
  BY <1>1, Counts DEF Onward
<1>4. LastDebits' = LastDebits
  BY DEF LastDebits
<1>5. Plan(slots, top)'
  BY <1>1, <1>2, Numbers, SimulationAssumption, Kept DEF Plan, FaultsOK
<1>. QED
  BY <1>2, <1>3, <1>4, <1>5, HandledHolds

\* A state is set, and a closed incident left as it is.
LEMMA MovedIs ==
    ASSUME SimTyped, NEW i \in Incidents, incidents[i].state # "none",
           NEW state \in States \ {"none", "RECEIVED"}, incidents' = Moved(i, state)
    PROVE  /\ IncidentsOK' /\ Onward
           /\ \A j \in Incidents : incidents'[j].count = incidents[j].count
           /\ \A j \in Incidents : incidents'[j].state # "none" => incidents[j].state # "none"
<1>1. /\ incidents \in [Incidents -> [state : States, count : Nat]]
      /\ \A j \in Incidents : incidents[j].state \in {"none", "RECEIVED"} => incidents[j].count = 0
  BY DEF SimTyped, IncidentsOK
<1>2. CASE incidents[i].state \in Terminal
  <2>1. incidents' = incidents
    BY <1>2 DEF Moved
  <2>. QED
    BY <1>1, <2>1, Counts DEF IncidentsOK, Onward
<1>3. CASE incidents[i].state \notin Terminal
  <2>1. incidents' = [incidents EXCEPT ![i].state = state]
    BY <1>3 DEF Moved, Reopened
  <2>2. incidents' \in [Incidents -> [state : States, count : Nat]]
    BY <1>1, <2>1
  <2>3. \A j \in Incidents : /\ incidents'[j].count = incidents[j].count
                             /\ incidents'[j].state = IF j = i THEN state ELSE incidents[j].state
    BY <1>1, <2>1
  <2>4. Onward
    BY <1>1, <1>3, <2>3, Counts DEF Onward
  <2>5. IncidentsOK'
    BY <1>1, <2>2, <2>3 DEF IncidentsOK
  <2>. QED
    BY <2>3, <2>4, <2>5
<1>. QED
  BY <1>2, <1>3

LEMMA SameIncidents ==
    ASSUME SimTyped, incidents' = incidents
    PROVE  /\ IncidentsOK' /\ Onward
           /\ \A j \in Incidents : incidents'[j].count = incidents[j].count
           /\ \A j \in Incidents : incidents'[j].state # "none" => incidents[j].state # "none"
  BY Counts DEF SimTyped, IncidentsOK, Onward

LEMMA Single ==
    ASSUME SimTyped
    PROVE  mandate = {} \/ \E r \in MandateRows : mandate = {r}
<1>1. mandate \subseteq MandateRows /\ \A r, q \in mandate : r = q
  BY DEF SimTyped, MandateOK
<1>2. CASE mandate # {}
  <2>1. PICK r \in mandate : TRUE
    BY <1>2
  <2>2. mandate = {r} /\ r \in MandateRows
    BY <1>1, <2>1
  <2>. QED
    BY <2>2
<1>. QED
  BY <1>2

LEMMA MandateKeeps ==
    ASSUME SimTyped, recurring' = recurring, mandate' = mandate,
           \A j \in Incidents : incidents'[j].state # "none" => incidents[j].state # "none"
    PROVE  MandateOK'
  BY DEF SimTyped, MandateOK, WorldOK

-----------------------------------------------------------------------------
(* handleDecide *)

LEMMA AbstainHolds ==
    ASSUME NEW slots \in SUBSET Slots, NEW top \in Nat, Holds(slots, top),
           NEW i \in Incidents, incidents[i].state # "none", NEW cmd,
           NEW waiting, Handling(waiting), NEW task, TaskFine(slots, task), ~Committing(task),
           NEW stop, Conclude(stop, task, waiting), FaultsOK', faults <= faults',
           Abstain(i, cmd, stop), breaker' \in BreakerStates, "worker" \in alive
    PROVE  Holds(slots, top)'
<1>1. SimTyped /\ Plan(slots, top)
  BY DEF Holds
<1>2. UNCHANGED <<outbox, monitor>>
  BY DEF Abstain
<1>3. /\ IncidentsOK' /\ Onward
      /\ \A j \in Incidents : incidents'[j].state # "none" => incidents[j].state # "none"
  <2>1. incidents' = Moved(i, "ABSTAINED") \/ incidents' = incidents
    BY DEF Abstain
  <2>2. "ABSTAINED" \in States \ {"none", "RECEIVED"}
    BY DEF States, Terminal
  <2>3. CASE incidents' = Moved(i, "ABSTAINED")
    BY <1>1, <2>2, <2>3, MovedIs
  <2>4. CASE incidents' = incidents
    BY <1>1, <2>4, SameIncidents
  <2>. QED
    BY <2>1, <2>3, <2>4
<1>4. OutboxOK' /\ WatchOK'
  BY <1>1, <1>2 DEF SimTyped, OutboxOK, WatchOK
<1>5. /\ MandateOK' /\ LastDebits' = LastDebits
      /\ mandate' = {} => mandate = {}
      /\ \A r \in mandate' : \E q \in mandate : r.next = q.next
  <2>1. mandate' = {[r EXCEPT !.halted = TRUE] : r \in mandate} \/ mandate' = mandate
    BY DEF Abstain
  <2>2. CASE mandate' = mandate
    BY <1>1, <1>3, <2>2, MandateKeeps DEF Handling, LastDebits
  <2>3. CASE mandate' = {[r EXCEPT !.halted = TRUE] : r \in mandate} /\ mandate # {}
    <3>1. PICK q \in MandateRows : mandate = {q}
      BY <1>1, <2>3, Single
    <3>2. PICK r : r = [q EXCEPT !.halted = TRUE]
      OBVIOUS
    <3>3. r \in MandateRows /\ r.last = q.last /\ r.next = q.next
      BY <3>2 DEF MandateRows
    <3>4. mandate' = {r}
      BY <2>3, <3>1, <3>2
    <3>5. MandateOK'
      BY <3>3, <3>4 DEF MandateOK
    <3>6. LastDebits' = LastDebits
      BY <3>1, <3>3, <3>4 DEF LastDebits
    <3>. QED
      BY <3>1, <3>3, <3>4, <3>5, <3>6
  <2>4. CASE mandate' = {[r EXCEPT !.halted = TRUE] : r \in mandate} /\ mandate = {}
    <3>1. mandate' = mandate
      BY <2>4
    <3>. QED
      BY <2>2, <3>1
  <2>. QED
    BY <2>1, <2>2, <2>3, <2>4
<1>6. Plan(slots, top)'
  <2>1. Calm
    BY <1>2, <1>3, SimulationAssumption DEF Calm, Onward, Handling, FaultsOK
  <2>. QED
    BY <1>1, <1>5, <2>1, PlanKeeps
<1>. QED
  BY <1>2, <1>3, <1>4, <1>5, <1>6, HandledHolds

LEMMA Farther ==
    ASSUME NEW at \in Nat, NEW top \in Nat, NEW f \in Nat, top <= at + f
    PROVE  \E t \in Nat : at <= t /\ top <= t /\ t <= at + f
<1>1. CASE at <= top
  BY <1>1
<1>2. CASE top < at
  BY <1>2
<1>. QED
  BY <1>1, <1>2

\* A new debit of the mandate gets a slot beyond every other.
Reserving(r, at, skew, q) ==
    /\ mandate = {r} /\ \A n \in r.next : n <= at + skew
    /\ mandate' = {q} /\ q.next = {at + Cooling}
    /\ now <= at /\ slips' = slips /\ now' = now
    /\ skew <= 1 /\ faults <= faults' /\ (skew # 0 => faults + 1 <= faults')

LEMMA ReserveBound ==
    ASSUME NEW slots \in SUBSET Slots, NEW top \in Nat, SimTyped, Plan(slots, top),
           NEW r, NEW at \in Nat, NEW skew \in Int, NEW q, FaultsOK', Reserving(r, at, skew, q)
    PROVE  Plan(slots, top)' /\ \E t \in Nat : at <= t /\ top <= t /\ t <= at + faults'
<1>. USE DEF Reserving
<1>1. faults' \in Nat /\ faults \in Nat /\ now \in Nat /\ slips \in Nat /\ Cooling \in Nat \ {0}
  BY Numbers, SimulationAssumption DEF FaultsOK
<1>2. PICK f \in Nat : f = faults' /\ faults <= f /\ (skew # 0 => faults + 1 <= f)
  BY <1>1
<1>3. top <= at + f
  <2>1. CASE r.next = {}
    <3>1. top = 0
      BY <2>1 DEF Plan
    <3>. QED
      BY <3>1
  <2>2. CASE r.next # {}
    <3>1. PICK n \in r.next : TRUE
      BY <2>2
    <3>2. n \in Nat /\ top <= n + faults /\ n <= at + skew
      BY <3>1, Kept DEF Plan
    <3>3. skew + faults <= f
      BY <1>1, <1>2
    <3>. QED
      BY <1>1, <3>2, <3>3
  <2>. QED
    BY <2>1, <2>2
<1>4. Plan(slots, top)'
  <2>1. top <= at + Cooling + f
    BY <1>1, <1>3
  <2>2. \A x \in mandate' : x.next = {at + Cooling}
    OBVIOUS
  <2>3. \A x \in mandate' : x.next # {} /\ \A n \in x.next : top <= n + faults'
    BY <1>2, <2>1, <2>2
  <2>4. mandate' # {}
    OBVIOUS
  <2>. QED
    BY <2>3, <2>4 DEF Plan
<1>. QED
  BY <1>2, <1>3, <1>4, Farther

LEMMA ReserveHolds ==
    ASSUME NEW slots \in SUBSET Slots, NEW top \in Nat, SimTyped, Plan(slots, top),
           NEW r, NEW at \in Nat, NEW skew \in Int, NEW q, FaultsOK', Reserving(r, at, skew, q),
           NEW s \in Slots, at <= s.at, top <= s.at, s.at <= at + faults',
           NEW more, more = slots \cup {s}, NEW over, over = s.at + Cooling
    PROVE  Near(s, at)' /\ Plan(more, over)'
<1>. USE DEF Reserving
<1>1. faults' \in Nat /\ faults \in Nat /\ now \in Nat /\ slips \in Nat /\ Cooling \in Nat \ {0}
  BY Numbers, SimulationAssumption DEF FaultsOK
<1>2. PICK f \in Nat : f = faults'
  BY <1>1
<1>3. PICK t \in Nat : t = s.at /\ at <= t /\ top <= t /\ t <= at + f
  BY <1>2 DEF Slots
<1>4. Near(s, at)'
  <2>1. t <= at + f /\ at <= t + slips /\ now <= t + slips
    BY <1>1, <1>3
  <2>. QED
    BY <1>2, <1>3, <2>1 DEF Near
<1>5. \A u \in slots : u.at \in Nat /\ u.at + Cooling <= top
  BY DEF Plan, Slots
<1>6. Plan(more, over)'
  <2>1. \A u, v \in slots \cup {s} :
           u = v \/ u.at + Cooling <= v.at \/ v.at + Cooling <= u.at
    BY <1>1, <1>3, <1>5 DEF Plan
  <2>2. \A u \in slots \cup {s} : u.at + Cooling <= over
    BY <1>1, <1>3, <1>5
  <2>3. \A x \in mandate' : x.next # {} /\ \A n \in x.next : over <= n + faults'
    <3>1. t + Cooling <= at + Cooling + f
      BY <1>1, <1>3
    <3>2. \A x \in mandate' : x.next = {at + Cooling}
      OBVIOUS
    <3>. QED
      BY <1>2, <1>3, <3>1, <3>2
  <2>4. mandate' # {}
    OBVIOUS
  <2>. QED
    BY <2>1, <2>2, <2>3, <2>4 DEF Plan
<1>. QED
  BY <1>4, <1>6

LEMMA ScheduleHolds ==
    ASSUME NEW slots \in SUBSET Slots, NEW top \in Nat, Holds(slots, top),
           NEW i \in Incidents, incidents[i].state # "none",
           NEW cmd, cmd.delay \in Nat, NEW skew \in Int, skew <= 1,
           i \in recurring => \A r \in mandate : \A n \in r.next : n <= now + cmd.delay + skew,
           NEW waiting, Handling(waiting), NEW task, TaskFine(slots, task), ~Committing(task),
           NEW stop, Conclude(stop, task, waiting), FaultsOK', faults <= faults',
           skew # 0 => faults + 1 <= faults',
           Schedule(i, cmd, stop), breaker' \in BreakerStates, "worker" \in alive
    PROVE  \E more \in SUBSET Slots, over \in Nat : Holds(more, over)'
<1>1. SimTyped /\ Plan(slots, top) /\ MandateOK
  BY DEF Holds, SimTyped
<1>2. PICK at \in Nat : at = now + cmd.delay /\ now <= at
  BY <1>1, Numbers
<1>3. PICK count \in Nat : count = incidents[i].count
  BY <1>1, Counts
<1>. DEFINE reserves == i \in recurring /\ stop \in {"none", "tx", "state"}
            queued == stop \in {"none", "state"}
            entry == Row(i, "execute", count + 1, at, 0)
<1>4. /\ mandate' = IF reserves
                    THEN {[r EXCEPT !.next = {at + Cooling}, !.cycle = @ + 1] : r \in mandate}
                    ELSE mandate
      /\ monitor' = IF reserves THEN [monitor EXCEPT !.notified = TRUE] ELSE monitor
      /\ outbox' = IF queued THEN Append(outbox, entry) ELSE outbox
      /\ incidents' = IF stop = "none" THEN Moved(i, "SCHEDULED") ELSE incidents
  BY <1>2, <1>3 DEF Schedule
<1>5. /\ entry \in OutboxRows /\ Publishable(entry) /\ entry.inc = i /\ entry.phase = "execute"
      /\ entry.attempt = count + 1 /\ entry.at = at
  <2>1. MaxPublishAttempts \in Nat \ {0}
    BY SimulationAssumption
  <2>. QED
    BY <2>1 DEF Row, OutboxRows, Publishable
<1>. HIDE DEF entry
<1>6. /\ IncidentsOK' /\ Onward
      /\ \A j \in Incidents : incidents'[j].count = incidents[j].count
      /\ \A j \in Incidents : incidents'[j].state # "none" => incidents[j].state # "none"
  <2>1. "SCHEDULED" \in States \ {"none", "RECEIVED"}
    BY DEF States, Terminal
  <2>2. CASE stop = "none"
    BY <1>1, <1>4, <2>1, <2>2, MovedIs
  <2>3. CASE stop # "none"
    BY <1>1, <1>4, <2>3, SameIncidents
  <2>. QED
    BY <2>2, <2>3
<1>7. OutboxOK' /\ \A e \in Range(outbox') : e \in Range(outbox) \/ (queued /\ e = entry)
  <2>1. CASE queued
    <3>1. outbox' = Append(outbox, entry)
      BY <1>4, <2>1
    <3>2. OutboxOK' /\ Range(outbox') = Range(outbox) \cup {entry}
      BY <1>1, <1>5, <3>1, RowAdded
    <3>. QED
      BY <2>1, <3>2
  <2>2. CASE ~queued
    BY <1>1, <1>4, <2>2 DEF SimTyped, OutboxOK
  <2>. QED
    BY <2>1, <2>2
<1>8. /\ WatchOK' /\ (monitor.notified => monitor'.notified) /\ (reserves => monitor'.notified)
      /\ monitor'.debits = monitor.debits /\ monitor'.last = monitor.last
  <2>1. monitor \in Monitors
    BY <1>1 DEF SimTyped, WatchOK
  <2>2. CASE reserves
    <3>1. monitor' = [monitor EXCEPT !.notified = TRUE]
      BY <1>4, <2>2
    <3>. QED
      BY <2>1, <3>1 DEF WatchOK, Monitors
  <2>3. CASE ~reserves
    <3>1. monitor' = monitor
      BY <1>4, <2>3
    <3>. QED
      BY <2>1, <2>3, <3>1 DEF WatchOK
  <2>. QED
    BY <2>2, <2>3
<1>9. slips' = slips /\ now' = now /\ recurring' = recurring
  BY DEF Handling
<1>10. CASE ~reserves
  <2>1. mandate' = mandate
    BY <1>4, <1>10
  <2>2. MandateOK' /\ LastDebits' = LastDebits
    BY <1>1, <1>6, <1>9, <2>1, MandateKeeps DEF LastDebits
  <2>3. Calm
    BY <1>6, <1>8, <1>9, SimulationAssumption DEF Calm, Onward, FaultsOK
  <2>4. Plan(slots, top)'
    BY <1>1, <2>1, <2>3, PlanKeeps
  <2>5. \A e \in Range(outbox') : e \in Range(outbox) \/ RowFine(slots, e)'
    <3>. SUFFICES ASSUME queued PROVE RowFine(slots, entry)'
      BY <1>7
    <3>1. i \notin recurring'
      BY <1>9, <1>10
    <3>2. incidents'[i].count = count /\ incidents'[i].state # "none"
      BY <1>3, <1>6 DEF Onward
    <3>3. Due(slots, i, count + 1, at)'
      BY <3>1, <3>2 DEF Due
    <3>. QED
      BY <1>5, <3>2, <3>3 DEF RowFine
  <2>. QED
    BY <1>6, <1>7, <1>8, <2>2, <2>4, <2>5, HandledHolds
<1>11. CASE reserves
  <2>1. mandate # {}
    BY <1>1, <1>11 DEF MandateOK
  <2>2. PICK r \in MandateRows : mandate = {r}
    BY <1>1, <2>1, Single
  <2>3. PICK q : q = [r EXCEPT !.next = {at + Cooling}, !.cycle = @ + 1]
    OBVIOUS
  <2>4. q \in MandateRows /\ q.last = r.last /\ q.next = {at + Cooling}
    <3>1. at + Cooling \in Nat
      BY <1>1, Numbers
    <3>2. {at + Cooling} \in Times
      BY <3>1 DEF Times
    <3>3. r.cycle + 1 \in Nat
      BY DEF MandateRows
    <3>4. PICK ts \in Times : ts = {at + Cooling}
      BY <3>2
    <3>5. PICK c \in Nat : c = r.cycle + 1
      BY <3>3
    <3>6. q = [r EXCEPT !.next = ts, !.cycle = c]
      BY <2>3, <3>4, <3>5
    <3>7. q \in MandateRows /\ q.last = r.last /\ q.next = ts
      BY <3>6 DEF MandateRows
    <3>. QED
      BY <3>4, <3>7
  <2>5. mandate' = {q}
    <3>1. mandate' = {[x EXCEPT !.next = {at + Cooling}, !.cycle = @ + 1] : x \in mandate}
      BY <1>4, <1>11
    <3>. QED
      BY <2>2, <2>3, <3>1
  <2>6. MandateOK' /\ LastDebits' = LastDebits
    <3>1. MandateOK'
      BY <2>4, <2>5 DEF MandateOK
    <3>. QED
      BY <2>2, <2>4, <2>5, <3>1 DEF LastDebits
  <2>7. \A n \in r.next : n <= at + skew
    BY <1>2, <1>11, <2>2
  <2>8. Reserving(r, at, skew, q)
    BY <1>2, <1>9, <2>2, <2>4, <2>5, <2>7 DEF Reserving
  <2>9. Plan(slots, top)' /\ \E t \in Nat : at <= t /\ top <= t /\ t <= at + faults'
    BY <1>1, <2>8, ReserveBound
  <2>10. CASE ~queued
    <3>1. \A e \in Range(outbox') : e \in Range(outbox) \/ RowFine(slots, e)'
      BY <1>7, <2>10
    <3>. QED
      BY <1>6, <1>7, <1>8, <2>6, <2>9, <3>1, HandledHolds
  <2>11. CASE queued
    <3>t. PICK t \in Nat : at <= t /\ top <= t /\ t <= at + faults'
      BY <2>9
    <3>s. PICK s \in Slots : s.inc = i /\ s.attempt = count + 1 /\ s.at = t
      <4>1. [inc |-> i, attempt |-> count + 1, at |-> t] \in Slots
        BY DEF Slots
      <4>. QED
        BY <4>1
    <3>2. PICK more \in SUBSET Slots : more = slots \cup {s}
      OBVIOUS
    <3>o. PICK over \in Nat : over = s.at + Cooling
      BY <1>1, <3>s, Numbers
    <3>1. Near(s, at)' /\ Plan(more, over)'
      BY <1>1, <2>8, <3>t, <3>s, <3>2, <3>o, ReserveHolds
    <3>3. RowFine(more, entry)'
      <4>1. incidents'[i].count = count /\ incidents'[i].state # "none"
        BY <1>3, <1>6 DEF Onward
      <4>2. monitor'.notified
        BY <1>8, <1>11
      <4>3. \E u \in more : u.inc = i /\ u.attempt = count + 1 /\ Near(u, at)'
        BY <3>1, <3>2, <3>s
      <4>4. Due(more, i, count + 1, at)'
        BY <4>1, <4>2, <4>3 DEF Due
      <4>. QED
        BY <1>5, <4>1, <4>4 DEF RowFine
    <3>4. \A e \in Range(outbox') : e \in Range(outbox) \/ RowFine(more, e)'
      BY <1>7, <3>3
    <3>5. Plan(more, over)' /\ slots \subseteq more
      BY <3>1, <3>2
    <3>6. Holds(more, over)'
      BY <1>6, <1>7, <1>8, <2>6, <3>4, <3>5, HandledHolds
    <3>. QED
      BY <3>6
  <2>. QED
    BY <2>10, <2>11
<1>. QED
  BY <1>10, <1>11

\* The gate's view of the incident is one it is made for.
LEMMA GateInputIs ==
    ASSUME SimTyped, NEW i \in Incidents, NEW action \in Actions, NEW skew \in Int
    PROVE  /\ GateInputOf(i, action, skew) \in GateInputs
           /\ GateInputOf(i, action, skew).recurring <=> i \in recurring
           /\ GateInputOf(i, action, skew).mandate = Attached(i, skew)
<1>1. "card" \in Rails /\ (CHOOSE r \in Rails : r # "card") \in Rails
  BY SimulationAssumption
<1>2. incidents[i].count \in Int
  BY Counts
<1>3. Attached(i, skew) \subseteq Mandates
  <2>1. ASSUME NEW r \in mandate
        PROVE  [wait |-> {t - now - skew : t \in r.next}, notice |-> {}, attempts |-> r.cycle,
                halted |-> r.halted, category |-> "general"] \in Mandates
    <3>1. r.next \subseteq Nat /\ r.cycle \in Nat /\ r.halted \in BOOLEAN /\ now \in Nat
      BY <2>1, Kept, Numbers
    <3>2. {t - now - skew : t \in r.next} \in SUBSET Int
      BY <3>1
    <3>3. PICK wait \in SUBSET Int : wait = {t - now - skew : t \in r.next}
      BY <3>2
    <3>4. [wait |-> wait, notice |-> {}, attempts |-> r.cycle,
           halted |-> r.halted, category |-> "general"] \in Mandates
      BY <3>1 DEF Mandates, Categories
    <3>. QED
      BY <3>3, <3>4
  <2>. QED
    BY <2>1 DEF Attached
<1>4. PICK m \in SUBSET Mandates : m = Attached(i, skew)
  BY <1>3
<1>5. PICK target \in Rails : target = (CHOOSE r \in Rails : r # "card")
  BY <1>1
<1>6. PICK rec : rec = (i \in recurring)
  OBVIOUS
<1>7. PICK ses : ses = (i \in session)
  OBVIOUS
<1>b. rec \in BOOLEAN /\ ses \in BOOLEAN
  BY <1>6, <1>7
<1>8. PICK count \in Int : count = incidents[i].count
  BY <1>2
<1>. DEFINE in == [recurring |-> rec, amount |-> 1, rail |-> "card", session |-> ses,
                   available |-> Rails, attempt |-> count, mandate |-> m,
                   terminal |-> FALSE, confident |-> TRUE, recoverable |-> TRUE, foreign |-> FALSE,
                   action |-> action, target |-> target, delay |-> 0]
<1>9. in \in GateInputs /\ in.recurring = rec /\ in.mandate = m
  BY <1>1, <1>b DEF GateInputs
<1>10. GateInputOf(i, action, skew) = in
  BY <1>4, <1>5, <1>6, <1>7, <1>8 DEF GateInputOf, PaymentOf, Surroundings
<1>. HIDE DEF in
<1>. QED
  BY <1>4, <1>6, <1>9, <1>10

\* A debit of the mandate waits for it.
LEMMA Awaits ==
    ASSUME NEW in \in GateInputs, NEW m, in.mandate = {m}, NEW w \in m.wait, m.wait = {w}
    PROVE  Required(in) >= w
<1>1. w \in Int
  BY InputTypes DEF Mandates
<1>2. UNION {x.wait : x \in in.mandate} = {w}
  OBVIOUS
<1>3. CASE w > Cooling
  <2>1. {x \in UNION {y.wait : y \in in.mandate} : x > Cooling} = {w}
    BY <1>2, <1>3
  <2>2. Required(in) = CHOOSE x \in {w} : TRUE
    BY <2>1 DEF Required
  <2>3. Required(in) = w
    BY <2>2
  <2>. QED
    BY <1>1, <2>3
<1>4. CASE ~(w > Cooling)
  BY <1>1, <1>4, RequiredIs, Limits
<1>. QED
  BY <1>3, <1>4

LEMMA CommandIs ==
    ASSUME SimTyped, NEW i \in Incidents, NEW action \in Actions, NEW skew \in Int,
           NEW backoff \in PolicyBackoffs, CommandFor(i, action, backoff, skew).action \in Executable
    PROVE  LET cmd == CommandFor(i, action, backoff, skew)
           IN  /\ cmd.delay \in Nat
               /\ i \in recurring =>
                     \A r \in mandate : \A n \in r.next : n <= now + cmd.delay + skew
<1>. DEFINE cmd == CommandFor(i, action, backoff, skew)
<1>1. PICK in \in GateInputs : in = GateInputOf(i, action, skew)
  BY GateInputIs
<1>2. backoff \in Int
  BY SimulationAssumption
<1>3. cmd = Decide(in, backoff)
  BY <1>1 DEF CommandFor
<1>. HIDE DEF cmd
<1>4. cmd.delay \in 0..MaxRecommendedDelay /\ (in.recurring => cmd.delay >= Required(in))
  <2>1. Complies(in, cmd)
    BY <1>2, <1>3, Compliant
  <2>2. cmd.action \in Executable
    BY DEF cmd
  <2>. QED
    BY <2>1, <2>2 DEF Complies
<1>5. cmd.delay \in Nat
  BY <1>4, Limits
<1>6. ASSUME i \in recurring, NEW r \in mandate, NEW n \in r.next
      PROVE  n <= now + cmd.delay + skew
  <2>1. PICK q \in MandateRows : mandate = {q}
    BY <1>6, Single
  <2>2. r = q /\ n \in Nat /\ now \in Nat /\ r.next \in Times
    BY <1>6, <2>1, Kept, Numbers
  <2>3. r.next = {n}
    BY <1>6, <2>2 DEF Times
  <2>. DEFINE m == [wait |-> {t - now - skew : t \in r.next}, notice |-> {}, attempts |-> r.cycle,
                    halted |-> r.halted, category |-> "general"]
  <2>4. in.mandate = {m} /\ in.recurring
    <3>1. in.mandate = Attached(i, skew) /\ (in.recurring <=> i \in recurring)
      BY <1>1, GateInputIs
    <3>2. Attached(i, skew) = {m}
      BY <1>6, <2>1, <2>2 DEF Attached
    <3>. QED
      BY <1>6, <3>1, <3>2
  <2>5. m.wait = {n - now - skew}
    BY <2>3
  <2>. HIDE DEF m
  <2>6. Required(in) >= n - now - skew
    <3>1. PICK w \in Int : w = n - now - skew
      BY <2>2
    <3>2. Required(in) >= w
      BY <2>4, <2>5, <3>1, Awaits
    <3>. QED
      BY <3>1, <3>2
  <2>7. Required(in) \in Int
    BY RequiredIs
  <2>. QED
    BY <1>4, <1>5, <2>2, <2>4, <2>6, <2>7
<1>. QED
  BY <1>5, <1>6 DEF cmd

LEMMA HalfOpenedIs ==
    ASSUME NEW b \in BreakerStates
    PROVE  HalfOpened(b) \in BreakerStates
<1>1. PICK z \in 0..MaxProbes : z = 0
  BY SimulationAssumption
<1>2. [b EXCEPT !.state = "half", !.cooled = FALSE, !.probes = z] \in BreakerStates
  BY DEF BreakerStates
<1>. QED
  BY <1>1, <1>2 DEF HalfOpened

LEMMA AdmittedIs ==
    ASSUME breaker \in BreakerStates
    PROVE  LET b == HalfOpened(breaker) IN Admitted(b) \in BreakerStates
<1>1. MaxProbes \in Nat \ {0}
  BY SimulationAssumption
<1>2. PICK b : b = HalfOpened(breaker)
  OBVIOUS
<1>3. b \in BreakerStates
  BY <1>2, HalfOpenedIs
<1>4. Admitted(b) \in BreakerStates
  <2>1. CASE b.state = "half" /\ Admits(b)
    <3>1. b.probes \in 0..MaxProbes /\ b.probes < MaxProbes
      BY <1>3, <2>1 DEF Admits, BreakerStates
    <3>2. PICK n \in 0..MaxProbes : n = b.probes + 1
      BY <1>1, <3>1
    <3>3. Admitted(b) = [b EXCEPT !.probes = n]
      BY <2>1, <3>2 DEF Admitted
    <3>. QED
      BY <1>3, <3>3 DEF BreakerStates
  <2>2. CASE ~(b.state = "half" /\ Admits(b))
    BY <1>3, <2>2 DEF Admitted
  <2>. QED
    BY <2>1, <2>2
<1>. QED
  BY <1>2, <1>4

LEMMA HandleDecideHolds ==
    ASSUME NEW slots \in SUBSET Slots, NEW top \in Nat, Holds(slots, top),
           NEW m, MessageFine(slots, m), NEW waiting, Handling(waiting),
           NEW skews \in SUBSET Int, \A skew \in skews : skew <= 1,
           "worker" \notin alive => incidents[m.inc].state \in Terminal,
           HandleDecide(m, waiting, skews)
    PROVE  \E more \in SUBSET Slots, over \in Nat : Holds(more, over)'
<1>1. SimTyped /\ breaker \in BreakerStates /\ FaultsOK
  BY DEF Holds, SimTyped, WatchOK
<1>2. m.inc \in Incidents /\ m.attempt \in Nat /\ incidents[m.inc].state # "none"
  BY DEF MessageFine
<1>3. PICK task : task = Task("decide", m, FALSE)
  OBVIOUS
<1>4. TaskFine(slots, task) /\ ~Committing(task) /\ task.msg = m
  <2>1. task.stage = "decide" /\ task.msg = m /\ task.ok = FALSE
    BY <1>3 DEF Task
  <2>. QED
    BY <1>2, <2>1 DEF TaskFine, Committing
<1>5. CASE incidents[m.inc].state \in Terminal
  <2>1. Conclude("none", task, waiting) /\ Spared
        /\ UNCHANGED <<incidents, mandate, outbox, breaker, monitor>>
    BY <1>3, <1>5 DEF HandleDecide, storeVars
  <2>2. FaultsOK' /\ faults <= faults'
    BY <1>1, <2>1, HitIs
  <2>3. breaker' \in BreakerStates
    BY <1>1, <2>1
  <2>4. Holds(slots, top)'
    BY <1>4, <2>1, <2>2, <2>3, ShrugHolds
  <2>. QED
    BY <2>4
<1>6. CASE incidents[m.inc].state \notin Terminal
  <2>1. PICK stop \in Stop({"none", "read", "save", "tx", "state"}), skew \in skews,
             action \in (IF Admits(HalfOpened(breaker)) THEN Proposable ELSE {"abstain"}),
             backoff \in PolicyBackoffs :
           LET cmd == CommandFor(m.inc, action, backoff, skew)
           IN  /\ CountedBoth(stop, skew # 0)
               /\ Conclude(stop, Task("decide", m, FALSE), waiting)
               /\ breaker' = Admitted(HalfOpened(breaker))
               /\ IF cmd.action \in Executable THEN Schedule(m.inc, cmd, stop)
                                               ELSE Abstain(m.inc, cmd, stop)
    BY <1>6 DEF HandleDecide
  <2>2. action \in Actions
    BY SimulationAssumption DEF Actions
  <2>3. skew \in Int /\ skew <= 1
    OBVIOUS
  <2>4. FaultsOK' /\ faults <= faults' /\ (skew # 0 => faults + 1 <= faults')
    <3>1. PICK other \in BOOLEAN : other = (skew # 0)
      OBVIOUS
    <3>2. CountedBoth(stop, other)
      BY <2>1, <3>1
    <3>. QED
      BY <1>1, <3>1, <3>2, CountedBothIs
  <2>5. breaker' \in BreakerStates
    BY <1>1, <2>1, AdmittedIs
  <2>6. PICK cmd : cmd = CommandFor(m.inc, action, backoff, skew)
    OBVIOUS
  <2>7. Conclude(stop, task, waiting) /\ "worker" \in alive
    BY <1>3, <1>6, <2>1
  <2>8. CASE cmd.action \in Executable
    <3>1. Schedule(m.inc, cmd, stop)
      BY <2>1, <2>6, <2>8
    <3>2. /\ cmd.delay \in Nat
          /\ m.inc \in recurring => \A r \in mandate : \A n \in r.next : n <= now + cmd.delay + skew
      BY <1>1, <1>2, <2>2, <2>3, <2>6, <2>8, CommandIs
    <3>. QED
      BY <1>2, <1>4, <2>3, <2>4, <2>5, <2>7, <3>1, <3>2, ScheduleHolds
  <2>9. CASE cmd.action \notin Executable
    <3>1. Abstain(m.inc, cmd, stop)
      BY <2>1, <2>6, <2>9
    <3>2. Holds(slots, top)'
      BY <1>2, <1>4, <2>4, <2>5, <2>7, <3>1, AbstainHolds
    <3>. QED
      BY <3>2
  <2>. QED
    BY <2>8, <2>9
<1>. QED
  BY <1>5, <1>6

-----------------------------------------------------------------------------
(* handleExecute *)

\* What is in force of a message to execute.
ToExecute(slots, m) == MessageFine(slots, m) /\ m.phase = "execute"

LEMMA ExecuteTask ==
    ASSUME NEW slots, NEW m, ToExecute(slots, m)
    PROVE  LET task == Task("execute", m, FALSE)
           IN  TaskFine(slots, task) /\ ~Committing(task) /\ task.msg = m
<1>1. PICK task : task = Task("execute", m, FALSE)
  OBVIOUS
<1>2. task.stage = "execute" /\ task.msg = m /\ task.ok = FALSE
  BY <1>1 DEF Task
<1>3. TaskFine(slots, task) /\ ~Committing(task)
  BY <1>2 DEF ToExecute, MessageFine, TaskFine, Committing
<1>. QED
  BY <1>1, <1>2, <1>3

LEMMA RefuseHolds ==
    ASSUME NEW slots \in SUBSET Slots, NEW top \in Nat, Holds(slots, top),
           NEW m, ToExecute(slots, m), NEW waiting, Handling(waiting), "worker" \in alive,
           Refuse(m, waiting)
    PROVE  Holds(slots, top)'
<1>1. SimTyped /\ Plan(slots, top) /\ FaultsOK
  BY DEF Holds, SimTyped
<1>2. PICK stop \in Stop({"none", "state"}) :
         /\ Counted(stop) /\ Conclude(stop, Task("execute", m, FALSE), waiting)
         /\ incidents' = IF stop = "none" THEN Moved(m.inc, "ABSTAINED") ELSE incidents
  BY DEF Refuse
<1>3. UNCHANGED <<mandate, outbox, breaker, monitor>>
  BY DEF Refuse
<1>4. PICK task : /\ task = Task("execute", m, FALSE)
                  /\ TaskFine(slots, task) /\ ~Committing(task) /\ task.msg = m
  BY ExecuteTask
<1>5. FaultsOK' /\ faults <= faults'
  BY <1>1, <1>2, CountedIs
<1>6. m.inc \in Incidents /\ incidents[m.inc].state # "none"
  BY DEF ToExecute, MessageFine
<1>7. /\ IncidentsOK' /\ Onward
      /\ \A j \in Incidents : incidents'[j].state # "none" => incidents[j].state # "none"
  <2>1. "ABSTAINED" \in States \ {"none", "RECEIVED"}
    BY DEF States, Terminal
  <2>2. CASE stop = "none"
    BY <1>1, <1>2, <1>6, <2>1, <2>2, MovedIs
  <2>3. CASE stop # "none"
    BY <1>1, <1>2, <2>3, SameIncidents
  <2>. QED
    BY <2>2, <2>3
<1>8. OutboxOK' /\ WatchOK'
  BY <1>1, <1>3 DEF SimTyped, OutboxOK, WatchOK
<1>9. MandateOK' /\ LastDebits' = LastDebits
  BY <1>1, <1>3, <1>7, MandateKeeps DEF Handling, LastDebits
<1>10. Plan(slots, top)'
  <2>1. Calm
    BY <1>3, <1>5, <1>7, SimulationAssumption DEF Calm, Onward, Handling, FaultsOK
  <2>. QED
    BY <1>1, <1>3, <2>1, PlanKeeps
<1>. QED
  BY <1>2, <1>3, <1>4, <1>5, <1>7, <1>8, <1>9, <1>10, HandledHolds

\* Of an execution under way and a debit that took place, the slots are apart.
LEMMA SlotsApart ==
    ASSUME NEW slots \in SUBSET Slots, NEW top \in Nat, Plan(slots, top), SimTyped,
           NEW s \in slots, NEW u \in slots,
           s.attempt > incidents[s.inc].count, u.attempt <= incidents[u.inc].count
    PROVE  s.at + Cooling <= u.at \/ u.at + Cooling <= s.at
<1>1. s.inc \in Incidents /\ u.inc \in Incidents /\ s.attempt \in Nat /\ u.attempt \in Nat
  BY DEF Slots
<1>2. incidents[s.inc].count \in Nat /\ incidents[u.inc].count \in Nat
  BY <1>1, Counts
<1>3. s # u
  BY <1>1, <1>2
<1>. QED
  BY <1>3 DEF Plan

\* A deferred debit keeps to its slot: the debit that stands in its way has one
\* before it.
LEMMA DeferHolds ==
    ASSUME NEW slots \in SUBSET Slots, NEW top \in Nat, Holds(slots, top),
           NEW m, ToExecute(slots, m), NEW waiting, Handling(waiting), "worker" \in alive,
           m.inc \in recurring, TooEarly, Defer(m, waiting)
    PROVE  Holds(slots, top)'
<1>1. SimTyped /\ Plan(slots, top) /\ FaultsOK /\ Money(slots)
  BY DEF Holds, SimTyped
<1>2. PICK stop \in Stop({"none", "tx"}) :
         /\ Counted(stop) /\ Conclude(stop, Task("execute", m, FALSE), waiting)
         /\ outbox' = IF stop = "none" THEN Deferred(m) ELSE outbox
  BY DEF Defer
<1>3. UNCHANGED <<incidents, mandate, breaker, monitor>>
  BY DEF Defer
<1>4. PICK task : /\ task = Task("execute", m, FALSE)
                  /\ TaskFine(slots, task) /\ ~Committing(task) /\ task.msg = m
  BY ExecuteTask
<1>5. FaultsOK' /\ faults <= faults'
  BY <1>1, <1>2, CountedIs
<1>6. /\ m.inc \in Incidents /\ incidents[m.inc].state # "none" /\ m.attempt \in Nat
      /\ m.deferrals \in Nat /\ Due(slots, m.inc, m.attempt, now)
  BY DEF ToExecute, MessageFine
<1>7. /\ IncidentsOK' /\ Onward
      /\ \A j \in Incidents : incidents'[j].state # "none" => incidents[j].state # "none"
  BY <1>1, <1>3, SameIncidents
<1>8. WatchOK'
  BY <1>1, <1>3 DEF SimTyped, WatchOK
<1>9. MandateOK' /\ LastDebits' = LastDebits
  BY <1>1, <1>3, <1>7, MandateKeeps DEF Handling, LastDebits
<1>10. Calm
  BY <1>3, <1>5, <1>7, SimulationAssumption DEF Calm, Onward, Handling, FaultsOK
<1>11. Plan(slots, top)'
  BY <1>1, <1>3, <1>10, PlanKeeps
<1>12. PICK last \in LastDebits : (CHOOSE t \in OpensAt : TRUE) = last + Cooling /\ now < last + Cooling
  <2>1. OpensAt = {t + Cooling : t \in LastDebits}
    BY DEF OpensAt, LastDebits
  <2>2. PICK last \in LastDebits : now < last + Cooling
    BY <2>1 DEF TooEarly
  <2>3. LastDebits = {last}
    BY <1>1, <2>2, Kept
  <2>4. OpensAt = {last + Cooling}
    BY <2>1, <2>3
  <2>5. (CHOOSE t \in {last + Cooling} : TRUE) = last + Cooling
    OBVIOUS
  <2>. QED
    BY <2>2, <2>4, <2>5
<1>13. last \in Nat /\ Took(slots, last)
  BY <1>1, Kept DEF Money
<1>14. PICK at \in Nat : at = last + Cooling /\ now < at
  BY <1>1, <1>12, <1>13, Numbers
<1>15. Due(slots, m.inc, m.attempt, at)
  <2>. SUFFICES ASSUME m.attempt > incidents[m.inc].count
                PROVE  \E s \in slots : s.inc = m.inc /\ s.attempt = m.attempt /\ Near(s, at)
    BY <1>6 DEF Due
  <2>1. PICK s \in slots : s.inc = m.inc /\ s.attempt = m.attempt /\ Near(s, now)
    BY <1>6 DEF Due
  <2>2. PICK u \in slots : /\ u.attempt <= incidents[u.inc].count
                           /\ u.at <= last + faults /\ last <= u.at + slips /\ last <= now
    BY <1>13 DEF Took
  <2>3. s.at + Cooling <= u.at \/ u.at + Cooling <= s.at
    BY <1>1, <2>1, <2>2, SlotsApart
  <2>4. s.at \in Nat /\ u.at \in Nat
    BY DEF Slots
  <2>5. s.at <= now + faults /\ now <= s.at + slips
    BY <2>1 DEF Near
  <2>6. /\ now \in Nat /\ faults \in Nat /\ slips \in Nat /\ Cooling \in Nat
        /\ slips + faults < Cooling
    BY <1>1, Numbers
  <2>7. u.at + Cooling <= s.at
    BY <1>13, <2>2, <2>3, <2>4, <2>5, <2>6
  <2>8. s.at <= at + faults /\ at <= s.at + slips
    BY <1>13, <1>14, <2>2, <2>4, <2>5, <2>6, <2>7
  <2>. QED
    BY <2>1, <2>5, <2>8 DEF Near
<1>16. PICK entry : entry = Row(m.inc, "execute", m.attempt, at, m.deferrals + 1)
  OBVIOUS
<1>17. /\ entry \in OutboxRows /\ Publishable(entry) /\ entry.inc = m.inc /\ entry.phase = "execute"
       /\ entry.attempt = m.attempt /\ entry.at = at
  <2>1. MaxPublishAttempts \in Nat \ {0}
    BY SimulationAssumption
  <2>2. PICK n \in Nat : n = m.deferrals + 1
    BY <1>6
  <2>3. entry = Row(m.inc, "execute", m.attempt, at, n)
    BY <1>16, <2>2
  <2>. QED
    BY <1>6, <2>1, <2>3 DEF Row, OutboxRows, Publishable
<1>18. RowFine(slots, entry)
  BY <1>6, <1>15, <1>17 DEF RowFine
<1>19. RowFine(slots, entry)'
  BY <1>1, <1>10, <1>17, <1>18, RowKeeps
<1>20. OutboxOK' /\ \A e \in Range(outbox') : e \in Range(outbox) \/ RowFine(slots, e)'
  <2>1. CASE stop = "none"
    <3>1. outbox' = Append(outbox, entry)
      BY <1>2, <1>12, <1>14, <1>16, <2>1 DEF Deferred
    <3>2. OutboxOK' /\ Range(outbox') = Range(outbox) \cup {entry}
      BY <1>1, <1>17, <3>1, RowAdded
    <3>. QED
      BY <1>19, <3>2
  <2>2. CASE stop # "none"
    BY <1>1, <1>2, <2>2 DEF SimTyped, OutboxOK
  <2>. QED
    BY <2>1, <2>2
<1>. QED
  BY <1>2, <1>3, <1>4, <1>5, <1>7, <1>8, <1>9, <1>11, <1>20, HandledHolds

\* The claim counts the attempt.
LEMMA ClaimedIs ==
    ASSUME SimTyped, NEW i \in Incidents, incidents[i].state # "none", incidents[i].state \notin Terminal
    PROVE  LET from == Claimed(i)
           IN  /\ from \in [Incidents -> [state : States, count : Nat]]
               /\ \A j \in Incidents : from[j].state \in {"none", "RECEIVED"} => from[j].count = 0
               /\ from[i].state = "EXECUTING" /\ from[i].count = incidents[i].count + 1
               /\ \A j \in Incidents : j # i => from[j] = incidents[j]
<1>1. /\ incidents \in [Incidents -> [state : States, count : Nat]]
      /\ \A j \in Incidents : incidents[j].state \in {"none", "RECEIVED"} => incidents[j].count = 0
  BY DEF SimTyped, IncidentsOK
<1>2. PICK n \in Nat : n = incidents[i].count + 1
  BY Counts
<1>3. PICK from : from = Claimed(i)
  OBVIOUS
<1>4. from = [incidents EXCEPT ![i] = [state |-> "EXECUTING", count |-> n]]
  BY <1>1, <1>2, <1>3 DEF Claimed
<1>5. [state |-> "EXECUTING", count |-> n] \in [state : States, count : Nat]
  BY DEF States
<1>6. from \in [Incidents -> [state : States, count : Nat]]
  BY <1>1, <1>4, <1>5
<1>7. /\ from[i].state = "EXECUTING" /\ from[i].count = n
      /\ \A j \in Incidents : j # i => from[j] = incidents[j]
  BY <1>1, <1>4
<1>. QED
  BY <1>1, <1>2, <1>3, <1>6, <1>7

LEMMA ClaimInVainHolds ==
    ASSUME NEW slots \in SUBSET Slots, NEW top \in Nat, Holds(slots, top),
           NEW m, ToExecute(slots, m), NEW waiting, Handling(waiting), "worker" \in alive,
           incidents[m.inc].state \notin Terminal, ClaimInVain(m, waiting)
    PROVE  Holds(slots, top)'
<1>1. SimTyped /\ Plan(slots, top) /\ FaultsOK
  BY DEF Holds, SimTyped
<1>2. /\ Hit("store") /\ Conclude("state", Task("execute", m, FALSE), waiting)
      /\ UNCHANGED <<mandate, outbox, breaker, monitor>>
  BY DEF ClaimInVain
<1>3. PICK task : /\ task = Task("execute", m, FALSE)
                  /\ TaskFine(slots, task) /\ ~Committing(task) /\ task.msg = m
  BY ExecuteTask
<1>4. FaultsOK' /\ faults <= faults'
  BY <1>1, <1>2, HitIs
<1>5. m.inc \in Incidents /\ incidents[m.inc].state # "none"
  BY DEF ToExecute, MessageFine
<1>6. /\ IncidentsOK' /\ Onward
      /\ \A j \in Incidents : incidents'[j].state # "none" => incidents[j].state # "none"
  <2>1. CASE incidents' = incidents
    BY <1>1, <2>1, SameIncidents
  <2>2. CASE incidents' = Claimed(m.inc)
    <3>1. /\ incidents' \in [Incidents -> [state : States, count : Nat]]
          /\ \A j \in Incidents : incidents'[j].state \in {"none", "RECEIVED"} => incidents'[j].count = 0
          /\ incidents'[m.inc].state = "EXECUTING"
          /\ incidents'[m.inc].count = incidents[m.inc].count + 1
          /\ \A j \in Incidents : j # m.inc => incidents'[j] = incidents[j]
      BY <1>1, <1>5, <2>2, ClaimedIs
    <3>2. IncidentsOK'
      BY <3>1 DEF IncidentsOK
    <3>3. Onward
      BY <1>1, <3>1, Counts DEF Onward
    <3>. QED
      BY <1>5, <3>1, <3>2, <3>3
  <2>. QED
    BY <2>1, <2>2 DEF ClaimInVain
<1>7. OutboxOK' /\ WatchOK'
  BY <1>1, <1>2 DEF SimTyped, OutboxOK, WatchOK
<1>8. MandateOK' /\ LastDebits' = LastDebits
  BY <1>1, <1>2, <1>6, MandateKeeps DEF Handling, LastDebits
<1>9. Plan(slots, top)'
  <2>1. Calm
    BY <1>2, <1>4, <1>6, SimulationAssumption DEF Calm, Onward, Handling, FaultsOK
  <2>. QED
    BY <1>1, <1>2, <2>1, PlanKeeps
<1>. QED
  BY <1>2, <1>3, <1>4, <1>6, <1>7, <1>8, <1>9, HandledHolds

-----------------------------------------------------------------------------
(* The debit and its record *)

LEMMA ReportedIs ==
    ASSUME breaker \in BreakerStates, NEW ok \in BOOLEAN
    PROVE  Reported(breaker, ok) \in BreakerStates
<1>1. PICK z \in 0..MaxProbes : z = 0
  BY SimulationAssumption
<1>2. ClosedBreaker \in BreakerStates
  BY <1>1 DEF ClosedBreaker, BreakerStates
<1>3. PICK b1 \in BreakerStates : b1 = HalfOpened(breaker)
  BY HalfOpenedIs
<1>4. PICK good \in Nat : good = b1.ok + 1
  BY DEF BreakerStates
<1>5. PICK poor \in Nat : poor = b1.bad + 1
  BY DEF BreakerStates
<1>6. PICK b : b = IF ok THEN [b1 EXCEPT !.ok = good] ELSE [b1 EXCEPT !.bad = poor]
  OBVIOUS
<1>7. b \in BreakerStates
  BY <1>6 DEF BreakerStates
<1>8. Opened(b) \in BreakerStates
  <2>1. Opened(b) = [b EXCEPT !.state = "open", !.cooled = FALSE, !.probes = z]
    BY <1>1 DEF Opened
  <2>. QED
    BY <1>7, <2>1 DEF BreakerStates
<1>9. Reported(breaker, ok) \in {ClosedBreaker, Opened(b), b}
  <2>1. Reported(breaker, ok) =
          CASE b.state = "half" -> IF ok THEN ClosedBreaker ELSE Opened(b)
            [] b.state = "closed" ->
                  IF b.ok + b.bad >= MinSamples /\ 5 * b.ok < b.ok + b.bad THEN Opened(b) ELSE b
            [] OTHER -> b
    BY <1>3, <1>4, <1>5, <1>6 DEF Reported
  <2>2. PICK trips \in BOOLEAN : trips <=> (b.ok + b.bad >= MinSamples /\ 5 * b.ok < b.ok + b.bad)
    OBVIOUS
  <2>3. CASE b.state = "half"
    BY <2>1, <2>3
  <2>4. CASE b.state = "closed"
    BY <2>1, <2>4
  <2>5. CASE b.state = "open"
    BY <2>1, <2>5
  <2>6. b.state \in {"closed", "open", "half"}
    BY <1>7 DEF BreakerStates
  <2>. QED
    BY <2>3, <2>4, <2>5, <2>6
<1>. QED
  BY <1>2, <1>7, <1>8, <1>9

LEMMA RaiseIs ==
    ASSUME NEW seen \in Monitors, NEW breached \in BOOLEAN, NEW name,
           breached => name \in {"ATTEMPT_CAP"}
    PROVE  LET x == Raise(seen, breached, name)
           IN  /\ x \in Monitors /\ x.debits = seen.debits /\ x.last = seen.last
               /\ x.notified = seen.notified /\ (~breached => x = seen)
<1>1. CASE breached
  <2>1. PICK all \in SUBSET {"ATTEMPT_CAP"} : all = seen.breaches \cup {name}
    BY <1>1 DEF Monitors
  <2>2. PICK x : x = [seen EXCEPT !.breaches = all]
    OBVIOUS
  <2>3. Raise(seen, breached, name) = x
    BY <1>1, <2>1, <2>2 DEF Raise
  <2>4. x \in Monitors /\ x.debits = seen.debits /\ x.last = seen.last /\ x.notified = seen.notified
    BY <2>2 DEF Monitors
  <2>. QED
    BY <1>1, <2>3, <2>4
<1>2. CASE ~breached
  <2>1. Raise(seen, breached, name) = seen
    BY <1>2 DEF Raise
  <2>. QED
    BY <2>1
<1>. QED
  BY <1>1, <1>2

LEMMA RecordedIs ==
    ASSUME NEW seen \in Monitors, NEW i \in Incidents, NEW attempt \in Nat
    PROVE  LET x == Recorded(i, attempt, seen)
           IN  /\ x \in Monitors /\ x.debits = seen.debits /\ x.last = seen.last
               /\ x.notified = seen.notified
<1>1. PICK recorded : recorded = seen.recorded \cup {<<i, attempt>>}
  OBVIOUS
<1>a. recorded \in SUBSET (Incidents \X Nat)
  <2>1. <<i, attempt>> \in Incidents \X Nat
    OBVIOUS
  <2>2. seen.recorded \in SUBSET (Incidents \X Nat)
    BY DEF Monitors
  <2>. QED
    BY <1>1, <2>1, <2>2
<1>2. PICK y : y = [seen EXCEPT !.recorded = recorded]
  OBVIOUS
<1>3. y \in Monitors /\ y.debits = seen.debits /\ y.last = seen.last /\ y.notified = seen.notified
  BY <1>a, <1>2 DEF Monitors
<1>4. PICK breached : breached = (Cardinality({r \in recorded : r[1] = i}) > MaxAttempts)
  OBVIOUS
<1>b. breached \in BOOLEAN
  BY <1>4
<1>5. Recorded(i, attempt, seen) = Raise(y, breached, "ATTEMPT_CAP")
  BY <1>1, <1>2, <1>4 DEF Recorded
<1>. QED
  BY <1>b, <1>3, <1>5, RaiseIs

\* A debit of an attempt that was not debited, announced if the mandate's, and a
\* window after the mandate's last, breaches nothing.
LEMMA DebitedIs ==
    ASSUME SimTyped, NEW i \in Incidents, NEW attempt \in Nat, NEW ok \in BOOLEAN,
           \A d \in monitor.debits : ~(d.inc = i /\ d.attempt = attempt),
           i \in recurring => monitor.notified /\ \A t \in monitor.last : ~(now - t < Cooling)
    PROVE  LET x == Debited(i, attempt, ok)
           IN  /\ x \in Monitors /\ x.notified = monitor.notified
               /\ x.debits = monitor.debits \cup {[inc |-> i, attempt |-> attempt, ok |-> ok]}
               /\ x.last = IF i \in recurring THEN {now} ELSE monitor.last
<1>1. monitor \in Monitors
  BY DEF SimTyped, WatchOK
<1>2. PICK debits : debits = monitor.debits \cup {[inc |-> i, attempt |-> attempt, ok |-> ok]}
  OBVIOUS
<1>a. debits \in SUBSET [inc : Incidents, attempt : Nat, ok : BOOLEAN]
  <2>1. [inc |-> i, attempt |-> attempt, ok |-> ok] \in [inc : Incidents, attempt : Nat, ok : BOOLEAN]
    OBVIOUS
  <2>2. monitor.debits \in SUBSET [inc : Incidents, attempt : Nat, ok : BOOLEAN]
    BY <1>1 DEF Monitors
  <2>. QED
    BY <1>2, <2>1, <2>2
<1>3. PICK seen : seen = [monitor EXCEPT !.debits = debits]
  OBVIOUS
<1>4. seen \in Monitors /\ seen.debits = debits /\ seen.last = monitor.last
      /\ seen.notified = monitor.notified
  BY <1>1, <1>a, <1>3 DEF Monitors
<1>5. ~ \E d \in monitor.debits : d.inc = i /\ d.attempt = attempt
  OBVIOUS
<1>6. CASE i \notin recurring
  <2>1. Debited(i, attempt, ok) = seen
    BY <1>2, <1>3, <1>5, <1>6 DEF Debited, Raise
  <2>. QED
    BY <1>2, <1>4, <1>6, <2>1
<1>7. CASE i \in recurring
  <2>1. monitor.notified /\ ~ \E t \in monitor.last : now - t < Cooling
    BY <1>7
  <2>3. Debited(i, attempt, ok) = [seen EXCEPT !.last = {now}]
    BY <1>2, <1>3, <1>5, <1>7, <2>1 DEF Debited, Raise
  <2>4. PICK last \in Times : last = {now}
    BY Numbers DEF Times
  <2>5. PICK x : x = [seen EXCEPT !.last = last]
    OBVIOUS
  <2>6. x \in Monitors /\ x.debits = debits /\ x.last = last /\ x.notified = monitor.notified
    BY <1>4, <2>5 DEF Monitors
  <2>. QED
    BY <1>2, <1>7, <2>3, <2>4, <2>5, <2>6
<1>. QED
  BY <1>6, <1>7

\* A mandate that is not inside its window has no debit inside it either: one whose
\* record is still being written has its slot in this tick.
LEMMA Spaced2 ==
    ASSUME NEW slots \in SUBSET Slots, NEW top \in Nat, SimTyped, Plan(slots, top), Money(slots),
           NEW m, ToExecute(slots, m), m.inc \in recurring, m.attempt > incidents[m.inc].count,
           ~TooEarly, NEW t \in monitor.last
    PROVE  ~(now - t < Cooling)
<1>1. t \in Nat /\ now \in Nat /\ faults \in Nat /\ slips \in Nat /\ Cooling \in Nat
      /\ slips + faults < Cooling
  BY Watched, Numbers
<1>2. CASE t \in LastDebits
  <2>1. t + Cooling \in OpensAt
    BY <1>2 DEF OpensAt, LastDebits
  <2>2. ~(now < t + Cooling)
    BY <2>1 DEF TooEarly
  <2>. QED
    BY <1>1, <2>2
<1>3. CASE t = now
  <2>1. PICK s \in slots : s.inc = m.inc /\ s.attempt = m.attempt /\ Near(s, now)
    BY DEF ToExecute, MessageFine, Due
  <2>2. PICK u \in slots : /\ u.attempt <= incidents[u.inc].count
                           /\ u.at <= now + faults /\ now <= u.at + slips
    BY <1>3 DEF Money, Took
  <2>3. s.at + Cooling <= u.at \/ u.at + Cooling <= s.at
    BY <2>1, <2>2, SlotsApart
  <2>4. s.at \in Nat /\ u.at \in Nat
    BY DEF Slots
  <2>5. s.at <= now + faults /\ now <= s.at + slips
    BY <2>1 DEF Near
  <2>. QED
    BY <1>1, <2>2, <2>3, <2>4, <2>5
<1>. QED
  BY <1>2, <1>3 DEF Money

LEMMA LaterIs ==
    ASSUME NEW t \in Nat, NEW times \in Times
    PROVE  \E u \in Nat : Later(t, times) = {u} /\ \A v \in times : v <= u
<1>1. \A v \in times : v \in Nat /\ times = {v}
  BY DEF Times
<1>2. CASE \E u \in times : u > t
  <2>1. PICK u \in times : u > t
    BY <1>2
  <2>2. times = {u} /\ u \in Nat
    BY <1>1
  <2>3. (CHOOSE v \in {u} : TRUE) = u
    OBVIOUS
  <2>4. Later(t, times) = {u}
    BY <1>2, <2>2, <2>3 DEF Later
  <2>. QED
    BY <2>2, <2>4
<1>3. CASE ~ \E u \in times : u > t
  <2>1. Later(t, times) = {t}
    BY <1>3 DEF Later
  <2>2. \A v \in times : v <= t
    BY <1>1, <1>3
  <2>. QED
    BY <2>1, <2>2
<1>. QED
  BY <1>2, <1>3

\* What the record of a debit starts from: the incidents, with the claim or without,
\* and what the monitor has seen.
Recording(from, m, seen) ==
    /\ from \in [Incidents -> [state : States, count : Nat]]
    /\ \A j \in Incidents : from[j].state \in {"none", "RECEIVED"} => from[j].count = 0
    /\ \A j \in Incidents : from[j].state # "none" <=> incidents[j].state # "none"
    /\ m.inc \in Incidents /\ m.attempt \in Nat /\ from[m.inc].state # "none"
    /\ seen \in Monitors

LEMMA CommitIncidents ==
    ASSUME NEW from, NEW m, NEW seen, Recording(from, m, seen), NEW ok \in BOOLEAN, NEW stop,
           Commit(from, m, ok, stop, seen)
    PROVE  /\ IncidentsOK'
           /\ \A j \in Incidents : /\ incidents'[j].count = from[j].count
                                   /\ incidents'[j].state # "none" <=> from[j].state # "none"
                                   /\ from[j].state \in Terminal => incidents'[j].state \in Terminal
           /\ ok /\ stop = "none" => incidents'[m.inc].state \in Terminal
           /\ from[m.inc].state \in Terminal => incidents' = from
<1>1. PICK retry \in BOOLEAN : retry = (~ok /\ m.attempt < MaxAttempts)
  OBVIOUS
<1>2. PICK state : state = IF ok THEN "RECOVERED" ELSE IF retry THEN "DIAGNOSED" ELSE "ABANDONED"
  OBVIOUS
<1>3. /\ state \in States /\ state \notin {"none", "RECEIVED"}
      /\ ok => state \in Terminal
  BY <1>2 DEF States, Terminal
<1>4. incidents' = IF stop # "none" \/ from[m.inc].state \in Terminal THEN from
                   ELSE [from EXCEPT ![m.inc].state = state]
  BY <1>1, <1>2 DEF Commit
<1>5. CASE stop # "none" \/ from[m.inc].state \in Terminal
  BY <1>4, <1>5 DEF Recording, IncidentsOK
<1>6. CASE stop = "none" /\ from[m.inc].state \notin Terminal
  <2>1. incidents' = [from EXCEPT ![m.inc].state = state]
    BY <1>4, <1>6
  <2>2. incidents' \in [Incidents -> [state : States, count : Nat]]
    BY <1>3, <2>1 DEF Recording
  <2>3. \A j \in Incidents : /\ incidents'[j].count = from[j].count
                             /\ incidents'[j].state = IF j = m.inc THEN state ELSE from[j].state
    BY <2>1 DEF Recording
  <2>4. IncidentsOK'
    BY <1>3, <2>2, <2>3 DEF Recording, IncidentsOK
  <2>. QED
    BY <1>3, <1>6, <2>3, <2>4 DEF Recording
<1>. QED
  BY <1>5, <1>6

LEMMA CommitMandate ==
    ASSUME SimTyped, NEW slots, NEW top \in Nat, Plan(slots, top),
           NEW from, NEW m, NEW seen, Recording(from, m, seen), NEW ok \in BOOLEAN, NEW stop,
           Commit(from, m, ok, stop, seen), recurring' = recurring, now' = now,
           FaultsOK', faults <= faults'
    PROVE  /\ MandateOK' /\ Plan(slots, top)'
           /\ \/ LastDebits' = LastDebits /\ (m.inc \in recurring => stop # "none")
              \/ LastDebits' = {now} /\ m.inc \in recurring
<1>1. /\ m.inc \in Incidents /\ incidents[m.inc].state # "none"
      /\ \A j \in Incidents : incidents'[j].state # "none" => incidents[j].state # "none"
  <2>1. \A j \in Incidents : incidents'[j].state # "none" <=> from[j].state # "none"
    BY CommitIncidents
  <2>. QED
    BY <2>1 DEF Recording
<1>2. PICK later \in Nat : later = now + Cooling
  BY Numbers
<1>3. mandate' = IF m.inc \notin recurring \/ stop \in {"record", "save"} THEN mandate
                 ELSE {[r EXCEPT !.last = {now}, !.next = Later(later, @)] : r \in mandate}
  BY <1>2 DEF Commit
<1>4. faults \in Nat /\ faults' \in Nat /\ now \in Nat
  BY Numbers, SimulationAssumption DEF FaultsOK
<1>5. CASE m.inc \notin recurring \/ stop \in {"record", "save"}
  <2>1. mandate' = mandate
    BY <1>3, <1>5
  <2>2. MandateOK' /\ LastDebits' = LastDebits
    BY <1>1, <2>1, MandateKeeps DEF LastDebits
  <2>3. Plan(slots, top)'
    BY <1>4, <2>1, Kept DEF Plan
  <2>. QED
    BY <1>5, <2>2, <2>3
<1>6. CASE m.inc \in recurring /\ stop \notin {"record", "save"}
  <2>1. mandate # {}
    BY <1>1, <1>6 DEF SimTyped, MandateOK
  <2>2. PICK r \in MandateRows : mandate = {r}
    BY <2>1, Single
  <2>3. r.next \in Times
    BY <2>2, Kept
  <2>4. PICK u \in Nat : Later(later, r.next) = {u} /\ \A v \in r.next : v <= u
    BY <2>3, LaterIs
  <2>5. PICK last \in Times, next \in Times : last = {now} /\ next = {u}
    BY <1>4 DEF Times
  <2>6. PICK q : q = [r EXCEPT !.last = last, !.next = next]
    OBVIOUS
  <2>7. q \in MandateRows /\ q.last = {now} /\ q.next = {u}
    BY <2>5, <2>6 DEF MandateRows
  <2>8. mandate' = {q}
    BY <1>3, <1>6, <2>2, <2>4, <2>5, <2>6
  <2>9. MandateOK'
    BY <2>7, <2>8 DEF MandateOK
  <2>10. LastDebits' = {now}
    BY <2>7, <2>8 DEF LastDebits
  <2>11. top <= u + faults'
    <3>1. PICK f \in Nat : f = faults
      BY <1>4
    <3>2. PICK g \in Nat : g = faults'
      BY <1>4
    <3>3. f <= g
      BY <3>1, <3>2
    <3>4. top <= u + g
      <4>1. CASE r.next = {}
        <5>1. top = 0
          BY <2>2, <4>1 DEF Plan
        <5>. QED
          BY <5>1
      <4>2. CASE r.next # {}
        <5>1. PICK n \in r.next : top <= n + f
          BY <2>2, <3>1, <4>2 DEF Plan
        <5>2. n \in Nat /\ n <= u
          BY <2>2, <2>4, <5>1, Kept
        <5>. QED
          BY <3>3, <5>1, <5>2
      <4>. QED
        BY <4>1, <4>2
    <3>. QED
      BY <3>2, <3>4
  <2>12. Plan(slots, top)'
    BY <2>7, <2>8, <2>11 DEF Plan
  <2>. QED
    BY <1>6, <2>9, <2>10, <2>12
<1>. QED
  BY <1>5, <1>6

LEMMA CommitIs ==
    ASSUME SimTyped, NEW more \in SUBSET Slots,
           NEW from, NEW m, NEW seen, Recording(from, m, seen), NEW ok \in BOOLEAN, NEW stop,
           Commit(from, m, ok, stop, seen)
    PROVE  /\ OutboxOK' /\ WatchOK'
           /\ \A entry \in Range(outbox') : entry \in Range(outbox) \/ RowFine(more, entry)'
           /\ monitor'.debits = seen.debits /\ monitor'.last = seen.last
           /\ monitor'.notified = seen.notified
<1>1. /\ m.inc \in Incidents /\ m.attempt \in Nat /\ seen \in Monitors
      /\ incidents[m.inc].state # "none"
  BY DEF Recording
<1>2. PICK retry \in BOOLEAN : retry = (~ok /\ m.attempt < MaxAttempts)
  OBVIOUS
<1>3. /\ breaker' = IF stop = "record" THEN breaker ELSE Reported(breaker, ok)
      /\ monitor' = IF stop = "record" THEN seen ELSE Recorded(m.inc, m.attempt, seen)
      /\ outbox' = IF retry /\ stop \in {"none", "state"} THEN Append(outbox, DecideRow(m.inc))
                                                          ELSE outbox
  BY <1>2 DEF Commit
<1>4. breaker' \in BreakerStates
  BY <1>3, ReportedIs DEF SimTyped, WatchOK
<1>5. /\ monitor' \in Monitors /\ monitor'.debits = seen.debits /\ monitor'.last = seen.last
      /\ monitor'.notified = seen.notified
  <2>1. CASE stop = "record"
    BY <1>1, <1>3, <2>1
  <2>2. CASE stop # "record"
    <3>1. monitor' = Recorded(m.inc, m.attempt, seen)
      BY <1>3, <2>2
    <3>. QED
      BY <1>1, <3>1, RecordedIs
  <2>. QED
    BY <2>1, <2>2
<1>6. OutboxOK' /\ \A entry \in Range(outbox') : entry \in Range(outbox) \/ RowFine(more, entry)'
  <2>1. CASE retry /\ stop \in {"none", "state"}
    <3>1. PICK e : e = DecideRow(m.inc)
      OBVIOUS
    <3>2. e \in OutboxRows /\ Publishable(e)
      BY <1>1, <3>1, DecideRowIs
    <3>3. outbox' = Append(outbox, e)
      BY <1>3, <2>1, <3>1
    <3>4. OutboxOK' /\ Range(outbox') = Range(outbox) \cup {e}
      BY <3>2, <3>3, RowAdded
    <3>5. e.inc = m.inc /\ e.phase = "decide"
      BY <3>1 DEF DecideRow, Row
    <3>6. incidents'[m.inc].state # "none"
      BY <1>1, CommitIncidents DEF Recording
    <3>7. RowFine(more, e)'
      BY <3>5, <3>6 DEF RowFine
    <3>. QED
      BY <3>4, <3>7
  <2>2. CASE ~(retry /\ stop \in {"none", "state"})
    BY <1>3, <2>2 DEF SimTyped, OutboxOK
  <2>. QED
    BY <2>1, <2>2
<1>. QED
  BY <1>4, <1>5, <1>6 DEF WatchOK


\* The debit of an open incident, in its slot.
LEMMA DebitMoney ==
    ASSUME NEW slots \in SUBSET Slots, SimTyped, Money(slots), Calm,
           NEW m, ToExecute(slots, m), incidents[m.inc].state \notin Terminal,
           m.attempt > incidents[m.inc].count, NEW ok \in BOOLEAN, NEW stop,
           NEW waiting, Waiting(waiting), Again(stop, Task("commit", m, ok), waiting),
           \A j \in Incidents : /\ j # m.inc => incidents'[j].count = incidents[j].count
                                /\ incidents[j].state \in Terminal => incidents'[j].state \in Terminal,
           incidents'[m.inc].count = incidents[m.inc].count + 1,
           ok /\ stop = "none" => incidents'[m.inc].state \in Terminal,
           monitor'.debits = monitor.debits \cup {[inc |-> m.inc, attempt |-> m.attempt, ok |-> ok]},
           monitor'.last = IF m.inc \in recurring THEN {now} ELSE monitor.last,
           \/ LastDebits' = LastDebits /\ (m.inc \in recurring => stop # "none")
           \/ LastDebits' = {now} /\ m.inc \in recurring
    PROVE  Money(slots)'
<1>1. m.inc \in Incidents /\ m.attempt \in Nat /\ Due(slots, m.inc, m.attempt, now)
  BY DEF ToExecute, MessageFine
<1>2. incidents[m.inc].count \in Nat /\ m.attempt = incidents[m.inc].count + 1
      /\ incidents'[m.inc].count = m.attempt
  BY <1>1, Counts DEF Due
<1>3. PICK task : /\ task = Task("commit", m, ok)
                  /\ task.stage = "commit" /\ task.msg = m /\ task.ok = ok
  BY DEF Task
<1>4. Range(retries') = Range(waiting) \cup (IF stop = "none" THEN {} ELSE {task})
  BY <1>3, AgainIs DEF Waiting
<1>5. \A t : Committing(t) =>
        (t \in Range(retries') <=> t \in Range(retries) \/ (stop # "none" /\ t = task))
  BY <1>4 DEF Waiting
<1>6. \A d \in monitor.debits : d.inc \in Incidents /\ d.attempt \in Nat /\ d.ok \in BOOLEAN
  BY Watched
<1>7. \A d \in monitor'.debits : d.attempt <= incidents'[d.inc].count
  <2>1. ASSUME NEW d \in monitor.debits PROVE d.attempt <= incidents'[d.inc].count
    <3>1. d.attempt <= incidents[d.inc].count
      BY DEF Money
    <3>. QED
      BY <1>6, <3>1, CalmCounts
  <2>2. PICK d : d = [inc |-> m.inc, attempt |-> m.attempt, ok |-> ok]
    OBVIOUS
  <2>3. d.attempt <= incidents'[d.inc].count
    BY <1>1, <1>2, <2>2
  <2>. QED
    BY <2>1, <2>2, <2>3
<1>8. \A d \in monitor'.debits : d.ok =>
         \/ incidents'[d.inc].state \in Terminal
         \/ \E t \in Range(retries') : Committing(t) /\ t.msg.inc = d.inc /\ t.ok
  <2>1. ASSUME NEW d \in monitor.debits, d.ok
        PROVE  \/ incidents'[d.inc].state \in Terminal
               \/ \E t \in Range(retries') : Committing(t) /\ t.msg.inc = d.inc /\ t.ok
    BY <1>5, <1>6, <2>1 DEF Money
  <2>2. PICK d : d = [inc |-> m.inc, attempt |-> m.attempt, ok |-> ok]
    OBVIOUS
  <2>3. d.inc = m.inc /\ d.ok = ok
    BY <2>2
  <2>4. CASE stop = "none"
    BY <2>1, <2>2, <2>3, <2>4
  <2>5. CASE stop # "none"
    <3>1. task \in Range(retries') /\ Committing(task)
      BY <1>3, <1>4, <2>5 DEF Committing
    <3>. QED
      BY <1>3, <2>1, <2>2, <2>3, <3>1
  <2>. QED
    BY <2>4, <2>5
<1>9. now' = now /\ slips' = slips /\ recurring' = recurring
  BY DEF Calm
<1>10. ASSUME NEW d \in Nat, Took(slots, d) PROVE Took(slots, d)'
  <2>1. PICK s \in slots : /\ s.attempt <= incidents[s.inc].count
                           /\ s.at <= d + faults /\ d <= s.at + slips
    BY <1>10 DEF Took
  <2>2. s.inc \in Incidents /\ s.at \in Nat /\ s.attempt \in Nat
    BY DEF Slots
  <2>3. s.attempt <= incidents'[s.inc].count
    BY <2>1, <2>2, CalmCounts
  <2>4. s.at <= d + faults' /\ d <= s.at + slips'
    BY <2>1, <2>2, Numbers DEF Calm
  <2>. QED
    BY <1>9, <1>10, <2>3, <2>4 DEF Took
<1>11. monitor.last \cup LastDebits \subseteq Nat
  BY Kept, Watched
<1>12. \A d \in monitor.last \cup LastDebits : Took(slots, d)'
  BY <1>10, <1>11 DEF Money
<1>13. CASE m.inc \notin recurring
  <2>1. monitor'.last = monitor.last /\ LastDebits' = LastDebits
    BY <1>13
  <2>2. PendingDebit' <=> PendingDebit
    BY <1>3, <1>5, <1>9, <1>13 DEF PendingDebit, Committing
  <2>3. \A d \in monitor'.last \cup LastDebits' : Took(slots, d)'
    BY <1>12, <2>1
  <2>4. /\ \A d \in monitor'.last : d \in LastDebits' \/ (d = now' /\ PendingDebit')
        /\ PendingDebit' => monitor'.last = {now'}
    BY <1>9, <2>1, <2>2 DEF Money
  <2>. QED
    BY <1>7, <1>8, <2>3, <2>4 DEF Money
<1>14. CASE m.inc \in recurring
  <2>1. monitor'.last = {now}
    BY <1>14
  <2>2. PICK s \in slots : s.inc = m.inc /\ s.attempt = m.attempt /\ Near(s, now)
    BY <1>1, <1>14 DEF Due
  <2>3. PICK d \in Nat : d = now
    BY Numbers
  <2>4. Took(slots, d)'
    <3>1. s.attempt <= incidents'[s.inc].count
      BY <1>1, <1>2, <2>2
    <3>2. s.at \in Nat /\ s.at <= d + faults /\ d <= s.at + slips
      BY <2>2, <2>3 DEF Near, Slots
    <3>3. s.at <= d + faults' /\ d <= s.at + slips'
      BY <1>9, <2>3, <3>2, Numbers DEF Calm
    <3>4. d <= now'
      BY <1>9, <2>3
    <3>. QED
      BY <3>1, <3>3, <3>4 DEF Took
  <2>5. \A e \in monitor'.last \cup LastDebits' : Took(slots, e)'
    <3>1. monitor'.last \cup LastDebits' \subseteq LastDebits \cup {d}
      BY <2>1, <2>3
    <3>. QED
      BY <1>12, <2>4, <3>1
  <2>6. now \in LastDebits' \/ PendingDebit'
    <3>1. CASE LastDebits' = {now}
      BY <3>1
    <3>2. CASE stop # "none"
      <4>1. task \in Range(retries') /\ Committing(task) /\ task.msg.inc \in recurring'
        BY <1>3, <1>4, <1>9, <1>14, <3>2 DEF Committing
      <4>. QED
        BY <4>1 DEF PendingDebit, Committing
    <3>. QED
      BY <1>14, <3>1, <3>2
  <2>. QED
    BY <1>7, <1>8, <1>9, <2>1, <2>5, <2>6 DEF Money
<1>. QED
  BY <1>13, <1>14

LEMMA DebitHolds ==
    ASSUME NEW slots \in SUBSET Slots, NEW top \in Nat, Holds(slots, top),
           NEW m, ToExecute(slots, m), NEW waiting, Handling(waiting), "worker" \in alive,
           incidents[m.inc].state \notin Terminal, m.attempt > incidents[m.inc].count,
           m.inc \in recurring => ~TooEarly, Debit(m, waiting)
    PROVE  Holds(slots, top)'
<1>1. SimTyped /\ Plan(slots, top) /\ Money(slots) /\ FaultsOK /\ Gone
  BY DEF Holds, SimTyped
<1>2. PICK ok \in BOOLEAN, stop \in Stop(CommitStops), died \in BOOLEAN :
         /\ CountedBoth(stop, died)
         /\ Commit(Claimed(m.inc), m, ok, stop, Debited(m.inc, m.attempt, ok))
         /\ Again(stop, Task("commit", m, ok), waiting)
         /\ IF died THEN UNCHANGED queueVars ELSE Ack(m)
  BY DEF Debit
<1>3. /\ m.inc \in Incidents /\ m.attempt \in Nat /\ incidents[m.inc].state # "none"
      /\ Due(slots, m.inc, m.attempt, now)
  BY DEF ToExecute, MessageFine
<1>4. FaultsOK' /\ faults <= faults'
  BY <1>1, <1>2, CountedBothIs
<1>5. PICK from : from = Claimed(m.inc)
  OBVIOUS
<1>6. /\ from \in [Incidents -> [state : States, count : Nat]]
      /\ \A j \in Incidents : from[j].state \in {"none", "RECEIVED"} => from[j].count = 0
      /\ from[m.inc].state = "EXECUTING" /\ from[m.inc].count = incidents[m.inc].count + 1
      /\ \A j \in Incidents : j # m.inc => from[j] = incidents[j]
  BY <1>1, <1>3, <1>5, ClaimedIs
<1>7. PICK seen : seen = Debited(m.inc, m.attempt, ok)
  OBVIOUS
<1>8. /\ seen \in Monitors /\ seen.notified = monitor.notified
      /\ seen.debits = monitor.debits \cup {[inc |-> m.inc, attempt |-> m.attempt, ok |-> ok]}
      /\ seen.last = IF m.inc \in recurring THEN {now} ELSE monitor.last
  <2>1. \A d \in monitor.debits : ~(d.inc = m.inc /\ d.attempt = m.attempt)
    <3>. SUFFICES ASSUME NEW d \in monitor.debits, d.inc = m.inc, d.attempt = m.attempt PROVE FALSE
      OBVIOUS
    <3>1. m.attempt <= incidents[m.inc].count
      BY <1>1 DEF Money
    <3>. QED
      BY <1>1, <1>3, <3>1, Counts
  <2>2. m.inc \in recurring => monitor.notified /\ \A t \in monitor.last : ~(now - t < Cooling)
    BY <1>1, <1>3, Spaced2 DEF Due
  <2>3. PICK i \in Incidents, a \in Nat : i = m.inc /\ a = m.attempt
    BY <1>3
  <2>4. /\ \A d \in monitor.debits : ~(d.inc = i /\ d.attempt = a)
        /\ i \in recurring => monitor.notified /\ \A t \in monitor.last : ~(now - t < Cooling)
        /\ seen = Debited(i, a, ok)
    BY <1>7, <2>1, <2>2, <2>3
  <2>5. /\ seen \in Monitors /\ seen.notified = monitor.notified
        /\ seen.debits = monitor.debits \cup {[inc |-> i, attempt |-> a, ok |-> ok]}
        /\ seen.last = IF i \in recurring THEN {now} ELSE monitor.last
    BY <1>1, <2>4, DebitedIs
  <2>. QED
    BY <2>3, <2>5
<1>9. Recording(from, m, seen) /\ Commit(from, m, ok, stop, seen)
  <2>1. \A j \in Incidents : from[j].state # "none" <=> incidents[j].state # "none"
    BY <1>3, <1>6
  <2>. QED
    BY <1>2, <1>3, <1>5, <1>6, <1>7, <1>8, <2>1 DEF Recording
<1>10. /\ IncidentsOK'
       /\ \A j \in Incidents : /\ incidents'[j].count = from[j].count
                               /\ incidents'[j].state # "none" <=> from[j].state # "none"
                               /\ from[j].state \in Terminal => incidents'[j].state \in Terminal
       /\ ok /\ stop = "none" => incidents'[m.inc].state \in Terminal
  BY <1>9, CommitIncidents
<1>11. recurring' = recurring /\ now' = now /\ slips' = slips /\ alive' = alive
  BY DEF Handling
<1>12. /\ MandateOK' /\ Plan(slots, top)'
       /\ \/ LastDebits' = LastDebits /\ (m.inc \in recurring => stop # "none")
          \/ LastDebits' = {now} /\ m.inc \in recurring
  BY <1>1, <1>4, <1>9, <1>11, CommitMandate
<1>13. /\ OutboxOK' /\ WatchOK'
       /\ \A entry \in Range(outbox') : entry \in Range(outbox) \/ RowFine(slots, entry)'
       /\ monitor'.debits = seen.debits /\ monitor'.last = seen.last
       /\ monitor'.notified = seen.notified
  BY <1>1, <1>9, CommitIs
<1>14. \A j \in Incidents : /\ j # m.inc => incidents'[j].count = incidents[j].count
                            /\ incidents[j].state \in Terminal => incidents'[j].state \in Terminal
                            /\ incidents[j].state # "none" => incidents'[j].state # "none"
  BY <1>3, <1>6, <1>10
<1>15. incidents'[m.inc].count = incidents[m.inc].count + 1
  BY <1>3, <1>6, <1>10
<1>16. Calm
  <2>1. \A j \in Incidents : incidents'[j].count \in Nat /\ incidents[j].count <= incidents'[j].count
    <3>. SUFFICES ASSUME NEW j \in Incidents
                  PROVE  incidents'[j].count \in Nat /\ incidents[j].count <= incidents'[j].count
      OBVIOUS
    <3>1. PICK n \in Nat : n = incidents[j].count
      BY <1>1, Counts
    <3>2. incidents'[j].count = n \/ incidents'[j].count = n + 1
      BY <1>14, <1>15, <3>1
    <3>. QED
      BY <3>1, <3>2
  <2>2. faults' \in Nat
    BY <1>4, SimulationAssumption DEF FaultsOK
  <2>. QED
    BY <1>4, <1>8, <1>11, <1>13, <1>14, <2>1, <2>2 DEF Calm
<1>17. Waiting(waiting)
  BY DEF Handling
<1>18. Money(slots)'
  BY <1>1, <1>2, <1>8, <1>10, <1>12, <1>13, <1>14, <1>15, <1>16, <1>17, DebitMoney
<1>19. PICK task : task = Task("commit", m, ok)
  OBVIOUS
<1>20. task.stage = "commit" /\ task.msg = m /\ task.ok = ok
  BY <1>19 DEF Task
<1>21. /\ IsSeq(retries')
       /\ Range(retries') = Range(waiting) \cup (IF stop = "none" THEN {} ELSE {task})
  BY <1>2, <1>17, <1>19, AgainIs DEF Waiting
<1>22. TaskFine(slots, task)'
  <2>1. incidents'[m.inc].state # "none"
    BY <1>3, <1>14
  <2>. QED
    BY <1>3, <1>20, <2>1 DEF TaskFine
<1>23. \A t \in Range(retries') : t \in Range(retries) \/ TaskFine(slots, t)'
  BY <1>17, <1>21, <1>22 DEF Waiting
<1>24. ready' = ready /\ up' = up /\ delivered' \subseteq delivered
  BY <1>2 DEF Ack, queueVars
<1>25. SimTyped'
  <2>1. WorldOK' /\ QueuesOK'
    BY <1>1, <1>21, <1>24 DEF SimTyped, WorldOK, QueuesOK, Handling
  <2>. QED
    BY <1>4, <1>10, <1>12, <1>13, <2>1 DEF SimTyped
<1>26. \A x \in Flying' : x \in Flying
  BY <1>24 DEF Flying, Handling
<1>27. Gone'
  BY <1>11 DEF Gone
<1>. QED
  BY <1>12, <1>13, <1>16, <1>18, <1>23, <1>25, <1>26, <1>27, StepHolds

\* The record of a debit that the store did not take at first.
LEMMA RecordHolds ==
    ASSUME NEW slots \in SUBSET Slots, NEW top \in Nat, Holds(slots, top),
           hand = <<>>, retries # <<>>, NEW task, task = Head(retries), Committing(task),
           NEW stop \in Stop(CommitStops), Counted(stop), Again(stop, task, Tail(retries)),
           Commit(incidents, task.msg, task.ok, stop, monitor),
           UNCHANGED <<queueVars, hand, worldVars>>
    PROVE  Holds(slots, top)'
<1>1. SimTyped /\ Plan(slots, top) /\ Money(slots) /\ FaultsOK /\ Gone /\ Items(slots)
  BY DEF Holds, SimTyped
<1>2. PICK m : m = task.msg
  OBVIOUS
<1>3. PICK waiting : waiting = Tail(retries)
  OBVIOUS
<1>4. IsSeq(waiting) /\ Range(retries) = {task} \cup Range(waiting)
  BY <1>1, <1>3, RangeTail DEF SimTyped, QueuesOK
<1>5. TaskFine(slots, task) /\ task \in Range(retries)
  BY <1>1, <1>4 DEF Items
<1>6. PICK ok \in BOOLEAN : ok = task.ok
  BY <1>5 DEF TaskFine
<1>7. m.inc \in Incidents /\ m.attempt \in Nat /\ incidents[m.inc].state # "none"
  BY <1>2, <1>5 DEF TaskFine, Committing
<1>8. FaultsOK' /\ faults <= faults'
  BY <1>1, CountedIs
<1>9. Recording(incidents, m, monitor) /\ Commit(incidents, m, ok, stop, monitor)
  BY <1>1, <1>2, <1>6, <1>7 DEF Recording, SimTyped, IncidentsOK, WatchOK
<1>10. /\ IncidentsOK'
       /\ \A j \in Incidents : /\ incidents'[j].count = incidents[j].count
                               /\ incidents'[j].state # "none" <=> incidents[j].state # "none"
                               /\ incidents[j].state \in Terminal => incidents'[j].state \in Terminal
       /\ ok /\ stop = "none" => incidents'[m.inc].state \in Terminal
       /\ incidents[m.inc].state \in Terminal => incidents' = incidents
  BY <1>9, CommitIncidents
<1>11. UNCHANGED <<ready, delivered, up, recurring, due, session, alive, now, slips>>
  BY DEF queueVars, worldVars
<1>12. /\ MandateOK' /\ Plan(slots, top)'
       /\ \/ LastDebits' = LastDebits /\ (m.inc \in recurring => stop # "none")
          \/ LastDebits' = {now} /\ m.inc \in recurring
  BY <1>1, <1>8, <1>9, <1>11, CommitMandate
<1>13. /\ OutboxOK' /\ WatchOK'
       /\ \A entry \in Range(outbox') : entry \in Range(outbox) \/ RowFine(slots, entry)'
       /\ monitor'.debits = monitor.debits /\ monitor'.last = monitor.last
       /\ monitor'.notified = monitor.notified
  BY <1>1, <1>9, CommitIs
<1>14. Calm
  <2>1. faults' \in Nat
    BY <1>8, SimulationAssumption DEF FaultsOK
  <2>2. \A j \in Incidents : incidents'[j].count \in Nat /\ incidents[j].count <= incidents'[j].count
    BY <1>1, <1>10, Counts
  <2>. QED
    BY <1>8, <1>10, <1>11, <1>13, <2>1, <2>2 DEF Calm
<1>15. /\ IsSeq(retries')
       /\ Range(retries') = Range(waiting) \cup (IF stop = "none" THEN {} ELSE {task})
  BY <1>3, <1>4, AgainIs
<1>16. Range(retries') \subseteq Range(retries) /\ (stop # "none" => Range(retries') = Range(retries))
       /\ \A t \in Range(retries) : t = task \/ t \in Range(retries')
  BY <1>4, <1>15
<1>17. Money(slots)'
  <2>1. \A d \in monitor.debits : d.inc \in Incidents /\ d.attempt \in Nat /\ d.ok \in BOOLEAN
    BY <1>1, Watched
  <2>2. \A d \in monitor'.debits : d.attempt <= incidents'[d.inc].count
    BY <1>1, <1>10, <1>13, <2>1 DEF Money
  <2>3. \A d \in monitor'.debits : d.ok =>
           \/ incidents'[d.inc].state \in Terminal
           \/ \E t \in Range(retries') : Committing(t) /\ t.msg.inc = d.inc /\ t.ok
    <3>. SUFFICES ASSUME NEW d \in monitor.debits, d.ok
                  PROVE  \/ incidents'[d.inc].state \in Terminal
                         \/ \E t \in Range(retries') : Committing(t) /\ t.msg.inc = d.inc /\ t.ok
      BY <1>13
    <3>1. CASE incidents[d.inc].state \in Terminal
      BY <1>10, <2>1, <3>1
    <3>2. CASE incidents[d.inc].state \notin Terminal
      <4>1. PICK t \in Range(retries) : Committing(t) /\ t.msg.inc = d.inc /\ t.ok
        BY <1>1, <3>2 DEF Money
      <4>2. CASE t \in Range(retries')
        BY <4>1, <4>2
      <4>3. CASE t \notin Range(retries')
        <5>1. t = task /\ stop = "none"
          BY <1>16, <4>3
        <5>2. ok /\ m.inc = d.inc
          BY <1>2, <1>6, <4>1, <5>1
        <5>. QED
          BY <1>10, <5>1, <5>2
      <4>. QED
        BY <4>2, <4>3
    <3>. QED
      BY <3>1, <3>2
  <2>4. ASSUME NEW d \in Nat, Took(slots, d) PROVE Took(slots, d)'
    <3>1. PICK s \in slots : /\ s.attempt <= incidents[s.inc].count
                             /\ s.at <= d + faults /\ d <= s.at + slips
      BY <2>4 DEF Took
    <3>2. s.inc \in Incidents /\ s.at \in Nat
      BY DEF Slots
    <3>3. s.attempt <= incidents'[s.inc].count
      BY <1>10, <3>1, <3>2
    <3>4. s.at <= d + faults' /\ d <= s.at + slips'
      BY <1>1, <1>14, <3>1, <3>2, Numbers DEF Calm
    <3>. QED
      BY <1>11, <2>4, <3>3, <3>4 DEF Took
  <2>5. monitor.last \cup LastDebits \subseteq Nat
    BY <1>1, Kept, Watched
  <2>6. \A d \in monitor.last \cup LastDebits : Took(slots, d)'
    BY <1>1, <2>4, <2>5 DEF Money
  <2>7. CASE m.inc \notin recurring
    <3>1. LastDebits' = LastDebits
      BY <1>12, <2>7
    <3>2. PendingDebit' <=> PendingDebit
      <4>1. \A t : Committing(t) /\ t.msg.inc \in recurring =>
                     (t \in Range(retries') <=> t \in Range(retries))
        BY <1>2, <1>16, <2>7
      <4>. QED
        BY <1>11, <4>1 DEF PendingDebit, Committing
    <3>3. \A d \in monitor'.last \cup LastDebits' : Took(slots, d)'
      BY <1>13, <2>6, <3>1
    <3>4. /\ \A d \in monitor'.last : d \in LastDebits' \/ (d = now' /\ PendingDebit')
          /\ PendingDebit' => monitor'.last = {now'}
      BY <1>1, <1>11, <1>13, <3>1, <3>2 DEF Money
    <3>. QED
      BY <2>2, <2>3, <3>3, <3>4 DEF Money
  <2>8. CASE m.inc \in recurring
    <3>1. PendingDebit
      BY <1>2, <1>5, <2>8 DEF PendingDebit
    <3>2. monitor.last = {now}
      BY <1>1, <3>1 DEF Money
    <3>3. LastDebits' \subseteq LastDebits \cup monitor.last
      BY <1>12, <3>2
    <3>4. \A d \in monitor'.last \cup LastDebits' : Took(slots, d)'
      BY <1>13, <2>6, <3>3
    <3>5. now \in LastDebits' \/ PendingDebit'
      <4>1. CASE LastDebits' = {now}
        BY <4>1
      <4>2. CASE stop # "none"
        <5>1. task \in Range(retries')
          BY <1>15, <4>2
        <5>. QED
          BY <1>2, <1>11, <2>8, <5>1 DEF PendingDebit, Committing
      <4>. QED
        BY <1>12, <2>8, <4>1, <4>2
    <3>. QED
      BY <1>11, <1>13, <2>2, <2>3, <3>2, <3>4, <3>5 DEF Money
  <2>. QED
    BY <2>7, <2>8
<1>18. SimTyped'
  <2>1. WorldOK' /\ QueuesOK'
    BY <1>1, <1>11, <1>15 DEF SimTyped, WorldOK, QueuesOK
  <2>. QED
    BY <1>8, <1>10, <1>12, <1>13, <2>1 DEF SimTyped
<1>19. Gone'
  <2>. SUFFICES ASSUME "worker" \notin alive'
                PROVE  /\ hand' = <<>> /\ delivered' = {}
                       /\ \A i \in Incidents : incidents'[i].state \in Terminal \cup {"none", "RECEIVED"}
                       /\ \A t \in Range(retries') :
                            t.stage \in {"decide", "execute", "commit"}
                              => incidents'[t.msg.inc].state \in Terminal
    BY DEF Gone
  <2>1. "worker" \notin alive
    BY <1>11
  <2>2. incidents' = incidents
    BY <1>1, <1>2, <1>5, <1>10, <2>1 DEF Gone, Committing
  <2>. QED
    BY <1>1, <1>11, <1>16, <2>1, <2>2 DEF Gone
<1>20. /\ \A x \in Flying' : x \in Flying
       /\ \A t \in Range(retries') : t \in Range(retries) \/ TaskFine(slots, t)'
  BY <1>11, <1>16 DEF Flying
<1>. QED
  BY <1>12, <1>13, <1>14, <1>17, <1>18, <1>19, <1>20, StepHolds

LEMMA HandleExecuteHolds ==
    ASSUME NEW slots \in SUBSET Slots, NEW top \in Nat, Holds(slots, top),
           NEW m, ToExecute(slots, m), NEW waiting, Handling(waiting),
           "worker" \notin alive => incidents[m.inc].state \in Terminal,
           HandleExecute(m, waiting)
    PROVE  Holds(slots, top)'
<1>1. SimTyped /\ FaultsOK
  BY DEF Holds, SimTyped
<1>2. PICK i \in Incidents, a \in Nat : i = m.inc /\ a = m.attempt
  BY DEF ToExecute, MessageFine
<1>3. PICK task : /\ task = Task("execute", m, FALSE)
                  /\ TaskFine(slots, task) /\ ~Committing(task) /\ task.msg = m
  BY ExecuteTask
<1>4. ASSUME Spared, UNCHANGED <<storeVars, breaker, monitor>>
      PROVE  /\ FaultsOK' /\ faults <= faults' /\ breaker' \in BreakerStates
             /\ UNCHANGED <<incidents, mandate, outbox, monitor>>
  <2>1. FaultsOK' /\ faults <= faults'
    BY <1>1, <1>4, HitIs
  <2>. QED
    BY <1>1, <1>4, <2>1 DEF SimTyped, WatchOK, storeVars
<1>5. CASE incidents[i].state \notin Terminal /\ i \in recurring /\ (Halted \/ TooEarly)
  <2>1. "worker" \in alive
    BY <1>2, <1>5
  <2>2. Refuse(m, waiting) \/ (TooEarly /\ Defer(m, waiting))
    BY <1>2, <1>5 DEF HandleExecute
  <2>3. CASE Refuse(m, waiting)
    BY <2>1, <2>3, RefuseHolds
  <2>4. CASE TooEarly /\ Defer(m, waiting)
    BY <1>2, <1>5, <2>1, <2>4, DeferHolds
  <2>. QED
    BY <2>2, <2>3, <2>4
<1>6. CASE ~(incidents[i].state \notin Terminal /\ i \in recurring /\ (Halted \/ TooEarly))
  <2>1. CASE Passed(i, a)
    <3>1. Conclude("none", task, waiting) /\ Spared /\ UNCHANGED <<storeVars, breaker, monitor>>
      BY <1>2, <1>3, <1>6, <2>1 DEF HandleExecute
    <3>. QED
      BY <1>3, <1>4, <3>1, ShrugHolds
  <2>2. CASE ~Passed(i, a)
    <3>1. incidents[i].state \notin Terminal /\ a > incidents[i].count
      BY <1>1, <2>2, Counts DEF Passed
    <3>2. "worker" \in alive
      BY <1>2, <3>1
    <3>3. CASE ~Open(i)
      <4>1. Conclude("conflict", task, waiting) /\ Spared /\ UNCHANGED <<storeVars, breaker, monitor>>
        BY <1>2, <1>3, <1>6, <2>2, <3>3 DEF HandleExecute
      <4>. QED
        BY <1>3, <1>4, <3>2, <4>1, ShrugHolds
    <3>4. CASE Open(i)
      <4>1. ClaimInVain(m, waiting) \/ Debit(m, waiting)
        BY <1>2, <1>6, <2>2, <3>4 DEF HandleExecute
      <4>2. i \in recurring => ~TooEarly
        BY <1>6, <3>1
      <4>3. CASE ClaimInVain(m, waiting)
        BY <1>2, <3>1, <3>2, <4>3, ClaimInVainHolds
      <4>4. CASE Debit(m, waiting)
        BY <1>2, <3>1, <3>2, <4>2, <4>4, DebitHolds
      <4>. QED
        BY <4>1, <4>3, <4>4
    <3>. QED
      BY <3>3, <3>4
  <2>. QED
    BY <2>1, <2>2
<1>. QED
  BY <1>5, <1>6

LEMMA HandleHolds ==
    ASSUME NEW slots \in SUBSET Slots, NEW top \in Nat, Holds(slots, top), Handle
    PROVE  \E more \in SUBSET Slots, over \in Nat : Holds(more, over)'
<1>1. SimTyped /\ Gone /\ Items(slots) /\ IsSeq(hand) /\ IsSeq(retries) /\ hand # <<>>
  BY DEF Holds, SimTyped, QueuesOK, Handle
<1>2. IsSeq(Tail(hand)) /\ Range(hand) = Range(Tail(hand)) \cup {Head(hand)}
  BY <1>1, RangeTail
<1>3. Handling(retries)
  <2>1. hand' = Tail(hand) /\ UNCHANGED <<recurring, due, session, alive, now, slips>>
    BY DEF Handle, worldVars
  <2>. QED
    BY <1>1, <1>2, <2>1 DEF Handling, Waiting
<1>4. PICK m : m = Head(hand)
  OBVIOUS
<1>5. MessageFine(slots, m)
  BY <1>1, <1>2, <1>4 DEF Items, Flying
<1>6. "worker" \in alive
  BY <1>1 DEF Gone
<1>7. CASE m.phase = "decide"
  <2>1. HandleDecide(m, retries, Skews)
    BY <1>4, <1>7 DEF Handle
  <2>2. Skews \in SUBSET Int /\ \A skew \in Skews : skew <= 1
    BY DEF Skews
  <2>. QED
    BY <1>3, <1>5, <1>6, <2>1, <2>2, HandleDecideHolds
<1>8. CASE m.phase # "decide"
  <2>1. HandleExecute(m, retries)
    BY <1>4, <1>8 DEF Handle
  <2>2. ToExecute(slots, m)
    BY <1>5, <1>8 DEF ToExecute, MessageFine
  <2>3. Holds(slots, top)'
    BY <1>3, <1>6, <2>1, <2>2, HandleExecuteHolds
  <2>. QED
    BY <2>3
<1>. QED
  BY <1>7, <1>8

LEMMA RetryHolds ==
    ASSUME NEW slots \in SUBSET Slots, NEW top \in Nat, Holds(slots, top), Retry
    PROVE  \E more \in SUBSET Slots, over \in Nat : Holds(more, over)'
<1>1. /\ SimTyped /\ Gone /\ Items(slots) /\ IsSeq(hand) /\ IsSeq(retries)
      /\ hand = <<>> /\ retries # <<>>
  BY DEF Holds, SimTyped, QueuesOK, Retry
<1>2. PICK t, waiting : t = Head(retries) /\ waiting = Tail(retries)
  OBVIOUS
<1>3. IsSeq(waiting) /\ Range(retries) = Range(waiting) \cup {t}
  BY <1>1, <1>2, RangeTail
<1>4. TaskFine(slots, t)
  BY <1>1, <1>3 DEF Items
<1>5. t.stage # "commit" => Waiting(waiting)
  BY <1>3 DEF Waiting, Committing
<1>6. ASSUME t.stage \in {"decide", "execute"}, UNCHANGED <<hand, worldVars>>
      PROVE  /\ Handling(waiting) /\ MessageFine(slots, t.msg)
             /\ "worker" \notin alive => incidents[t.msg.inc].state \in Terminal
  <2>1. Waiting(waiting)
    BY <1>5, <1>6
  <2>2. Handling(waiting)
    BY <1>1, <1>6, <2>1 DEF Handling, worldVars
  <2>3. t \in Range(retries)
    BY <1>3
  <2>. QED
    BY <1>1, <1>4, <1>6, <2>2, <2>3 DEF TaskFine, Gone
<1>7. CASE t.stage = "ingest"
  <2>1. Ingest(t.msg.inc, waiting) /\ UNCHANGED <<recurring, due, alive, now, slips>>
    BY <1>2, <1>7 DEF Retry
  <2>2. t.msg.inc \in Incidents /\ due' \in [Incidents -> Nat]
    BY <1>1, <1>4, <2>1 DEF TaskFine, SimTyped, WorldOK
  <2>3. Holds(slots, top)'
    BY <1>5, <1>7, <2>1, <2>2, IngestHolds
  <2>. QED
    BY <2>3
<1>8. CASE t.stage = "decide"
  <2>1. HandleDecide(t.msg, waiting, {0}) /\ UNCHANGED <<hand, worldVars>>
    BY <1>2, <1>8 DEF Retry
  <2>2. {0} \in SUBSET Int /\ \A skew \in {0} : skew <= 1
    OBVIOUS
  <2>. QED
    BY <1>6, <1>8, <2>1, <2>2, HandleDecideHolds
<1>9. CASE t.stage = "execute"
  <2>1. HandleExecute(t.msg, waiting) /\ UNCHANGED <<hand, worldVars>>
    BY <1>2, <1>9 DEF Retry
  <2>2. ToExecute(slots, t.msg)
    BY <1>4, <1>9 DEF ToExecute, TaskFine
  <2>3. Holds(slots, top)'
    BY <1>6, <1>9, <2>1, <2>2, HandleExecuteHolds
  <2>. QED
    BY <2>3
<1>10. CASE t.stage = "commit"
  <2>1. PICK stop \in Stop(CommitStops) :
           /\ Counted(stop) /\ Again(stop, t, waiting)
           /\ Commit(incidents, t.msg, t.ok, stop, monitor)
    BY <1>2, <1>10 DEF Retry
  <2>2. UNCHANGED <<queueVars, hand, worldVars>>
    BY <1>2, <1>10 DEF Retry
  <2>3. Committing(t)
    BY <1>10 DEF Committing
  <2>4. Holds(slots, top)'
    BY <1>1, <1>2, <2>1, <2>2, <2>3, RecordHolds
  <2>. QED
    BY <2>4
<1>11. CASE t.stage = "reconcile"
  <2>1. Rederive(t.msg.inc, waiting)
    BY <1>2, <1>11 DEF Retry
  <2>2. t.msg.inc \in Incidents /\ incidents[t.msg.inc].state # "none"
    BY <1>4, <1>11 DEF TaskFine
  <2>3. Holds(slots, top)'
    BY <1>5, <1>11, <2>1, <2>2, RederiveHolds
  <2>. QED
    BY <2>3
<1>. QED
  BY <1>4, <1>7, <1>8, <1>9, <1>10, <1>11 DEF TaskFine

-----------------------------------------------------------------------------
(* Time *)

\* A tick passes over what is under way only as a slip; what is not yet due is not
\* overtaken.
LEMMA AdvanceDue ==
    ASSUME NEW slots \in SUBSET Slots, SimTyped, Advance,
           NEW i \in Incidents, NEW a \in Nat, NEW t \in Nat, Due(slots, i, a, t), NEW u \in Nat,
           \/ u = t /\ (Busy \/ now < t)
           \/ t = now /\ u = now + 1 /\ Busy
    PROVE  Due(slots, i, a, u)'
<1>1. /\ UNCHANGED <<incidents, recurring, faults, monitor>> /\ now' = now + 1
      /\ slips' = IF Busy THEN slips + 1 ELSE slips
  BY DEF Advance, storeVars
<1>2. now \in Nat /\ slips \in Nat
  BY Numbers
<1>3. PICK n \in Nat : n = now + 1
  BY <1>2
<1>4. PICK l \in Nat : l = IF Busy THEN slips + 1 ELSE slips
  BY <1>2
<1>5. now' = n /\ slips' = l
  BY <1>1, <1>3, <1>4
<1>6. ASSUME NEW s \in slots, Near(s, t) PROVE Near(s, u)'
  <2>1. s.at \in Nat /\ faults \in Nat
    BY Numbers DEF Slots
  <2>2. s.at <= t + faults /\ t <= s.at + slips /\ now <= s.at + slips
    BY <1>6 DEF Near
  <2>3. s.at <= u + faults /\ u <= s.at + l /\ n <= s.at + l
    BY <1>2, <1>3, <1>4, <2>1, <2>2
  <2>. QED
    BY <1>1, <1>5, <2>3 DEF Near
<1>. QED
  BY <1>1, <1>6 DEF Due

LEMMA AdvanceHolds ==
    ASSUME NEW slots \in SUBSET Slots, NEW top \in Nat, Holds(slots, top), Advance
    PROVE  Holds(slots, top)'
<1>1. SimTyped /\ Gone /\ Items(slots) /\ Plan(slots, top) /\ Money(slots)
  BY DEF Holds
<1>2. /\ UNCHANGED <<incidents, mandate, outbox, ready, delivered, up, hand, retries, faults, monitor,
                     recurring, due, session, alive>>
      /\ now' = now + 1 /\ slips' = (IF Busy THEN slips + 1 ELSE slips) /\ slips' <= MaxSlips
      /\ hand = <<>> /\ retries = <<>>
  BY DEF Advance, storeVars, queueVars
<1>3. now \in Nat /\ slips \in Nat /\ faults \in Nat /\ MaxSlips \in Nat
  BY <1>1, Numbers
<1>4. PICK n \in Nat, l \in Nat : /\ n = now + 1 /\ l = (IF Busy THEN slips + 1 ELSE slips)
                                  /\ now' = n /\ slips' = l
  <2>1. PICK n \in Nat : n = now + 1
    BY <1>3
  <2>2. PICK l \in Nat : l = IF Busy THEN slips + 1 ELSE slips
    BY <1>3
  <2>. QED
    BY <1>2, <2>1, <2>2
<1>5. SimTyped'
  <2>1. breaker' \in BreakerStates
    <3>1. breaker \in BreakerStates
      BY <1>1 DEF SimTyped, WatchOK
    <3>2. PICK cooled \in BOOLEAN : cooled = (breaker.state = "open")
      OBVIOUS
    <3>3. PICK zero \in Nat : zero = 0
      OBVIOUS
    <3>4. breaker' = [breaker EXCEPT !.cooled = cooled, !.ok = zero, !.bad = zero]
      BY <3>2, <3>3 DEF Advance
    <3>. QED
      BY <3>1, <3>4 DEF BreakerStates
  <2>2. now' \in Nat /\ slips' \in 0..MaxSlips
    BY <1>2, <1>3, <1>4
  <2>. QED
    BY <1>1, <1>2, <2>1, <2>2
    DEF SimTyped, IncidentsOK, WorldOK, MandateOK, OutboxOK, QueuesOK, WatchOK, FaultsOK
<1>6. Gone' /\ Plan(slots, top)'
  BY <1>1, <1>2 DEF Gone, Plan
<1>7. Range(retries) = {}
  BY <1>2 DEF Range
<1>8. Items(slots)'
  <2>1. ASSUME NEW entry \in Range(outbox) PROVE RowFine(slots, entry)'
    <3>1. entry.inc \in Incidents /\ entry.attempt \in Nat /\ entry.at \in Nat
      BY <1>1, Outboxed
    <3>2. RowFine(slots, entry)
      BY <1>1 DEF Items
    <3>3. CASE entry.failed
      BY <3>3 DEF RowFine
    <3>4. CASE ~entry.failed
      <4>1. Busy \/ now < entry.at
        <5>1. PICK k \in DOMAIN outbox : entry = outbox[k]
          BY DEF Range
        <5>2. CASE entry.leased
          BY <5>1, <5>2 DEF Busy, DueNow
        <5>3. CASE ~entry.leased /\ entry.at <= now
          BY <3>4, <5>1, <5>3 DEF Busy, DueNow, Claimable
        <5>. QED
          BY <1>3, <3>1, <5>2, <5>3
      <4>2. entry.phase = "execute" => Due(slots, entry.inc, entry.attempt, entry.at)'
        BY <1>1, <3>1, <3>2, <3>4, <4>1, AdvanceDue DEF RowFine
      <4>3. incidents'[entry.inc].state # "none"
        BY <1>2, <3>2, <3>4 DEF RowFine
      <4>. QED
        BY <4>2, <4>3 DEF RowFine
    <3>. QED
      BY <3>3, <3>4
  <2>2. ASSUME NEW m \in Flying PROVE MessageFine(slots, m)'
    <3>1. MessageFine(slots, m)
      BY <1>1 DEF Items
    <3>2. PICK i \in Incidents, a \in Nat, t \in Nat : i = m.inc /\ a = m.attempt /\ t = now
      BY <1>3, <3>1 DEF MessageFine
    <3>3. Busy
      <4>1. CASE m \in Range(ready)
        BY <4>1 DEF Busy, Range
      <4>2. CASE m \in delivered
        BY <4>2 DEF Busy
      <4>3. m \notin Range(hand)
        BY <1>2 DEF Range
      <4>. QED
        BY <4>1, <4>2, <4>3 DEF Flying
    <3>4. m.phase = "execute" => Due(slots, i, a, n)'
      <4>. SUFFICES ASSUME m.phase = "execute" PROVE Due(slots, i, a, n)'
        OBVIOUS
      <4>1. Due(slots, i, a, t)
        BY <3>1, <3>2 DEF MessageFine
      <4>. QED
        BY <1>1, <1>4, <3>2, <3>3, <4>1, AdvanceDue
    <3>5. m.phase = "execute" => Due(slots, m.inc, m.attempt, now)'
      BY <1>4, <3>2, <3>4 DEF Due, Near
    <3>. QED
      BY <1>2, <3>1, <3>5 DEF MessageFine
  <2>3. Flying' = Flying
    BY <1>2 DEF Flying
  <2>. QED
    BY <1>2, <1>7, <2>1, <2>2, <2>3 DEF Items
<1>9. Money(slots)'
  <2>1. ~PendingDebit /\ ~PendingDebit' /\ LastDebits' = LastDebits
    BY <1>2, <1>7 DEF PendingDebit, Committing, LastDebits
  <2>2. ASSUME NEW d \in Nat, Took(slots, d) PROVE Took(slots, d)'
    <3>1. PICK s \in slots : /\ s.attempt <= incidents[s.inc].count
                             /\ s.at <= d + faults /\ d <= s.at + slips
      BY <2>2 DEF Took
    <3>2. s.at \in Nat
      BY DEF Slots
    <3>3. d <= now
      BY <2>2 DEF Took
    <3>4. d <= n /\ d <= s.at + l
      BY <1>3, <1>4, <3>1, <3>2, <3>3
    <3>. QED
      BY <1>2, <1>4, <3>1, <3>4 DEF Took
  <2>3. monitor.last \cup LastDebits \subseteq Nat
    BY <1>1, Kept, Watched
  <2>4. \A d \in monitor'.last \cup LastDebits' : Took(slots, d)'
    BY <1>1, <1>2, <2>1, <2>2, <2>3 DEF Money
  <2>5. /\ \A d \in monitor'.debits : d.attempt <= incidents'[d.inc].count
        /\ \A d \in monitor'.debits : d.ok => incidents'[d.inc].state \in Terminal
    BY <1>1, <1>2, <1>7 DEF Money
  <2>. QED
    BY <1>1, <1>2, <2>1, <2>4, <2>5 DEF Money
<1>. QED
  BY <1>5, <1>6, <1>8, <1>9 DEF Holds

-----------------------------------------------------------------------------
(* The run *)

LEMMA SimInitHolds ==
    ASSUME SimInit
    PROVE  Holds({}, 0)
<1>1. PICK draw \in Draws : Drawn(draw)
  BY DEF SimInit
<1>2. recurring \subseteq Incidents /\ due \in [Incidents -> Nat]
  <2>1. draw \in [recurring : SUBSET Incidents, due : [Incidents -> 0..2]]
    BY SimulationAssumption
  <2>2. draw.recurring \subseteq Incidents /\ draw.due \in [Incidents -> Nat]
    BY <2>1
  <2>. QED
    BY <1>1, <2>2 DEF Drawn
<1>3. WorldOK /\ FaultsOK
  <2>1. MaxSlips \in Nat /\ MaxFaults \in Nat
    BY SimulationAssumption
  <2>. QED
    BY <1>2, <2>1 DEF SimInit, WorldOK, FaultsOK
<1>4. IncidentsOK /\ MandateOK
  BY <1>2 DEF SimInit, IncidentsOK, MandateOK, States
<1>5. /\ Range(outbox) = {} /\ Range(ready) = {} /\ Range(hand) = {} /\ Range(retries) = {}
      /\ outbox \in Seq(OutboxRows) /\ QueuesOK
  BY DEF SimInit, Range, QueuesOK, IsSeq
<1>6. OutboxOK
  BY <1>5 DEF OutboxOK
<1>7. WatchOK
  <2>1. PICK z \in 0..MaxProbes : z = 0
    BY SimulationAssumption
  <2>2. breaker \in BreakerStates
    BY <2>1 DEF SimInit, ClosedBreaker, BreakerStates
  <2>3. monitor \in Monitors
    BY DEF SimInit, Monitors, Times
  <2>. QED
    BY <2>2, <2>3 DEF WatchOK
<1>8. SimTyped
  BY <1>3, <1>4, <1>5, <1>6, <1>7 DEF SimTyped
<1>9. Gone
  BY DEF SimInit, Gone, Pollers
<1>10. Items({})
  BY <1>5 DEF SimInit, Items, Flying
<1>11. Plan({}, 0)
  BY DEF SimInit, Plan
<1>12. Money({})
  BY <1>5 DEF SimInit, Money, PendingDebit, LastDebits
<1>. QED
  BY <1>8, <1>9, <1>10, <1>11, <1>12 DEF Holds

LEMMA SimStep ==
    ASSUME SimInv, [SimNext]_simVars
    PROVE  SimInv'
<1>1. PICK slots \in SUBSET Slots, top \in Nat : Holds(slots, top)
  BY DEF SimInv
<1>2. Holds(slots, top)' => SimInv'
  BY DEF SimInv
<1>3. CASE UNCHANGED simVars
  <2>1. SimTyped /\ Gone
    BY <1>1 DEF Holds
  <2>2. UNCHANGED <<incidents, mandate, outbox, ready, delivered, up, hand, retries, breaker, faults,
                    monitor, recurring, due, session, alive, now, slips>>
    BY <1>3 DEF simVars, storeVars, queueVars, worldVars
  <2>3. WorldOK' /\ FaultsOK' /\ OutboxOK' /\ QueuesOK' /\ breaker' \in BreakerStates
    BY <2>1, <2>2 DEF SimTyped, WorldOK, FaultsOK, OutboxOK, QueuesOK, WatchOK
  <2>4. Gone' /\ Flying' = Flying
    BY <2>1, <2>2 DEF Gone, Flying
  <2>5. faults <= faults'
    BY <2>1, <2>2, Numbers
  <2>. QED
    BY <1>1, <1>2, <2>2, <2>3, <2>4, <2>5, QuietHolds
<1>4. ASSUME NEW i \in Incidents, Deliver(i) PROVE SimInv'
  BY <1>1, <1>2, <1>4, DeliverHolds
<1>5. ASSUME NEW i \in Incidents, ExpireSession(i) PROVE SimInv'
  BY <1>1, <1>2, <1>5, ExpireHolds
<1>6. CASE Relay
  BY <1>1, <1>2, <1>6, RelayHolds
<1>7. CASE Outage
  BY <1>1, <1>2, <1>7, OutageHolds
<1>8. CASE OutageEnds
  BY <1>1, <1>2, <1>8, OutageEndsHolds
<1>9. CASE LeaseExpires
  BY <1>1, <1>2, <1>9, LeaseExpiresHolds
<1>10. CASE Consume
  BY <1>1, <1>2, <1>10, ConsumeHolds
<1>11. CASE Reclaim
  BY <1>1, <1>2, <1>11, ReclaimHolds
<1>12. CASE Handle
  BY <1>1, <1>12, HandleHolds DEF SimInv
<1>13. CASE Reconcile
  BY <1>1, <1>2, <1>13, ReconcileHolds
<1>14. CASE Retry
  BY <1>1, <1>14, RetryHolds DEF SimInv
<1>15. CASE Release
  BY <1>1, <1>2, <1>15, ReleaseHolds
<1>16. ASSUME NEW p \in Pollers, Leave(p) PROVE SimInv'
  BY <1>1, <1>2, <1>16, LeaveHolds
<1>17. CASE Cool
  BY <1>1, <1>2, <1>17, CoolHolds
<1>18. CASE Advance
  BY <1>1, <1>2, <1>18, AdvanceHolds
<1>. QED
  BY <1>3, <1>4, <1>5, <1>6, <1>7, <1>8, <1>9, <1>10, <1>11, <1>12, <1>13, <1>14, <1>15, <1>16,
     <1>17, <1>18 DEF SimNext

LEMMA SimInvImplies ==
    ASSUME SimInv
    PROVE  SimulationSound
<1>1. PICK slots \in SUBSET Slots, top \in Nat : Holds(slots, top)
  BY DEF SimInv
<1>2. SimTyped /\ Gone /\ Money(slots)
  BY <1>1 DEF Holds
<1>3. SimTypeOK
  <2>1. incidents \in [Incidents -> [state : States, count : Nat]]
    BY <1>2 DEF SimTyped, IncidentsOK
  <2>2. \A k \in DOMAIN outbox : outbox[k].inc \in Incidents /\ outbox[k].tries <= MaxPublishAttempts
    <3>. SUFFICES ASSUME NEW k \in DOMAIN outbox
                  PROVE  outbox[k].inc \in Incidents /\ outbox[k].tries <= MaxPublishAttempts
      OBVIOUS
    <3>1. outbox[k] \in Range(outbox)
      BY DEF Range
    <3>. QED
      BY <1>2, <3>1, Outboxed DEF SimTyped, OutboxOK, Publishable
  <2>3. delivered \subseteq Live /\ alive \subseteq Pollers /\ session \subseteq Incidents \ recurring
    BY <1>2 DEF Live, SimTyped, WorldOK
  <2>4. breaker.state \in {"closed", "open", "half"} /\ breaker.probes \in 0..MaxProbes
    BY <1>2 DEF SimTyped, WatchOK, BreakerStates
  <2>5. Cardinality(mandate) <= 1
    <3>1. CASE mandate = {}
      BY <3>1, FS_EmptySet
    <3>2. CASE mandate # {}
      <4>1. PICK r : mandate = {r}
        BY <1>2, <3>2, Single
      <4>. QED
        BY <4>1, FS_Singleton
    <3>. QED
      BY <3>1, <3>2
  <2>6. faults \in 0..MaxFaults /\ slips \in 0..MaxSlips
    BY <1>2 DEF SimTyped, WorldOK, FaultsOK
  <2>. QED
    BY <2>1, <2>2, <2>3, <2>4, <2>5, <2>6 DEF SimTypeOK
<1>4. MonitorIsSilent
  BY <1>2, Watched DEF MonitorIsSilent
<1>5. LeftIsUntouched
  BY <1>2 DEF LeftIsUntouched, Gone, SimTyped, IncidentsOK
<1>6. SuccessIsClosed
  BY <1>2 DEF SuccessIsClosed, Money, Committing
<1>. QED
  BY <1>3, <1>4, <1>5, <1>6 DEF SimulationSound

\* What the run of the simulation rests on (simulation/invariants.go, sim.go), for any
\* number of incidents, faults and slips that fit into a cooling window: the monitor
\* stays silent, what the workers leave behind is untouched, and a debit that
\* succeeded leaves its incident closed or its record still to be written.
THEOREM SimulationIsSound == SimSpec => []SimulationSound
<1>1. SimInit => SimInv
  <2>. SUFFICES ASSUME SimInit PROVE SimInv
    OBVIOUS
  <2>1. Holds({}, 0)
    BY SimInitHolds
  <2>. QED
    BY <2>1 DEF SimInv
<1>2. SimInv /\ [SimNext]_simVars => SimInv'
  BY SimStep
<1>3. SimInv => SimulationSound
  BY SimInvImplies
<1>. QED
  BY <1>1, <1>2, <1>3, PTL DEF SimSpec

=============================================================================
