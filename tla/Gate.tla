-------------------------------- MODULE Gate --------------------------------
(***************************************************************************)
(* Decide of the gatekeeper (internal/gatekeeper): what is known of a      *)
(* failed payment, and an advisory proposal, become the one command the    *)
(* executor may act on.  The rules follow one another in the order of the  *)
(* code, each on what the one before has left; the order is the            *)
(* specification.                                                          *)
(*                                                                         *)
(* Time is in hours.  An optional value is a set with at most one element. *)
(***************************************************************************)
EXTENDS Integers

CONSTANTS
    Rails,                  \* what domain.Rail.Valid accepts, RailNone aside
    MaxAttempts,            \* of one incident
    CycleCap,               \* of one mandate in one billing cycle
    Cooling,                \* the RBI cooling window
    MaxRecommendedDelay,    \* the longest schedule
    NoticeValidity,         \* how long a notice licenses a debit
    GeneralCeiling, ElevatedCeiling     \* of a debit without a second factor

\* Config.withDefaults: no ceiling can be configured away, nor the floor.
ASSUME GateAssumption ==
    /\ {MaxAttempts, CycleCap, Cooling, MaxRecommendedDelay, NoticeValidity,
        GeneralCeiling, ElevatedCeiling} \subseteq Nat \ {0}
    /\ Cooling <= MaxRecommendedDelay
    /\ GeneralCeiling <= ElevatedCeiling
    /\ "none" \notin Rails

Executable == {"morph", "async", "cascade", "refresh"}
Actions == Executable \cup {"abstain"}

Categories == {"general", "insurance", "mutual_fund", "credit_card_bill"}

AFACeiling(category) == IF category = "general" THEN GeneralCeiling ELSE ElevatedCeiling

Mandates ==
    [wait : SUBSET Int,         \* until NextEligibleAt, if there is one
     notice : SUBSET Int,       \* the age of the notice, if there is one
     attempts : Nat, halted : BOOLEAN, category : Categories]

\* domain.GateInput.  rail is that of the payment's method, "none" when the
\* method has none; an action outside the closed set is "injected".
GateInputs ==
    [recurring : BOOLEAN, amount : Int, rail : Rails \cup {"none"},
     attempt : Int, session : BOOLEAN, available : SUBSET Rails,
     mandate : SUBSET Mandates,
     terminal : BOOLEAN, confident : BOOLEAN, recoverable : BOOLEAN,
     foreign : BOOLEAN, action : Actions \cup {"injected"},
     target : Rails \cup {"none"}, delay : Int]

-----------------------------------------------------------------------------
(* The rules: d is the decision so far *)

Abstained(d) == d.action = "abstain"

Veto(d, rule) == [d EXCEPT !.action = "abstain", !.rules = @ \cup {rule}]

VetoIf(condition, d, rule) == IF condition THEN Veto(d, rule) ELSE d

Larger(a, b) == IF a > b THEN a ELSE b

\* A proposal for another incident is no evidence, one outside the closed set
\* abstains, and only a recurring payment has a mandate to cascade on.
Normalised(in) ==
    LET action ==
            IF in.foreign \/ in.action = "injected" THEN "abstain"
            ELSE IF in.action = "cascade" /\ ~in.recurring THEN "async" ELSE in.action
    IN  [action |-> action, rail |-> IF action = "morph" THEN in.target ELSE in.rail,
         presentation |-> "unchanged", delay |-> 0, preDebit |-> FALSE, rules |-> {}]

\* 1-5: no money to charge, or no retry that could help.
Stopped(in, d) ==
    LET pinned == IF in.amount > 0 THEN d ELSE [d EXCEPT !.action = "abstain"]
        decline == VetoIf(in.terminal, pinned, "TERMINAL_DECLINE")
        stop == VetoIf(in.attempt > MaxAttempts, decline, "STOP_RULE_MAX_ATTEMPTS")
        low == VetoIf(~in.confident, stop, "LOW_CONFIDENCE_ABSTAIN")
    IN  VetoIf(in.foreign \/ ~in.recoverable, low, "UNRECOVERABLE_CLASS")

\* 6, 7: a morph needs a live session, and another rail of the merchant's.
Morphed(in, d) ==
    IF d.action = "morph" /\ (~in.session \/ d.rail \notin in.available \ {in.rail})
    THEN [d EXCEPT !.action = "async", !.rail = in.rail,
                   !.rules = @ \cup {IF in.session THEN "RAIL_ALLOWLIST"
                                                   ELSE "SESSION_REQUIRED_FOR_MORPH"}]
    ELSE d

\* The backoff of the policy; the proposal can only make it longer.
Scheduled(in, backoff, d) ==
    IF d.action \notin {"async", "cascade"} THEN d
    ELSE [d EXCEPT !.delay = IF in.delay > backoff /\ in.delay <= MaxRecommendedDelay
                             THEN in.delay ELSE backoff]

Required(in) ==
    LET waits == UNION {m.wait : m \in in.mandate}
        later == {w \in waits : w > Cooling}
    IN  IF later = {} THEN Cooling ELSE CHOOSE w \in later : TRUE

\* 8: every recurring payment becomes a cascade after the cooling window.
Cooled(in, d) ==
    IF Abstained(d) \/ ~in.recurring THEN d
    ELSE IF Required(in) > MaxRecommendedDelay THEN Veto(d, "RBI_MANDATE_COOLING")
    ELSE [d EXCEPT !.action = "cascade", !.rail = in.rail, !.preDebit = TRUE,
                   !.delay = Larger(@, Required(in)), !.rules = @ \cup {"RBI_MANDATE_COOLING"}]

\* A notice from the future is corrupt.
NoticeSatisfied(in) ==
    \E m \in in.mandate : \E age \in m.notice : 0 <= age /\ age <= NoticeValidity

CeilingOf(in) ==
    IF in.mandate = {} THEN GeneralCeiling
    ELSE AFACeiling((CHOOSE m \in in.mandate : TRUE).category)

\* 9, 9a: what the regulation asks of a recurring debit.
Regulated(in, d) ==
    IF Abstained(d) \/ ~in.recurring THEN d
    ELSE VetoIf(in.amount > CeilingOf(in),
                IF NoticeSatisfied(in) THEN d
                ELSE [d EXCEPT !.preDebit = TRUE, !.rules = @ \cup {"RBI_PRE_DEBIT_NOTICE"}],
                "RBI_AFA_CEILING")

\* 10, 11: whenever a mandate is attached, recurring payment or not.
Permitted(in, d) ==
    VetoIf(\E m \in in.mandate : m.attempts >= CycleCap,
           VetoIf(\E m \in in.mandate : m.halted, d, "MANDATE_HALTED"),
           "MANDATE_CYCLE_CAP")

\* 11a: a refresh presents the same instrument as a network token.
Refreshed(in, d) ==
    IF d.action # "refresh" THEN d
    ELSE IF in.rail = "none" THEN Veto(d, "INSTRUMENT_REFRESH_ALLOWED")
    ELSE [d EXCEPT !.rail = in.rail, !.presentation = "network_token",
                   !.rules = @ \cup {"INSTRUMENT_REFRESH_ALLOWED"}]

\* 12: a schedule in bounds, and none for what is not executed.
Bounded(d) ==
    IF Abstained(d)
    THEN [d EXCEPT !.delay = 0, !.rail = "none", !.preDebit = FALSE,
                   !.presentation = "unchanged"]
    ELSE [d EXCEPT !.delay = IF @ > MaxRecommendedDelay THEN MaxRecommendedDelay
                             ELSE Larger(@, 0)]

\* domain.SanitizedCommand: the amount pinned, the number of the attempt clamped.
Command(in, d) ==
    [action |-> d.action, rail |-> d.rail, presentation |-> d.presentation,
     delay |-> d.delay, preDebit |-> d.preDebit, amount |-> in.amount,
     attempt |-> IF in.attempt > MaxAttempts THEN MaxAttempts ELSE Larger(in.attempt, 0),
     rules |-> d.rules \cup {"AMOUNT_PINNED", "DELAY_BOUNDS"}]

Decide(in, backoff) ==
    LET morphed == Morphed(in, Stopped(in, Normalised(in)))
        cooled == Cooled(in, Scheduled(in, backoff, morphed))
    IN  Command(in, Bounded(Refreshed(in, Permitted(in, Regulated(in, cooled)))))

RequiresMandateHalt(cmd) == "MANDATE_CYCLE_CAP" \in cmd.rules

-----------------------------------------------------------------------------
(* Properties *)

\* invariants.go: a command that will be executed was given neither over a halt
\* nor over a cap; of a recurring payment it waits for the cooling window and
\* for the mandate, carries the notice, and stays under the ceiling of the
\* category; and it names a rail if the method of the payment has one.  A
\* command that will not be executed carries no schedule.
Complies(in, cmd) ==
    /\ cmd.amount = in.amount /\ cmd.attempt \in 0..MaxAttempts
    /\ IF cmd.action \in Executable
       THEN /\ in.amount > 0 /\ in.attempt <= MaxAttempts
            /\ \A m \in in.mandate : ~m.halted /\ m.attempts < CycleCap
            /\ cmd.delay \in 0..MaxRecommendedDelay
            /\ in.rail \in Rails => cmd.rail \in Rails
            /\ in.recurring => /\ cmd.preDebit /\ cmd.delay >= Required(in)
                               /\ in.amount <= CeilingOf(in)
       ELSE cmd.delay = 0 /\ cmd.rail = "none" /\ ~cmd.preDebit

=============================================================================
