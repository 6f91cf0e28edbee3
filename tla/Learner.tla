------------------------------- MODULE Learner -------------------------------
(***************************************************************************)
(* The learner in its seat: internal/bandit holds beliefs, internal/tuner  *)
(* draws a delay from them, the worker (chooseDelay, recordPolicyDecision, *)
(* learnFromOutcome) asks for one on every pass of an incident, writes the *)
(* draw to the ledger, and credits an outcome to the last draw it finds    *)
(* there.  Beliefs live in a process; the ledger and the schedule do not.  *)
(*                                                                         *)
(* Delays are numbers on one scale.  Every permitted arm can be drawn: the *)
(* distribution keeps a floor of probability on each.                      *)
(***************************************************************************)
EXTENDS Integers, Sequences, FiniteSets

CONSTANTS
    Failures,           \* incidents
    Debits,             \* those of them that are mandate debits
    Learners,           \* worker processes, each with a tuner
    Arms,               \* tuner.Arms, an arm being the delay it schedules
    Ceilings,           \* what policy.BackoffCeiling may come to
    MinBackoff,         \* the least the gate's own backoff draws
    CoolingWindow,             \* the cooling window of a mandate debit
    Context,            \* tuner.CellFor, of an incident and an attempt
    MaxCells,           \* bandit.Config.MaxCells
    LastAttempt,        \* gatekeeper.Config.MaxAttempts
    MaxStops            \* restarts of a process (a bound)

ASSUME LearnerAssumption ==
    /\ Debits \subseteq Failures
    /\ Arms \cup Ceilings \cup {MinBackoff, CoolingWindow} \subseteq Nat \ {0}
    /\ \A c \in Ceilings : MinBackoff <= c
    /\ {MaxCells, LastAttempt} \subseteq Nat \ {0} /\ MaxStops \in Nat
    /\ IsFiniteSet(Failures)

VARIABLES
    beliefs,    \* [Learners -> cell -> [Arms -> outcomes counted]]
    trail,      \* [Failures -> the policy decisions of its ledger entries]
    turn,       \* [Failures -> the pass it is in]
    served,     \* [Failures -> arms whose delay it was made to wait for]
    credited,   \* [Failures -> arms its outcomes were credited to]
    stops

learnerVars == <<beliefs, trail, turn, served, credited, stops>>

-----------------------------------------------------------------------------
(* The model *)

Overflow == "__overflow__"

Cells == {Context[<<i, n>>] : i \in Failures, n \in 1..(LastAttempt + 1)}

Known(l) == DOMAIN beliefs[l]

\* cellKeyLocked: past the limit a new context shares the overflow cell.
CellKey(l, cell) ==
    IF cell \in Known(l) \/ Cardinality(Known(l)) < MaxCells THEN cell ELSE Overflow

\* posteriorLocked: an arm never tried has the prior, no observation.
Observations(l, key, arm) == IF key \in Known(l) THEN beliefs[l][key][arm] ELSE 0

\* Update: one more outcome for the arm, in the cell the key has by now.
Update(l, cell, arm) ==
    LET key == CellKey(l, cell)
    IN  beliefs' = [beliefs EXCEPT ![l] =
            [k \in Known(l) \cup {key} |->
                [a \in Arms |-> Observations(l, k, a) +
                                IF k = key /\ a = arm THEN 1 ELSE 0]]]

PermittedAboveTheLeast(ceiling) == {a \in Arms : a >= MinBackoff}

\* PermittedFor: what the gate's own delay cannot exceed.
PermittedFor(ceiling) == {a \in Arms : a >= ceiling}

-----------------------------------------------------------------------------
(* A pass of an incident through Pool.Handle *)

Waiting(n, due) == [at |-> "waiting", attempt |-> n, due |-> due]

\* execute: a failed attempt is followed by another below the ceiling.
MayRetry(n) == n < LastAttempt

\* Concluded; or its claim outlives whoever held it.
Over(n) == [at |-> "closed", attempt |-> n]

\* chooseDelay.  No draw when the proposal has no delay to choose (no async
\* retry, no recoverable class) or when no arm reaches the ceiling.
Choose(i, l) ==
    /\ turn[i].at = "waiting"
    /\ \E ceiling \in Ceilings :
       \E drawn \in {{}} \cup {{a} : a \in PermittedFor(ceiling)} :
           turn' = [turn EXCEPT ![i] =
               [at |-> "gate", attempt |-> @.attempt + 1, due |-> @.due, l |-> l,
                ceiling |-> ceiling,
                choice |-> {[cell |-> CellKey(l, Context[<<i, @.attempt + 1>>]), arm |-> a] :
                                a \in drawn}]]
    /\ UNCHANGED <<beliefs, trail, served, credited, stops>>

Longest(S) == CHOOSE n \in S : \A k \in S : k <= n

\* Decide: the longer of its own jittered backoff and the proposal's delay,
\* raised to the cooling window of a debit; or no command.
GateDelay(i, backoff) ==
    Longest({backoff} \cup {d.arm : d \in turn[i].choice} \cup
            (IF i \in Debits THEN {CoolingWindow} ELSE {}))

\* recordPolicyDecision: honoured, if the command waits as long as was drawn;
\* what it waits instead is written down too.
Recorded(d, delays) ==
    [arm |-> d.arm, cell |-> d.cell, honoured |-> d.arm \in delays, gate |-> delays]

\* The gate, then the ledger; a failed append is only logged.
Rule(i) ==
    /\ turn[i].at = "gate"
    /\ \E vetoed \in BOOLEAN, backoff \in MinBackoff..turn[i].ceiling :
        LET delays == IF vetoed THEN {} ELSE {GateDelay(i, backoff)}
        IN  /\ turn[i].attempt > LastAttempt => vetoed
            /\ turn' = [turn EXCEPT ![i] =
                          IF vetoed THEN Over(@.attempt)
                          ELSE [at |-> "act", attempt |-> @.attempt, due |-> @.due,
                                l |-> @.l,
                                kept |-> {d.arm : d \in @.choice} \cap delays]]
            /\ \/ \E d \in turn[i].choice :
                      trail' = [trail EXCEPT ![i] = Append(@, Recorded(d, delays))]
               \/ UNCHANGED trail
    /\ UNCHANGED <<beliefs, served, credited, stops>>

\* execute: the delay is written to the row and served once, whatever the next
\* pass asks for.
Defer(i) ==
    /\ turn[i].at = "act" /\ ~turn[i].due
    /\ turn' = [turn EXCEPT ![i] = Waiting(@.attempt, TRUE)]
    /\ served' = [served EXCEPT ![i] = turn[i].kept]
    /\ UNCHANGED <<beliefs, trail, credited, stops>>

Latest(i) == IF trail[i] = <<>> THEN {} ELSE {trail[i][Len(trail[i])]}

\* learnFromOutcome: to the last decision of the trail, if the gate honoured it.
Learn(i) ==
    \E d \in Latest(i) :
        /\ d.honoured
        /\ Update(turn[i].l, d.cell, d.arm)
        /\ credited' = [credited EXCEPT ![i] = {d.arm}]

\* A due incident is attempted at once.  The outcome is learnt from if the
\* trail can be read; then the incident is due again, or closed.
Answered(i) ==
    /\ turn[i].at = "act" /\ turn[i].due
    /\ Learn(i) \/ UNCHANGED <<beliefs, credited>>
    /\ \/ turn' = [turn EXCEPT ![i] = Over(@.attempt)]
       \/ /\ MayRetry(turn[i].attempt)
          /\ turn' = [turn EXCEPT ![i] = Waiting(@.attempt, TRUE)]
    /\ UNCHANGED <<trail, served, stops>>

\* The process ends.  Nothing saves the beliefs, and what it had claimed
\* nobody claims again.
Stop(l) ==
    /\ stops < MaxStops
    /\ stops' = stops + 1
    /\ beliefs' = [beliefs EXCEPT ![l] = <<>>]
    /\ turn' = [i \in Failures |-> IF turn[i].at \in {"gate", "act"} /\ turn[i].l = l
                                   THEN Over(turn[i].attempt) ELSE turn[i]]
    /\ UNCHANGED <<trail, served, credited>>

LearnerInit ==
    /\ beliefs = [l \in Learners |-> <<>>]
    /\ trail = [i \in Failures |-> <<>>]
    /\ turn = [i \in Failures |-> Waiting(0, FALSE)]
    /\ served = [i \in Failures |-> {}]
    /\ credited = [i \in Failures |-> {}]
    /\ stops = 0

LearnerNext ==
    \/ \E i \in Failures :
        \/ \E l \in Learners : Choose(i, l)
        \/ Rule(i) \/ Defer(i) \/ Answered(i)
    \/ \E l \in Learners : Stop(l)

LearnerSpec == LearnerInit /\ [][LearnerNext]_learnerVars

-----------------------------------------------------------------------------
(* Properties *)

\* Types of the beliefs, the trail and the passes.
LearnerTypeOK ==
    /\ \A l \in Learners :
        /\ Known(l) \subseteq Cells \cup {Overflow}
        /\ beliefs[l] \in [Known(l) -> [Arms -> Nat]]
    /\ \A i \in Failures :
        /\ trail[i] \in Seq([arm : Arms, cell : Cells \cup {Overflow}, honoured : BOOLEAN,
                             gate : SUBSET Nat])
        /\ turn[i].at \in {"waiting", "gate", "act", "closed"}
        /\ turn[i].attempt \in 0..(LastAttempt + 1)
    /\ served \in [Failures -> SUBSET Arms] /\ credited \in [Failures -> SUBSET Arms]
    /\ stops \in 0..MaxStops

\* What was drawn is what is done, but for a veto or the cooling window: the
\* gate's own backoff never replaces a drawn delay (worker.go:403-410,
\* tuner.go:84-87), however its jitter falls.
OverridesAreRegulatory ==
    \A i \in Failures : \A n \in DOMAIN trail[i] :
        LET d == trail[i][n]
        IN  IF d.honoured THEN d.gate = {d.arm}
            ELSE d.gate = {} \/ (i \in Debits /\ d.gate = {CoolingWindow} /\ CoolingWindow > d.arm)

\* The outcomes the processes believe in, numbered by cell and arm.
Believed ==
    UNION {{<<l, k, a, n>> : k \in Known(l), a \in Arms,
                             n \in 1..(LastAttempt * Cardinality(Failures))} : l \in Learners}

Counted == {o \in Believed : o[4] <= beliefs[o[1]][o[2]][o[3]]}

\* The attempts there were, without the first passes.
Attempted == {t \in Failures \X (2..LastAttempt) : t[2] <= turn[t[1]].attempt}

\* A process believes only what the ledger can show: a cell has an outcome of
\* an arm only after an honoured decision for that arm, there or in a context
\* that overflowed, and there are never more outcomes than attempts, of which a
\* first pass makes none.
EvidenceIsDecided ==
    /\ \A l \in Learners : \A k \in Known(l), a \in Arms :
        beliefs[l][k][a] > 0 =>
            \E i \in Failures : \E n \in DOMAIN trail[i] :
                LET d == trail[i][n]
                IN  d.honoured /\ d.arm = a /\ (k = d.cell \/ k = Overflow)
    /\ Cardinality(Counted) <= Cardinality(Attempted)

\* MaxCells bounds the contexts kept, the shared one aside.
CellsAreBounded ==
    \A l \in Learners : Cardinality(Known(l) \ {Overflow}) <= MaxCells

LearnerSound == OverridesAreRegulatory /\ EvidenceIsDecided /\ CellsAreBounded

\* What a process believes, and why, is in order.
LearningSound == LearnerTypeOK /\ LearnerSound

\* worker.go:642-643: the arm is picked on the pass that schedules the retry,
\* and 783: the most recent decision is the one this outcome belongs to.  An
\* outcome of an incident that was made to wait is credited to that wait.
CreditsTheServed ==
    \A i \in Failures : served[i] # {} => credited[i] \subseteq served[i]

=============================================================================
