------------------------------- MODULE Cycle --------------------------------
(***************************************************************************)
(* The gate over the life of a mandate, under each of its two callers.     *)
(*                                                                         *)
(* The explorer is the model checker of the repository                     *)
(* (internal/modelcheck): one incident for ever, whose attempts the        *)
(* mandate counts, and a halt when the cycle cap asks for one.  The worker *)
(* (internal/worker) has an incident after the other on one mandate, counts*)
(* attempts in the incident and writes only the notice to the mandate.     *)
(* One pass of the worker, from the claim to the answer of the gateway, is *)
(* one step here; module Recovery takes it apart.                          *)
(***************************************************************************)
EXTENDS Gate

CONSTANTS
    Amounts,        \* on both sides of both ceilings, and the ceilings
    HourBuckets,    \* hours since the last attempt, negative for a skewed clock
    Backoffs,       \* what the policy may ask for
    Delays,         \* what a proposal may ask for
    MaxPresented    \* presentations in a billing cycle (a bound)

ASSUME CycleAssumption ==
    /\ Amounts \subseteq Int /\ HourBuckets \subseteq Int
    /\ Backoffs \subseteq Int /\ Delays \subseteq Int
    /\ {"card", "upi_intent"} \subseteq Rails
    /\ MaxPresented \in Nat

VARIABLES
    caller,         \* "explorer" or "worker"
    payment,        \* [recurring, amount, category, rail]
    attempts,       \* the row of the mandate: attempts in this cycle,
    hours,          \*   hours since the last attempt, and since the notice,
    notified, halted,
    incident,       \* attempts of the worker's incident, Closed when there is none
    presented       \* executed commands in this billing cycle

row == <<attempts, hours, notified, halted>>
cycleVars == <<caller, payment, row, incident, presented>>

Closed == -1

\* State.GateInput and Pool.Handle: a volatile part, a proposal and a session,
\* and the durable one.  The worker never writes a time of next eligibility.
Input(proposal, session) ==
    [recurring |-> payment.recurring, amount |-> payment.amount, rail |-> payment.rail,
     attempt |-> IF caller = "explorer" THEN attempts ELSE incident + 1,
     session |-> session, available |-> {"card", "upi_intent"},
     mandate |->
        IF caller = "worker" /\ ~payment.recurring THEN {}
        ELSE {[wait |-> IF caller = "explorer" THEN {Cooling - hours} ELSE {},
               notice |-> IF notified THEN {hours} ELSE {},
               attempts |-> attempts, halted |-> halted, category |-> payment.category]},
     terminal |-> FALSE, confident |-> TRUE, recoverable |-> TRUE, foreign |-> FALSE,
     action |-> proposal.action, target |-> proposal.target, delay |-> proposal.delay]

\* One allowed target of a morph, and the rail that has failed.
Proposals ==
    [action : (Actions \ {"morph"}) \cup {"injected"}, target : {"none"}, delay : Delays]
    \cup [action : {"morph"}, target : {"upi_intent", payment.rail}, delay : Delays]

-----------------------------------------------------------------------------
(* explorer.successors *)

\* Execute what was decided, and halt if the verdict asks for it.
ExplorerExecutes ==
    /\ caller = "explorer" /\ presented < MaxPresented
    /\ \E proposal \in Proposals, session \in BOOLEAN, backoff \in Backoffs :
          LET cmd == Decide(Input(proposal, session), backoff)
              executed == cmd.action \in Executable
          IN  /\ attempts' = IF executed THEN attempts + 1 ELSE attempts
              /\ hours' = IF executed THEN 0 ELSE hours
              /\ notified' = (notified \/ (executed /\ cmd.preDebit))
              /\ halted' = (halted \/ RequiresMandateHalt(cmd))
              /\ presented' = IF executed THEN presented + 1 ELSE presented
    /\ UNCHANGED <<caller, payment, incident>>

\* Forward only: the negative hours are observations, not destinations.
TimePasses ==
    /\ \E h \in HourBuckets : h > hours /\ hours' = h
    /\ UNCHANGED <<caller, payment, attempts, notified, halted, incident, presented>>

NoticeDelivered ==
    /\ caller = "explorer" /\ ~notified
    /\ notified' = TRUE
    /\ UNCHANGED <<caller, payment, attempts, hours, halted, incident, presented>>

\* As if a new cycle began for a halted mandate too.
NewCycleRevives ==
    /\ payment.recurring
    /\ attempts' = 0 /\ notified' = FALSE /\ hours' = 0
    /\ presented' = 0
    /\ UNCHANGED <<caller, payment, halted, incident>>

\* The explorer resets the row.  The worker's row knows no cycle: CycleKey is
\* never written.
NewCycle ==
    /\ payment.recurring
    /\ caller = "explorer" => ~halted
    /\ IF caller = "explorer" THEN attempts' = 0 /\ notified' = FALSE /\ hours' = 0
                              ELSE UNCHANGED <<attempts, notified, hours>>
    /\ presented' = 0
    /\ UNCHANGED <<caller, payment, halted, incident>>

-----------------------------------------------------------------------------
(* The worker *)

\* The subscription charges again, and fails.
IncidentOpens ==
    /\ caller = "worker" /\ incident = Closed
    /\ incident' = 0
    /\ UNCHANGED <<caller, payment, row, presented>>

\* Pool.Handle and execute: count the attempt, decide, and close the incident,
\* or wait, notify, present, and close it unless declined with attempts left.
WorkerPasses ==
    /\ caller = "worker" /\ incident # Closed /\ presented < MaxPresented
    /\ \E proposal \in Proposals, session \in BOOLEAN, backoff \in Backoffs :
          LET cmd == Decide(Input(proposal, session), backoff)
          IN  /\ IF cmd.action \in Executable
                 THEN /\ presented' = presented + 1
                      /\ \/ incident' = Closed
                         \/ cmd.attempt < MaxAttempts /\ incident' = incident + 1
                      /\ notified' = (notified \/ cmd.preDebit)
                      /\ hours' = IF cmd.preDebit THEN 0 ELSE hours
                 ELSE /\ incident' = Closed
                      /\ UNCHANGED <<presented, notified, hours>>
    /\ UNCHANGED <<caller, payment, attempts, halted>>

\* meshctl mandate halt.
OperatorHalts ==
    /\ caller = "worker" /\ payment.recurring /\ ~halted
    /\ halted' = TRUE
    /\ UNCHANGED <<caller, payment, attempts, hours, notified, incident, presented>>

-----------------------------------------------------------------------------

\* seed: a fresh mandate at any age.
CycleInit ==
    /\ caller \in {"explorer", "worker"}
    /\ payment \in [recurring : BOOLEAN, amount : Amounts, category : Categories,
                    rail : {"card"}]
    /\ hours \in HourBuckets /\ (caller = "worker" => hours = 0)
    /\ attempts = 0 /\ notified = FALSE /\ halted = FALSE
    /\ incident = Closed /\ presented = 0

CycleNext ==
    \/ ExplorerExecutes \/ TimePasses \/ NoticeDelivered \/ NewCycle
    \/ IncidentOpens \/ WorkerPasses \/ OperatorHalts

CycleSpec == CycleInit /\ [][CycleNext]_cycleVars

-----------------------------------------------------------------------------
(* Properties *)

CycleTypeOK ==
    /\ attempts \in 0..CycleCap + 1 /\ hours \in HourBuckets \cup {0}
    /\ notified \in BOOLEAN /\ halted \in BOOLEAN
    /\ incident \in Closed..MaxAttempts /\ presented \in 0..MaxPresented

\* The gate is asked at any time by the explorer, of an open incident by the worker.
Asked == caller = "explorer" \/ incident # Closed

\* Whatever is proposed to it, over whatever this mandate has come to, the gate
\* gives a compliant command.
EveryCommandComplies ==
    Asked => \A proposal \in Proposals, session \in BOOLEAN, backoff \in Backoffs :
        LET in == Input(proposal, session) IN Complies(in, Decide(in, backoff))

\* bfs.go of Reachability, for its own transitions: no attempt beyond the cap,
\* no halt below it, no future-dated row after an attempt, and a mandate has at
\* most CycleCap presentations in a cycle.
ExplorerClaims ==
    caller = "explorer" =>
        /\ attempts <= CycleCap
        /\ halted => attempts >= CycleCap
        /\ attempts > 0 => hours >= 0
        /\ presented <= CycleCap

\* model.go, "dimensions deliberately held fixed": an issuer code, a class or a
\* confidence the explorer leaves out changes nothing but to abstain.
PinnedInputsOnlyVeto ==
    Asked => \A proposal \in Proposals, session \in BOOLEAN, backoff \in Backoffs :
        LET in == Input(proposal, session)
            cmd == Decide(in, backoff)
        IN  \A other \in {[in EXCEPT !.terminal = TRUE], [in EXCEPT !.confident = FALSE],
                           [in EXCEPT !.recoverable = FALSE]} :
                Decide(other, backoff) = cmd \/ Decide(other, backoff).action \notin Executable

\* The gate over a mandate's life, under the worker and under the repository's
\* own model checker, and what that checker claims of it.
GateSound == CycleTypeOK /\ EveryCommandComplies /\ ExplorerClaims /\ PinnedInputsOnlyVeto

\* gatekeeper.go:73, "the three-strikes-per-cycle mandate ceiling": a mandate is
\* presented at most CycleCap times in a billing cycle, whoever asks.
ThreeStrikes == payment.recurring => presented <= CycleCap

=============================================================================
