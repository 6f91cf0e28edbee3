----------------------------- MODULE Lifecycle ------------------------------
(***************************************************************************)
(* What the recovery pipeline promises about one failed payment, with no   *)
(* queue, worker, delay or fault in sight: turns taken one at a time, at   *)
(* most one presentation to the gateway per turn, never another once the   *)
(* money has moved, and a verdict that agrees with where the money is.     *)
(*                                                                         *)
(* The promise is put together from what the code says of itself: the      *)
(* claim of IncrementIncidentAttempts in internal/store, the idempotency   *)
(* key of internal/executor and IncidentState.Terminal in internal/domain. *)
(* Module Recovery implements it.                                          *)
(***************************************************************************)
EXTENDS Integers

CONSTANTS Incidents, MaxAttempts

VARIABLES
    phase,      \* [Incidents -> {"open", "working", "closed"}]
    turn,       \* [Incidents -> Nat], turns taken
    presented,  \* [Incidents -> SUBSET Nat], the turns that reached the gateway
    captured,   \* [Incidents -> Nat], captures by the gateway
    recovered   \* [Incidents -> BOOLEAN], the verdict of a closed incident

vars == <<phase, turn, presented, captured, recovered>>

Init ==
    /\ phase = [i \in Incidents |-> "open"]
    /\ turn = [i \in Incidents |-> 0]
    /\ presented = [i \in Incidents |-> {}]
    /\ captured = [i \in Incidents |-> 0]
    /\ recovered = [i \in Incidents |-> FALSE]

\* Somebody takes the incident in hand, and nobody else may.
TakeTurn(i) ==
    /\ phase[i] = "open"
    /\ phase' = [phase EXCEPT ![i] = "working"]
    /\ turn' = [turn EXCEPT ![i] = @ + 1]
    /\ UNCHANGED <<presented, captured, recovered>>

\* The turn's one presentation.  It may capture the payment, whether or not
\* anybody hears of it.
Present(i) ==
    /\ phase[i] = "working"
    /\ turn[i] \in 1..MaxAttempts
    /\ turn[i] \notin presented[i]
    /\ captured[i] = 0
    /\ presented' = [presented EXCEPT ![i] = @ \cup {turn[i]}]
    /\ \E c \in {0, 1} : captured' = [captured EXCEPT ![i] = c]
    /\ UNCHANGED <<phase, turn, recovered>>

\* The incident is put back for a later turn: only while no money has moved.
Rest(i) ==
    /\ phase[i] = "working"
    /\ captured[i] = 0
    /\ phase' = [phase EXCEPT ![i] = "open"]
    /\ UNCHANGED <<turn, presented, captured, recovered>>

\* The verdict is final and says where the money is.
Conclude(i) ==
    /\ phase[i] = "working"
    /\ phase' = [phase EXCEPT ![i] = "closed"]
    /\ recovered' = [recovered EXCEPT ![i] = captured[i] = 1]
    /\ UNCHANGED <<turn, presented, captured>>

Next == \E i \in Incidents : TakeTurn(i) \/ Present(i) \/ Rest(i) \/ Conclude(i)

Spec == Init /\ [][Next]_vars

=============================================================================
