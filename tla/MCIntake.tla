------------------------------ MODULE MCIntake ------------------------------
(* Instances of Intake for TLC. *)
EXTENDS Intake, TLC

CONSTANTS e1, e2, e3, r1, r2, d1, d2

\* Deliveries of one event are interchangeable, and so are relays.
Symmetry == Permutations(Deliveries) \cup Permutations(Relays)

=============================================================================
