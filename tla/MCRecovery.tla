----------------------------- MODULE MCRecovery -----------------------------
(* Instances of Recovery for TLC. *)
EXTENDS Recovery, TLC

CONSTANTS i1, i2, p1, p2, c1, c2, r1, s1, s2, s3

\* One pool with two consumers and its reclaimer.
OnePool == [h \in {c1, c2, r1} \cap Handlers |-> p1]

\* Two pools, one consumer each; the first also reclaims.
TwoPools == [h \in {c1, c2, r1} \cap Handlers |-> IF h = c1 THEN p1 ELSE p2]

\* Stream entries are told apart by what they carry, not by their slot.
SlotSymmetry == Permutations(Slots)

=============================================================================
