----------------------------- MODULE MCBreaker -----------------------------
(* Instances of Breaker for TLC. *)
EXTENDS Breaker

CONSTANTS w1, w2

=============================================================================
