------------------------------- MODULE Folding -------------------------------
(***************************************************************************)
(* Cross-fitting (internal/reward, and internal/calib for its folds): the  *)
(* examples are dealt into folds, and what is said of one comes from a     *)
(* model of the other folds.  A model is the set of examples it has seen;  *)
(* its weights are left out.                                               *)
(***************************************************************************)
EXTENDS Integers, Sequences, FiniteSets, TLC

CONSTANT Folds

ASSUME FoldingAssumption == Folds \in Nat /\ Folds >= 2

\* The shuffle of a seed: any.
Assignments(n) == {[k \in 1..n |-> (p[k] - 1) % Folds] : p \in Permutations(1..n)}

\* Fewer examples than folds, or one label only.
Trainable(obs) == Len(obs) >= Folds /\ \E j, k \in DOMAIN obs : obs[j].correct # obs[k].correct

\* The model of each fold: the examples it has seen.
Fitted(obs, assign) == [f \in 0..(Folds - 1) |-> {k \in DOMAIN obs : assign[k] # f}]

\* PredictFor: by the index and not by the features.
ModelFor(models, assign, k) == models[assign[k]]

=============================================================================
