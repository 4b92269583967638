--------------------------- MODULE MCSettleBudget ---------------------------
(* Instances of the settlement budget for TLC: callers are interchangeable. *)
EXTENDS SettleBudget, TLC

CallersSymmetry == Permutations(Callers)
=============================================================================
