-------------------------- MODULE MCNavigateServer --------------------------
(* NavigateServer with a handful of interchangeable goals. *)
EXTENDS NavigateServer, TLC

GoalSymmetry == Permutations(Goal)
=============================================================================
