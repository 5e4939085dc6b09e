-------------------------- MODULE MCStableExecution --------------------------
(***************************************************************************)
(* StableExecution with a few keys and processes.                          *)
(***************************************************************************)
EXTENDS StableExecution, TLC

Symmetry == Permutations(Keys) \cup Permutations(Runners) \cup Permutations(Orders)

=============================================================================
