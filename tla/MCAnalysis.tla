---------------------------- MODULE MCAnalysis ------------------------------
(* Analysis on small sets, with the interchangeable ones as symmetry sets. *)
EXTENDS Analysis, TLC

Symmetry == Permutations(Analyses) \cup Permutations(Requests) \cup Permutations(Calls)
=============================================================================
