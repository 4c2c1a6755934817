----------------------------- MODULE MCEvalRun -----------------------------
(* Evaluation runs for TLC: one run of two cases.                          *)
EXTENDS EvalRun, TLC

CONSTANTS r1, c1, c2, q1, k1, k2

Symmetry == Permutations({c1, c2}) \cup Permutations({k1, k2})
=============================================================================
