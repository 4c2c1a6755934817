---------------------------- MODULE MCIngestion -----------------------------
(* Ingestion on small sets, with the interchangeable ones as symmetry sets. *)
EXTENDS Ingestion, TLC

Symmetry == Permutations(Revs) \cup Permutations(Workers) \cup Permutations(Handlers)
=============================================================================
