---------------------------- MODULE MCExperiment ----------------------------
(* Sweeps for TLC: a matrix of two cells, of which the first needs another *)
(* chunking than the library has and the second does not, one of a single  *)
(* cell, and two that Create refuses.                                      *)
EXTENDS SweepDag

CONSTANTS d1, d2, k1, k2

MCBase == [dim \in ToSet(Dimensions) |-> 2]
MCEmpty == [dim \in ToSet(Dimensions) |-> <<>>]
MCRequests ==
  {[matrix |-> [MCEmpty EXCEPT !["chunk_size"] = <<2, 1, 2>>], combination_limit |-> 3],
   [matrix |-> [MCEmpty EXCEPT !["chunk_size"] = <<1>>,
                               !["retrieval_mode"] = <<Blank>>], combination_limit |-> 1],
   [matrix |-> [MCEmpty EXCEPT !["top_k"] = <<3, 1, 2>>], combination_limit |-> 2],
   [matrix |-> MCEmpty, combination_limit |-> 8]}
=============================================================================
