---------------------------- MODULE MCRegression ----------------------------
(* Scheduled regression checks for TLC: one quality rule and one cost rule *)
(* with the quality-gain exception, over corpora of one and two documents. *)
EXTENDS Regression, TLC

CONSTANTS r1, r2, c1, c2, q1

MCRules == [m \in {"recall_k", "cost_total"} |->
  IF m = "recall_k" THEN [direction |-> "higher", delta |-> "absolute", threshold |-> 0]
  ELSE [direction |-> "lower", delta |-> "relative", threshold |-> 50]]

MCCorpora == {[d \in {1} |-> 10], [d \in {1, 2} |-> 10 * d]}
One == [m \in {"recall_k", "cost_total"} |-> <<1>>]
MCBaselines == {[status |-> s, corpus |-> [d \in {1, 2} |-> 10 * d], values |-> One] :
                  s \in {"completed", "partial"}}

Symmetry == Permutations({r1, r2}) \cup Permutations({c1, c2})
=============================================================================
