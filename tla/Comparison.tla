----------------------------- MODULE Comparison -----------------------------
(***************************************************************************)
(* Comparing a candidate run with a baseline (comparison/policy.go and     *)
(* compare.go) and the outcome a scheduled check draws from it             *)
(* (httpapi/regression.go).  A value is a sequence of at most one number,  *)
(* <<>> standing for nil; a threshold is absolute or a percentage.         *)
(***************************************************************************)
EXTENDS Integers, Sequences, FiniteSets

MetricOrder == <<"recall_k", "mrr", "ndcg_k", "latency_p95", "cost_total">>

(* ValidatePolicy: rules is a function from metrics to rules.              *)
ValidPolicy(rules) ==
  /\ DOMAIN rules # {}
  /\ \A m \in DOMAIN rules : /\ rules[m].direction \in {"higher", "lower"}
                             /\ rules[m].delta \in {"absolute", "relative"}
                             /\ rules[m].threshold >= 0

(* sameCorpus: documents to checksums; equal sizes, then one inclusion.    *)
CorpusIncluded(a, b) == \A d \in DOMAIN a : d \in DOMAIN b /\ a[d] = b[d]   \* mutant
SameCorpus(a, b) ==
  /\ Cardinality(DOMAIN a) = Cardinality(DOMAIN b)
  /\ \A d \in DOMAIN a : d \in DOMAIN b /\ a[d] = b[d]

(* CompareIdentity.                                                        *)
Compatible(a, b) ==
  /\ a.dataset = b.dataset /\ a.version = b.version
  /\ SameCorpus(a.corpus, b.corpus)
  /\ a.policy = b.policy

Degradation(rule, c, b) == IF rule.direction = "higher" THEN b - c ELSE c - b

(* Strictly greater than the threshold.  The caller has excluded a         *)
(* relative rule with a zero baseline.                                     *)
Regressed(rule, c, b) ==
  IF rule.delta = "absolute"
  THEN Degradation(rule, c, b) > rule.threshold
  ELSE 100 * Degradation(rule, c, b) > rule.threshold * (IF b < 0 THEN -b ELSE b)

EvaluateRule(rule, c, b, complete, gain) ==
  CASE c = <<>> \/ b = <<>> -> "not_evaluable"
    [] ~complete -> "not_evaluable"
    [] rule.delta = "relative" /\ b[1] = 0 -> "not_evaluable"
    [] Regressed(rule, c[1], b[1]) ->
         IF gain /\ rule.direction = "lower" THEN "gain_exception" ELSE "regression"
    [] OTHER -> "passed"

QualityGain(c, b) ==
  c["recall_k"] # <<>> /\ b["recall_k"] # <<>> /\ c["recall_k"][1] > b["recall_k"][1]

(* Compare: aggregates are [complete, values : metric -> value].  The       *)
(* outcomes of the rules keep their metric's place in orderedMetrics.      *)
Compare(c, b, rules, comparable) ==
  IF ~comparable
  THEN [comparable |-> FALSE, complete |-> FALSE, rules |-> <<>>]
  ELSE LET complete == c.complete /\ b.complete
           ordered == {i \in DOMAIN MetricOrder : MetricOrder[i] \in DOMAIN rules}
           Outcome(m) == EvaluateRule(rules[m], c.values[m], b.values[m], complete,
                                      QualityGain(c.values, b.values))
       IN [comparable |-> TRUE, complete |-> complete,
           rules |-> [i \in ordered |-> Outcome(MetricOrder[i])]]

(* scheduledVerdict: the first rule that is not a pass decides.            *)
ScheduledVerdict(v) ==
  LET Stops(i) == v.rules[i] \in {"regression", "not_evaluable"}
      stops == {i \in DOMAIN v.rules : Stops(i)}
  IN CASE ~v.comparable -> "not_evaluable"
       [] DOMAIN v.rules = {} -> "not_evaluable"
       [] stops # {} -> v.rules[CHOOSE i \in stops : \A j \in stops : i <= j]
       [] ~v.complete -> "not_evaluable"
       [] OTHER -> "passed"
=============================================================================
