---------------------------- MODULE RunLifecycle ----------------------------
(***************************************************************************)
(* What an evaluation run promises its readers (the run page, the sweep,   *)
(* the regression check): a case is stored once and for good, a refused    *)
(* dispatch stays visible, and any other status is the outcome of results  *)
(* that are stored, though not always of all of them.                      *)
(***************************************************************************)
EXTENDS FiniteSets

CONSTANTS Runs, Cases

VARIABLES status,   \* eval_runs.status
          stored    \* eval_results: the status of each case's row

vars == <<status, stored>>

CaseResult == {"completed", "failed", "evaluator_failed"}
Terminal == {"completed", "partial", "failed", "dispatch_failed"}
RunStatus == {"none", "created", "running"} \cup Terminal

With(results, s) == {c \in Cases : results[c] = s}

(* finalizeStatus: one status for the results found.                       *)
OutcomeOf(results) ==
  IF With(results, "completed") \cup With(results, "evaluator_failed") = {}
  THEN "failed"
  ELSE IF With(results, "completed") = Cases THEN "completed" ELSE "partial"

Seen(results, part) == [c \in Cases |-> IF c \in part THEN results[c] ELSE "none"]

Init ==
  /\ status = [r \in Runs |-> "none"]
  /\ stored = [r \in Runs |-> [c \in Cases |-> "none"]]

Create(r) ==
  /\ status[r] = "none"
  /\ status' = [status EXCEPT ![r] = "created"]
  /\ UNCHANGED stored

Start(r) ==
  /\ status[r] = "created"
  /\ status' = [status EXCEPT ![r] = "running"]
  /\ UNCHANGED stored

Refuse(r) ==
  /\ status[r] \in {"created", "running"}
  /\ status' = [status EXCEPT ![r] = "dispatch_failed"]
  /\ UNCHANGED stored

Store(r, c) ==
  /\ stored[r][c] = "none"
  /\ \E s \in CaseResult : stored' = [stored EXCEPT ![r][c] = s]
  /\ UNCHANGED status

Settle(r) ==
  /\ status[r] \notin {"none", "dispatch_failed"}
  /\ \E part \in SUBSET Cases :
       status' = [status EXCEPT ![r] = OutcomeOf(Seen(stored[r], part))]
  /\ UNCHANGED stored

Next ==
  \E r \in Runs :
    \/ Create(r) \/ Start(r) \/ Refuse(r) \/ Settle(r)
    \/ \E c \in Cases : Store(r, c)

Spec == Init /\ [][Next]_vars
=============================================================================
