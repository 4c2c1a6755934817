----------------------------- MODULE Regression -----------------------------
(***************************************************************************)
(* Scheduled regression checks: the rag_scheduled_regression task          *)
(* (ragbench/scheduled.py), the start and finish endpoints                 *)
(* (httpapi/regression.go), the comparison endpoint (httpapi/compare.go)   *)
(* and one check row (regression/store.go).  The evaluation runs behave as *)
(* RunLifecycle says, which EvalRun implements.                            *)
(***************************************************************************)
EXTENDS RunLifecycle, Comparison

CONSTANTS None,
          Rules,      \* the persisted policy the check names
          Corpora,    \* what searchable documents a run may find pinned
          Values,     \* numbers a metric may have
          Baselines,  \* [status, corpus, values] of the baseline runs considered
          Requests,   \* start requests in flight at the API
          Retries,    \* Airflow retries of the task (the DAG sets 1)
          MaxLost     \* bound: start or finish calls whose answer is lost

ASSUME RegressionAssumption ==
  /\ None \notin Runs \cup Requests /\ Retries \in Nat /\ MaxLost \in Nat
  /\ ValidPolicy(Rules)

(* A snapshot maps finitely many documents to their checksums.             *)
Snapshot(c) == c = [d \in DOMAIN c |-> c[d]] /\ IsFiniteSet(DOMAIN c)

ASSUME CorporaAssumption ==
  /\ Corpora # {}
  /\ \A c \in Corpora \cup {b.corpus : b \in Baselines} : Snapshot(c)

VARIABLES pinned,     \* corpus snapshot of each run, taken by CreateRun
          baseline,   \* the baseline run; it no longer changes
          check,      \* the row of scheduled_regression_checks
          comparisons,  \* eval_comparisons: the verdict stored for each run
          starts,     \* the start requests in flight
          task,       \* the Airflow task
          lost

regression == <<check, comparisons, starts, task, lost>>
allVars == <<vars, pinned, baseline, regression>>

NoStart == [pc |-> "idle", run |-> None, err |-> FALSE]
NoTask == [state |-> "idle", try |-> 1, pc |-> "start", request |-> None, run |-> None,
           verdict |-> "none"]

RInit ==
  /\ Init
  /\ pinned = [r \in Runs |-> CHOOSE c \in Corpora : TRUE]
  /\ baseline \in Baselines
  /\ check \in [enabled : BOOLEAN, status : {"not_run"}, run : {None}, verdict : {"none"}]
  /\ comparisons = [r \in Runs |-> "none"]
  /\ starts = [q \in Requests |-> NoStart]
  /\ task = NoTask
  /\ lost = 0
----------------------------------------------------------------------------
(* startRegressionCheck, one statement that commits after the other.       *)

SetOutcome(s, verdict) == check' = [check EXCEPT !.status = s, !.verdict = verdict]

Go(q, pc) == starts' = [starts EXCEPT ![q].pc = pc]
Answer(q, err) == starts' = [starts EXCEPT ![q] = [@ EXCEPT !.pc = "done", !.err = err]]

(* The check must be enabled and its baseline completed.                   *)
StartRefused(q) ==
  /\ starts[q].pc = "baseline"
  /\ \/ ~check.enabled /\ UNCHANGED check
     \/ /\ check.enabled /\ baseline.status # "completed"
        /\ SetOutcome("not_evaluable", "none")
  /\ Answer(q, TRUE)
  /\ UNCHANGED <<vars, pinned, baseline, comparisons, task, lost>>

CreateCandidate(q, r) ==
  /\ starts[q].pc = "baseline" /\ check.enabled /\ baseline.status = "completed"
  /\ Create(r)
  /\ \E c \in Corpora : pinned' = [pinned EXCEPT ![r] = c]
  /\ starts' = [starts EXCEPT ![q] = [NoStart EXCEPT !.pc = "mark", !.run = r]]
  /\ UNCHANGED <<baseline, check, comparisons, task, lost>>

(* CreateRun or MarkRunning fails, or the baseline cannot be read.         *)
CreateFails(q) ==
  /\ starts[q].pc \in {"baseline", "mark"} /\ check.enabled
  /\ \E s \in {"failed", "not_evaluable"} :
       /\ s = "not_evaluable" => starts[q].pc = "baseline"
       /\ SetOutcome(s, "none")
  /\ Answer(q, TRUE)
  /\ UNCHANGED <<vars, pinned, baseline, comparisons, task, lost>>

MarkCandidate(q) ==
  /\ starts[q].pc = "mark"
  /\ Start(starts[q].run)
  /\ Go(q, "dispatch")
  /\ UNCHANGED <<pinned, baseline, check, comparisons, task, lost>>

(* DispatchRun and RecordDispatch: the record changes a run only while it  *)
(* is running, and may itself fail.                                        *)
DispatchCandidate(q) ==
  /\ starts[q].pc = "dispatch"
  /\ \/ /\ Go(q, "running")
        /\ UNCHANGED vars
     \/ /\ Go(q, "refused")
        /\ IF status[starts[q].run] \in {"created", "running"}
           THEN Refuse(starts[q].run) ELSE UNCHANGED vars
     \/ Answer(q, TRUE) /\ UNCHANGED vars
  /\ UNCHANGED <<pinned, baseline, check, comparisons, task, lost>>

DispatchRefused(q) ==
  /\ starts[q].pc = "refused"
  /\ SetOutcome("failed", "none")
  /\ Answer(q, TRUE)
  /\ UNCHANGED <<vars, pinned, baseline, comparisons, task, lost>>

RunningRowKeepsRun(row, r) ==   \* mutant: last_run_id is not set
  [row EXCEPT !.status = "running", !.verdict = "none"]
RunningRow(row, r) == [row EXCEPT !.status = "running", !.run = r, !.verdict = "none"]

SetRunning(q) ==
  /\ starts[q].pc = "running"
  /\ check' = RunningRow(check, starts[q].run)
  /\ Answer(q, FALSE)
  /\ UNCHANGED <<vars, pinned, baseline, comparisons, task, lost>>

(* The API dies or a statement fails: no outcome is stored.                *)
StartDies(q) ==
  /\ starts[q].pc \in {"baseline", "mark", "dispatch", "refused", "running"}
  /\ Answer(q, TRUE)
  /\ UNCHANGED <<vars, pinned, baseline, check, comparisons, task, lost>>
----------------------------------------------------------------------------
(* run_scheduled_check: start, poll, compare, finish.                      *)

(* The schedule, or a person, triggers the DAG; one run is active at most. *)
Trigger ==
  /\ task.state = "idle"
  /\ task' = [NoTask EXCEPT !.state = "running"]
  /\ UNCHANGED <<vars, pinned, baseline, check, comparisons, starts, lost>>

Doing(pc) == task.state = "running" /\ task.pc = pc

RequestStart(q) ==
  /\ Doing("start") /\ starts[q].pc = "idle"
  /\ Go(q, "baseline")
  /\ task' = [task EXCEPT !.pc = "starting", !.request = q]
  /\ UNCHANGED <<vars, pinned, baseline, check, comparisons, lost>>

TriesLeft(try) == try <= Retries

AttemptFailed ==
  task' = IF TriesLeft(task.try)
          THEN [NoTask EXCEPT !.state = "running", !.try = task.try + 1]
          ELSE NoTask

Started(q) ==
  /\ Doing("starting") /\ task.request = q /\ starts[q].pc = "done"
  /\ IF starts[q].err THEN AttemptFailed
     ELSE task' = [task EXCEPT !.pc = "poll", !.request = None, !.run = starts[q].run]
  /\ starts' = [starts EXCEPT ![q] = NoStart]
  /\ UNCHANGED <<vars, pinned, baseline, check, comparisons, lost>>

PollEnds(s) == s \in Terminal

Poll ==
  /\ Doing("poll") /\ PollEnds(status[task.run])
  /\ task' = [task EXCEPT !.pc = "compare"]
  /\ UNCHANGED <<vars, pinned, baseline, check, comparisons, starts, lost>>

(* ToRegionAggregates over the rows that exist.                            *)
RunComplete(results) ==
  LET rows == {c \in Cases : results[c] # "none"} IN
  rows # {} /\ With(results, "completed") = rows

(* A metric has a value when some completed query was scored on it.        *)
Aggregates(results) ==
  [complete : {RunComplete(results)},
   values : [DOMAIN Rules \cup {"recall_k"} ->
              {<<>>} \cup IF With(results, "completed") \cup With(results, "evaluator_failed") = {}
                         THEN {} ELSE {<<n>> : n \in Values}]]

(* compareEvalRun, and RecordComparison within it.  The baseline was        *)
(* completed when the check started, and such a run stays complete.        *)
CompareRuns ==
  /\ Doing("compare")
  /\ \E c \in Aggregates(stored[task.run]) :
       LET v == Compare(c, [complete |-> TRUE, values |-> baseline.values], Rules,
                        SameCorpus(pinned[task.run], baseline.corpus))
           verdict == ScheduledVerdict(v)
       IN /\ comparisons' = [comparisons EXCEPT ![task.run] = verdict]
          /\ task' = [task EXCEPT !.pc = "finish", !.verdict = verdict]
  /\ UNCHANGED <<vars, pinned, baseline, check, starts, lost>>

(* finishRegressionCheck; a regression or a failure fails the attempt, and *)
(* so does an answer that is lost.                                         *)
Finish ==
  /\ Doing("finish")
  /\ SetOutcome(task.verdict, task.verdict)
  /\ \/ /\ IF task.verdict \in {"regression", "failed"} THEN AttemptFailed ELSE task' = NoTask
        /\ UNCHANGED lost
     \/ lost < MaxLost /\ lost' = lost + 1 /\ AttemptFailed
  /\ UNCHANGED <<vars, pinned, baseline, comparisons, starts>>

(* The attempt dies: its deadline passes, a request of its fails, or its   *)
(* worker is gone.  A start request may go on unheard.                     *)
AttemptDies ==
  /\ task.state = "running"
  /\ IF task.pc = "starting"
     THEN \/ starts' = [starts EXCEPT ![task.request] = NoStart] /\ UNCHANGED lost
          \/ lost < MaxLost /\ lost' = lost + 1 /\ UNCHANGED starts
     ELSE UNCHANGED <<starts, lost>>
  /\ AttemptFailed
  /\ UNCHANGED <<vars, pinned, baseline, check, comparisons>>

(* A start request nobody waits for any more ends.                         *)
StartUnheard(q) ==
  /\ starts[q].pc = "done" /\ task.request # q
  /\ starts' = [starts EXCEPT ![q] = NoStart]
  /\ UNCHANGED <<vars, pinned, baseline, check, comparisons, task, lost>>

(* The evaluation of a run the task waits for, or of one whose dispatch is *)
(* being answered.  That of a run nobody reads any more is left out.       *)
Evaluate(r) ==
  /\ \/ task.run = r
     \/ \E q \in Requests : starts[q].run = r /\ starts[q].pc \in {"refused", "running"}
  /\ Settle(r) \/ \E c \in Cases : Store(r, c)
  /\ UNCHANGED <<pinned, baseline, regression>>

StartStep(q) ==
  \/ StartRefused(q) \/ CreateFails(q) \/ \E r \in Runs : CreateCandidate(q, r)
  \/ MarkCandidate(q) \/ DispatchCandidate(q) \/ DispatchRefused(q) \/ SetRunning(q)
  \/ StartDies(q)

TaskStep ==
  \/ \E q \in Requests : RequestStart(q) \/ Started(q)
  \/ Poll \/ CompareRuns \/ Finish \/ AttemptDies

RNext == \/ Trigger \/ TaskStep
         \/ \E q \in Requests : StartStep(q) \/ StartUnheard(q)
         \/ \E r \in Runs : Evaluate(r)

RSpec == RInit /\ [][RNext]_allVars
----------------------------------------------------------------------------
(* Properties.                                                             *)

(* The outcome a check shows is that of the run it names: while no answer  *)
(* was lost, a verdict on the row is the recorded comparison of last_run,  *)
(* never that of an earlier attempt's run.                                 *)
VerdictOfLastRun ==
  lost = 0 /\ check.verdict # "none" =>
    /\ check.run # None
    /\ check.verdict = comparisons[check.run] /\ check.status = check.verdict

(* scheduled.py never invents a baseline, and a check that passed compared *)
(* like with like: the baseline completed, both runs saw the same corpus,  *)
(* and the candidate had a completed case and a terminal status.           *)
PassIsEarned ==
  check.status = "passed" =>
    /\ check.enabled /\ baseline.status = "completed"
    /\ \E r \in Runs : /\ comparisons[r] = "passed" /\ pinned[r] = baseline.corpus
                       /\ status[r] \in Terminal /\ With(stored[r], "completed") # {}

(* docs/API.md:650: incomplete runs are never a clean pass.                *)
IncompleteNeverPasses ==
  check.status = "passed" => \A c \in Cases : stored[check.run][c] = "completed"
=============================================================================
