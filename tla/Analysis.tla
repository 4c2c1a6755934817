------------------------------ MODULE Analysis ------------------------------
(***************************************************************************)
(* Document intelligence: the API that creates and dispatches analyses     *)
(* (httpapi/analyses.go), the Airflow run that works through five stages   *)
(* (document_intelligence.py, ragbench/intelligence.py), and the Go stage  *)
(* calls that do the work (documentintelligence/runner.go, store.go).      *)
(*                                                                         *)
(* A stage call is three transactions with provider work between them, all *)
(* fenced by the analysis row: claimStage, then CompleteStage or FailStage *)
(* (both, when the first one errs).  The Airflow attempt that made the     *)
(* call waits for its answer and on any error calls mark_failed on the     *)
(* same row; so does the failure callback of the last attempt.  Each of    *)
(* these locks the row first and is one action.                            *)
(*                                                                         *)
(* Analyses share nothing but their document, so one document is modelled; *)
(* stage 0 is "dispatch", and an output is the number of the answer it is. *)
(***************************************************************************)
EXTENDS Naturals, FiniteSets

CONSTANTS Analyses,
          Requests,   \* API requests in flight
          Calls,      \* stage calls in flight at the API
          None,
          Retries,    \* Airflow retries of extract_text (the DAG sets 1)
          MaxLost,    \* bound: calls whose caller never learns what they
                      \* did, and callbacks that die
          MaxClears   \* bound: failed runs an operator clears

ASSUME ConstantsAssumption ==
  /\ Retries \in Nat /\ MaxLost \in Nat /\ MaxClears \in Nat
  /\ None \notin Analyses \cup Calls

VARIABLES deleted,    \* the document has a tombstone
          rows,       \* document_analyses
          requests,   \* API requests: create and retry-dispatch
          posted,     \* dagRun requests Airflow has not processed
          runs,       \* Airflow: one DAG run per analysis
          callbacks,  \* on_failure_callback processes: the stage, or 0
          calls,      \* stage calls
          answers,    \* number of answers computed so far (names them)
          lost, cleared

vars == <<deleted, rows, requests, posted, runs, callbacks, calls, answers,
          lost, cleared>>
bounds == <<answers, lost, cleared>>
----------------------------------------------------------------------------
(* Statuses and the initial state.                                         *)

Summarize == 5
Stages == 1..Summarize

Status == {"none", "queued", "processing", "completed", "partial", "failed",
           "cancelled"}
JobState == {"none", "dispatch_pending", "dispatch_failed", "queued",
             "processing", "succeeded", "failed", "cancelled"}
Metric == {"none", "succeeded", "failed"}
AwaitingDispatch == {"dispatch_pending", "dispatch_failed"}
FinishedJob == {"succeeded", "cancelled", "failed"}

NoAnalysis == [job |-> "none", status |-> "none", stage |-> 0,
               metrics |-> [s \in Stages |-> "none"],
               out |-> [s \in Stages |-> 0],    \* the persisted answers
               from |-> [s \in Stages |-> 0]]   \* what each was computed from
IdleRequest == [pc |-> "idle", a |-> None, err |-> FALSE]
NoRun == [state |-> "none", stage |-> 1, try |-> 1, task |-> "waiting",
          call |-> None]
IdleCall == [pc |-> "idle", a |-> None, stage |-> 1, input |-> 0, product |-> 0]

Init ==
  /\ deleted = FALSE
  /\ rows = [a \in Analyses |-> NoAnalysis]
  /\ requests = [q \in Requests |-> IdleRequest]
  /\ posted = {}
  /\ runs = [a \in Analyses |-> NoRun]
  /\ callbacks = [a \in Analyses |-> 0]
  /\ calls = [c \in Calls |-> IdleCall]
  /\ answers = 0 /\ lost = 0 /\ cleared = 0
----------------------------------------------------------------------------
(* The API: creating and dispatching analyses, deleting the document.      *)

(* Store.Create.  Nothing limits a document to one active analysis.        *)
CreateAnalysis(q, a) ==
  /\ requests[q].pc = "idle"
  /\ ~deleted /\ rows[a].job = "none"
  /\ rows' = [rows EXCEPT ![a] = [@ EXCEPT !.job = "dispatch_pending",
                                           !.status = "queued"]]
  /\ requests' = [requests EXCEPT ![q] = [IdleRequest EXCEPT !.pc = "post",
                                                             !.a = a]]
  /\ UNCHANGED <<deleted, posted, runs, callbacks, calls, bounds>>

(* retryAnalysisDispatch: judged on the row as read, then dispatched.      *)
RetryDispatch(q, a) ==
  /\ requests[q].pc = "idle"
  /\ rows[a].job \in AwaitingDispatch
  /\ requests' = [requests EXCEPT ![q] = [IdleRequest EXCEPT !.pc = "post",
                                                             !.a = a]]
  /\ UNCHANGED <<deleted, rows, posted, runs, callbacks, calls, bounds>>

PostRun(q) ==
  /\ requests[q].pc = "post"
  /\ posted' = posted \cup {requests[q].a}
  /\ requests' = [requests EXCEPT ![q].pc = "await"]
  /\ UNCHANGED <<deleted, rows, runs, callbacks, calls, bounds>>

DispatchAccepted(q) ==
  /\ requests[q].pc = "await" /\ runs[requests[q].a].state # "none"
  /\ requests' = [requests EXCEPT ![q].pc = "record"]
  /\ UNCHANGED <<deleted, rows, posted, runs, callbacks, calls, bounds>>

(* An HTTP error or a timeout; the request may still be processed.         *)
DispatchErrored(q) ==
  /\ requests[q].pc = "await"
  /\ requests' = [requests EXCEPT ![q] = [@ EXCEPT !.pc = "record", !.err = TRUE]]
  /\ UNCHANGED <<deleted, rows, posted, runs, callbacks, calls, bounds>>

(* RecordDispatch: a late result cannot resurrect a cancelled or already   *)
(* running job.                                                            *)
DispatchSkipsSettled(a) ==   \* mutant: the UPDATE loses its WHERE clause
  rows[a].job \notin {"cancelled", "succeeded", "processing", "queued"}
DispatchChanges(a) == rows[a].job \in AwaitingDispatch

RecordDispatch(q) ==
  LET a == requests[q].a
      err == requests[q].err
  IN
  /\ requests[q].pc = "record"
  /\ requests' = [requests EXCEPT ![q] = IdleRequest]
  /\ rows' = IF ~DispatchChanges(a) THEN rows
             ELSE IF err
             THEN [rows EXCEPT ![a] = [@ EXCEPT !.job = "dispatch_failed",
                                                !.status = "failed", !.stage = 0]]
             ELSE [rows EXCEPT ![a] = [@ EXCEPT !.job = "queued",
                                                !.status = "queued"]]
  /\ UNCHANGED <<deleted, posted, runs, callbacks, calls, bounds>>

(* The API dies, or a database error ends the request.                     *)
AbandonRequest(q) ==
  /\ requests[q].pc # "idle"
  /\ requests' = [requests EXCEPT ![q] = IdleRequest]
  /\ UNCHANGED <<deleted, rows, posted, runs, callbacks, calls, bounds>>

(* documents Store.Delete: unfinished analyses are cancelled with it.      *)
DeleteSparesAnalyses(a) == FALSE   \* mutant
CancelledByDelete(a) == rows[a].job \notin FinishedJob \cup {"none"}

DeleteDocument ==
  /\ deleted' = TRUE
  /\ rows' = [a \in Analyses |->
                IF CancelledByDelete(a)
                THEN [rows[a] EXCEPT !.job = "cancelled", !.status = "cancelled"]
                ELSE rows[a]]
  /\ UNCHANGED <<requests, posted, runs, callbacks, calls, bounds>>
----------------------------------------------------------------------------
(* mark_failed: the failure of a stage as Airflow records it.              *)

(* The status of a failed analysis: partial when only its summary failed.  *)
FailureIsPartialLater(row, s) ==   \* mutant: structured data alone decides
  IF row.out[3] # 0 THEN "partial" ELSE "failed"
FailureStatus(row, s) ==
  IF s = Summarize /\ row.out[3] # 0 THEN "partial" ELSE "failed"

FailedAt(row, s) ==
  [row EXCEPT !.job = "failed", !.status = FailureStatus(row, s), !.stage = s,
              !.metrics[s] = "failed"]

MarkRefusedWhileProcessing(a, s) ==   \* mutant: left to the stage call
  \/ rows[a].job \in {"cancelled", "succeeded", "processing"}
  \/ rows[a].metrics[s] = "succeeded"
  \/ rows[a].job = "failed" /\ rows[a].metrics[s] = "failed"
MarkRefused(a, s) ==
  \/ rows[a].job \in {"cancelled", "succeeded"}
  \/ rows[a].metrics[s] = "succeeded"
  \/ rows[a].job = "failed" /\ rows[a].metrics[s] = "failed"

MarkFailed(a, s) ==
  rows' = IF MarkRefused(a, s) THEN rows
          ELSE [rows EXCEPT ![a] = FailedAt(@, s)]
----------------------------------------------------------------------------
(* Airflow: five tasks in order, extract_text alone with a retry.          *)

CreateDagRun(a) ==
  /\ a \in posted
  /\ posted' = posted \ {a}
  /\ runs' = IF runs[a].state = "none"
             THEN [runs EXCEPT ![a].state = "running"] ELSE runs
  /\ UNCHANGED <<deleted, rows, requests, callbacks, calls, bounds>>

Running(a, task) == runs[a].state = "running" /\ runs[a].task = task

(* run_stage reads the analysis, extracts the evidence when it is the      *)
(* stage's turn, and posts the stage call; or an error is on its way to    *)
(* mark_failed (no row, unreadable source, API unreachable).               *)
CallStage(a, c) ==
  /\ Running(a, "waiting") /\ calls[c].pc = "idle"
  /\ calls' = [calls EXCEPT ![c] = [IdleCall EXCEPT !.pc = "claim", !.a = a,
                                                    !.stage = runs[a].stage]]
  /\ runs' = [runs EXCEPT ![a] = [@ EXCEPT !.task = "calling", !.call = c]]
  /\ UNCHANGED <<deleted, rows, requests, posted, callbacks, bounds>>

PrepareFails(a) ==
  /\ Running(a, "waiting")
  /\ runs' = [runs EXCEPT ![a].task = "marking"]
  /\ UNCHANGED <<deleted, rows, requests, posted, callbacks, calls, bounds>>

TriesLeft(a) == runs[a].stage = 1 /\ runs[a].try <= Retries

AttemptFailed(a) ==
  IF TriesLeft(a)
  THEN /\ runs' = [runs EXCEPT ![a] = [@ EXCEPT !.try = runs[a].try + 1,
                                        !.task = "waiting", !.call = None]]
       /\ UNCHANGED callbacks
  ELSE /\ runs' = [runs EXCEPT ![a] = [@ EXCEPT !.state = "failed",
                                        !.task = "waiting", !.call = None]]
       /\ callbacks' = [callbacks EXCEPT ![a] = runs[a].stage]

(* The answer to a stage call: 200, or an error that is marked.            *)
AnswerOK(a) ==
  LET c == runs[a].call IN
  /\ Running(a, "calling") /\ calls[c].pc = "ok"
  /\ calls' = [calls EXCEPT ![c] = IdleCall]
  /\ runs' = [runs EXCEPT ![a] =
       IF runs[a].stage = Summarize
       THEN [@ EXCEPT !.state = "success", !.task = "waiting", !.call = None]
       ELSE [@ EXCEPT !.stage = runs[a].stage + 1, !.try = 1,
                      !.task = "waiting", !.call = None]]
  /\ UNCHANGED <<deleted, rows, requests, posted, callbacks, bounds>>

AnswerError(a) ==
  LET c == runs[a].call IN
  /\ Running(a, "calling") /\ calls[c].pc = "error"
  /\ calls' = [calls EXCEPT ![c] = IdleCall]
  /\ runs' = [runs EXCEPT ![a] = [@ EXCEPT !.task = "marking", !.call = None]]
  /\ UNCHANGED <<deleted, rows, requests, posted, callbacks, bounds>>

(* A call nobody waits for any more ends.                                  *)
AnswerUnheard(c) ==
  /\ calls[c].pc \in {"ok", "error"} /\ runs[calls[c].a].call # c
  /\ calls' = [calls EXCEPT ![c] = IdleCall]
  /\ UNCHANGED <<deleted, rows, requests, posted, runs, callbacks, bounds>>

(* run_stage's except clause, and the exception that ends the attempt.     *)
MarkAndRaise(a) ==
  /\ Running(a, "marking")
  /\ MarkFailed(a, runs[a].stage)
  /\ AttemptFailed(a)
  /\ UNCHANGED <<deleted, requests, posted, calls, bounds>>

(* The call ends without an answer: with it its work, unless (at most      *)
(* MaxLost times) it goes on unheard or had already succeeded.             *)
CallGone(c) ==
  \/ /\ calls[c].pc # "ok"
     /\ calls' = [calls EXCEPT ![c] = IdleCall]
     /\ UNCHANGED lost
  \/ /\ lost < MaxLost /\ lost' = lost + 1
     /\ UNCHANGED calls

(* The API dies or the connection breaks: api_unavailable is marked.       *)
AnswerLost(a) ==
  /\ Running(a, "calling")
  /\ CallGone(runs[a].call)
  /\ runs' = [runs EXCEPT ![a] = [@ EXCEPT !.task = "marking", !.call = None]]
  /\ UNCHANGED <<deleted, rows, requests, posted, callbacks, answers, cleared>>

(* The attempt's process is gone (killed, timed out, or mark_failed itself *)
(* raised); closing its connection cancels the call it made.               *)
AttemptDies(a) ==
  /\ runs[a].state = "running"
  /\ IF runs[a].task = "calling" THEN CallGone(runs[a].call)
                                 ELSE UNCHANGED <<calls, lost>>
  /\ AttemptFailed(a)
  /\ UNCHANGED <<deleted, rows, requests, posted, answers, cleared>>

(* task_failure.                                                           *)
TaskFailure(a) ==
  /\ callbacks[a] # 0
  /\ MarkFailed(a, callbacks[a])
  /\ callbacks' = [callbacks EXCEPT ![a] = 0]
  /\ UNCHANGED <<deleted, requests, posted, runs, calls, bounds>>

CallbackDies(a) ==
  /\ callbacks[a] # 0
  /\ lost < MaxLost /\ lost' = lost + 1
  /\ callbacks' = [callbacks EXCEPT ![a] = 0]
  /\ UNCHANGED <<deleted, rows, requests, posted, runs, calls, answers, cleared>>

(* An operator clears the failed task.                                     *)
ClearTask(a) ==
  /\ runs[a].state = "failed" /\ callbacks[a] = 0 /\ cleared < MaxClears
  /\ cleared' = cleared + 1
  /\ runs' = [runs EXCEPT ![a] = [@ EXCEPT !.state = "running", !.try = 1]]
  /\ UNCHANGED <<deleted, rows, requests, posted, callbacks, calls, answers, lost>>
----------------------------------------------------------------------------
(* Runner.RunStage: claim, work, persist.                                  *)

Reply(c, pc) == calls' = [calls EXCEPT ![c].pc = pc]

AlreadyDone(row, s) == row.job = "cancelled" \/ row.metrics[s] = "succeeded"
Claimable(row, s) ==
  /\ s = row.stage + 1 \/ (s = row.stage /\ row.metrics[s] = "failed")
  /\ row.job # "succeeded"

(* claimStage, with the analysis, document and revision rows locked.       *)
ClaimRefused(c) ==
  LET row == rows[calls[c].a]
      s == calls[c].stage
  IN
  /\ calls[c].pc = "claim"
  /\ deleted \/ (~AlreadyDone(row, s) /\ ~Claimable(row, s))
  /\ Reply(c, "error")
  /\ UNCHANGED <<deleted, rows, requests, posted, runs, callbacks, bounds>>

ClaimDone(c) ==
  /\ calls[c].pc = "claim"
  /\ ~deleted /\ AlreadyDone(rows[calls[c].a], calls[c].stage)
  /\ Reply(c, "ok")
  /\ UNCHANGED <<deleted, rows, requests, posted, runs, callbacks, bounds>>

InputOf(row, s) == IF s = 1 THEN 0 ELSE row.out[s - 1]

Claim(c) ==
  LET a == calls[c].a
      s == calls[c].stage
  IN
  /\ calls[c].pc = "claim"
  /\ ~deleted /\ ~AlreadyDone(rows[a], s) /\ Claimable(rows[a], s)
  /\ rows' = [rows EXCEPT ![a] = [@ EXCEPT !.job = "processing",
                                   !.status = "processing", !.stage = s]]
  /\ calls' = [calls EXCEPT ![c] = [@ EXCEPT !.pc = "work",
                                     !.input = InputOf(rows[a], s)]]
  /\ UNCHANGED <<deleted, requests, posted, runs, callbacks, bounds>>

(* The stage's tool, outside every lock: an answer, or a failure, which a  *)
(* missing input forces.  A rejected model output is kept for diagnosis.   *)
Answer(c, pc) ==
  /\ answers' = answers + 1
  /\ calls' = [calls EXCEPT ![c] = [@ EXCEPT !.pc = pc, !.product = answers + 1]]
  /\ UNCHANGED <<deleted, rows, requests, posted, runs, callbacks, lost, cleared>>

Work(c) ==
  /\ calls[c].pc = "work"
  /\ calls[c].stage > 1 => calls[c].input # 0
  /\ Answer(c, "save")

WorkRejected(c) ==
  /\ calls[c].pc = "work" /\ calls[c].stage = 2 /\ calls[c].input # 0
  /\ Answer(c, "fail")

WorkFails(c) ==
  /\ calls[c].pc = "work"
  /\ Reply(c, "fail")
  /\ UNCHANGED <<deleted, rows, requests, posted, runs, callbacks, bounds>>

(* The outputs both CompleteStage and FailStage persist.                   *)
WithOutput(row, call) ==
  IF call.product = 0 THEN row
  ELSE [row EXCEPT !.out[call.stage] = call.product,
                   !.from[call.stage] = call.input]

CompletedAt(row, s) ==
  [row EXCEPT !.metrics[s] = "succeeded",
              !.job = IF s = Summarize THEN "succeeded" ELSE "processing",
              !.status = IF s = Summarize THEN "completed" ELSE "processing"]

(* CompleteStage: refused when the row has moved to another stage.         *)
CompletesAnyStage(c) == rows[calls[c].a].job # "cancelled"   \* mutant
CompletesCancelled(c) == rows[calls[c].a].stage = calls[c].stage   \* mutant
Completes(c) ==
  rows[calls[c].a].job # "cancelled" /\ rows[calls[c].a].stage = calls[c].stage

SaveCompleted(c) ==
  rows' = [rows EXCEPT ![calls[c].a] =
             CompletedAt(WithOutput(@, calls[c]), calls[c].stage)]

CompleteStage(c) ==
  /\ calls[c].pc = "save" /\ Completes(c)
  /\ SaveCompleted(c)
  /\ Reply(c, "ok")
  /\ UNCHANGED <<deleted, requests, posted, runs, callbacks, bounds>>

(* ... the commit succeeds but its acknowledgement is lost.                *)
CompleteUnacknowledged(c) ==
  /\ calls[c].pc = "save" /\ Completes(c)
  /\ lost < MaxLost /\ lost' = lost + 1
  /\ SaveCompleted(c)
  /\ Reply(c, "fail")
  /\ UNCHANGED <<deleted, requests, posted, runs, callbacks, answers, cleared>>

(* ... nothing is written: the analysis was cancelled, which is no error,  *)
(* or the stage is not current or the database failed, which is one.       *)
CompleteNothing(c) ==
  /\ calls[c].pc = "save"
  /\ IF rows[calls[c].a].job = "cancelled" THEN Reply(c, "ok") \/ Reply(c, "fail")
                                           ELSE Reply(c, "fail")
  /\ UNCHANGED <<deleted, rows, requests, posted, runs, callbacks, bounds>>

(* FailStage: refused like CompleteStage, and after a durable success.     *)
FailsOverSuccess(c) ==   \* mutant
  rows[calls[c].a].job # "cancelled" /\ rows[calls[c].a].stage = calls[c].stage
Fails(c) ==
  /\ rows[calls[c].a].job # "cancelled" /\ rows[calls[c].a].stage = calls[c].stage
  /\ rows[calls[c].a].metrics[calls[c].stage] # "succeeded"

FailStage(c) ==
  /\ calls[c].pc = "fail" /\ Fails(c)
  /\ rows' = [rows EXCEPT ![calls[c].a] =
                WithOutput(FailedAt(@, calls[c].stage), calls[c])]
  /\ Reply(c, "error")
  /\ UNCHANGED <<deleted, requests, posted, runs, callbacks, bounds>>

FailNothing(c) ==
  /\ calls[c].pc = "fail"
  /\ Reply(c, "error")
  /\ UNCHANGED <<deleted, rows, requests, posted, runs, callbacks, bounds>>
----------------------------------------------------------------------------
ApiRequest(q) ==
  \/ \E a \in Analyses : CreateAnalysis(q, a) \/ RetryDispatch(q, a)
  \/ PostRun(q) \/ DispatchAccepted(q) \/ DispatchErrored(q)
  \/ RecordDispatch(q) \/ AbandonRequest(q)

StartTask(a) == PrepareFails(a) \/ \E c \in Calls : CallStage(a, c)

RunStage(c) ==
  \/ ClaimRefused(c) \/ ClaimDone(c) \/ Claim(c)
  \/ Work(c) \/ WorkRejected(c) \/ WorkFails(c)
  \/ CompleteStage(c) \/ CompleteUnacknowledged(c) \/ CompleteNothing(c)
  \/ FailStage(c) \/ FailNothing(c)

AirflowRun(a) ==
  \/ StartTask(a) \/ AnswerOK(a) \/ AnswerError(a) \/ MarkAndRaise(a)
  \/ AnswerLost(a) \/ AttemptDies(a)

Next ==
  \/ \E q \in Requests : ApiRequest(q)
  \/ DeleteDocument
  \/ \E a \in Analyses : \/ CreateDagRun(a) \/ AirflowRun(a) \/ TaskFailure(a)
                         \/ CallbackDies(a) \/ ClearTask(a)
  \/ \E c \in Calls : RunStage(c) \/ AnswerUnheard(c)

Spec == Init /\ [][Next]_vars

(* Tasks are scheduled, answers arrive or their loss is noticed, callbacks *)
(* run, and the API works on its calls, whose tools have timeouts.         *)
FairSpec ==
  /\ Spec
  /\ \A a \in Analyses : WF_vars(AirflowRun(a)) /\ WF_vars(TaskFailure(a))
  /\ \A c \in Calls : WF_vars(RunStage(c)) /\ WF_vars(AnswerUnheard(c))
----------------------------------------------------------------------------
(* Type correctness.                                                       *)

RowType == [job : JobState, status : Status, stage : 0..Summarize,
            metrics : [Stages -> Metric], out : [Stages -> Nat],
            from : [Stages -> Nat]]
RequestType == [pc : {"idle", "post", "await", "record"},
                a : Analyses \cup {None}, err : BOOLEAN]
RunType == [state : {"none", "running", "success", "failed"}, stage : Stages,
            try : 1..Retries + 1, task : {"waiting", "calling", "marking"},
            call : Calls \cup {None}]
CallType == [pc : {"idle", "claim", "work", "save", "fail", "ok", "error"},
             a : Analyses \cup {None}, stage : Stages, input : Nat, product : Nat]

(* The row, the requests, the run and the calls hold values of their types. *)
TypeOK ==
  /\ deleted \in BOOLEAN
  /\ rows \in [Analyses -> RowType]
  /\ requests \in [Requests -> RequestType]
  /\ posted \subseteq Analyses
  /\ runs \in [Analyses -> RunType]
  /\ callbacks \in [Analyses -> 0..Summarize]
  /\ calls \in [Calls -> CallType]
  /\ answers \in Nat
  /\ lost \in 0..MaxLost
  /\ cleared \in 0..MaxClears
----------------------------------------------------------------------------
(* Safety.                                                                 *)

(* The columns of a row tell one story: the status that of the job, every  *)
(* stage below the current one succeeded and none above it ran, and a      *)
(* failed job failed at the current stage, so that exactly that stage can  *)
(* be claimed again.                                                       *)
StatusesOf(row) ==
  CASE row.job = "none"                          -> {"none"}
    [] row.job \in {"dispatch_pending", "queued"} -> {"queued"}
    [] row.job = "dispatch_failed"               -> {"failed"}
    [] row.job = "processing"                    -> {"processing"}
    [] row.job = "succeeded"                     -> {"completed"}
    [] row.job = "failed"                        -> {"failed", "partial"}
    [] row.job = "cancelled"                     -> {"cancelled"}

ColumnsAgree ==
  \A a \in Analyses :
    /\ rows[a].status \in StatusesOf(rows[a])
    /\ \A s \in Stages : /\ s < rows[a].stage => rows[a].metrics[s] = "succeeded"
                         /\ s > rows[a].stage => rows[a].metrics[s] = "none"
    /\ rows[a].job = "failed" => /\ rows[a].stage # 0
                                 /\ rows[a].metrics[rows[a].stage] = "failed"
    /\ rows[a].job = "succeeded" => /\ rows[a].stage = Summarize
                                    /\ rows[a].metrics[Summarize] = "succeeded"

(* A completed analysis has all five outputs; a partial one lacks only its *)
(* summary, and has the validated data the reviewer is told remain.        *)
ReportComplete ==
  \A a \in Analyses :
    /\ rows[a].status = "completed" => \A s \in Stages : rows[a].out[s] # 0
    /\ rows[a].status = "partial" => \A s \in Stages \ {Summarize} : rows[a].out[s] # 0

RowsWhole == ColumnsAgree /\ ReportComplete

(* Each persisted output was computed from the output now persisted before *)
(* it: no late, repeated or retried call leaves a report that mixes two    *)
(* answers of a stage.                                                     *)
OutputsChain ==
  \A a \in Analyses, s \in Stages \ {1} :
    rows[a].out[s] # 0 => rows[a].from[s] = rows[a].out[s - 1]

(* runner.go: a classified terminal failure, so that the analysis is not   *)
(* stranded in processing: once its run failed and nothing of it is still  *)
(* executing, the job has ended.  A lost answer to a stage that succeeded  *)
(* or a callback that dies is the exception: nothing then ends the row.    *)
Quiet(a) == callbacks[a] = 0 /\ \A c \in Calls : calls[c].a # a
NotStrandedUnlessLost ==
  lost = 0 => \A a \in Analyses :
    runs[a].state = "failed" /\ Quiet(a) => rows[a].job \in FinishedJob

(* documents/store.go: a late response cannot publish a result for a       *)
(* deleted document.  It holds of calls whose caller hears the answer; one *)
(* that goes on after its caller gave up is not stopped by a failed job.   *)
DeletedFencedUnlessLost ==
  [][deleted /\ lost' = 0 => \A a \in Analyses : rows'[a].out = rows[a].out]_vars

(* store.go: a durable success is never turned into a failure, whichever   *)
(* of FailStage, mark_failed, a repeated claim or a dispatch record comes  *)
(* late.                                                                   *)
SuccessKept ==
  [][\A a \in Analyses, s \in Stages :
       rows[a].metrics[s] = "succeeded" => rows'[a].metrics[s] = "succeeded"]_vars

(* A succeeded job stays so, and a cancelled analysis never changes again. *)
EndKept ==
  [][\A a \in Analyses :
       /\ rows[a].job = "succeeded" => rows'[a].job = "succeeded"
       /\ rows[a].job = "cancelled" => rows'[a] = rows[a]]_vars

(* The stage never goes back, and a job that was accepted, started or      *)
(* ended never waits for dispatch again, in whatever order the dispatch    *)
(* results, the calls and the callbacks reach the row.                     *)
ProgressKept ==
  [][\A a \in Analyses :
       /\ rows'[a].stage >= rows[a].stage
       /\ rows[a].job \notin AwaitingDispatch \cup {"none"} =>
            rows'[a].job \notin AwaitingDispatch]_vars

RowsForward == SuccessKept /\ EndKept /\ ProgressKept

(* What a reader of the row sees: a job whose dispatch failed still waits. *)
ViewOf(row) ==
  [status |-> IF row.job \in AwaitingDispatch THEN "waiting" ELSE row.status,
   stage |-> row.stage,
   done |-> {s \in Stages : row.metrics[s] = "succeeded"},
   out |-> row.out]

Lifecycle == INSTANCE AnalysisLifecycle
               WITH view <- [a \in Analyses |-> ViewOf(rows[a])]

(* An analysis moves only as AnalysisLifecycle allows: a stage succeeds or *)
(* fails in its turn only, and an answer is final once a later stage has   *)
(* begun, although calls overlap, go on unheard and are claimed again, and *)
(* Airflow writes the same row beside them.                                *)
FollowsLifecycle == Lifecycle!Spec

(* Every run ends, and its analysis completed, partial, failed or          *)
(* cancelled with it, unless an answer is lost or a callback dies.         *)
RunsSettleUnlessLost ==
  \A a \in Analyses :
    runs[a].state = "running" ~>
      \/ lost # 0
      \/ runs[a].state \in {"success", "failed"} /\ rows[a].job \in FinishedJob
=============================================================================
