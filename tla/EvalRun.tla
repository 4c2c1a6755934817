------------------------------ MODULE EvalRun -------------------------------
(***************************************************************************)
(* Evaluation runs: creation and dispatch (httpapi/evalruns.go, LaunchRun, *)
(* startRegressionCheck), the rag_evaluation DAG with its two tasks        *)
(* (ragbench/evaluation.py) and the API calls that execute one case or     *)
(* finalize the run (evalrun/exec.go, store.go).                           *)
(*                                                                         *)
(* Each statement the API commits on its own is one action: a call looks   *)
(* for a stored result, works, inserts, counts, and updates the status     *)
(* with what it counted.  No row is locked in between.                     *)
(***************************************************************************)
EXTENDS Naturals, FiniteSets

CONSTANTS Runs, Cases,
          Requests,   \* API requests that create and dispatch a run
          Calls,      \* execute and finalize calls in flight at the API
          None,
          Retries,    \* Airflow retries of a task (the DAG sets 1)
          MaxLost,    \* bound: calls that go on after their caller gave up
          MaxManual   \* bound: finalize calls made by an operator

ASSUME ConstantsAssumption ==
  /\ Retries \in Nat /\ MaxLost \in Nat /\ MaxManual \in Nat
  /\ None \notin Runs \cup Cases \cup Calls

VARIABLES status, stored,
          tried,      \* dispatch_attempts > 0
          requests,
          posted,     \* dagRun requests Airflow has not processed
          dags,       \* Airflow: one DAG run per eval run
          calls,
          lost, manual

vars == <<status, stored, tried, requests, posted, dags, calls, lost, manual>>
rows == <<status, stored, tried>>
bounds == <<lost, manual>>

Lifecycle == INSTANCE RunLifecycle
CaseResult == Lifecycle!CaseResult
Terminal == Lifecycle!Terminal

IdleRequest == [pc |-> "idle", run |-> None, err |-> FALSE]
NoDag == [state |-> "none", task |-> "cases", try |-> 1, pc |-> "start",
          todo |-> {}, call |-> None]
IdleCall == [pc |-> "idle", run |-> None, case |-> None, count |-> "none"]

Init ==
  /\ Lifecycle!Init
  /\ tried = [r \in Runs |-> FALSE]
  /\ requests = [q \in Requests |-> IdleRequest]
  /\ posted = {}
  /\ dags = [r \in Runs |-> NoDag]
  /\ calls = [k \in Calls |-> IdleCall]
  /\ lost = 0 /\ manual = 0
----------------------------------------------------------------------------
(* Creating a run and dispatching it.                                      *)

(* CreateRun: inputs are pinned in the transaction that inserts the row.   *)
CreateRun(q, r) ==
  /\ requests[q].pc = "idle" /\ status[r] = "none"
  /\ status' = [status EXCEPT ![r] = "created"]
  /\ requests' = [requests EXCEPT ![q] = [IdleRequest EXCEPT !.pc = "mark", !.run = r]]
  /\ UNCHANGED <<stored, tried, posted, dags, calls, bounds>>

(* MarkRunning; a run that was settled meanwhile is not dispatched.        *)
MarkRunning(q) ==
  LET r == requests[q].run IN
  /\ requests[q].pc = "mark"
  /\ \/ /\ status[r] \in {"created", "running"}
        /\ status' = [status EXCEPT ![r] = "running"]
        /\ requests' = [requests EXCEPT ![q].pc = "post"]
     \/ /\ status[r] \notin {"created", "running"}
        /\ requests' = [requests EXCEPT ![q] = [@ EXCEPT !.pc = "reply", !.err = TRUE]]
        /\ UNCHANGED status
  /\ UNCHANGED <<stored, tried, posted, dags, calls, bounds>>

(* DispatchRun: authenticate and post; a refusal may precede the post.     *)
PostRun(q) ==
  /\ requests[q].pc = "post"
  /\ \/ /\ posted' = posted \cup {requests[q].run}
        /\ requests' = [requests EXCEPT ![q].pc = "await"]
     \/ /\ requests' = [requests EXCEPT ![q] = [@ EXCEPT !.pc = "record", !.err = TRUE]]
        /\ UNCHANGED posted
  /\ UNCHANGED <<rows, dags, calls, bounds>>

DispatchAnswered(q) ==
  /\ requests[q].pc = "await"
  /\ \/ /\ dags[requests[q].run].state # "none"
        /\ requests' = [requests EXCEPT ![q].pc = "record"]
     \/ requests' = [requests EXCEPT ![q] = [@ EXCEPT !.pc = "record", !.err = TRUE]]
  /\ UNCHANGED <<rows, posted, dags, calls, bounds>>

RecordIfUntried(r) == ~tried[r]   \* mutant: the UPDATE forgets the status
RecordApplies(r) == ~tried[r] /\ status[r] \in {"created", "running"}

RecordDispatch(q) ==
  LET r == requests[q].run IN
  /\ requests[q].pc = "record"
  /\ IF RecordApplies(r)
     THEN /\ status' = [status EXCEPT ![r] =
                          IF requests[q].err THEN "dispatch_failed" ELSE "running"]
          /\ tried' = [tried EXCEPT ![r] = TRUE]
     ELSE UNCHANGED <<status, tried>>
  /\ requests' = [requests EXCEPT ![q].pc = "reply"]
  /\ UNCHANGED <<stored, posted, dags, calls, bounds>>

(* The answer, whose run is read again.                                    *)
Reply(q) ==
  /\ requests[q].pc = "reply"
  /\ requests' = [requests EXCEPT ![q] = IdleRequest]
  /\ UNCHANGED <<rows, posted, dags, calls, bounds>>

(* The API dies, or a database error ends the request.                     *)
AbandonRequest(q) ==
  /\ requests[q].pc \notin {"idle", "reply"}
  /\ requests' = [requests EXCEPT ![q] = IdleRequest]
  /\ UNCHANGED <<rows, posted, dags, calls, bounds>>
----------------------------------------------------------------------------
(* The rag_evaluation DAG: run_pending_cases, then finalize_run.           *)

CreateDagRun(r) ==
  /\ r \in posted /\ dags[r].state = "none"
  /\ posted' = posted \ {r}
  /\ dags' = [dags EXCEPT ![r].state = "running"]
  /\ UNCHANGED <<rows, requests, calls, bounds>>

At(r, task, pc) == /\ dags[r].state = "running"
                   /\ dags[r].task = task /\ dags[r].pc = pc

(* results() is read once, before the loop.                                *)
ReadPending(r) ==
  /\ At(r, "cases", "start")
  /\ dags' = [dags EXCEPT ![r] = [@ EXCEPT !.pc = "loop",
                                   !.todo = {c \in Cases : stored[r][c] = "none"}]]
  /\ UNCHANGED <<rows, requests, posted, calls, bounds>>

ExecuteNext(r, c, k) ==
  /\ At(r, "cases", "loop") /\ c \in dags[r].todo
  /\ calls[k].pc = "idle"
  /\ calls' = [calls EXCEPT ![k] = [IdleCall EXCEPT !.pc = "lookup", !.run = r, !.case = c]]
  /\ dags' = [dags EXCEPT ![r] = [@ EXCEPT !.pc = "wait", !.call = k]]
  /\ UNCHANGED <<rows, requests, posted, bounds>>

LoopEndsEarly(r) == \E c \in Cases : dags[r].todo \subseteq {c}   \* mutant
LoopEnds(r) == dags[r].todo = {}

CasesDone(r) ==
  /\ At(r, "cases", "loop") /\ LoopEnds(r)
  /\ dags' = [dags EXCEPT ![r] = [@ EXCEPT !.task = "finalize", !.try = 1, !.pc = "start"]]
  /\ UNCHANGED <<rows, requests, posted, calls, bounds>>

FinalizeRun(r, k) ==
  /\ At(r, "finalize", "start") /\ calls[k].pc = "idle"
  /\ calls' = [calls EXCEPT ![k] = [IdleCall EXCEPT !.pc = "count", !.run = r]]
  /\ dags' = [dags EXCEPT ![r] = [@ EXCEPT !.pc = "wait", !.call = k]]
  /\ UNCHANGED <<rows, requests, posted, bounds>>

Waiting(r) == dags[r].state = "running" /\ dags[r].pc = "wait"

AnswerOK(r) ==
  LET k == dags[r].call IN
  /\ Waiting(r) /\ calls[k].pc = "ok"
  /\ calls' = [calls EXCEPT ![k] = IdleCall]
  /\ dags' = [dags EXCEPT ![r] =
                IF dags[r].task = "cases"
                THEN [@ EXCEPT !.pc = "loop", !.call = None,
                               !.todo = dags[r].todo \ {calls[k].case}]
                ELSE [@ EXCEPT !.state = "success", !.pc = "start", !.call = None]]
  /\ UNCHANGED <<rows, requests, posted, bounds>>

TriesLeftOneMore(try) == try <= Retries + 1   \* mutant
TriesLeft(try) == try <= Retries

AttemptFailed(r) ==
  dags' = [dags EXCEPT ![r] =
             IF TriesLeft(dags[r].try)
             THEN [@ EXCEPT !.try = dags[r].try + 1, !.pc = "start",
                            !.todo = {}, !.call = None]
             ELSE [@ EXCEPT !.state = "failed", !.pc = "start",
                            !.todo = {}, !.call = None]]

AnswerError(r) ==
  LET k == dags[r].call IN
  /\ Waiting(r) /\ calls[k].pc = "error"
  /\ calls' = [calls EXCEPT ![k] = IdleCall]
  /\ AttemptFailed(r)
  /\ UNCHANGED <<rows, requests, posted, bounds>>

(* The attempt gives up (120 s a call, 45 min a task) or dies.  Its call   *)
(* ends with it, unless (at most MaxLost times) it goes on unheard.        *)
AttemptDies(r) ==
  LET k == dags[r].call IN
  /\ dags[r].state = "running"
  /\ \/ Waiting(r) /\ calls' = [calls EXCEPT ![k] = IdleCall] /\ UNCHANGED lost
     \/ Waiting(r) /\ lost < MaxLost /\ lost' = lost + 1 /\ UNCHANGED calls
     \/ ~Waiting(r) /\ UNCHANGED <<calls, lost>>
  /\ AttemptFailed(r)
  /\ UNCHANGED <<rows, requests, posted, manual>>
----------------------------------------------------------------------------
(* The API calls: ExecuteCase and FinalizeStatus.                          *)

Go(k, pc) == calls' = [calls EXCEPT ![k].pc = pc]

(* finalizeEvalRun, asked for by an operator.                              *)
FinalizeManually(k, r) ==
  /\ calls[k].pc = "idle" /\ status[r] # "none" /\ manual < MaxManual
  /\ manual' = manual + 1
  /\ calls' = [calls EXCEPT ![k] = [IdleCall EXCEPT !.pc = "count", !.run = r]]
  /\ UNCHANGED <<rows, requests, posted, dags, lost>>

(* A stored result is returned; when it cannot be read the case is         *)
(* executed, because the error of that read is dropped.                    *)
LookUp(k) ==
  /\ calls[k].pc = "lookup"
  /\ \/ stored[calls[k].run][calls[k].case] # "none" /\ Go(k, "ok")
     \/ Go(k, "work")
  /\ UNCHANGED <<rows, requests, posted, dags, bounds>>

(* The pipeline and the judge have ended, one way or another; the insert   *)
(* does nothing on conflict, and then the stored result is the answer.     *)
InsertReplaces(results, c, s) ==   \* mutant: DO UPDATE
  [results EXCEPT ![c] = s]
InsertOnce(results, c, s) ==
  IF results[c] = "none" THEN [results EXCEPT ![c] = s] ELSE results

Persist(k) ==
  LET r == calls[k].run
      c == calls[k].case
  IN
  /\ calls[k].pc = "work"
  /\ \E s \in CaseResult :
       stored' = [stored EXCEPT ![r] = InsertOnce(stored[r], c, s)]
  /\ Go(k, IF stored[r][c] = "none" THEN "count" ELSE "ok")
  /\ UNCHANGED <<status, tried, requests, posted, dags, bounds>>

(* statusCounts and the switch of finalizeStatus.  A dispatch failure      *)
(* already recorded ends the call here.                                    *)
OutcomeIgnoringMissing(results) ==   \* mutant: attempted cases alone count
  IF Lifecycle!With(results, "failed") \cup Lifecycle!With(results, "evaluator_failed") = {}
  THEN "completed" ELSE "partial"
Outcome(results) == Lifecycle!OutcomeOf(results)

Count(k) ==
  LET r == calls[k].run IN
  /\ calls[k].pc = "count"
  /\ \/ status[r] = "dispatch_failed" /\ Go(k, "ok")
     \/ /\ status[r] # "dispatch_failed"
        /\ calls' = [calls EXCEPT ![k] = [@ EXCEPT !.pc = "update",
                                           !.count = Outcome(stored[r])]]
  /\ UNCHANGED <<rows, requests, posted, dags, bounds>>

StatusAlways(old, new) == new   \* mutant: a refused dispatch is forgotten
StatusFrom(old, new) == IF old = "dispatch_failed" THEN old ELSE new

UpdateStatus(k) ==
  LET r == calls[k].run IN
  /\ calls[k].pc = "update"
  /\ status' = [status EXCEPT ![r] = StatusFrom(@, calls[k].count)]
  /\ Go(k, "ok")
  /\ UNCHANGED <<stored, tried, requests, posted, dags, bounds>>

(* A database error, or the API dies; what was committed stays.            *)
CallFails(k) ==
  /\ calls[k].pc \in {"lookup", "work", "count", "update"}
  /\ Go(k, "error")
  /\ UNCHANGED <<rows, requests, posted, dags, bounds>>

(* A call nobody waits for any more ends.                                  *)
EndUnheard(k) ==
  /\ calls[k].pc \in {"ok", "error"}
  /\ \A r \in Runs : dags[r].call # k
  /\ calls' = [calls EXCEPT ![k] = IdleCall]
  /\ UNCHANGED <<rows, requests, posted, dags, bounds>>
----------------------------------------------------------------------------
Request(q) ==
  \/ \E r \in Runs : CreateRun(q, r)
  \/ MarkRunning(q) \/ PostRun(q) \/ DispatchAnswered(q) \/ RecordDispatch(q)
  \/ AbandonRequest(q)

Airflow(r) ==
  \/ ReadPending(r) \/ CasesDone(r)
  \/ \E k \in Calls : FinalizeRun(r, k) \/ \E c \in Cases : ExecuteNext(r, c, k)
  \/ AnswerOK(r) \/ AnswerError(r) \/ AttemptDies(r)

Serve(k) ==
  LookUp(k) \/ Persist(k) \/ Count(k) \/ UpdateStatus(k) \/ CallFails(k) \/ EndUnheard(k)

Next ==
  \/ \E q \in Requests : Request(q) \/ Reply(q)
  \/ \E r \in Runs : CreateDagRun(r) \/ Airflow(r)
  \/ \E k \in Calls : Serve(k) \/ \E r \in Runs : FinalizeManually(k, r)

Spec == Init /\ [][Next]_vars
----------------------------------------------------------------------------
(* Type correctness.                                                       *)

RequestType == [pc : {"idle", "mark", "post", "await", "record", "reply"},
                run : Runs \cup {None}, err : BOOLEAN]
DagType == [state : {"none", "running", "success", "failed"},
            task : {"cases", "finalize"}, try : 1..Retries + 1,
            pc : {"start", "loop", "wait"}, todo : SUBSET Cases,
            call : Calls \cup {None}]
CallType == [pc : {"idle", "lookup", "work", "count", "update", "ok", "error"},
             run : Runs \cup {None}, case : Cases \cup {None},
             count : {"none", "completed", "partial", "failed"}]

(* The rows, requests, DAG runs and calls hold values of their types.      *)
TypeOK ==
  /\ status \in [Runs -> Lifecycle!RunStatus]
  /\ stored \in [Runs -> [Cases -> CaseResult \cup {"none"}]]
  /\ tried \in [Runs -> BOOLEAN]
  /\ requests \in [Requests -> RequestType]
  /\ posted \subseteq Runs
  /\ dags \in [Runs -> DagType]
  /\ calls \in [Calls -> CallType]
  /\ lost \in 0..MaxLost /\ manual \in 0..MaxManual
----------------------------------------------------------------------------
(* Properties.                                                             *)

(* evalrun/store.go:361: never a fabricated success.  A completed run has  *)
(* a completed result for every case, however late the count behind its    *)
(* status was written and whoever wrote it.                                *)
CompletedIsReal ==
  \A r \in Runs : status[r] = "completed" => \A c \in Cases : stored[r][c] = "completed"

(* A DAG run ends in success only with every case stored; and if no call   *)
(* went on unheard and nobody else finalized, its status is then the       *)
(* outcome of exactly those results, or the refused dispatch it kept.      *)
SuccessIsWhole ==
  \A r \in Runs : dags[r].state = "success" =>
    /\ \A c \in Cases : stored[r][c] # "none"
    /\ lost + manual = 0 => status[r] \in {"dispatch_failed", Outcome(stored[r])}

FinishedIsWhole == CompletedIsReal /\ SuccessIsWhole

(* What readers of a run rely on: no status or result outside the          *)
(* life cycle, in whatever order records, counts and updates are written.  *)
FollowsLifecycle == Lifecycle!Spec
=============================================================================
