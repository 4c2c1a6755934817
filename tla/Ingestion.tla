----------------------------- MODULE Ingestion ------------------------------
(***************************************************************************)
(* The document library: the Go API that stores uploads, revisions and     *)
(* jobs (documents/store.go, httpapi/documents.go), the Airflow runs it    *)
(* dispatches, and the Python workers that carry a revision through        *)
(* extract, normalize, chunk, embed and publish (ragbench/pipeline.py).    *)
(*                                                                         *)
(* All of them meet in PostgreSQL.  A transaction that starts by locking a *)
(* document row is one action, because every writer of the document, its   *)
(* revisions and its jobs takes that lock first.  The worker's snapshot()  *)
(* is the exception: one READ COMMITTED statement joins job, revision and  *)
(* document and locks only the document, so after a wait for the lock the  *)
(* document is fresh and the job and revision columns are those of the     *)
(* statement's start.  Its two halves are two actions here.                *)
(*                                                                         *)
(* A job belongs to exactly one revision (a unique key), so jobs, chunks   *)
(* and Airflow runs are indexed by the revision.                           *)
(***************************************************************************)
EXTENDS Naturals, Sequences, FiniteSets, FiniteSetsExt

CONSTANTS Docs, Revs, Contents, Handlers, Workers,
          Retries,          \* Airflow retries of one task (the DAG sets 2)
          MaxLost,          \* bound: live attempts Airflow gives up on
          MaxClears,        \* bound: failed runs an operator clears
          CallbackReliable, \* TRUE: on_failure_callback always completes
          None

ASSUME ConstantsAssumption ==
  /\ Retries \in Nat /\ MaxLost \in Nat /\ MaxClears \in Nat
  /\ CallbackReliable \in BOOLEAN
  /\ None \notin Docs \cup Revs \cup Contents \cup Workers

(* Finitely many revisions are ever created, so their numbers are bounded. *)
ASSUME RevsAssumption == IsFiniteSet(Revs)

VARIABLES docs, revs, jobs, chunks,  \* PostgreSQL tables
          bytes,      \* documents whose uploaded file is on the shared volume
          handlers,   \* API requests in flight
          posted,     \* dagRun requests Airflow has not processed
          runs,       \* Airflow: one DAG run per revision
          callbacks,  \* Airflow: on_failure_callback processes
          workers,    \* task attempts executing run_stage
          lost, cleared

vars == <<docs, revs, jobs, chunks, bytes, handlers, posted, runs, callbacks,
          workers, lost, cleared>>
tables == <<docs, revs, jobs, chunks>>
airflow == <<runs, callbacks, lost, cleared>>
----------------------------------------------------------------------------
(* Statuses and the initial state.                                         *)

Stages == <<"extract", "normalize", "chunk", "embed", "publish">>
StageNames == {"extract", "normalize", "chunk", "embed", "publish"}

DocLife == {"absent", "live", "deleted"}
DocStatus == {"queued", "processing", "processed", "failed"}
RevStatus == {"none", "pending", "ready", "failed"}
JobState == {"none", "dispatch_pending", "dispatch_failed", "queued",
             "processing", "succeeded", "failed", "cancelled"}
ChunkState == {"none", "inserted", "embedded"}
WorkerPC == {"idle", "lock", "begin", "open", "compute", "reread", "write",
             "failread", "fail", "done", "raised"}

AwaitingDispatch == {"dispatch_pending", "dispatch_failed"}
FinishedJob == {"succeeded", "cancelled", "failed"}

NoDoc == [life |-> "absent", content |-> None, status |-> "queued",
          latest |-> None, active |-> None]
NoRev == [doc |-> None, number |-> 0, status |-> "none"]
NoJob == [state |-> "none", artifacts |-> {}]
NoRun == [state |-> "none", stage |-> 1, try |-> 1, worker |-> None]
IdleHandler == [pc |-> "idle", doc |-> None, rev |-> None, err |-> FALSE]
IdleWorker == [pc |-> "idle", rev |-> None, stage |-> 1, seen |-> FALSE,
               arts |-> {}]
IdleCallback == [pc |-> "idle", seen |-> FALSE]

Init ==
  /\ docs = [d \in Docs |-> NoDoc]
  /\ revs = [r \in Revs |-> NoRev]
  /\ jobs = [r \in Revs |-> NoJob]
  /\ chunks = [r \in Revs |-> "none"]
  /\ bytes = {}
  /\ handlers = [h \in Handlers |-> IdleHandler]
  /\ posted = {}
  /\ runs = [r \in Revs |-> NoRun]
  /\ callbacks = [r \in Revs |-> IdleCallback]
  /\ workers = [w \in Workers |-> IdleWorker]
  /\ lost = 0
  /\ cleared = 0

Live(d) == docs[d].life = "live"
DocOf(r) == docs[revs[r].doc]
RevisionsOf(d) == {r \in Revs : revs[r].doc = d}
PendingOf(d) == {r \in RevisionsOf(d) : revs[r].status = "pending"}

(* snapshot(): the job and revision columns as the statement first saw     *)
(* them.  Of these inactive() reads whether the job is cancelled and the   *)
(* revision ready.                                                         *)
SettledRowForgetsReady(r) == jobs[r].state = "cancelled"   \* mutant
SettledRow(r) == jobs[r].state = "cancelled" \/ revs[r].status = "ready"

(* inactive(): those columns, and the document as locked.                  *)
InactiveUnlessDeleted(r, seen) == DocOf(r).life = "deleted" \/ seen   \* mutant
Inactive(r, seen) == DocOf(r).life = "deleted" \/ seen \/ DocOf(r).latest # r
----------------------------------------------------------------------------
(* The API: uploads, reprocessing, dispatch and deletion.                  *)

(* createRevision: a pending revision, its job, and the latest pointer.    *)
NextNumberAfterActive(d) ==   \* mutant
  1 + (IF docs[d].active = None THEN 0 ELSE revs[docs[d].active].number)
NextNumber(d) == 1 + Max({0} \cup {revs[r].number : r \in RevisionsOf(d)})

CreateRevision(d, r) ==
  /\ revs[r].status = "none"
  /\ revs' = [revs EXCEPT ![r] = [doc |-> d, number |-> NextNumber(d),
                                  status |-> "pending"]]
  /\ jobs' = [jobs EXCEPT ![r] = [state |-> "dispatch_pending",
                                  artifacts |-> {}]]

(* uploadDocument up to Store.Create: a new file under a fresh id.         *)
SaveUpload(h, d) ==
  /\ handlers[h].pc = "idle"
  /\ docs[d].life = "absent" /\ d \notin bytes
  /\ bytes' = bytes \cup {d}
  /\ handlers' = [handlers EXCEPT ![h] = [IdleHandler EXCEPT !.pc = "saved",
                                                             !.doc = d]]
  /\ UNCHANGED <<tables, posted, airflow, workers>>

(* A rejected upload (bad multipart, ErrConfig, ErrDuplicate): nothing was *)
(* stored, and the deferred cleanup removes the file.                      *)
RejectUpload(h) ==
  /\ handlers[h].pc = "saved"
  /\ bytes' = bytes \ {handlers[h].doc}
  /\ handlers' = [handlers EXCEPT ![h] = IdleHandler]
  /\ UNCHANGED <<tables, posted, airflow, workers>>

(* Store.Create: document, revision and job in one transaction, refused    *)
(* when a live document has the same checksum (documents_live_checksum).   *)
CreateDocument(h, c, r) ==
  LET d == handlers[h].doc IN
  /\ handlers[h].pc = "saved"
  /\ \A e \in Docs : Live(e) => docs[e].content # c
  /\ CreateRevision(d, r)
  /\ docs' = [docs EXCEPT ![d] = [life |-> "live", content |-> c,
                                  status |-> "queued", latest |-> r,
                                  active |-> None]]
  /\ handlers' = [handlers EXCEPT ![h].pc = "get"]
  /\ UNCHANGED <<chunks, bytes, posted, airflow, workers>>

(* The document row createRevision leaves when the document already exists. *)
NewLatestHidesActive(d, r) ==   \* mutant
  [docs EXCEPT ![d] = [@ EXCEPT !.latest = r, !.status = "queued", !.active = None]]
NewLatest(d, r) ==
  [docs EXCEPT ![d] = [@ EXCEPT !.latest = r, !.status = "queued"]]

(* Store.Reprocess: refused while any revision of the document is pending. *)
Reprocess(h, d, r) ==
  /\ handlers[h].pc = "idle"
  /\ Live(d) /\ PendingOf(d) = {}
  /\ CreateRevision(d, r)
  /\ docs' = NewLatest(d, r)
  /\ handlers' = [handlers EXCEPT ![h] = [IdleHandler EXCEPT !.pc = "get",
                                                             !.doc = d]]
  /\ UNCHANGED <<chunks, bytes, posted, airflow, workers>>

(* The commit is followed by Store.Get, whose latest job, which need not   *)
(* be the one just created, is the job dispatched.                         *)
GetAndDispatch(h) ==
  LET d == handlers[h].doc IN
  /\ handlers[h].pc = "get"
  /\ IF Live(d)
     THEN /\ handlers' = [handlers EXCEPT ![h] =
                          [@ EXCEPT !.pc = "await", !.rev = docs[d].latest]]
          /\ posted' = posted \cup {docs[d].latest}
     ELSE /\ handlers' = [handlers EXCEPT ![h] = IdleHandler]
          /\ UNCHANGED posted
  /\ UNCHANGED <<tables, bytes, airflow, workers>>

(* retryDispatch: the same job and run id, only while dispatch is pending  *)
(* or failed at the moment of the read.                                    *)
RetryDispatch(h, d) ==
  /\ handlers[h].pc = "idle"
  /\ Live(d) /\ jobs[docs[d].latest].state \in AwaitingDispatch
  /\ handlers' = [handlers EXCEPT ![h] = [pc |-> "await", doc |-> d,
                                          rev |-> docs[d].latest, err |-> FALSE]]
  /\ posted' = posted \cup {docs[d].latest}
  /\ UNCHANGED <<tables, bytes, airflow, workers>>

(* Airflow.Dispatch returns: created now, or a 409 for a run of this job.  *)
DispatchAccepted(h) ==
  /\ handlers[h].pc = "await" /\ runs[handlers[h].rev].state # "none"
  /\ handlers' = [handlers EXCEPT ![h].pc = "record"]
  /\ UNCHANGED <<tables, bytes, posted, airflow, workers>>

(* ... or fails: no token, an HTTP error, or a timeout, after which the    *)
(* request may still be processed.                                         *)
DispatchErrored(h) ==
  /\ handlers[h].pc = "await"
  /\ handlers' = [handlers EXCEPT ![h] = [@ EXCEPT !.pc = "record", !.err = TRUE]]
  /\ UNCHANGED <<tables, bytes, posted, airflow, workers>>

(* Store.RecordDispatch: only dispatch states change, because a fast task  *)
(* may be processing or done, and another call may have queued the job.    *)
DispatchAlwaysChanges(r, err) == jobs[r].state # "none"   \* mutant
DispatchChangesQueued(r, err) ==   \* mutant
  jobs[r].state \in AwaitingDispatch \cup {"queued"}
DispatchChanges(r, err) ==
  jobs[r].state \in AwaitingDispatch \/ (jobs[r].state = "queued" /\ ~err)

RecordDispatch(h) ==
  LET r == handlers[h].rev
      err == handlers[h].err
  IN
  /\ handlers[h].pc = "record"
  /\ handlers' = [handlers EXCEPT ![h] = IdleHandler]
  /\ IF DispatchChanges(r, err)
     THEN /\ jobs' = [jobs EXCEPT ![r].state = IF err THEN "dispatch_failed"
                                                      ELSE "queued"]
          /\ docs' = [d \in Docs |->
                        IF Live(d) /\ docs[d].latest = r
                        THEN [docs[d] EXCEPT !.status = IF err THEN "failed"
                                                               ELSE "queued"]
                        ELSE docs[d]]
     ELSE UNCHANGED <<jobs, docs>>
  /\ UNCHANGED <<revs, chunks, bytes, posted, airflow, workers>>

(* A request ends between two steps: the API dies, or a database error     *)
(* leaves the outcome unknown.  The file stays ("persistence uncertain").  *)
BytesRemovedOnError(h) == bytes \ {handlers[h].doc}   \* mutant
BytesAfterUnknown(h) == bytes

AbandonRequest(h) ==
  /\ handlers[h].pc # "idle"
  /\ handlers' = [handlers EXCEPT ![h] = IdleHandler]
  /\ bytes' = BytesAfterUnknown(h)
  /\ UNCHANGED <<tables, posted, airflow, workers>>

(* Store.Delete: tombstone, cancelled jobs and failed revisions together.  *)
DeleteDocument(d) ==
  /\ docs[d].life # "absent"
  /\ docs' = [docs EXCEPT ![d].life = "deleted"]
  /\ jobs' = [r \in Revs |->
                IF revs[r].doc = d /\ jobs[r].state \notin FinishedJob
                THEN [jobs[r] EXCEPT !.state = "cancelled"] ELSE jobs[r]]
  /\ revs' = [r \in Revs |->
                IF revs[r].doc = d /\ revs[r].status = "pending"
                THEN [revs[r] EXCEPT !.status = "failed"] ELSE revs[r]]
  /\ UNCHANGED <<chunks, bytes, handlers, posted, airflow, workers>>
----------------------------------------------------------------------------
(* Airflow.  A run works through the five tasks in order; an attempt that  *)
(* fails or is lost is retried, and the last failure ends the run and      *)
(* starts on_failure_callback.                                             *)

CreateDagRun(r) ==
  /\ r \in posted
  /\ posted' = posted \ {r}
  /\ runs' = IF runs[r].state = "none"
             THEN [runs EXCEPT ![r].state = "running"] ELSE runs
  /\ UNCHANGED <<tables, bytes, handlers, callbacks, workers, lost, cleared>>

StartAttempt(r, w) ==
  /\ runs[r].state = "running" /\ runs[r].worker = None
  /\ workers[w].pc = "idle" /\ \A q \in Revs : runs[q].worker # w
  /\ runs' = [runs EXCEPT ![r].worker = w]
  /\ workers' = [workers EXCEPT ![w] = [IdleWorker EXCEPT !.pc = "lock",
                   !.rev = r, !.stage = runs[r].stage]]
  /\ UNCHANGED <<tables, bytes, handlers, posted, callbacks, lost, cleared>>

AttemptSucceeded(r) ==
  /\ runs' = [runs EXCEPT ![r] =
       IF runs[r].stage = Len(Stages)
       THEN [@ EXCEPT !.state = "success", !.worker = None]
       ELSE [@ EXCEPT !.stage = runs[r].stage + 1, !.try = 1, !.worker = None]]
  /\ UNCHANGED callbacks

OneRetryTooMany(r) == runs[r].try <= Retries + 1   \* mutant
TriesLeft(r) == runs[r].try <= Retries

AttemptFailed(r) ==
  IF TriesLeft(r)
  THEN /\ runs' = [runs EXCEPT ![r] = [@ EXCEPT !.try = runs[r].try + 1,
                                               !.worker = None]]
       /\ UNCHANGED callbacks
  ELSE /\ runs' = [runs EXCEPT ![r] = [@ EXCEPT !.state = "failed", !.worker = None]]
       /\ callbacks' = [callbacks EXCEPT ![r] = [pc |-> "check", seen |-> FALSE]]

(* The task process reports its result; Airflow ignores one it gave up on. *)
ReportSuccess(w) ==
  LET r == workers[w].rev IN
  /\ workers[w].pc = "done"
  /\ workers' = [workers EXCEPT ![w] = IdleWorker]
  /\ IF runs[r].worker = w THEN AttemptSucceeded(r)
                           ELSE UNCHANGED <<runs, callbacks>>
  /\ UNCHANGED <<tables, bytes, handlers, posted, lost, cleared>>

ReportFailure(w) ==
  LET r == workers[w].rev IN
  /\ workers[w].pc = "raised"
  /\ workers' = [workers EXCEPT ![w] = IdleWorker]
  /\ IF runs[r].worker = w THEN AttemptFailed(r)
                           ELSE UNCHANGED <<runs, callbacks>>
  /\ UNCHANGED <<tables, bytes, handlers, posted, lost, cleared>>

(* The attempt's process is gone (killed, or stopped by its timeout): its  *)
(* open transaction is rolled back and its advisory lock released.         *)
AttemptDies(w) ==
  /\ workers[w].pc # "idle"
  /\ workers' = [workers EXCEPT ![w] = IdleWorker]
  /\ UNCHANGED <<tables, bytes, handlers, posted, airflow>>

(* Airflow misses the attempt's heartbeats: it is dead, or (at most        *)
(* MaxLost times) still running unobserved.                                *)
AttemptLost(r) ==
  LET w == runs[r].worker IN
  /\ w # None
  /\ AttemptFailed(r)
  /\ IF workers[w].pc = "idle" THEN UNCHANGED lost
                               ELSE lost < MaxLost /\ lost' = lost + 1
  /\ UNCHANGED <<tables, bytes, handlers, posted, workers, cleared>>

(* An operator clears the failed task: it gets a fresh set of tries.       *)
ClearTask(r) ==
  /\ runs[r].state = "failed" /\ callbacks[r].pc = "idle"
  /\ cleared < MaxClears
  /\ cleared' = cleared + 1
  /\ runs' = [runs EXCEPT ![r] = [@ EXCEPT !.state = "running", !.try = 1]]
  /\ UNCHANGED <<tables, bytes, handlers, posted, callbacks, workers, lost>>
----------------------------------------------------------------------------
(* run_stage.  Steps "begin" to "fail" hold the job's advisory lock.       *)

Holding == {"begin", "open", "compute", "reread", "write", "failread", "fail"}
Goto(w, pc) == workers' = [workers EXCEPT ![w].pc = pc]
StageOf(w) == Stages[workers[w].stage]

SetStatus(r, rev, job, doc) ==
  /\ revs' = [revs EXCEPT ![r].status = rev]
  /\ jobs' = [jobs EXCEPT ![r].state = job]
  /\ docs' = [docs EXCEPT ![revs[r].doc].status = doc]

AcquireLock(w) ==
  /\ workers[w].pc = "lock"
  /\ \A v \in Workers : workers[v].pc \in Holding => workers[v].rev # workers[w].rev
  /\ Goto(w, "begin")
  /\ UNCHANGED <<tables, bytes, handlers, posted, airflow>>

(* The first transaction's snapshot statement starts ...                   *)
ReadJob(w) ==
  LET r == workers[w].rev IN
  /\ workers[w].pc = "begin"
  /\ workers' = [workers EXCEPT ![w] =
                    [@ EXCEPT !.pc = "open", !.seen = SettledRow(r),
                              !.arts = jobs[r].artifacts]]
  /\ UNCHANGED <<tables, bytes, handlers, posted, airflow>>

(* ... and with the document locked, the stage is skipped or opened.       *)
OpenStage(w) ==
  LET r == workers[w].rev IN
  /\ workers[w].pc = "open"
  /\ IF Inactive(r, workers[w].seen)
     THEN Goto(w, "done") /\ UNCHANGED tables
     ELSE /\ SetStatus(r, "pending", "processing", "processing")
          /\ Goto(w, "compute")
          /\ UNCHANGED chunks
  /\ UNCHANGED <<bytes, handlers, posted, airflow>>

(* compute_stage, outside every row lock: needs the handoff it reads.      *)
(* Publishing computes nothing; it counts its chunk handoff as it writes.  *)
Needs(stage) == CASE stage = "extract"   -> {}
                  [] stage = "normalize" -> {"extract"}
                  [] stage = "chunk"     -> {"normalize"}
                  [] OTHER               -> {"chunk"}
HasHandoff(w) == Needs(StageOf(w)) \subseteq workers[w].arts

Compute(w) ==
  /\ workers[w].pc = "compute"
  /\ Goto(w, IF StageOf(w) = "publish" \/ HasHandoff(w) THEN "reread" ELSE "failread")
  /\ UNCHANGED <<tables, bytes, handlers, posted, airflow>>

(* A later snapshot statement starts: the second transaction's, or         *)
(* mark_failed's.                                                          *)
TakeSnapshot(w, pc) ==
  workers' = [workers EXCEPT ![w] = [@ EXCEPT !.pc = pc,
                                              !.seen = SettledRow(workers[w].rev)]]

RereadJob(w) ==
  /\ workers[w].pc = "reread"
  /\ TakeSnapshot(w, "write")
  /\ UNCHANGED <<tables, bytes, handlers, posted, airflow>>

(* Every durable write rechecks deletion and ownership.                    *)
WritesUnchecked(w) == TRUE   \* mutant
MayWrite(w) == ~Inactive(workers[w].rev, workers[w].seen)

DiscardOutput(w) ==
  /\ workers[w].pc = "write"
  /\ ~MayWrite(w)
  /\ Goto(w, "done")
  /\ UNCHANGED <<tables, bytes, handlers, posted, airflow>>

(* apply_stage for extract, normalize, chunk and embed: the handoff, the   *)
(* chunk rows (kept when a retry finds them), their vectors.               *)
ChunkRowsReplaced(r, stage) ==   \* mutant
  CASE stage = "chunk" -> "inserted"
    [] stage = "embed" -> "embedded"
    [] OTHER           -> chunks[r]
ChunkRows(r, stage) ==
  CASE stage = "chunk" /\ chunks[r] = "none" -> "inserted"
    [] stage = "embed"                       -> "embedded"
    [] OTHER                                 -> chunks[r]

HandoffReplaced(r, stage) == {stage}   \* mutant
Handoff(r, stage) == jobs[r].artifacts \cup {stage}

StoreOutput(w) ==
  LET r == workers[w].rev
      stage == StageOf(w)
  IN
  /\ workers[w].pc = "write" /\ stage # "publish"
  /\ MayWrite(w)
  /\ stage = "embed" => chunks[r] # "none"
  /\ chunks' = [chunks EXCEPT ![r] = ChunkRows(r, stage)]
  /\ jobs' = [jobs EXCEPT ![r].artifacts = Handoff(r, stage)]
  /\ Goto(w, "done")
  /\ UNCHANGED <<docs, revs, bytes, handlers, posted, airflow>>

(* apply_stage for publish: revision, active pointer and job together, and *)
(* only when every chunk row has its vector.                               *)
Complete(r) == chunks[r] = "embedded"

Publish(w) ==
  LET r == workers[w].rev IN
  /\ workers[w].pc = "write" /\ StageOf(w) = "publish"
  /\ MayWrite(w) /\ Complete(r) /\ HasHandoff(w)
  /\ revs' = [revs EXCEPT ![r].status = "ready"]
  /\ jobs' = [jobs EXCEPT ![r] = [state |-> "succeeded", artifacts |-> {}]]
  /\ docs' = [docs EXCEPT ![revs[r].doc] = [@ EXCEPT !.active = r,
                                                     !.status = "processed"]]
  /\ Goto(w, "done")
  /\ UNCHANGED <<chunks, bytes, handlers, posted, airflow>>

(* Any exception from compute_stage or the second transaction, such as a   *)
(* parser or provider error or an incomplete revision at publish.          *)
StageRaises(w) ==
  /\ workers[w].pc \in {"compute", "write"}
  /\ Goto(w, "failread")
  /\ UNCHANGED <<tables, bytes, handlers, posted, airflow>>

(* mark_failed, under its own snapshot.                                    *)
MarkJobFailed(r, seen) ==   \* mutant: the revision row is forgotten
  IF Inactive(r, seen) THEN UNCHANGED tables
  ELSE /\ jobs' = [jobs EXCEPT ![r].state = "failed"]
       /\ docs' = [docs EXCEPT ![revs[r].doc].status = "failed"]
       /\ UNCHANGED <<revs, chunks>>
MarkFailed(r, seen) ==
  IF Inactive(r, seen) THEN UNCHANGED tables
  ELSE SetStatus(r, "failed", "failed", "failed") /\ UNCHANGED chunks

FailRead(w) ==
  /\ workers[w].pc = "failread"
  /\ TakeSnapshot(w, "fail")
  /\ UNCHANGED <<tables, bytes, handlers, posted, airflow>>

FailStage(w) ==
  /\ workers[w].pc = "fail"
  /\ MarkFailed(workers[w].rev, workers[w].seen)
  /\ Goto(w, "raised")
  /\ UNCHANGED <<bytes, handlers, posted, airflow>>

(* task_failure, in its own process and without the advisory lock: a read  *)
(* that stops at a job already failed, then mark_failed.                   *)
CallbackStopsEarly(r) == jobs[r].state # "processing"   \* mutant
CallbackStops(r) == jobs[r].state = "failed"

CallbackCheck(r) ==
  /\ callbacks[r].pc = "check"
  /\ callbacks' = [callbacks EXCEPT ![r].pc =
                     IF CallbackStops(r) THEN "idle" ELSE "read"]
  /\ UNCHANGED <<tables, bytes, handlers, posted, runs, workers, lost, cleared>>

CallbackRead(r) ==
  /\ callbacks[r].pc = "read"
  /\ callbacks' = [callbacks EXCEPT ![r] = [pc |-> "mark",
                                            seen |-> SettledRow(r)]]
  /\ UNCHANGED <<tables, bytes, handlers, posted, runs, workers, lost, cleared>>

CallbackMark(r) ==
  /\ callbacks[r].pc = "mark"
  /\ MarkFailed(r, callbacks[r].seen)
  /\ callbacks' = [callbacks EXCEPT ![r] = IdleCallback]
  /\ UNCHANGED <<bytes, handlers, posted, runs, workers, lost, cleared>>

CallbackDies(r) ==
  /\ ~CallbackReliable /\ callbacks[r].pc # "idle"
  /\ callbacks' = [callbacks EXCEPT ![r] = IdleCallback]
  /\ UNCHANGED <<tables, bytes, handlers, posted, runs, workers, lost, cleared>>
----------------------------------------------------------------------------
ApiRequest(h) ==
  \/ \E d \in Docs : SaveUpload(h, d) \/ RetryDispatch(h, d)
  \/ \E d \in Docs, r \in Revs : Reprocess(h, d, r)
  \/ \E c \in Contents, r \in Revs : CreateDocument(h, c, r)
  \/ RejectUpload(h) \/ GetAndDispatch(h) \/ DispatchAccepted(h)
  \/ DispatchErrored(h) \/ RecordDispatch(h) \/ AbandonRequest(h)

RunStage(w) ==
  \/ AcquireLock(w) \/ ReadJob(w) \/ OpenStage(w) \/ Compute(w)
  \/ RereadJob(w) \/ DiscardOutput(w) \/ StoreOutput(w) \/ Publish(w)
  \/ StageRaises(w) \/ FailRead(w) \/ FailStage(w)

TaskFailure(r) == CallbackCheck(r) \/ CallbackRead(r) \/ CallbackMark(r)

Next ==
  \/ \E h \in Handlers : ApiRequest(h)
  \/ \E d \in Docs : DeleteDocument(d)
  \/ \E r \in Revs : \/ CreateDagRun(r) \/ AttemptLost(r) \/ ClearTask(r)
                     \/ TaskFailure(r) \/ CallbackDies(r)
                     \/ \E w \in Workers : StartAttempt(r, w)
  \/ \E w \in Workers : RunStage(w) \/ ReportSuccess(w) \/ ReportFailure(w)
                        \/ AttemptDies(w)

Spec == Init /\ [][Next]_vars

(* What Airflow and PostgreSQL schedule: queued tasks start, task          *)
(* processes and callbacks run, results and lost heartbeats are noticed.   *)
(* Nothing is assumed of the API's callers.                                *)
AirflowFairness ==
  /\ \A r \in Revs : /\ WF_vars(\E w \in Workers : StartAttempt(r, w))
                     /\ WF_vars(AttemptLost(r))
                     /\ WF_vars(TaskFailure(r))
  /\ \A w \in Workers : /\ WF_vars(RunStage(w))
                        /\ WF_vars(ReportSuccess(w))
                        /\ WF_vars(ReportFailure(w))

FairSpec == Spec /\ AirflowFairness
----------------------------------------------------------------------------
(* Type correctness.                                                       *)

DocType == [life : DocLife, content : Contents \cup {None}, status : DocStatus,
            latest : Revs \cup {None}, active : Revs \cup {None}]
RevType == [doc : Docs \cup {None}, number : Nat, status : RevStatus]
JobType == [state : JobState, artifacts : SUBSET StageNames]
HandlerType ==
  [pc : {"idle", "saved", "get", "await", "record"}, doc : Docs \cup {None},
   rev : Revs \cup {None}, err : BOOLEAN]
Tries == 1..Retries + 1
RunType == [state : {"none", "running", "success", "failed"},
            stage : 1..5, try : Tries, worker : Workers \cup {None}]
CallbackType == [pc : {"idle", "check", "read", "mark"}, seen : BOOLEAN]
WorkerType == [pc : WorkerPC, rev : Revs \cup {None}, stage : 1..5,
               seen : BOOLEAN, arts : SUBSET StageNames]

(* The tables, the requests and the processes hold values of their types.  *)
TypeOK ==
  /\ docs \in [Docs -> DocType]
  /\ revs \in [Revs -> RevType]
  /\ jobs \in [Revs -> JobType]
  /\ chunks \in [Revs -> ChunkState]
  /\ bytes \subseteq Docs
  /\ handlers \in [Handlers -> HandlerType]
  /\ posted \subseteq Revs
  /\ runs \in [Revs -> RunType]
  /\ callbacks \in [Revs -> CallbackType]
  /\ workers \in [Workers -> WorkerType]
  /\ lost \in 0..MaxLost
  /\ cleared \in 0..MaxClears
----------------------------------------------------------------------------
(* Safety.                                                                 *)

(* Every row of the three tables tells the same story: a revision is       *)
(* pending exactly while its job is unfinished, ready exactly when the job *)
(* succeeded, and a live document's status is that of its latest job.  No  *)
(* order of late dispatch records, workers, callbacks and deletions leaves *)
(* a job nobody can retry on a revision nobody can replace.                *)
JobsOf(status) == CASE status = "none"    -> {"none"}
                    [] status = "pending" -> AwaitingDispatch \cup {"queued", "processing"}
                    [] status = "ready"   -> {"succeeded"}
                    [] status = "failed"  -> {"failed", "cancelled"}
StatusOf(state) == CASE state \in {"dispatch_pending", "queued"} -> "queued"
                     [] state = "processing"                     -> "processing"
                     [] state = "succeeded"                      -> "processed"
                     [] OTHER                                    -> "failed"

RowsAgree ==
  /\ \A r \in Revs : jobs[r].state \in JobsOf(revs[r].status)
  /\ \A d \in Docs : Live(d) =>
       /\ docs[d].latest \in RevisionsOf(d)
       /\ docs[d].status = StatusOf(jobs[docs[d].latest].state)

(* A pending revision is its live document's latest one.  The workers'     *)
(* retries may put a failed revision back to pending, and the API creates  *)
(* revisions meanwhile; together they never have two pending revisions of  *)
(* one document (the unique index one_pending_document never fires).       *)
PendingIsLatest ==
  \A r \in Revs : revs[r].status = "pending" =>
    DocOf(r).life = "live" /\ DocOf(r).latest = r

(* Revision numbers of one document are distinct, and the latest pointer   *)
(* is at the greatest: the order that fences old jobs is the order of      *)
(* creation, whatever failed, was published or was retried in between.     *)
LatestIsNewest ==
  \A r \in Revs : revs[r].status # "none" =>
    /\ DocOf(r).latest \in RevisionsOf(revs[r].doc)
    /\ r # DocOf(r).latest => revs[r].number < revs[DocOf(r).latest].number

RevisionsOrdered == PendingIsLatest /\ LatestIsNewest

(* When Airflow is about to run a task of a revision that still counts,    *)
(* the job row holds the output of the task before it.                     *)
HandoffPresent ==
  \A r \in Revs :
    runs[r].state = "running" /\ ~Inactive(r, SettledRow(r)) =>
      Needs(Stages[runs[r].stage]) \subseteq jobs[r].artifacts

(* When Airflow is about to publish a revision that still counts, every    *)
(* chunk row has its vector, though lost attempts of earlier tasks may     *)
(* still be running and write chunks again.                                *)
VectorsPresent ==
  \A r \in Revs :
    /\ runs[r].state = "running" /\ ~Inactive(r, SettledRow(r))
    /\ Stages[runs[r].stage] = "publish"
    => chunks[r] = "embedded"

WorkPresent == HandoffPresent /\ VectorsPresent

(* A stored document's source file is on the volume: a request that ended  *)
(* without knowing whether its commit happened has not removed it.         *)
SourceBytesKept == \A d \in Docs : docs[d].life # "absent" => d \in bytes

(* API.md: active_revision_id refers to the last successfully published    *)
(* revision, which stays usable during a replacement and after its failure. *)
ActiveRevisionReady ==
  \A d \in Docs : docs[d].active # None => revs[docs[d].active].status = "ready"

(* API.md: a failed retry becomes visible immediately, and an exhausted    *)
(* failure is recovered by Reprocess, which a pending revision blocks.     *)
FailureVisible ==
  \A r \in Revs :
    /\ runs[r].state = "failed" /\ callbacks[r].pc = "idle"
    /\ \A w \in Workers : workers[w].rev # r
    => revs[r].status # "pending"

(* Once a document is deleted or has a newer revision, no worker, callback *)
(* or dispatch record changes the old revision, its job or its chunks.     *)
Fenced(r) == revs[r].status # "none" /\ (DocOf(r).life = "deleted" \/ DocOf(r).latest # r)

OutputFenced ==
  [][\A r \in Revs : Fenced(r) => /\ revs'[r] = revs[r] /\ jobs'[r] = jobs[r]
                                  /\ chunks'[r] = chunks[r]]_vars

(* A late or repeated dispatch result never takes a job that was accepted, *)
(* started or finished back to dispatch_pending or dispatch_failed.        *)
DispatchNeverRegresses ==
  [][\A r \in Revs : jobs[r].state \notin AwaitingDispatch \cup {"none"} =>
       jobs'[r].state \notin AwaitingDispatch]_vars

(* searchable_chunks(): the revision number search reads for a document.   *)
Searchable(d) ==
  Live(d) /\ docs[d].active # None /\ revs[docs[d].active].status = "ready"
          /\ Complete(docs[d].active)
Served(d) == IF Searchable(d) THEN revs[docs[d].active].number ELSE 0

Library == INSTANCE Corpus WITH
             MaxNumber <- Cardinality(Revs),
             life <- [d \in Docs |-> docs[d].life],
             served <- [d \in Docs |-> Served(d)]

(* While no attempt has been given up on, the library implements Corpus:   *)
(* what search can read only moves to newer complete revisions, and        *)
(* disappears only with the document.                                      *)
ServesForwardUnlessLost ==
  /\ Library!CInit
  /\ [][lost' = 0 => Library!CNext]_(Library!corpusVars)

(* Every Airflow run ends, and with its revision no longer pending.        *)
RunsSettle ==
  \A r \in Revs :
    runs[r].state = "running" ~>
      /\ runs[r].state \in {"success", "failed"}
      /\ revs[r].status # "pending"
=============================================================================
