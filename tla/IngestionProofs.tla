-------------------------- MODULE IngestionProofs ---------------------------
(***************************************************************************)
(* What holds of Ingestion for every number of documents, revisions,       *)
(* requests and workers, every retry limit and any number of lost leases.  *)
(***************************************************************************)
EXTENDS Ingestion, FiniteSetTheorems, TLAPS

----------------------------------------------------------------------------
(* The inductive invariant.                                                *)

(* A stored revision belongs to a stored document; an unused identity to   *)
(* none.                                                                   *)
RevisionsOwned ==
  \A r \in Revs :
    IF revs[r].status = "none"
    THEN revs[r].doc = None
    ELSE revs[r].doc \in Docs /\ docs[revs[r].doc].life # "absent"

(* Nothing outside the tables refers to a revision that was never stored.  *)
Stored(r) == r \in Revs /\ revs[r].status # "none"

RunsRefer ==
  /\ \A r \in posted : Stored(r)
  /\ \A r \in Revs : runs[r].state # "none" => Stored(r)
  /\ \A r \in Revs : runs[r].state = "none" => runs[r].worker = None
  /\ \A r \in Revs : callbacks[r].pc # "idle" => Stored(r)
  /\ \A w \in Workers : workers[w].pc # "idle" => Stored(workers[w].rev)

(* A request holding a new file is the only one with that document id.     *)
HandlersRefer ==
  /\ \A h \in Handlers :
       /\ handlers[h].pc \in {"saved", "get"} => handlers[h].doc \in Docs
       /\ handlers[h].pc = "saved" => /\ docs[handlers[h].doc].life = "absent"
                                      /\ handlers[h].doc \in bytes
       /\ handlers[h].pc = "get" => docs[handlers[h].doc].life # "absent"
       /\ handlers[h].pc \in {"await", "record"} => Stored(handlers[h].rev)
  /\ \A g, h \in Handlers :
       /\ handlers[g].pc = "saved" /\ handlers[h].pc = "saved"
       /\ handlers[g].doc = handlers[h].doc
       => g = h

IInv == /\ TypeOK
        /\ RevisionsOwned /\ RunsRefer /\ HandlersRefer
        /\ RowsAgree /\ PendingIsLatest /\ LatestIsNewest
        /\ SourceBytesKept
----------------------------------------------------------------------------
(* Helpers.                                                                *)

LEMMA StagesType == /\ Len(Stages) = 5
                    /\ \A i \in 1..5 : Stages[i] \in StageNames
  BY DEF Stages, StageNames

LEMMA TriesType == 1 \in Tries /\ \A n \in Tries : n <= Retries => n + 1 \in Tries
  BY ConstantsAssumption DEF Tries

(* MAX(revision_number) + 1 is a number, greater than every number the     *)
(* document has: the latest revision bounds them all.                      *)
LEMMA NextNumberGreater ==
  ASSUME IInv, NEW d \in Docs
  PROVE  /\ NextNumber(d) \in Nat
         /\ \A r \in RevisionsOf(d) : revs[r].number < NextNumber(d)
<1> DEFINE S == {0} \cup {revs[r].number : r \in RevisionsOf(d)}
<1>1. S \subseteq Nat
  BY DEF IInv, TypeOK, RevType, RevisionsOf
<1>2. \E m \in S : \A n \in S : m >= n
  <2>1. CASE RevisionsOf(d) = {}
    BY <2>1
  <2>2. CASE RevisionsOf(d) # {}
    <3>1. PICK r \in RevisionsOf(d) : TRUE
      BY <2>2
    <3>2. docs[d].latest \in RevisionsOf(d)
      BY <3>1, ConstantsAssumption DEF IInv, RevisionsOwned, LatestIsNewest, RevisionsOf, DocOf
    <3>3. \A q \in RevisionsOf(d) : revs[q].number <= revs[docs[d].latest].number
      BY ConstantsAssumption DEF IInv, TypeOK, RevType, RevisionsOwned, LatestIsNewest, RevisionsOf, DocOf
    <3> DEFINE top == revs[docs[d].latest].number
    <3>4. top \in S /\ top >= 0
      BY <1>1, <3>2
    <3>5. \A n \in S : top >= n
      <4> SUFFICES ASSUME NEW n \in S PROVE top >= n
        OBVIOUS
      <4>1. CASE n = 0
        BY <4>1, <3>4
      <4>2. CASE n # 0
        <5>1. PICK q \in RevisionsOf(d) : n = revs[q].number
          BY <4>2
        <5> QED
          BY <1>1, <3>3, <3>4, <5>1
      <4> QED
        BY <4>1, <4>2
    <3> QED
      BY <3>4, <3>5
  <2> QED
    BY <2>1, <2>2
<1>3. NextNumber(d) = 1 + Max(S)
  BY DEF NextNumber
<1>4. \A r \in RevisionsOf(d) : revs[r].number \in S
  OBVIOUS
<1> HIDE DEF S
<1>5. Max(S) \in S /\ \A n \in S : Max(S) >= n
  BY <1>2 DEF Max
<1>6. Max(S) \in Nat
  BY <1>1, <1>5
<1>7. ASSUME NEW r \in RevisionsOf(d)
      PROVE  revs[r].number < NextNumber(d)
  <2>1. revs[r].number \in Nat /\ Max(S) >= revs[r].number
    BY <1>1, <1>4, <1>5
  <2> QED
    BY <1>3, <1>6, <2>1
<1> QED
  BY <1>3, <1>6, <1>7
----------------------------------------------------------------------------
(* Type correctness.                                                       *)

LEMMA InitInv == Init => IInv
<1> SUFFICES ASSUME Init PROVE IInv
  OBVIOUS
<1>1. TypeOK
  BY ConstantsAssumption, TriesType
  DEF Init, TypeOK, DocType, RevType, JobType, HandlerType, RunType, CallbackType,
      WorkerType, WorkerPC, DocLife, DocStatus, RevStatus, JobState, ChunkState,
      NoDoc, NoRev, NoJob, NoRun, IdleHandler, IdleWorker, IdleCallback
<1>2. RevisionsOwned /\ RunsRefer /\ HandlersRefer
  BY DEF Init, RevisionsOwned, RunsRefer, HandlersRefer, NoDoc, NoRev, NoRun,
         IdleHandler, IdleWorker, IdleCallback
<1>3. RowsAgree /\ PendingIsLatest /\ LatestIsNewest /\ SourceBytesKept
  BY DEF Init, RowsAgree, PendingIsLatest, LatestIsNewest, SourceBytesKept,
         JobsOf, Live, NoDoc, NoRev, NoJob
<1> QED
  BY <1>1, <1>2, <1>3 DEF IInv

(* A table with one value replaced by another of its type. *)
LEMMA UpdateType ==
  ASSUME NEW S, NEW T, NEW f, f \in [S -> T], NEW s, NEW v, v \in T
  PROVE  [f EXCEPT ![s] = v] \in [S -> T]
  OBVIOUS

LEMMA DocValues ==
  ASSUME NEW x \in DocType
  PROVE  /\ \A r \in Revs : [x EXCEPT !.latest = r, !.status = "queued"] \in DocType
         /\ \A s \in DocStatus : [x EXCEPT !.status = s] \in DocType
         /\ \A r \in Revs : [x EXCEPT !.active = r, !.status = "processed"] \in DocType
  BY DEF DocType, DocStatus

LEMMA WorkerValues ==
  ASSUME NEW x \in WorkerType, NEW pc \in WorkerPC, NEW seen \in BOOLEAN,
         NEW arts \in SUBSET StageNames
  PROVE  [x EXCEPT !.pc = pc, !.seen = seen, !.arts = arts] \in WorkerType
  BY DEF WorkerType

(* What a request becomes is a request.                                    *)
LEMMA HandlerValues ==
  /\ IdleHandler \in HandlerType
  /\ \A d \in Docs : /\ [IdleHandler EXCEPT !.pc = "saved", !.doc = d] \in HandlerType
                     /\ [IdleHandler EXCEPT !.pc = "get", !.doc = d] \in HandlerType
                     /\ \A r \in Revs : [pc |-> "await", doc |-> d, rev |-> r,
                                         err |-> FALSE] \in HandlerType
  /\ \A x \in HandlerType : /\ [x EXCEPT !.pc = "get"] \in HandlerType
                            /\ [x EXCEPT !.pc = "record"] \in HandlerType
                            /\ [x EXCEPT !.pc = "record", !.err = TRUE] \in HandlerType
                            /\ \A r \in Revs : [x EXCEPT !.pc = "await", !.rev = r]
                                               \in HandlerType
  BY DEF IdleHandler, HandlerType

LEMMA ApiType ==
  ASSUME IInv, NEW h \in Handlers, ApiRequest(h)
  PROVE  TypeOK'
<1> USE HandlerValues DEF IInv, TypeOK, tables, airflow
<1>1. ASSUME NEW d \in Docs, SaveUpload(h, d) PROVE TypeOK'
  BY <1>1 DEF SaveUpload
<1>2. ASSUME NEW d \in Docs, RetryDispatch(h, d) PROVE TypeOK'
  <2>1. docs[d].latest \in Revs
    BY <1>2 DEF RetryDispatch, RowsAgree, RevisionsOf
  <2> QED
    BY <1>2, <2>1 DEF RetryDispatch
<1>3. ASSUME NEW d \in Docs, NEW r \in Revs, Reprocess(h, d, r) PROVE TypeOK'
  <2>1. revs' \in [Revs -> RevType]
    BY <1>3, NextNumberGreater DEF Reprocess, CreateRevision, RevType, RevStatus
  <2>2. jobs' \in [Revs -> JobType]
    BY <1>3 DEF Reprocess, CreateRevision, JobType, JobState
  <2>3. docs' \in [Docs -> DocType]
    <3>1. docs' = [docs EXCEPT ![d] = [docs[d] EXCEPT !.latest = r, !.status = "queued"]]
      BY <1>3 DEF Reprocess, NewLatest
    <3>2. [docs[d] EXCEPT !.latest = r, !.status = "queued"] \in DocType
      BY DocValues
    <3> QED
      BY <3>1, <3>2, UpdateType, Zenon
  <2> QED
    BY <1>3, <2>1, <2>2, <2>3 DEF Reprocess
<1>4. ASSUME NEW c \in Contents, NEW r \in Revs, CreateDocument(h, c, r)
      PROVE  TypeOK'
  <2>1. handlers[h].doc \in Docs
    BY <1>4 DEF CreateDocument, HandlersRefer
  <2>2. revs' \in [Revs -> RevType]
    BY <1>4, <2>1, NextNumberGreater DEF CreateDocument, CreateRevision, RevType, RevStatus
  <2>3. jobs' \in [Revs -> JobType]
    BY <1>4 DEF CreateDocument, CreateRevision, JobType, JobState
  <2>4. docs' \in [Docs -> DocType]
    BY <1>4, <2>1 DEF CreateDocument, DocType, DocStatus, DocLife
  <2>5. /\ handlers' = [handlers EXCEPT ![h] = [handlers[h] EXCEPT !.pc = "get"]]
        /\ [handlers[h] EXCEPT !.pc = "get"] \in HandlerType
    BY <1>4 DEF CreateDocument
  <2>6. handlers' \in [Handlers -> HandlerType]
    BY <2>5, UpdateType, Zenon
  <2> QED
    BY <1>4, <2>2, <2>3, <2>4, <2>6 DEF CreateDocument
<1>5. CASE RejectUpload(h)
  BY <1>5 DEF RejectUpload
<1>6. CASE GetAndDispatch(h)
  <2>1. handlers[h].doc \in Docs
    BY <1>6 DEF GetAndDispatch, HandlersRefer
  <2>2. Live(handlers[h].doc) => docs[handlers[h].doc].latest \in Revs
    BY <2>1 DEF RowsAgree, RevisionsOf
  <2>3. handlers' \in [Handlers -> HandlerType]
    <3> DEFINE sent == [handlers[h] EXCEPT !.pc = "await",
                                           !.rev = docs[handlers[h].doc].latest]
    <3>1. CASE Live(handlers[h].doc)
      <4>1. handlers' = [handlers EXCEPT ![h] = sent]
        BY <1>6, <3>1 DEF GetAndDispatch
      <4>2. sent \in HandlerType
        BY <2>2, <3>1
      <4> QED
        BY <4>1, <4>2, UpdateType, Zenon
    <3>2. CASE ~Live(handlers[h].doc)
      BY <1>6, <3>2 DEF GetAndDispatch
    <3> QED
      BY <3>1, <3>2
  <2>4. posted' \subseteq Revs
    BY <1>6, <2>2 DEF GetAndDispatch
  <2> QED
    BY <1>6, <2>3, <2>4 DEF GetAndDispatch
<1>7. CASE DispatchAccepted(h)
  <2>1. /\ handlers' = [handlers EXCEPT ![h] = [handlers[h] EXCEPT !.pc = "record"]]
        /\ [handlers[h] EXCEPT !.pc = "record"] \in HandlerType
    BY <1>7 DEF DispatchAccepted
  <2>2. handlers' \in [Handlers -> HandlerType]
    BY <2>1, UpdateType, Zenon
  <2> QED
    BY <1>7, <2>2 DEF DispatchAccepted
<1>8. CASE DispatchErrored(h)
  <2> DEFINE failed == [handlers[h] EXCEPT !.pc = "record", !.err = TRUE]
  <2>1. handlers' = [handlers EXCEPT ![h] = failed] /\ failed \in HandlerType
    BY <1>8 DEF DispatchErrored
  <2>2. handlers' \in [Handlers -> HandlerType]
    BY <2>1, UpdateType, Zenon
  <2> QED
    BY <1>8, <2>2 DEF DispatchErrored
<1>9. CASE RecordDispatch(h)
  <2>1. CASE DispatchChanges(handlers[h].rev, handlers[h].err)
    <3>0. PICK state \in JobState, status \in DocStatus :
            /\ jobs' = [jobs EXCEPT ![handlers[h].rev].state = state]
            /\ docs' = [d \in Docs |->
                          IF Live(d) /\ docs[d].latest = handlers[h].rev
                          THEN [docs[d] EXCEPT !.status = status] ELSE docs[d]]
      <4>1. CASE handlers[h].err
        BY <1>9, <2>1, <4>1 DEF RecordDispatch, JobState, DocStatus
      <4>2. CASE ~handlers[h].err
        BY <1>9, <2>1, <4>2 DEF RecordDispatch, JobState, DocStatus
      <4> QED
        BY <4>1, <4>2
    <3>1. jobs' \in [Revs -> JobType]
      BY <3>0 DEF JobType
    <3>2. docs' \in [Docs -> DocType]
      <4>1. \A d \in Docs : [docs[d] EXCEPT !.status = status] \in DocType
        BY DocValues
      <4>2. \A d \in Docs : docs'[d] \in DocType
        BY <3>0, <4>1
      <4> QED
        BY <3>0, <4>2, Zenon
    <3> QED
      BY <1>9, <3>1, <3>2 DEF RecordDispatch
  <2>2. CASE ~DispatchChanges(handlers[h].rev, handlers[h].err)
    BY <1>9, <2>2 DEF RecordDispatch
  <2> QED
    BY <2>1, <2>2
<1>10. CASE AbandonRequest(h)
  BY <1>10 DEF AbandonRequest, BytesAfterUnknown
<1> QED
  BY <1>1, <1>2, <1>3, <1>4, <1>5, <1>6, <1>7, <1>8, <1>9, <1>10 DEF ApiRequest

LEMMA DeleteType ==
  ASSUME IInv, NEW d \in Docs, DeleteDocument(d)
  PROVE  TypeOK'
<1> USE DEF IInv, TypeOK
<1>1. docs' \in [Docs -> DocType]
  <2>1. docs' = [docs EXCEPT ![d] = [docs[d] EXCEPT !.life = "deleted"]]
    BY DEF DeleteDocument
  <2>2. [docs[d] EXCEPT !.life = "deleted"] \in DocType
    BY DEF DocType, DocLife
  <2> QED
    BY <2>1, <2>2
<1>2. jobs' \in [Revs -> JobType]
  BY ZenonT(40) DEF DeleteDocument, JobType, JobState
<1>3. revs' \in [Revs -> RevType]
  BY DEF DeleteDocument, RevType, RevStatus
<1> QED
  BY <1>1, <1>2, <1>3 DEF DeleteDocument, airflow

(* A status change of a stored revision keeps the tables' types.           *)
LEMMA SetStatusType ==
  ASSUME IInv, NEW r, Stored(r), NEW rev \in RevStatus, NEW job \in JobState,
         NEW doc \in DocStatus, SetStatus(r, rev, job, doc)
  PROVE  /\ docs' \in [Docs -> DocType]
         /\ revs' \in [Revs -> RevType]
         /\ jobs' \in [Revs -> JobType]
<1> USE DEF IInv, TypeOK, Stored, SetStatus
<1>1. docs' \in [Docs -> DocType]
  <2> DEFINE d == revs[r].doc
  <2>1. docs' = [docs EXCEPT ![d] = [docs[d] EXCEPT !.status = doc]]
    OBVIOUS
  <2>2. \A e \in Docs : [docs[e] EXCEPT !.status = doc] \in DocType
    BY DocValues
  <2>3. docs \in [Docs -> DocType]
    OBVIOUS
  <2> HIDE DEF d
  <2> QED
    BY ONLY <2>1, <2>2, <2>3
<1>2. revs' \in [Revs -> RevType]
  BY DEF RevType
<1>3. jobs' \in [Revs -> JobType]
  BY DEF JobType
<1> QED
  BY <1>1, <1>2, <1>3

LEMMA MarkFailedType ==
  ASSUME IInv, NEW r, Stored(r), NEW seen, MarkFailed(r, seen)
  PROVE  /\ docs' \in [Docs -> DocType] /\ revs' \in [Revs -> RevType]
         /\ jobs' \in [Revs -> JobType] /\ chunks' = chunks
<1>1. CASE Inactive(r, seen)
  BY <1>1 DEF MarkFailed, IInv, TypeOK, tables
<1>2. CASE ~Inactive(r, seen)
  BY <1>2, SetStatusType DEF MarkFailed, RevStatus, JobState, DocStatus
<1> QED
  BY <1>1, <1>2

LEMMA WorkerStage ==
  ASSUME IInv, NEW w \in Workers
  PROVE  StageOf(w) \in StageNames
  BY StagesType DEF IInv, TypeOK, WorkerType, StageOf

(* A worker that only moves to another step is still a worker.             *)
LEMMA GotoType ==
  ASSUME IInv, NEW w \in Workers, NEW pc \in WorkerPC, Goto(w, pc)
  PROVE  workers' \in [Workers -> WorkerType]
  BY DEF IInv, TypeOK, WorkerType, Goto

LEMMA TakeSnapshotType ==
  ASSUME IInv, NEW w \in Workers, NEW pc \in WorkerPC, TakeSnapshot(w, pc)
  PROVE  workers' \in [Workers -> WorkerType]
<1>1. SettledRow(workers[w].rev) \in BOOLEAN
  BY DEF SettledRow
<1>2. workers \in [Workers -> WorkerType]
  BY DEF IInv, TypeOK
<1> QED
  BY <1>1, <1>2, ZenonT(40) DEF WorkerType, TakeSnapshot

LEMMA RunStageType ==
  ASSUME IInv, NEW w \in Workers, RunStage(w)
  PROVE  TypeOK'
<1> USE GotoType, TakeSnapshotType DEF IInv, TypeOK, WorkerPC, tables, airflow
<1>0. workers[w].pc # "idle" => Stored(workers[w].rev)
  BY DEF RunsRefer
<1>1. CASE AcquireLock(w)
  BY <1>1 DEF AcquireLock
<1>2. CASE ReadJob(w)
  <2>1. jobs[workers[w].rev].artifacts \in SUBSET StageNames
    BY <1>0, <1>2 DEF ReadJob, Stored, JobType
  <2>2. SettledRow(workers[w].rev) \in BOOLEAN
    BY DEF SettledRow
  <2> DEFINE opened == [workers[w] EXCEPT
                          !.pc = "open", !.seen = SettledRow(workers[w].rev),
                          !.arts = jobs[workers[w].rev].artifacts]
  <2>3. workers' \in [Workers -> WorkerType]
    <3>1. workers' = [workers EXCEPT ![w] = opened]
      BY <1>2 DEF ReadJob
    <3>2. opened \in WorkerType
      BY <2>1, <2>2, WorkerValues
    <3> QED
      BY <3>1, <3>2, UpdateType, Zenon
  <2> QED
    BY <1>2, <2>3 DEF ReadJob
<1>3. CASE OpenStage(w)
  <2>1. CASE Inactive(workers[w].rev, workers[w].seen)
    BY <1>3, <2>1 DEF OpenStage
  <2>2. CASE ~Inactive(workers[w].rev, workers[w].seen)
    <3>1. SetStatus(workers[w].rev, "pending", "processing", "processing")
      BY <1>3, <2>2 DEF OpenStage
    <3>2. /\ docs' \in [Docs -> DocType] /\ revs' \in [Revs -> RevType]
          /\ jobs' \in [Revs -> JobType]
      BY <1>0, <1>3, <3>1, SetStatusType DEF OpenStage, RevStatus, JobState, DocStatus
    <3> QED
      BY <1>3, <2>2, <3>2 DEF OpenStage
  <2> QED
    BY <2>1, <2>2
<1>4. CASE Compute(w)
  BY <1>4 DEF Compute
<1>5. CASE RereadJob(w)
  BY <1>5, TakeSnapshotType DEF RereadJob
<1>6. CASE DiscardOutput(w)
  BY <1>6 DEF DiscardOutput
<1>7. CASE StoreOutput(w)
  <2>1. ChunkRows(workers[w].rev, StageOf(w)) \in ChunkState
    BY <1>0, <1>7 DEF StoreOutput, ChunkRows, ChunkState, Stored
  <2>2. Handoff(workers[w].rev, StageOf(w)) \in SUBSET StageNames
    BY <1>0, <1>7, WorkerStage DEF StoreOutput, Handoff, Stored, JobType
  <2>3. jobs' \in [Revs -> JobType]
    BY <1>7, <2>2 DEF StoreOutput, JobType
  <2>4. chunks' \in [Revs -> ChunkState]
    BY <1>7, <2>1 DEF StoreOutput
  <2> QED
    BY <1>7, <2>3, <2>4 DEF StoreOutput
<1>8. CASE Publish(w)
  <2> DEFINE r == workers[w].rev
             d == revs[r].doc
  <2>1. docs' \in [Docs -> DocType]
    <3>1. docs' = [docs EXCEPT ![d] = [docs[d] EXCEPT !.active = r, !.status = "processed"]]
      BY <1>8 DEF Publish
    <3>2. r \in Revs
      BY <1>0, <1>8 DEF Publish, Stored
    <3> HIDE DEF r
    <3>3. \A e \in Docs : [docs[e] EXCEPT !.active = r, !.status = "processed"] \in DocType
      BY <3>2, DocValues
    <3> HIDE DEF d
    <3> QED
      BY <3>1, <3>3
  <2>2. revs' \in [Revs -> RevType] /\ jobs' \in [Revs -> JobType]
    <3>1. /\ revs' = [revs EXCEPT ![r] = [revs[r] EXCEPT !.status = "ready"]]
          /\ jobs' = [jobs EXCEPT ![r] = [state |-> "succeeded", artifacts |-> {}]]
      BY <1>8 DEF Publish
    <3> HIDE DEF r, d
    <3>2. \A q \in Revs : [revs[q] EXCEPT !.status = "ready"] \in RevType
      BY DEF RevType, RevStatus
    <3>3. [state |-> "succeeded", artifacts |-> {}] \in JobType
      BY DEF JobType, JobState
    <3> QED
      BY <3>1, <3>2, <3>3
  <2> QED
    BY <1>8, <2>1, <2>2 DEF Publish
<1>9. CASE StageRaises(w)
  BY <1>9 DEF StageRaises
<1>10. CASE FailRead(w)
  BY <1>10, TakeSnapshotType DEF FailRead
<1>11. CASE FailStage(w)
  <2>1. /\ docs' \in [Docs -> DocType] /\ revs' \in [Revs -> RevType]
        /\ jobs' \in [Revs -> JobType] /\ chunks' = chunks
    BY <1>0, <1>11, MarkFailedType DEF FailStage
  <2> QED
    BY <1>11, <2>1 DEF FailStage
<1> QED
  BY <1>1, <1>2, <1>3, <1>4, <1>5, <1>6, <1>7, <1>8, <1>9, <1>10, <1>11
  DEF RunStage

(* What a run becomes is a run. *)
LEMMA RunValues ==
  ASSUME NEW x \in RunType
  PROVE  /\ [x EXCEPT !.state = "running"] \in RunType
         /\ \A w \in Workers : [x EXCEPT !.worker = w] \in RunType
         /\ [x EXCEPT !.state = "running", !.try = 1] \in RunType
         /\ [x EXCEPT !.state = "success", !.worker = None] \in RunType
         /\ [x EXCEPT !.state = "failed", !.worker = None] \in RunType
         /\ \A n \in Tries : [x EXCEPT !.try = n, !.worker = None] \in RunType
         /\ \A n \in 1..5 : [x EXCEPT !.stage = n, !.try = 1, !.worker = None] \in RunType
  BY TriesType DEF RunType

(* What Airflow makes of a failed or a finished attempt.                   *)
LEMMA AttemptTypes ==
  ASSUME IInv, NEW r \in Revs
  PROVE  /\ AttemptSucceeded(r) => /\ runs' \in [Revs -> RunType]
                                   /\ callbacks' \in [Revs -> CallbackType]
         /\ AttemptFailed(r) => /\ runs' \in [Revs -> RunType]
                                /\ callbacks' \in [Revs -> CallbackType]
<1>0. /\ runs \in [Revs -> RunType] /\ runs[r] \in RunType
      /\ callbacks \in [Revs -> CallbackType]
  BY DEF IInv, TypeOK
<1>1. AttemptSucceeded(r) => runs' \in [Revs -> RunType]
  <2> DEFINE ended == [runs[r] EXCEPT !.state = "success", !.worker = None]
             next == [runs[r] EXCEPT !.stage = runs[r].stage + 1, !.try = 1,
                                     !.worker = None]
  <2>1. ended \in RunType
    BY <1>0, RunValues
  <2>2. runs[r].stage # Len(Stages) => next \in RunType
    <3>1. runs[r].stage # Len(Stages) => runs[r].stage + 1 \in 1..5
      BY <1>0, StagesType DEF RunType
    <3> QED
      BY <1>0, <3>1, RunValues
  <2>3. AttemptSucceeded(r) =>
          runs' = [runs EXCEPT ![r] = IF runs[r].stage = Len(Stages) THEN ended ELSE next]
    BY DEF AttemptSucceeded
  <2> HIDE DEF ended, next
  <2>4. (IF runs[r].stage = Len(Stages) THEN ended ELSE next) \in RunType
    BY <2>1, <2>2
  <2> QED
    BY <1>0, <2>3, <2>4, UpdateType, Zenon
<1>2. AttemptFailed(r) => runs' \in [Revs -> RunType]
  <2> DEFINE again == [runs[r] EXCEPT !.try = runs[r].try + 1, !.worker = None]
             ended == [runs[r] EXCEPT !.state = "failed", !.worker = None]
  <2>1. ended \in RunType
    BY <1>0, RunValues
  <2>2. TriesLeft(r) => again \in RunType
    <3>1. TriesLeft(r) => runs[r].try + 1 \in Tries
      BY <1>0, TriesType DEF RunType, TriesLeft
    <3> QED
      BY <1>0, <3>1, RunValues
  <2>3. AttemptFailed(r) =>
          runs' = [runs EXCEPT ![r] = IF TriesLeft(r) THEN again ELSE ended]
    BY DEF AttemptFailed
  <2> HIDE DEF again, ended
  <2>4. (IF TriesLeft(r) THEN again ELSE ended) \in RunType
    BY <2>1, <2>2
  <2> QED
    BY <1>0, <2>3, <2>4, UpdateType, Zenon
<1>3. AttemptFailed(r) => callbacks' \in [Revs -> CallbackType]
  <2> DEFINE check == [pc |-> "check", seen |-> FALSE]
  <2>1. check \in CallbackType
    BY DEF CallbackType
  <2>2. AttemptFailed(r) =>
          callbacks' = callbacks \/ callbacks' = [callbacks EXCEPT ![r] = check]
    BY DEF AttemptFailed
  <2> QED
    BY <1>0, <2>1, <2>2, UpdateType, Zenon
<1> QED
  BY <1>0, <1>1, <1>2, <1>3 DEF AttemptSucceeded

LEMMA IdleWorkerType == IdleWorker \in WorkerType
  BY DEF IdleWorker, WorkerType, WorkerPC

LEMMA AirflowType ==
  ASSUME IInv
  PROVE  /\ \A r \in Revs : CreateDagRun(r) => TypeOK'
         /\ \A r \in Revs : AttemptLost(r) => TypeOK'
         /\ \A r \in Revs : ClearTask(r) => TypeOK'
         /\ \A r \in Revs, w \in Workers : StartAttempt(r, w) => TypeOK'
         /\ \A w \in Workers : ReportSuccess(w) => TypeOK'
         /\ \A w \in Workers : ReportFailure(w) => TypeOK'
         /\ \A w \in Workers : AttemptDies(w) => TypeOK'
<1> USE ConstantsAssumption, AttemptTypes, IdleWorkerType
    DEF IInv, TypeOK, tables, airflow
<1>1. ASSUME NEW r \in Revs, CreateDagRun(r) PROVE TypeOK'
  BY <1>1 DEF CreateDagRun, RunType
<1>2. ASSUME NEW r \in Revs, AttemptLost(r) PROVE TypeOK'
  BY <1>2 DEF AttemptLost
<1>3. ASSUME NEW r \in Revs, ClearTask(r) PROVE TypeOK'
  <2> DEFINE again == [runs[r] EXCEPT !.state = "running", !.try = 1]
  <2>1. runs' = [runs EXCEPT ![r] = again] /\ again \in RunType
    BY <1>3, RunValues DEF ClearTask
  <2>2. runs' \in [Revs -> RunType]
    BY <2>1, UpdateType, Zenon
  <2> QED
    BY <1>3, <2>2 DEF ClearTask
<1>4. ASSUME NEW r \in Revs, NEW w \in Workers, StartAttempt(r, w) PROVE TypeOK'
  <2>1. runs' \in [Revs -> RunType]
    <3>1. runs' = [runs EXCEPT ![r] = [runs[r] EXCEPT !.worker = w]]
      BY <1>4 DEF StartAttempt
    <3>2. [runs[r] EXCEPT !.worker = w] \in RunType
      BY RunValues
    <3> QED
      BY <3>1, <3>2, UpdateType, Zenon
  <2> DEFINE started == [IdleWorker EXCEPT !.pc = "lock", !.rev = r,
                                           !.stage = runs[r].stage]
  <2>2. workers' \in [Workers -> WorkerType]
    <3>1. workers' = [workers EXCEPT ![w] = started]
      BY <1>4 DEF StartAttempt
    <3>2. runs[r].stage \in 1..5
      BY DEF RunType
    <3>3. started \in WorkerType
      BY <3>2 DEF IdleWorker, WorkerType, WorkerPC
    <3> QED
      BY <3>1, <3>3, UpdateType, Zenon
  <2> QED
    BY <1>4, <2>1, <2>2 DEF StartAttempt
<1>5. ASSUME NEW w \in Workers, ReportSuccess(w) PROVE TypeOK'
  <2>1. workers[w].rev \in Revs
    BY <1>5 DEF ReportSuccess, RunsRefer, Stored
  <2> QED
    BY <1>5, <2>1 DEF ReportSuccess
<1>6. ASSUME NEW w \in Workers, ReportFailure(w) PROVE TypeOK'
  <2>1. workers[w].rev \in Revs
    BY <1>6 DEF ReportFailure, RunsRefer, Stored
  <2> QED
    BY <1>6, <2>1 DEF ReportFailure
<1>7. ASSUME NEW w \in Workers, AttemptDies(w) PROVE TypeOK'
  BY <1>7 DEF AttemptDies
<1> QED
  BY <1>1, <1>2, <1>3, <1>4, <1>5, <1>6, <1>7

LEMMA CallbackTypes ==
  ASSUME IInv, NEW r \in Revs, TaskFailure(r) \/ CallbackDies(r)
  PROVE  TypeOK'
<1> USE DEF IInv, TypeOK, tables
<1>1. CASE CallbackCheck(r)
  BY <1>1 DEF CallbackCheck, CallbackType
<1>2. CASE CallbackRead(r)
  BY <1>2 DEF CallbackRead, SettledRow, CallbackType
<1>3. CASE CallbackMark(r)
  <2>1. Stored(r)
    BY <1>3 DEF CallbackMark, RunsRefer
  <2>2. /\ docs' \in [Docs -> DocType] /\ revs' \in [Revs -> RevType]
        /\ jobs' \in [Revs -> JobType] /\ chunks' = chunks
    BY <1>3, <2>1, MarkFailedType DEF CallbackMark
  <2> QED
    BY <1>3, <2>2 DEF CallbackMark, CallbackType, IdleCallback
<1>4. CASE CallbackDies(r)
  BY <1>4 DEF CallbackDies, CallbackType, IdleCallback
<1> QED
  BY <1>1, <1>2, <1>3, <1>4 DEF TaskFailure

LEMMA TypeStep == IInv /\ [Next]_vars => TypeOK'
<1> SUFFICES ASSUME IInv, [Next]_vars PROVE TypeOK'
  OBVIOUS
<1>1. CASE UNCHANGED vars
  BY <1>1 DEF IInv, TypeOK, vars
<1>2. CASE Next
  BY <1>2, ApiType, RunStageType, AirflowType, CallbackTypes, DeleteType DEF Next
<1> QED
  BY <1>1, <1>2
----------------------------------------------------------------------------
(* The rows.  Every action that writes documents, revisions or jobs makes  *)
(* one of three changes: a new revision, new statuses for the latest       *)
(* revision of a live document, or a deletion.                             *)

RowsInv == RevisionsOwned /\ RowsAgree /\ PendingIsLatest /\ LatestIsNewest

LEMMA RowsUnchanged ==
  ASSUME IInv, docs' = docs, revs' = revs,
         \A q \in Revs : jobs'[q].state = jobs[q].state
  PROVE  RowsInv'
<1> USE DEF IInv
<1>1. RevisionsOwned'
  BY DEF RevisionsOwned
<1>2. RowsAgree'
  BY DEF RowsAgree, RevisionsOf, Live
<1>3. PendingIsLatest'
  BY DEF PendingIsLatest, DocOf
<1>4. LatestIsNewest'
  BY DEF LatestIsNewest, DocOf, RevisionsOf
<1> QED
  BY <1>1, <1>2, <1>3, <1>4 DEF RowsInv

(* A new revision: its number is above every earlier one, and no revision  *)
(* of the document is pending beside it.                                   *)
LEMMA RowsCreated ==
  ASSUME IInv, NEW d \in Docs, NEW r \in Revs, CreateRevision(d, r),
         PendingOf(d) = {},
         docs'[d].life = "live", docs'[d].latest = r, docs'[d].status = "queued",
         \A e \in Docs \ {d} : docs'[e] = docs[e]
  PROVE  RowsInv'
<1> USE DEF IInv
<1>1. /\ revs[r].status = "none" /\ revs[r].doc = None
      /\ revs'[r].doc = d /\ revs'[r].number = NextNumber(d)
      /\ revs'[r].status = "pending" /\ jobs'[r].state = "dispatch_pending"
      /\ \A q \in Revs \ {r} : revs'[q] = revs[q] /\ jobs'[q] = jobs[q]
  BY DEF CreateRevision, TypeOK, RevisionsOwned
<1>2. \A q \in Revs : revs[q].status # "none" => revs[q].doc \in Docs /\ revs[q].doc # None
  BY ConstantsAssumption DEF RevisionsOwned
<1>3. RevisionsOwned'
  BY <1>1, <1>2 DEF RevisionsOwned
<1>4. RowsAgree'
  <2>1. \A q \in Revs : jobs'[q].state \in JobsOf(revs'[q].status)
    <3>1. "dispatch_pending" \in JobsOf("pending")
      BY DEF JobsOf, AwaitingDispatch
    <3> QED
      BY <1>1, <3>1 DEF RowsAgree
  <2>2. ASSUME NEW e \in Docs, Live(e)'
        PROVE  docs'[e].latest \in RevisionsOf(e)'
               /\ docs'[e].status = StatusOf(jobs'[docs'[e].latest].state)
    <3>1. CASE e = d
      BY <1>1, <3>1 DEF RevisionsOf, StatusOf
    <3>2. CASE e # d
      <4>1. docs'[e] = docs[e] /\ docs[e].latest \in Revs
            /\ revs[docs[e].latest].doc = e /\ docs[e].status = StatusOf(jobs[docs[e].latest].state)
        BY <2>2, <3>2 DEF RowsAgree, Live, RevisionsOf
      <4>2. docs[e].latest # r
        BY <1>1, <4>1, ConstantsAssumption
      <4> QED
        BY <1>1, <4>1, <4>2 DEF RevisionsOf
    <3> QED
      BY <3>1, <3>2
  <2> QED
    BY <2>1, <2>2 DEF RowsAgree
<1>5. PendingIsLatest'
  <2> SUFFICES ASSUME NEW q \in Revs, revs'[q].status = "pending"
               PROVE  docs'[revs'[q].doc].life = "live" /\ docs'[revs'[q].doc].latest = q
    BY DEF PendingIsLatest, DocOf
  <2>1. CASE q = r
    BY <1>1, <2>1
  <2>2. CASE q # r
    <3>1. revs'[q] = revs[q] /\ revs[q].doc \in Docs /\ revs[q].doc # d
      BY <1>1, <1>2, <2>2 DEF PendingOf, RevisionsOf
    <3> QED
      BY <3>1 DEF PendingIsLatest, DocOf
  <2> QED
    BY <2>1, <2>2
<1>6. LatestIsNewest'
  <2> SUFFICES ASSUME NEW q \in Revs, revs'[q].status # "none"
               PROVE  LET m == docs'[revs'[q].doc].latest IN
                      /\ m \in Revs /\ revs'[m].doc = revs'[q].doc
                      /\ q # m => revs'[q].number < revs'[m].number
    BY DEF LatestIsNewest, DocOf, RevisionsOf
  <2>1. CASE revs'[q].doc = d
    <3>1. q # r => q \in RevisionsOf(d)
      BY <1>1, <2>1 DEF RevisionsOf
    <3>2. q # r => revs'[q].number < revs'[r].number
      BY <1>1, <3>1, NextNumberGreater
    <3> QED
      BY <1>1, <2>1, <3>2
  <2>2. CASE revs'[q].doc # d
    <3>1. /\ revs'[q] = revs[q] /\ revs[q].doc \in Docs
          /\ docs'[revs[q].doc] = docs[revs[q].doc]
      BY <1>1, <1>2, <2>2
    <3>2. LET m == docs[revs[q].doc].latest IN
          /\ m \in Revs /\ revs[m].doc = revs[q].doc
          /\ q # m => revs[q].number < revs[m].number
      BY <3>1 DEF LatestIsNewest, DocOf, RevisionsOf
    <3>3. docs[revs[q].doc].latest # r
      BY <1>1, <1>2, <3>1, <3>2
    <3> QED
      BY <1>1, <3>1, <3>2, <3>3
  <2> QED
    BY <2>1, <2>2
<1> QED
  BY <1>3, <1>4, <1>5, <1>6 DEF RowsInv

(* New statuses, together, for the latest revision of a live document.     *)
LEMMA RowsMarked ==
  ASSUME IInv, NEW r, Stored(r), DocOf(r).life = "live", DocOf(r).latest = r,
         NEW rev, NEW job, rev # "none", job \in JobsOf(rev),
         \A q \in Revs : /\ revs'[q].doc = revs[q].doc
                         /\ revs'[q].number = revs[q].number
                         /\ revs'[q].status = IF q = r THEN rev ELSE revs[q].status
                         /\ jobs'[q].state = IF q = r THEN job ELSE jobs[q].state,
         \A d \in Docs : /\ docs'[d].life = docs[d].life
                         /\ docs'[d].latest = docs[d].latest
                         /\ docs'[d].status = IF d = revs[r].doc THEN StatusOf(job)
                                                                ELSE docs[d].status
  PROVE  RowsInv'
<1> USE DEF IInv
<1>1. r \in Revs /\ \A q \in Revs : revs[q].status # "none" => revs[q].doc \in Docs
  BY DEF Stored, RevisionsOwned
<1>2. RevisionsOwned'
  BY <1>1 DEF RevisionsOwned, Stored
<1>3. RowsAgree'
  <2>1. \A q \in Revs : jobs'[q].state \in JobsOf(revs'[q].status)
    BY <1>1 DEF RowsAgree
  <2>2. ASSUME NEW e \in Docs, Live(e)'
        PROVE  docs'[e].latest \in RevisionsOf(e)'
               /\ docs'[e].status = StatusOf(jobs'[docs'[e].latest].state)
    <3>1. docs[e].latest \in Revs /\ revs[docs[e].latest].doc = e
          /\ docs[e].status = StatusOf(jobs[docs[e].latest].state)
      BY <2>2 DEF RowsAgree, Live, RevisionsOf
    <3>2. e = revs[r].doc <=> docs[e].latest = r
      BY <3>1 DEF DocOf
    <3> QED
      BY <3>1, <3>2 DEF RevisionsOf
  <2> QED
    BY <2>1, <2>2 DEF RowsAgree
<1>4. PendingIsLatest'
  <2> SUFFICES ASSUME NEW q \in Revs, revs'[q].status = "pending"
               PROVE  docs'[revs'[q].doc].life = "live" /\ docs'[revs'[q].doc].latest = q
    BY DEF PendingIsLatest, DocOf
  <2>1. CASE q = r
    BY <1>1, <2>1 DEF DocOf, Stored
  <2>2. CASE q # r
    BY <1>1, <2>2 DEF PendingIsLatest, DocOf
  <2> QED
    BY <2>1, <2>2
<1>5. LatestIsNewest'
  <2> SUFFICES ASSUME NEW q \in Revs, revs'[q].status # "none"
               PROVE  LET m == docs'[revs'[q].doc].latest IN
                      /\ m \in Revs /\ revs'[m].doc = revs'[q].doc
                      /\ q # m => revs'[q].number < revs'[m].number
    BY DEF LatestIsNewest, DocOf, RevisionsOf
  <2>1. revs[q].status # "none"
    BY DEF Stored
  <2>2. LET m == docs[revs[q].doc].latest IN
        /\ m \in Revs /\ revs[m].doc = revs[q].doc
        /\ q # m => revs[q].number < revs[m].number
    BY <2>1 DEF LatestIsNewest, DocOf, RevisionsOf
  <2> QED
    BY <1>1, <2>1, <2>2
<1> QED
  BY <1>2, <1>3, <1>4, <1>5 DEF RowsInv

(* A deletion: the pending revision fails with its cancelled job.          *)
LEMMA RowsDeleted ==
  ASSUME IInv, NEW d \in Docs, DeleteDocument(d)
  PROVE  RowsInv'
<1> USE DEF IInv
<1>1. \A q \in Revs :
        /\ revs'[q].doc = revs[q].doc /\ revs'[q].number = revs[q].number
        /\ revs'[q].status = IF revs[q].doc = d /\ revs[q].status = "pending"
                             THEN "failed" ELSE revs[q].status
        /\ jobs'[q].state = IF revs[q].doc = d /\ jobs[q].state \notin FinishedJob
                            THEN "cancelled" ELSE jobs[q].state
  BY DEF DeleteDocument, TypeOK, RevType, JobType
<1>2. \A e \in Docs : /\ docs'[e].latest = docs[e].latest
                      /\ docs'[e].status = docs[e].status
                      /\ docs'[e].life = IF e = d THEN "deleted" ELSE docs[e].life
  BY DEF DeleteDocument, TypeOK, DocType
<1>3. \A q \in Revs : revs[q].status # "none" => revs[q].doc \in Docs
  BY DEF RevisionsOwned
<1>4. RevisionsOwned'
  BY <1>1, <1>2 DEF RevisionsOwned
<1>5. RowsAgree'
  <2>1. ASSUME NEW q \in Revs PROVE jobs'[q].state \in JobsOf(revs'[q].status)
    <3>1. revs[q].status \in RevStatus /\ jobs[q].state \in JobsOf(revs[q].status)
      BY DEF TypeOK, RevType, RowsAgree
    <3>2. revs[q].status = "none" => revs[q].doc # d
      BY ConstantsAssumption DEF RevisionsOwned
    <3> QED
      BY <1>1, <3>1, <3>2 DEF JobsOf, FinishedJob, AwaitingDispatch, RevStatus
  <2>2. ASSUME NEW e \in Docs, Live(e)'
        PROVE  docs'[e].latest \in RevisionsOf(e)'
               /\ docs'[e].status = StatusOf(jobs'[docs'[e].latest].state)
    <3>1. e # d /\ Live(e)
      BY <1>2, <2>2 DEF Live
    <3>2. docs[e].latest \in Revs /\ revs[docs[e].latest].doc = e
          /\ docs[e].status = StatusOf(jobs[docs[e].latest].state)
      BY <3>1 DEF RowsAgree, RevisionsOf
    <3> QED
      BY <1>1, <1>2, <3>1, <3>2 DEF RevisionsOf
  <2> QED
    BY <2>1, <2>2 DEF RowsAgree
<1>6. PendingIsLatest'
  BY <1>1, <1>2, <1>3 DEF PendingIsLatest, DocOf
<1>7. LatestIsNewest'
  BY <1>1, <1>2, <1>3 DEF LatestIsNewest, DocOf, RevisionsOf
<1> QED
  BY <1>4, <1>5, <1>6, <1>7 DEF RowsInv

(* ... and a revision it may not change is left alone; one it may change   *)
(* is the latest revision of a live document.                              *)
LEMMA ActiveIsLatest ==
  ASSUME IInv, NEW r, Stored(r), NEW seen, ~Inactive(r, seen)
  PROVE  DocOf(r).life = "live" /\ DocOf(r).latest = r
  BY DEF IInv, TypeOK, DocType, DocLife, Inactive, Stored, RevisionsOwned, DocOf

LEMMA RowsSetStatus ==
  ASSUME IInv, NEW r, Stored(r), NEW seen, ~Inactive(r, seen),
         NEW rev, NEW job, rev # "none", job \in JobsOf(rev),
         SetStatus(r, rev, job, StatusOf(job))
  PROVE  RowsInv'
<1>1. DocOf(r).life = "live" /\ DocOf(r).latest = r
  BY ActiveIsLatest
<1>2. \A q \in Revs : /\ revs'[q].doc = revs[q].doc
                      /\ revs'[q].number = revs[q].number
                      /\ revs'[q].status = IF q = r THEN rev ELSE revs[q].status
                      /\ jobs'[q].state = IF q = r THEN job ELSE jobs[q].state
  BY DEF SetStatus, IInv, TypeOK, RevType, JobType
<1>3. \A d \in Docs : /\ docs'[d].life = docs[d].life
                      /\ docs'[d].latest = docs[d].latest
                      /\ docs'[d].status = IF d = revs[r].doc THEN StatusOf(job)
                                                             ELSE docs[d].status
  BY DEF SetStatus, IInv, TypeOK, DocType
<1> QED
  BY <1>1, <1>2, <1>3, RowsMarked

LEMMA RowsMarkFailed ==
  ASSUME IInv, NEW r, Stored(r), NEW seen, MarkFailed(r, seen)
  PROVE  RowsInv'
<1>1. CASE Inactive(r, seen)
  BY <1>1, RowsUnchanged DEF MarkFailed, tables
<1>2. CASE ~Inactive(r, seen)
  <2>1. "failed" \in JobsOf("failed") /\ StatusOf("failed") = "failed"
    BY DEF JobsOf, StatusOf
  <2> QED
    BY <1>2, <2>1, RowsSetStatus DEF MarkFailed
<1> QED
  BY <1>1, <1>2

LEMMA RowsApi ==
  ASSUME IInv, NEW h \in Handlers, ApiRequest(h)
  PROVE  RowsInv'
<1>1. ASSUME NEW d \in Docs, NEW r \in Revs, Reprocess(h, d, r) PROVE RowsInv'
  <2>1. /\ docs'[d].life = "live" /\ docs'[d].latest = r /\ docs'[d].status = "queued"
        /\ \A e \in Docs \ {d} : docs'[e] = docs[e]
    BY <1>1 DEF Reprocess, NewLatest, Live, IInv, TypeOK, DocType
  <2> QED
    BY <1>1, <2>1, RowsCreated DEF Reprocess
<1>2. ASSUME NEW c \in Contents, NEW r \in Revs, CreateDocument(h, c, r)
      PROVE  RowsInv'
  <2> DEFINE d == handlers[h].doc
  <2>1. d \in Docs /\ docs[d].life = "absent"
    BY <1>2 DEF CreateDocument, IInv, HandlersRefer
  <2>2. PendingOf(d) = {}
    BY <2>1, ConstantsAssumption DEF PendingOf, RevisionsOf, IInv, RevisionsOwned
  <2>3. /\ docs'[d].life = "live" /\ docs'[d].latest = r /\ docs'[d].status = "queued"
        /\ \A e \in Docs \ {d} : docs'[e] = docs[e]
    BY <1>2, <2>1 DEF CreateDocument, IInv, TypeOK
  <2>4. CreateRevision(d, r)
    BY <1>2 DEF CreateDocument
  <2> HIDE DEF d
  <2> QED
    BY <2>1, <2>2, <2>3, <2>4, RowsCreated
<1>3. CASE RecordDispatch(h)
  <2> DEFINE r == handlers[h].rev
             job == IF handlers[h].err THEN "dispatch_failed" ELSE "queued"
  <2>1. CASE ~DispatchChanges(r, handlers[h].err)
    BY <1>3, <2>1, RowsUnchanged DEF RecordDispatch
  <2>2. CASE DispatchChanges(r, handlers[h].err)
    <3>1. Stored(r) /\ r \in Revs
      BY <1>3 DEF RecordDispatch, IInv, HandlersRefer, Stored
    <3>2. revs[r].status = "pending"
      BY <2>2, <3>1 DEF DispatchChanges, AwaitingDispatch, IInv, TypeOK, RevType,
                       RevStatus, RowsAgree, JobsOf
    <3>3. DocOf(r).life = "live" /\ DocOf(r).latest = r
      BY <3>1, <3>2 DEF IInv, PendingIsLatest
    <3>4. job \in JobsOf("pending")
      BY DEF JobsOf, AwaitingDispatch
    <3>5. revs' = revs /\ \A q \in Revs : jobs'[q].state = IF q = r THEN job ELSE jobs[q].state
      BY <1>3, <2>2 DEF RecordDispatch, IInv, TypeOK, JobType
    <3>6. \A d \in Docs : Live(d) /\ docs[d].latest = r <=> d = revs[r].doc
      BY <3>1, <3>3 DEF IInv, RowsAgree, RevisionsOf, Live, DocOf, RevisionsOwned, Stored
    <3>7. \A d \in Docs : /\ docs'[d].life = docs[d].life
                          /\ docs'[d].latest = docs[d].latest
                          /\ docs'[d].status = IF d = revs[r].doc THEN StatusOf(job)
                                                                 ELSE docs[d].status
      BY <1>3, <2>2, <3>6 DEF RecordDispatch, IInv, TypeOK, DocType, StatusOf
    <3> HIDE DEF r, job
    <3> QED
      BY <3>1, <3>2, <3>3, <3>4, <3>5, <3>7, RowsMarked
  <2> QED
    BY <2>1, <2>2
<1>4. ASSUME NEW d \in Docs, SaveUpload(h, d) \/ RetryDispatch(h, d) PROVE RowsInv'
  BY <1>4, RowsUnchanged DEF SaveUpload, RetryDispatch, tables
<1>5. CASE RejectUpload(h) \/ GetAndDispatch(h) \/ DispatchAccepted(h)
           \/ DispatchErrored(h) \/ AbandonRequest(h)
  BY <1>5, RowsUnchanged
  DEF RejectUpload, GetAndDispatch, DispatchAccepted, DispatchErrored, AbandonRequest, tables
<1> QED
  BY <1>1, <1>2, <1>3, <1>4, <1>5 DEF ApiRequest

LEMMA RowsRunStage ==
  ASSUME IInv, NEW w \in Workers, RunStage(w)
  PROVE  RowsInv'
<1> DEFINE r == workers[w].rev
<1>0. workers[w].pc # "idle" => Stored(r)
  BY DEF IInv, RunsRefer
<1>1. CASE OpenStage(w)
  <2>1. CASE Inactive(r, workers[w].seen)
    BY <1>1, <2>1, RowsUnchanged DEF OpenStage, tables
  <2>2. CASE ~Inactive(r, workers[w].seen)
    <3>1. "processing" \in JobsOf("pending") /\ StatusOf("processing") = "processing"
      BY DEF JobsOf, StatusOf
    <3>2. SetStatus(r, "pending", "processing", "processing") /\ Stored(r)
      BY <1>0, <1>1, <2>2 DEF OpenStage
    <3> HIDE DEF r
    <3> QED
      BY <2>2, <3>1, <3>2, RowsSetStatus
  <2> QED
    BY <2>1, <2>2
<1>2. CASE StoreOutput(w)
  <2>1. \A q \in Revs : jobs'[q].state = jobs[q].state
    BY <1>2 DEF StoreOutput, IInv, TypeOK, JobType
  <2> QED
    BY <1>2, <2>1, RowsUnchanged DEF StoreOutput
<1>3. CASE Publish(w)
  <2>1. Stored(r) /\ DocOf(r).life = "live" /\ DocOf(r).latest = r
    BY <1>0, <1>3, ActiveIsLatest DEF Publish, MayWrite
  <2>2. \A q \in Revs : /\ revs'[q].doc = revs[q].doc
                        /\ revs'[q].number = revs[q].number
                        /\ revs'[q].status = IF q = r THEN "ready" ELSE revs[q].status
                        /\ jobs'[q].state = IF q = r THEN "succeeded" ELSE jobs[q].state
    BY <1>3 DEF Publish, IInv, TypeOK, RevType, JobType
  <2>3. docs' = [docs EXCEPT ![revs[r].doc] =
                  [docs[revs[r].doc] EXCEPT !.active = r, !.status = "processed"]]
    BY <1>3 DEF Publish
  <2>4. \A d \in Docs : /\ docs'[d].life = docs[d].life
                        /\ docs'[d].latest = docs[d].latest
                        /\ docs'[d].status = IF d = revs[r].doc THEN "processed"
                                                               ELSE docs[d].status
    BY <2>3 DEF IInv, TypeOK, DocType
  <2>5. "succeeded" \in JobsOf("ready") /\ StatusOf("succeeded") = "processed"
    BY DEF JobsOf, StatusOf
  <2> HIDE DEF r
  <2> QED
    BY <2>1, <2>2, <2>4, <2>5, RowsMarked
<1>4. CASE FailStage(w)
  <2>1. Stored(r) /\ MarkFailed(r, workers[w].seen)
    BY <1>0, <1>4 DEF FailStage
  <2> HIDE DEF r
  <2> QED
    BY <2>1, RowsMarkFailed
<1>5. CASE AcquireLock(w) \/ ReadJob(w) \/ Compute(w) \/ RereadJob(w)
           \/ DiscardOutput(w) \/ StageRaises(w) \/ FailRead(w)
  BY <1>5, RowsUnchanged
  DEF AcquireLock, ReadJob, Compute, RereadJob, DiscardOutput, StageRaises, FailRead, tables
<1> QED
  BY <1>1, <1>2, <1>3, <1>4, <1>5 DEF RunStage

LEMMA RowsStep == IInv /\ [Next]_vars => RowsInv'
<1> SUFFICES ASSUME IInv, [Next]_vars PROVE RowsInv'
  OBVIOUS
<1>1. CASE UNCHANGED vars
  BY <1>1, RowsUnchanged DEF vars
<1>2. ASSUME NEW r \in Revs, CreateDagRun(r) \/ AttemptLost(r) \/ ClearTask(r)
                             \/ CallbackDies(r)
      PROVE  RowsInv'
  BY <1>2, RowsUnchanged DEF CreateDagRun, AttemptLost, ClearTask, CallbackDies, tables
<1>3. ASSUME NEW r \in Revs, TaskFailure(r) PROVE RowsInv'
  <2>1. CASE CallbackMark(r)
    <3>1. Stored(r)
      BY <2>1 DEF CallbackMark, IInv, RunsRefer
    <3> QED
      BY <2>1, <3>1, RowsMarkFailed DEF CallbackMark
  <2>2. CASE CallbackCheck(r) \/ CallbackRead(r)
    BY <2>2, RowsUnchanged DEF CallbackCheck, CallbackRead, tables
  <2> QED
    BY <1>3, <2>1, <2>2 DEF TaskFailure
<1>4. ASSUME NEW w \in Workers, ReportSuccess(w) \/ ReportFailure(w) \/ AttemptDies(w)
      PROVE  RowsInv'
  BY <1>4, RowsUnchanged DEF ReportSuccess, ReportFailure, AttemptDies, tables
<1>5. ASSUME NEW r \in Revs, NEW w \in Workers, StartAttempt(r, w) PROVE RowsInv'
  BY <1>5, RowsUnchanged DEF StartAttempt, tables
<1> QED
  BY <1>1, <1>2, <1>3, <1>4, <1>5, RowsApi, RowsRunStage, RowsDeleted DEF Next
----------------------------------------------------------------------------
(* References.  Rows are never removed, so what refers to a stored         *)
(* revision keeps referring to one.                                        *)

Grows == /\ \A q \in Revs : revs[q].status # "none" => revs'[q].status # "none"
         /\ \A d \in Docs : docs[d].life # "absent" => docs'[d].life # "absent"

LEMMA SetStatusGrows ==
  ASSUME IInv, NEW r, NEW rev, rev # "none", NEW job, NEW doc, SetStatus(r, rev, job, doc)
  PROVE  Grows
<1>1. \A q \in Revs : revs'[q].status = IF q = r THEN rev ELSE revs[q].status
  BY DEF SetStatus, IInv, TypeOK, RevType
<1>2. \A d \in Docs : docs'[d].life = docs[d].life
  BY DEF SetStatus, IInv, TypeOK, DocType
<1> QED
  BY <1>1, <1>2 DEF Grows

LEMMA MarkFailedGrows ==
  ASSUME IInv, NEW r, Stored(r), NEW seen, MarkFailed(r, seen)
  PROVE  Grows
<1>1. CASE Inactive(r, seen)
  BY <1>1 DEF MarkFailed, tables, Grows
<1>2. CASE ~Inactive(r, seen)
  BY <1>2, SetStatusGrows DEF MarkFailed
<1> QED
  BY <1>1, <1>2

LEMMA RowsKept == IInv /\ [Next]_vars => Grows
<1> SUFFICES ASSUME IInv, [Next]_vars PROVE Grows
  OBVIOUS
<1> USE DEF Grows
<1>1. CASE UNCHANGED tables
  BY <1>1 DEF tables
<1>2. ASSUME NEW h \in Handlers, NEW d \in Docs, NEW r \in Revs, Reprocess(h, d, r)
      PROVE  Grows
  <2>1. docs'[d].life = docs[d].life /\ \A e \in Docs \ {d} : docs'[e] = docs[e]
    BY <1>2 DEF Reprocess, NewLatest, IInv, TypeOK, DocType
  <2>2. revs'[r].status = "pending" /\ \A q \in Revs \ {r} : revs'[q] = revs[q]
    BY <1>2 DEF Reprocess, CreateRevision, IInv, TypeOK
  <2> QED
    BY <2>1, <2>2
<1>3. ASSUME NEW h \in Handlers, NEW c \in Contents, NEW r \in Revs,
             CreateDocument(h, c, r)
      PROVE  Grows
  BY <1>3 DEF CreateDocument, CreateRevision, IInv, TypeOK, HandlersRefer
<1>4. ASSUME NEW h \in Handlers, RecordDispatch(h) PROVE Grows
  <2>1. CASE DispatchChanges(handlers[h].rev, handlers[h].err)
    <3> DEFINE status == IF handlers[h].err THEN "failed" ELSE "queued"
    <3>1. /\ revs' = revs
          /\ docs' = [d \in Docs |->
                        IF Live(d) /\ docs[d].latest = handlers[h].rev
                        THEN [docs[d] EXCEPT !.status = status] ELSE docs[d]]
      BY <1>4, <2>1 DEF RecordDispatch
    <3>2. docs \in [Docs -> DocType]
      BY DEF IInv, TypeOK
    <3> HIDE DEF status
    <3>3. \A d \in Docs : docs'[d].life = docs[d].life
      BY <3>1, <3>2 DEF DocType
    <3> QED
      BY <3>1, <3>3
  <2>2. CASE ~DispatchChanges(handlers[h].rev, handlers[h].err)
    BY <1>4, <2>2 DEF RecordDispatch
  <2> QED
    BY <2>1, <2>2
<1>5. ASSUME NEW d \in Docs, DeleteDocument(d) PROVE Grows
  BY <1>5 DEF DeleteDocument, IInv, TypeOK, DocType, RevType
<1>6. ASSUME NEW w \in Workers, RunStage(w) PROVE Grows
  <2>0. workers[w].pc # "idle" => Stored(workers[w].rev)
    BY DEF IInv, RunsRefer
  <2>1. CASE OpenStage(w) /\ ~UNCHANGED tables
    BY <2>1, SetStatusGrows DEF OpenStage, tables
  <2>2. CASE StoreOutput(w)
    BY <2>2 DEF StoreOutput
  <2>3. CASE Publish(w)
    <3>1. docs' = [docs EXCEPT ![revs[workers[w].rev].doc] =
                    [docs[revs[workers[w].rev].doc] EXCEPT
                       !.active = workers[w].rev, !.status = "processed"]]
      BY <2>3 DEF Publish
    <3>2. \A d \in Docs : docs'[d].life = docs[d].life
      BY <3>1 DEF IInv, TypeOK, DocType
    <3>3. \A q \in Revs : revs'[q].status \in {revs[q].status, "ready"}
      BY <2>3 DEF Publish, IInv, TypeOK, RevType
    <3> QED
      BY <3>2, <3>3
  <2>4. CASE FailStage(w)
    BY <2>0, <2>4, MarkFailedGrows DEF FailStage
  <2>5. CASE UNCHANGED tables
    BY <2>5 DEF tables
  <2> QED
    BY <1>6, <2>1, <2>2, <2>3, <2>4, <2>5
    DEF RunStage, AcquireLock, ReadJob, Compute, RereadJob, DiscardOutput, StageRaises,
        FailRead
<1>7. ASSUME NEW r \in Revs, CallbackMark(r) PROVE Grows
  BY <1>7, MarkFailedGrows DEF CallbackMark, IInv, RunsRefer
<1>8. ASSUME NEW h \in Handlers, ApiRequest(h) PROVE Grows
  BY <1>1, <1>2, <1>3, <1>4, <1>8
  DEF ApiRequest, SaveUpload, RetryDispatch, RejectUpload, GetAndDispatch,
      DispatchAccepted, DispatchErrored, AbandonRequest
<1>9. ASSUME NEW r \in Revs, TaskFailure(r) \/ CallbackDies(r) PROVE Grows
  BY <1>1, <1>7, <1>9 DEF TaskFailure, CallbackCheck, CallbackRead, CallbackDies
<1>10. ASSUME NEW r \in Revs,
              CreateDagRun(r) \/ AttemptLost(r) \/ ClearTask(r)
              \/ \E w \in Workers : StartAttempt(r, w)
       PROVE  Grows
  BY <1>1, <1>10 DEF CreateDagRun, AttemptLost, ClearTask, StartAttempt
<1>11. ASSUME NEW w \in Workers, ReportSuccess(w) \/ ReportFailure(w) \/ AttemptDies(w)
       PROVE  Grows
  BY <1>1, <1>11 DEF ReportSuccess, ReportFailure, AttemptDies
<1>12. CASE UNCHANGED vars
  BY <1>1, <1>12 DEF vars, tables
<1> QED
  BY <1>5, <1>6, <1>8, <1>9, <1>10, <1>11, <1>12 DEF Next

(* The latest revision of a live document is stored.                       *)
LEMMA LatestStored ==
  ASSUME IInv, NEW d \in Docs, Live(d)
  PROVE  Stored(docs[d].latest)
  BY ConstantsAssumption DEF IInv, RowsAgree, RevisionsOf, RevisionsOwned, Stored

(* A worker keeps its revision while it runs a stage.                      *)
LEMMA RunStageWorkers ==
  ASSUME IInv, NEW w \in Workers, RunStage(w)
  PROVE  \A v \in Workers : /\ workers'[v].rev = workers[v].rev
                            /\ workers[v].pc = "idle" => workers'[v].pc = "idle"
<1>1. workers[w].pc # "idle"
  BY DEF RunStage, AcquireLock, ReadJob, OpenStage, Compute, RereadJob, DiscardOutput,
         StoreOutput, Publish, StageRaises, FailRead, FailStage
<1>2. CASE \E pc : Goto(w, pc)
  BY <1>1, <1>2 DEF Goto, IInv, TypeOK, WorkerType
<1>3. CASE \E pc : TakeSnapshot(w, pc)
  <2>1. PICK pc : workers' = [workers EXCEPT ![w] = [workers[w] EXCEPT !.pc = pc,
                                                !.seen = SettledRow(workers[w].rev)]]
    BY <1>3 DEF TakeSnapshot
  <2> QED
    BY <1>1, <2>1 DEF IInv, TypeOK, WorkerType
<1>4. CASE ReadJob(w)
  <2>1. workers' = [workers EXCEPT ![w] = [workers[w] EXCEPT !.pc = "open",
                      !.seen = SettledRow(workers[w].rev),
                      !.arts = jobs[workers[w].rev].artifacts]]
    BY <1>4 DEF ReadJob
  <2> QED
    BY <1>1, <2>1 DEF IInv, TypeOK, WorkerType
<1> QED
  BY <1>2, <1>3, <1>4
  DEF RunStage, AcquireLock, OpenStage, Compute, RereadJob, DiscardOutput,
      StoreOutput, Publish, StageRaises, FailRead, FailStage

(* A run, a callback or a posted request appears only for a stored         *)
(* revision.                                                               *)
AirflowGrows ==
  /\ \A r \in posted' : Stored(r)
  /\ \A r \in Revs : runs'[r].state # "none" => Stored(r)
  /\ \A r \in Revs : runs'[r].state = "none" => runs'[r].worker = None
  /\ \A r \in Revs : callbacks'[r].pc # "idle" => Stored(r)
  /\ \A w \in Workers : workers'[w].pc # "idle" => Stored(workers'[w].rev)

LEMMA AttemptGrows ==
  ASSUME IInv, NEW r \in Revs, Stored(r), runs[r].state # "none",
         AttemptSucceeded(r) \/ AttemptFailed(r)
  PROVE  /\ \A q \in Revs : runs'[q].state # "none" => Stored(q)
         /\ \A q \in Revs : runs'[q].state = "none" => runs'[q].worker = None
         /\ \A q \in Revs : callbacks'[q].pc # "idle" => Stored(q)
<1>1. PICK x : runs' = [runs EXCEPT ![r] = x] /\ x.state # "none"
  <2>1. CASE AttemptSucceeded(r)
    <3> DEFINE ended == [runs[r] EXCEPT !.state = "success", !.worker = None]
               next == [runs[r] EXCEPT !.stage = runs[r].stage + 1, !.try = 1,
                                       !.worker = None]
    <3>1. \/ runs' = [runs EXCEPT ![r] = ended]
          \/ runs' = [runs EXCEPT ![r] = next]
      BY <2>1 DEF AttemptSucceeded
    <3>2. ended.state # "none" /\ next.state # "none"
      BY DEF IInv, TypeOK, RunType
    <3> HIDE DEF ended, next
    <3> QED
      BY <3>1, <3>2
  <2>2. CASE AttemptFailed(r)
    <3> DEFINE again == [runs[r] EXCEPT !.try = runs[r].try + 1, !.worker = None]
               ended == [runs[r] EXCEPT !.state = "failed", !.worker = None]
    <3>1. \/ runs' = [runs EXCEPT ![r] = again]
          \/ runs' = [runs EXCEPT ![r] = ended]
      BY <2>2 DEF AttemptFailed
    <3>2. again.state # "none" /\ ended.state # "none"
      BY DEF IInv, TypeOK, RunType
    <3> HIDE DEF again, ended
    <3> QED
      BY <3>1, <3>2
  <2> QED
    BY <2>1, <2>2
<1>2. \A q \in Revs \ {r} : callbacks'[q] = callbacks[q]
  BY DEF AttemptSucceeded, AttemptFailed, IInv, TypeOK
<1> QED
  BY <1>1, <1>2 DEF IInv, TypeOK, RunsRefer

LEMMA AirflowRefers == IInv /\ [Next]_vars => AirflowGrows
<1> SUFFICES ASSUME IInv, [Next]_vars PROVE AirflowGrows
  OBVIOUS
<1> USE DEF AirflowGrows, airflow
<1>0. RunsRefer
  BY DEF IInv
<1>1. CASE UNCHANGED vars
  BY <1>0, <1>1 DEF vars, RunsRefer
<1>2. ASSUME NEW h \in Handlers, ApiRequest(h) PROVE AirflowGrows
  <2>1. UNCHANGED <<airflow, workers>>
    BY <1>2 DEF ApiRequest, SaveUpload, RetryDispatch, Reprocess, CreateDocument,
        RejectUpload, GetAndDispatch, DispatchAccepted, DispatchErrored, RecordDispatch,
        AbandonRequest
  <2>2. \A r \in posted' : Stored(r)
    <3>1. ASSUME NEW d \in Docs, RetryDispatch(h, d) PROVE \A r \in posted' : Stored(r)
      BY <1>0, <3>1, LatestStored DEF RetryDispatch, RunsRefer
    <3>2. CASE GetAndDispatch(h)
      BY <1>0, <3>2, LatestStored DEF GetAndDispatch, RunsRefer, IInv, HandlersRefer
    <3>3. CASE UNCHANGED posted
      BY <1>0, <3>3 DEF RunsRefer
    <3> QED
      BY <1>2, <3>1, <3>2, <3>3
      DEF ApiRequest, SaveUpload, Reprocess, CreateDocument, RejectUpload,
          DispatchAccepted, DispatchErrored, RecordDispatch, AbandonRequest
  <2> QED
    BY <1>0, <2>1, <2>2 DEF RunsRefer
<1>3. ASSUME NEW d \in Docs, DeleteDocument(d) PROVE AirflowGrows
  BY <1>0, <1>3 DEF DeleteDocument, RunsRefer
<1>4. ASSUME NEW r \in Revs, CreateDagRun(r) PROVE AirflowGrows
  <2>1. \A q \in Revs : runs'[q].state # "none" => Stored(q)
    BY <1>0, <1>4 DEF CreateDagRun, RunsRefer, IInv, TypeOK, RunType
  <2>2. \A q \in Revs : runs'[q].state = "none" => runs'[q].worker = None
    BY <1>0, <1>4 DEF CreateDagRun, RunsRefer, IInv, TypeOK, RunType
  <2> QED
    BY <1>0, <1>4, <2>1, <2>2 DEF CreateDagRun, RunsRefer
<1>5. ASSUME NEW r \in Revs, AttemptLost(r) PROVE AirflowGrows
  BY <1>0, <1>5, AttemptGrows DEF AttemptLost, RunsRefer
<1>6. ASSUME NEW r \in Revs, ClearTask(r) PROVE AirflowGrows
  <2>1. runs' = [runs EXCEPT ![r] = [runs[r] EXCEPT !.state = "running", !.try = 1]]
    BY <1>6 DEF ClearTask
  <2>2. \A q \in Revs : /\ q # r => runs'[q] = runs[q]
                        /\ runs'[r].state = "running" /\ runs[r].state # "none"
    BY <1>6, <2>1 DEF ClearTask, IInv, TypeOK, RunType
  <2> QED
    BY <1>0, <1>6, <2>2 DEF ClearTask, RunsRefer
<1>7. ASSUME NEW r \in Revs, TaskFailure(r) \/ CallbackDies(r) PROVE AirflowGrows
  <2>1. \A q \in Revs : callbacks[q].pc = "idle" => callbacks'[q].pc = "idle"
    BY <1>7 DEF TaskFailure, CallbackCheck, CallbackRead, CallbackMark, CallbackDies,
        IdleCallback, IInv, TypeOK, CallbackType
  <2> QED
    BY <1>0, <1>7, <2>1
    DEF TaskFailure, CallbackCheck, CallbackRead, CallbackMark, CallbackDies, RunsRefer
<1>8. ASSUME NEW r \in Revs, NEW w \in Workers, StartAttempt(r, w) PROVE AirflowGrows
  <2>1. \A q \in Revs : runs'[q].state = runs[q].state
                        /\ (q # r => runs'[q] = runs[q])
    BY <1>8 DEF StartAttempt, IInv, TypeOK, RunType
  <2>2. workers'[w].rev = r /\ \A v \in Workers \ {w} : workers'[v] = workers[v]
    BY <1>8 DEF StartAttempt, IdleWorker, IInv, TypeOK
  <2> QED
    BY <1>0, <1>8, <2>1, <2>2 DEF StartAttempt, RunsRefer
<1>9. ASSUME NEW w \in Workers, RunStage(w) PROVE AirflowGrows
  <2>1. UNCHANGED <<posted, airflow>>
    BY <1>9 DEF RunStage, AcquireLock, ReadJob, OpenStage, Compute, RereadJob, DiscardOutput,
         StoreOutput, Publish, StageRaises, FailRead, FailStage
  <2> QED
    BY <1>0, <1>9, <2>1, RunStageWorkers DEF RunsRefer
<1>10. ASSUME NEW w \in Workers, ReportSuccess(w) \/ ReportFailure(w) \/ AttemptDies(w)
       PROVE  AirflowGrows
  <2>1. IdleWorker.pc = "idle" /\ workers' = [workers EXCEPT ![w] = IdleWorker]
    BY <1>10 DEF IdleWorker, ReportSuccess, ReportFailure, AttemptDies
  <2>2. \A v \in Workers : workers'[v].pc # "idle" => Stored(workers'[v].rev)
    BY <1>0, <2>1 DEF RunsRefer, IInv, TypeOK
  <2> DEFINE r == workers[w].rev
  <2>3. CASE UNCHANGED <<runs, callbacks>>
    BY <1>0, <1>10, <2>2, <2>3 DEF ReportSuccess, ReportFailure, AttemptDies, RunsRefer
  <2>4. CASE ~UNCHANGED <<runs, callbacks>>
    <3>1. runs[r].worker = w /\ (AttemptSucceeded(r) \/ AttemptFailed(r))
          /\ workers[w].pc # "idle" /\ posted' = posted
      BY <1>10, <2>4 DEF ReportSuccess, ReportFailure, AttemptDies
    <3>2. Stored(r) /\ runs[r].state # "none"
      BY <1>0, <3>1, ConstantsAssumption DEF RunsRefer, Stored
    <3> HIDE DEF r
    <3> QED
      BY <1>0, <2>2, <3>1, <3>2, AttemptGrows DEF RunsRefer, Stored
  <2> QED
    BY <2>3, <2>4
<1> QED
  BY <1>1, <1>2, <1>3, <1>4, <1>5, <1>6, <1>7, <1>8, <1>9, <1>10 DEF Next

LEMMA RunsReferStep == IInv /\ [Next]_vars => RunsRefer'
<1> SUFFICES ASSUME IInv, [Next]_vars PROVE RunsRefer'
  OBVIOUS
<1>1. \A q : Stored(q) => Stored(q)'
  BY RowsKept DEF Grows, Stored
<1> QED
  BY <1>1, AirflowRefers DEF AirflowGrows, RunsRefer, Stored

(* Requests and files.  A step that leaves a request alone leaves what it  *)
(* relies on: only its own Store.Create makes its document live, and only  *)
(* its own cleanup removes its file.                                       *)
FilesKept ==
  /\ \A d \in Docs : docs'[d].life = docs[d].life
  /\ bytes' = bytes

LEMMA OthersKept ==
  ASSUME IInv, Grows, FilesKept, handlers' = handlers
  PROVE  HandlersRefer' /\ SourceBytesKept'
  BY DEF IInv, Grows, FilesKept, HandlersRefer, SourceBytesKept, Stored

LEMMA HandlerMoves ==
  ASSUME IInv, Grows, FilesKept, NEW h \in Handlers, NEW x,
         handlers' = [handlers EXCEPT ![h] = x],
         x.pc = "idle" \/ (x.pc \in {"await", "record"} /\ Stored(x.rev))
                       \/ (x.pc = "get" /\ x.doc \in Docs /\ docs[x.doc].life # "absent")
  PROVE  HandlersRefer' /\ SourceBytesKept'
<1>1. /\ handlers'[h] = x
      /\ \A g \in Handlers \ {h} : handlers'[g] = handlers[g]
  BY DEF IInv, TypeOK
<1>2. HandlersRefer'
  BY <1>1 DEF IInv, Grows, FilesKept, HandlersRefer, Stored
<1>3. SourceBytesKept'
  BY DEF IInv, Grows, FilesKept, SourceBytesKept
<1> QED
  BY <1>2, <1>3

LEMMA FilesApi ==
  ASSUME IInv, Grows, NEW h \in Handlers, ApiRequest(h)
  PROVE  HandlersRefer' /\ SourceBytesKept'
<1> USE DEF IInv
<1>0. /\ \A g \in Handlers \ {h} : handlers'[g] = handlers[g]
      /\ \A q : Stored(q) => Stored(q)'
      /\ IdleHandler.pc = "idle"
  BY DEF ApiRequest, SaveUpload, RetryDispatch, Reprocess, CreateDocument, RejectUpload,
         GetAndDispatch, DispatchAccepted, DispatchErrored, RecordDispatch,
         AbandonRequest, TypeOK, Grows, Stored, IdleHandler
<1>1. ASSUME NEW d \in Docs, SaveUpload(h, d) PROVE HandlersRefer' /\ SourceBytesKept'
  <2>1. handlers'[h].pc = "saved" /\ handlers'[h].doc = d
    BY <1>1 DEF SaveUpload, IdleHandler, TypeOK
  <2>2. /\ docs[d].life = "absent" /\ d \notin bytes /\ bytes' = bytes \cup {d}
        /\ UNCHANGED tables
    BY <1>1 DEF SaveUpload
  <2>3. HandlersRefer'
    BY <1>0, <2>1, <2>2 DEF HandlersRefer, tables, Stored
  <2>4. SourceBytesKept'
    BY <2>2 DEF SourceBytesKept, tables
  <2> QED
    BY <2>3, <2>4
<1>2. CASE RejectUpload(h)
  <2>1. /\ handlers[h].pc = "saved" /\ handlers'[h] = IdleHandler
        /\ bytes' = bytes \ {handlers[h].doc} /\ UNCHANGED tables
    BY <1>2 DEF RejectUpload, TypeOK
  <2>2. docs[handlers[h].doc].life = "absent"
    BY <2>1 DEF HandlersRefer
  <2>3. HandlersRefer'
    BY <1>0, <2>1 DEF HandlersRefer, tables, Stored
  <2>4. SourceBytesKept'
    BY <2>1, <2>2 DEF SourceBytesKept, tables
  <2> QED
    BY <2>3, <2>4
<1>3. ASSUME NEW c \in Contents, NEW r \in Revs, CreateDocument(h, c, r)
      PROVE  HandlersRefer' /\ SourceBytesKept'
  <2> DEFINE d == handlers[h].doc
  <2>1. /\ handlers[h].pc = "saved" /\ d \in Docs /\ d \in bytes
        /\ docs[d].life = "absent"
    BY <1>3 DEF CreateDocument, HandlersRefer
  <2>2. /\ bytes' = bytes /\ docs'[d].life = "live"
        /\ \A e \in Docs \ {d} : docs'[e] = docs[e]
    BY <1>3, <2>1 DEF CreateDocument, TypeOK
  <2>3. handlers'[h].pc = "get" /\ handlers'[h].doc = d
    BY <1>3 DEF CreateDocument, TypeOK, HandlerType
  <2> HIDE DEF d
  <2>4. HandlersRefer'
    <3>1. \A g \in Handlers \ {h} : handlers[g].pc = "saved" => handlers[g].doc # d
      BY <2>1 DEF HandlersRefer, d
    <3> QED
      BY <1>0, <2>1, <2>2, <2>3, <3>1 DEF HandlersRefer
  <2>5. SourceBytesKept'
    BY <2>1, <2>2 DEF SourceBytesKept
  <2> QED
    BY <2>4, <2>5
<1>4. ASSUME NEW d \in Docs, NEW r \in Revs, Reprocess(h, d, r)
      PROVE  HandlersRefer' /\ SourceBytesKept'
  <2>1. FilesKept
    BY <1>4 DEF Reprocess, NewLatest, FilesKept, TypeOK, DocType
  <2> DEFINE x == [IdleHandler EXCEPT !.pc = "get", !.doc = d]
  <2>2. handlers' = [handlers EXCEPT ![h] = x] /\ x.pc = "get" /\ x.doc = d
        /\ docs[d].life # "absent"
    BY <1>4 DEF Reprocess, IdleHandler, Live
  <2> HIDE DEF x
  <2> QED
    BY <2>1, <2>2, HandlerMoves
<1>5. ASSUME NEW d \in Docs, RetryDispatch(h, d)
      PROVE  HandlersRefer' /\ SourceBytesKept'
  <2>1. FilesKept
    BY <1>5 DEF RetryDispatch, FilesKept, tables
  <2> DEFINE x == [pc |-> "await", doc |-> d, rev |-> docs[d].latest, err |-> FALSE]
  <2>2. handlers' = [handlers EXCEPT ![h] = x] /\ x.pc = "await" /\ Stored(x.rev)
    BY <1>5, LatestStored DEF RetryDispatch
  <2> HIDE DEF x
  <2> QED
    BY <2>1, <2>2, HandlerMoves
<1>6. CASE GetAndDispatch(h)
  <2>1. FilesKept
    BY <1>6 DEF GetAndDispatch, FilesKept, tables
  <2> DEFINE d == handlers[h].doc
             x == [handlers[h] EXCEPT !.pc = "await", !.rev = docs[d].latest]
  <2>2. CASE Live(d)
    <3>1. d \in Docs
      BY <1>6 DEF GetAndDispatch, HandlersRefer
    <3>2. handlers' = [handlers EXCEPT ![h] = x]
      BY <1>6, <2>2 DEF GetAndDispatch
    <3>3. x.pc = "await" /\ x.rev = docs[d].latest
      BY DEF TypeOK, HandlerType
    <3>4. Stored(docs[d].latest)
      BY <2>2, <3>1, LatestStored
    <3> HIDE DEF x, d
    <3> QED
      BY <2>1, <3>2, <3>3, <3>4, HandlerMoves
  <2>3. CASE ~Live(d)
    BY <1>0, <1>6, <2>1, <2>3, HandlerMoves DEF GetAndDispatch
  <2> QED
    BY <2>2, <2>3
<1>7. CASE DispatchAccepted(h) \/ DispatchErrored(h)
  <2>1. FilesKept
    BY <1>7 DEF DispatchAccepted, DispatchErrored, FilesKept, tables
  <2>2. handlers[h].pc = "await" /\ Stored(handlers[h].rev)
    BY <1>7 DEF DispatchAccepted, DispatchErrored, HandlersRefer
  <2> DEFINE ok == [handlers[h] EXCEPT !.pc = "record"]
             failed == [handlers[h] EXCEPT !.pc = "record", !.err = TRUE]
  <2>3. \/ handlers' = [handlers EXCEPT ![h] = ok]
        \/ handlers' = [handlers EXCEPT ![h] = failed]
    BY <1>7 DEF DispatchAccepted, DispatchErrored
  <2>4. /\ ok.pc = "record" /\ ok.rev = handlers[h].rev
        /\ failed.pc = "record" /\ failed.rev = handlers[h].rev
    BY DEF TypeOK, HandlerType
  <2> HIDE DEF ok, failed
  <2> QED
    BY <2>1, <2>2, <2>3, <2>4, HandlerMoves
<1>8. CASE RecordDispatch(h)
  <2>1. FilesKept
    BY <1>8, SMTT(30) DEF RecordDispatch, FilesKept, TypeOK, DocType
  <2> QED
    BY <1>0, <1>8, <2>1, HandlerMoves DEF RecordDispatch
<1>9. CASE AbandonRequest(h)
  <2>1. FilesKept
    BY <1>9 DEF AbandonRequest, BytesAfterUnknown, FilesKept, tables
  <2> QED
    BY <1>0, <1>9, <2>1, HandlerMoves DEF AbandonRequest
<1> QED
  BY <1>1, <1>2, <1>3, <1>4, <1>5, <1>6, <1>7, <1>8, <1>9 DEF ApiRequest

LEMMA MarkFailedFiles ==
  ASSUME IInv, NEW r, NEW seen, MarkFailed(r, seen)
  PROVE  \A d \in Docs : docs'[d].life = docs[d].life
  BY DEF MarkFailed, SetStatus, tables, IInv, TypeOK, DocType

LEMMA FilesStep == IInv /\ [Next]_vars => HandlersRefer' /\ SourceBytesKept'
<1> SUFFICES ASSUME IInv, [Next]_vars PROVE HandlersRefer' /\ SourceBytesKept'
  OBVIOUS
<1> USE RowsKept
<1>1. CASE UNCHANGED vars
  BY <1>1, OthersKept DEF FilesKept, vars
<1>2. ASSUME NEW h \in Handlers, ApiRequest(h) PROVE HandlersRefer' /\ SourceBytesKept'
  BY <1>2, FilesApi
<1>3. ASSUME NEW d \in Docs, DeleteDocument(d) PROVE HandlersRefer' /\ SourceBytesKept'
  <2>1. docs[d].life # "absent" /\ UNCHANGED <<bytes, handlers>>
        /\ \A e \in Docs : docs'[e].life = IF e = d THEN "deleted" ELSE docs[e].life
    BY <1>3 DEF DeleteDocument, IInv, TypeOK, DocType
  <2> QED
    BY <2>1 DEF IInv, HandlersRefer, SourceBytesKept, Grows, Stored
<1>4. ASSUME NEW w \in Workers, RunStage(w) PROVE HandlersRefer' /\ SourceBytesKept'
  <2>1. UNCHANGED <<bytes, handlers>>
    BY <1>4 DEF RunStage, AcquireLock, ReadJob, OpenStage, Compute, RereadJob,
         DiscardOutput, StoreOutput, Publish, StageRaises, FailRead, FailStage
  <2>2. \A d \in Docs : docs'[d].life = docs[d].life
    <3>1. CASE OpenStage(w)
      BY <3>1 DEF OpenStage, SetStatus, tables, IInv, TypeOK, DocType
    <3>2. CASE Publish(w)
      <4> DEFINE r == workers[w].rev
      <4>1. docs' = [docs EXCEPT ![revs[r].doc] =
                      [docs[revs[r].doc] EXCEPT !.active = r, !.status = "processed"]]
        BY <3>2 DEF Publish
      <4> QED
        BY <4>1 DEF IInv, TypeOK, DocType
    <3>3. CASE FailStage(w)
      BY <3>3, MarkFailedFiles DEF FailStage
    <3>4. CASE UNCHANGED docs
      BY <3>4
    <3> QED
      BY <1>4, <3>1, <3>2, <3>3, <3>4
      DEF RunStage, AcquireLock, ReadJob, Compute, RereadJob, DiscardOutput, StoreOutput,
          StageRaises, FailRead, tables
  <2> QED
    BY <2>1, <2>2, OthersKept DEF FilesKept
<1>5. ASSUME NEW r \in Revs, TaskFailure(r) \/ CallbackDies(r)
      PROVE  HandlersRefer' /\ SourceBytesKept'
  <2>1. UNCHANGED <<bytes, handlers>>
    BY <1>5 DEF TaskFailure, CallbackCheck, CallbackRead, CallbackMark, CallbackDies
  <2>2. \A d \in Docs : docs'[d].life = docs[d].life
    BY <1>5, MarkFailedFiles
    DEF TaskFailure, CallbackCheck, CallbackRead, CallbackMark, CallbackDies, tables
  <2> QED
    BY <2>1, <2>2, OthersKept DEF FilesKept
<1>6. ASSUME NEW r \in Revs,
             CreateDagRun(r) \/ AttemptLost(r) \/ ClearTask(r)
             \/ \E w \in Workers : StartAttempt(r, w)
      PROVE  HandlersRefer' /\ SourceBytesKept'
  BY <1>6, OthersKept
  DEF CreateDagRun, AttemptLost, ClearTask, StartAttempt, FilesKept, tables
<1>7. ASSUME NEW w \in Workers, ReportSuccess(w) \/ ReportFailure(w) \/ AttemptDies(w)
      PROVE  HandlersRefer' /\ SourceBytesKept'
  BY <1>7, OthersKept DEF ReportSuccess, ReportFailure, AttemptDies, FilesKept, tables
<1> QED
  BY <1>1, <1>2, <1>3, <1>4, <1>5, <1>6, <1>7 DEF Next
----------------------------------------------------------------------------
(* The invariant holds in every reachable state.                           *)

LEMMA InvStep == IInv /\ [Next]_vars => IInv'
  BY TypeStep, RowsStep, RunsReferStep, FilesStep DEF IInv, RowsInv

LEMMA Invariance == Spec => []IInv
  BY InitInv, InvStep, PTL DEF Spec

(* Every table, request and process keeps its type.                        *)
THEOREM TypeCorrect == Spec => []TypeOK
<1>1. IInv => TypeOK
  BY DEF IInv
<1> QED
  BY <1>1, Invariance, PTL

(* The document, its revisions and their jobs never disagree, whichever    *)
(* order dispatch records, workers, callbacks and deletions commit in and  *)
(* however many attempts Airflow gives up on while they still run.         *)
THEOREM RowsAlwaysAgree == Spec => []RowsAgree
<1>1. IInv => RowsAgree
  BY DEF IInv
<1> QED
  BY <1>1, Invariance, PTL

(* A document has one pending revision at most, its latest.                *)
THEOREM PendingAlwaysLatest == Spec => []PendingIsLatest
<1>1. IInv => PendingIsLatest
  BY DEF IInv
<1> QED
  BY <1>1, Invariance, PTL

(* The latest pointer never moves back to an older revision.               *)
THEOREM LatestAlwaysNewest == Spec => []LatestIsNewest
<1>1. IInv => LatestIsNewest
  BY DEF IInv
<1> QED
  BY <1>1, Invariance, PTL

(* Both together: the order of creation fences a document's revisions.     *)
THEOREM RevisionsAlwaysOrdered == Spec => []RevisionsOrdered
<1>1. PendingIsLatest /\ LatestIsNewest => RevisionsOrdered
  BY DEF RevisionsOrdered
<1> QED
  BY <1>1, PendingAlwaysLatest, LatestAlwaysNewest, PTL

(* No stored document loses its uploaded file to a request's cleanup.      *)
THEOREM SourceAlwaysKept == Spec => []SourceBytesKept
<1>1. IInv => SourceBytesKept
  BY DEF IInv
<1> QED
  BY <1>1, Invariance, PTL
----------------------------------------------------------------------------
(* What a step may change of a revision.                                   *)

RevisionKept(q) == revs'[q] = revs[q] /\ jobs'[q] = jobs[q] /\ chunks'[q] = chunks[q]

(* A step that changes a revision's rows either creates the revision, or   *)
(* finds it pending, or has checked that it is active.                     *)
LEMMA FencedKept ==
  ASSUME IInv, [Next]_vars, NEW q \in Revs, Fenced(q)
  PROVE  RevisionKept(q)
<1> USE DEF RevisionKept
<1>1. revs[q].status \notin {"none", "pending"} /\ q \in Revs
  BY DEF Fenced, IInv, PendingIsLatest, DocOf
<1>2. jobs[q].state \in FinishedJob
  BY <1>1 DEF IInv, TypeOK, RevType, RevStatus, RowsAgree, JobsOf, FinishedJob
<1>3. ASSUME NEW r, Stored(r), NEW seen, ~Inactive(r, seen) PROVE r # q
  BY <1>3, ActiveIsLatest DEF Fenced, DocOf
<1>4. ASSUME NEW r, Stored(r), NEW seen, MarkFailed(r, seen) PROVE RevisionKept(q)
  <2>1. CASE Inactive(r, seen)
    BY <1>4, <2>1 DEF MarkFailed, tables
  <2>2. CASE ~Inactive(r, seen)
    BY <1>3, <1>4, <2>2 DEF MarkFailed, SetStatus, IInv, TypeOK
  <2> QED
    BY <2>1, <2>2
<1>5. CASE UNCHANGED tables
  BY <1>5 DEF tables
<1>6. ASSUME NEW h \in Handlers, ApiRequest(h) PROVE RevisionKept(q)
  <2>1. ASSUME NEW d, NEW r \in Revs, CreateRevision(d, r), UNCHANGED chunks
        PROVE  RevisionKept(q)
    BY <1>1, <2>1 DEF CreateRevision, IInv, TypeOK
  <2>2. CASE RecordDispatch(h)
    <3>1. DispatchChanges(handlers[h].rev, handlers[h].err) => handlers[h].rev # q
      BY <1>2 DEF DispatchChanges, AwaitingDispatch, FinishedJob
    <3> QED
      BY <2>2, <3>1 DEF RecordDispatch, IInv, TypeOK
  <2> QED
    BY <1>5, <1>6, <2>1, <2>2
    DEF ApiRequest, SaveUpload, RetryDispatch, Reprocess, CreateDocument, RejectUpload,
        GetAndDispatch, DispatchAccepted, DispatchErrored, AbandonRequest
<1>7. ASSUME NEW d \in Docs, DeleteDocument(d) PROVE RevisionKept(q)
  BY <1>1, <1>2, <1>7 DEF DeleteDocument
<1>8. ASSUME NEW w \in Workers, RunStage(w) PROVE RevisionKept(q)
  <2>1. workers[w].pc # "idle" => Stored(workers[w].rev)
    BY DEF IInv, RunsRefer
  <2>2. CASE OpenStage(w) /\ ~UNCHANGED tables
    <3>1. workers[w].rev # q
      BY <1>3, <2>1, <2>2 DEF OpenStage
    <3> QED
      BY <2>2, <3>1 DEF OpenStage, SetStatus, IInv, TypeOK
  <2>3. CASE StoreOutput(w)
    <3>1. workers[w].rev # q
      BY <1>3, <2>1, <2>3 DEF StoreOutput, MayWrite
    <3> QED
      BY <2>3, <3>1 DEF StoreOutput, IInv, TypeOK
  <2>4. CASE Publish(w)
    <3>1. workers[w].rev # q
      BY <1>3, <2>1, <2>4 DEF Publish, MayWrite
    <3> QED
      BY <2>4, <3>1 DEF Publish, IInv, TypeOK
  <2>5. CASE FailStage(w)
    BY <1>4, <2>1, <2>5 DEF FailStage
  <2> QED
    BY <1>5, <1>8, <2>2, <2>3, <2>4, <2>5
    DEF RunStage, AcquireLock, ReadJob, Compute, RereadJob, DiscardOutput, StageRaises,
        FailRead
<1>9. ASSUME NEW r \in Revs, TaskFailure(r) \/ CallbackDies(r) PROVE RevisionKept(q)
  <2>1. CASE CallbackMark(r)
    BY <1>4, <2>1 DEF CallbackMark, IInv, RunsRefer
  <2> QED
    BY <1>5, <1>9, <2>1 DEF TaskFailure, CallbackCheck, CallbackRead, CallbackDies
<1>10. ASSUME NEW r \in Revs,
              CreateDagRun(r) \/ AttemptLost(r) \/ ClearTask(r)
              \/ \E w \in Workers : StartAttempt(r, w)
       PROVE  RevisionKept(q)
  BY <1>5, <1>10 DEF CreateDagRun, AttemptLost, ClearTask, StartAttempt
<1>11. ASSUME NEW w \in Workers, ReportSuccess(w) \/ ReportFailure(w) \/ AttemptDies(w)
       PROVE  RevisionKept(q)
  BY <1>5, <1>11 DEF ReportSuccess, ReportFailure, AttemptDies
<1>12. CASE UNCHANGED vars
  BY <1>5, <1>12 DEF vars, tables
<1> QED
  BY <1>6, <1>7, <1>8, <1>9, <1>10, <1>11, <1>12 DEF Next

(* A deleted or replaced revision is out of every writer's reach, for any  *)
(* number of workers left over from lost attempts.                         *)
THEOREM FencedForever == Spec => OutputFenced
<1>1. IInv /\ [Next]_vars =>
        [\A r \in Revs : Fenced(r) => /\ revs'[r] = revs[r] /\ jobs'[r] = jobs[r]
                                      /\ chunks'[r] = chunks[r]]_vars
  BY FencedKept DEF RevisionKept
<1> QED
  BY <1>1, Invariance, PTL DEF Spec, OutputFenced

(* A job comes to a dispatch state only from a dispatch state or when it   *)
(* is created.                                                             *)
LEMMA DispatchKept ==
  ASSUME IInv, [Next]_vars, NEW q \in Revs,
         jobs'[q].state \in AwaitingDispatch
  PROVE  jobs[q].state \in AwaitingDispatch \cup {"none"}
<1> USE DEF AwaitingDispatch
<1>1. CASE jobs'[q].state = jobs[q].state
  BY <1>1
<1>2. ASSUME NEW r, NEW job, NEW rev, NEW doc, SetStatus(r, rev, job, doc),
             job \notin AwaitingDispatch
      PROVE  jobs'[q].state = jobs[q].state
  BY <1>2 DEF SetStatus, IInv, TypeOK, JobType
<1>3. ASSUME NEW r, NEW seen, MarkFailed(r, seen)
      PROVE  jobs'[q].state = jobs[q].state
  BY <1>2, <1>3 DEF MarkFailed, tables
<1>4. ASSUME NEW h \in Handlers, ApiRequest(h)
      PROVE  jobs[q].state \in AwaitingDispatch \cup {"none"}
  <2>1. ASSUME NEW d, NEW r \in Revs, CreateRevision(d, r)
        PROVE  jobs[q].state \in AwaitingDispatch \cup {"none"}
    <3>1. jobs[r].state = "none"
      BY <2>1 DEF CreateRevision, IInv, RowsAgree, JobsOf
    <3>2. q # r => jobs'[q] = jobs[q]
      BY <2>1 DEF CreateRevision, IInv, TypeOK
    <3> QED
      BY <1>1, <3>1, <3>2
  <2>2. CASE RecordDispatch(h)
    <3>1. CASE jobs' = jobs
      BY <1>1, <3>1
    <3>2. CASE jobs' # jobs /\ q # handlers[h].rev
      BY <1>1, <2>2, <3>2 DEF RecordDispatch, IInv, TypeOK
    <3>3. CASE jobs' # jobs /\ q = handlers[h].rev
      BY <2>2, <3>3 DEF RecordDispatch, DispatchChanges, IInv, TypeOK, JobType
    <3> QED
      BY <3>1, <3>2, <3>3
  <2> QED
    BY <1>1, <1>4, <2>1, <2>2
    DEF ApiRequest, SaveUpload, RetryDispatch, Reprocess, CreateDocument, RejectUpload,
        GetAndDispatch, DispatchAccepted, DispatchErrored, AbandonRequest, tables
<1>5. ASSUME NEW d \in Docs, DeleteDocument(d)
      PROVE  jobs[q].state \in AwaitingDispatch \cup {"none"}
  BY <1>5 DEF DeleteDocument, IInv, TypeOK, JobType
<1>6. ASSUME NEW w \in Workers, RunStage(w) PROVE jobs'[q].state = jobs[q].state
  <2>1. CASE OpenStage(w)
    BY <1>2, <2>1 DEF OpenStage, tables
  <2>2. CASE StoreOutput(w)
    BY <2>2 DEF StoreOutput, IInv, TypeOK, JobType
  <2>3. CASE Publish(w)
    BY <2>3 DEF Publish, IInv, TypeOK, JobType
  <2>4. CASE FailStage(w)
    BY <1>3, <2>4 DEF FailStage
  <2> QED
    BY <1>6, <2>1, <2>2, <2>3, <2>4
    DEF RunStage, AcquireLock, ReadJob, Compute, RereadJob, DiscardOutput, StageRaises,
        FailRead, tables
<1>7. ASSUME NEW r \in Revs, TaskFailure(r) \/ CallbackDies(r)
      PROVE  jobs'[q].state = jobs[q].state
  BY <1>3, <1>7
  DEF TaskFailure, CallbackCheck, CallbackRead, CallbackMark, CallbackDies, tables
<1>8. ASSUME NEW r \in Revs,
             CreateDagRun(r) \/ AttemptLost(r) \/ ClearTask(r)
             \/ \E w \in Workers : StartAttempt(r, w)
      PROVE  jobs'[q].state = jobs[q].state
  BY <1>8 DEF CreateDagRun, AttemptLost, ClearTask, StartAttempt, tables
<1>9. ASSUME NEW w \in Workers, ReportSuccess(w) \/ ReportFailure(w) \/ AttemptDies(w)
      PROVE  jobs'[q].state = jobs[q].state
  BY <1>9 DEF ReportSuccess, ReportFailure, AttemptDies, tables
<1>10. CASE UNCHANGED vars
  BY <1>1, <1>10 DEF vars
<1> QED
  BY <1>1, <1>4, <1>5, <1>6, <1>7, <1>8, <1>9, <1>10 DEF Next

(* A late, repeated or failed dispatch answer never regresses a job.       *)
THEOREM DispatchForward == Spec => DispatchNeverRegresses
<1>1. IInv /\ [Next]_vars =>
        [\A r \in Revs : jobs[r].state \notin AwaitingDispatch \cup {"none"} =>
           jobs'[r].state \notin AwaitingDispatch]_vars
  BY DispatchKept
<1> QED
  BY <1>1, Invariance, PTL DEF Spec, DispatchNeverRegresses
----------------------------------------------------------------------------
(* The stages of a run and the attempts that carry them.                   *)

Settled(r) == Inactive(r, SettledRow(r))

(* An attempt Airflow watches carries the current stage of a running run,  *)
(* and a callback belongs to a run that failed.                            *)
Paired ==
  /\ \A r \in Revs : runs[r].state = "none" => runs[r].stage = 1
  /\ \A r \in Revs, w \in Workers : runs[r].worker = w =>
       /\ runs[r].state = "running"
       /\ workers[w].pc # "idle" => workers[w].rev = r /\ workers[w].stage = runs[r].stage
  /\ \A r \in Revs : callbacks[r].pc # "idle" => runs[r].state = "failed"

(* The advisory lock: attempts of one job do not overlap, watched or not.  *)
LocksExclude ==
  \A v, w \in Workers : /\ workers[v].pc \in Holding /\ workers[w].pc \in Holding
                        /\ workers[v].rev = workers[w].rev
                        => v = w

(* So what a snapshot read as not ready is not ready when it is used.      *)
SeenFresh ==
  \A w \in Workers : workers[w].pc \in {"open", "write", "fail"} /\ ~workers[w].seen =>
    revs[workers[w].rev].status # "ready"

CancelledDeleted ==
  \A r \in Revs : jobs[r].state = "cancelled" => DocOf(r).life = "deleted"

(* What a document serves, or served, is a revision of its own, embedded.  *)
ActiveWhole ==
  \A d \in Docs : docs[d].active # None =>
    /\ Stored(docs[d].active) /\ revs[docs[d].active].doc = d
    /\ Complete(docs[d].active)

(* While no attempt was given up on, every attempt is watched, so nothing  *)
(* else works on a run that failed, and its callback knows the revision.   *)
Watched ==
  lost = 0 =>
    /\ \A w \in Workers : workers[w].pc # "idle" => runs[workers[w].rev].worker = w
    /\ \A r \in Revs : callbacks[r].pc = "mark" =>
         revs[r].status # IF callbacks[r].seen THEN "pending" ELSE "ready"
    /\ ActiveRevisionReady
    /\ CallbackReliable =>
         \A r \in Revs : runs[r].state = "failed" /\ callbacks[r].pc = "idle" =>
           revs[r].status # "pending"

(* What a stage leaves for those after it.                                 *)
Output(r, i) ==
  /\ i < 5 => Stages[i] \in jobs[r].artifacts
  /\ i = 4 => Complete(r)

(* Only a callback with a stale snapshot undoes a published revision: with *)
(* no attempt given up on there is none, and a failed run that nobody      *)
(* clears has no further use for the work.                                 *)
Safe(r) == lost = 0 \/ (cleared = 0 /\ runs[r].state # "failed")

WorkKept ==
  /\ \A w \in Workers : workers[w].pc # "idle" /\ Safe(workers[w].rev) =>
       /\ workers[w].pc \in {"open", "write"} /\ workers[w].seen => Settled(workers[w].rev)
       /\ workers[w].pc = "done" =>
            \/ Settled(workers[w].rev)
            \/ workers[w].stage < 5 /\ Output(workers[w].rev, workers[w].stage)
  /\ \A r \in Revs : Safe(r) /\ Stored(r) => Settled(r) \/
       /\ Needs(Stages[runs[r].stage]) \subseteq jobs[r].artifacts
       /\ runs[r].stage = 5 => Complete(r)

(* Revision numbers count the document's revisions.                        *)
NumbersCount ==
  \A r \in Revs : revs[r].status # "none" =>
    revs[r].number \in 1..Cardinality(RevisionsOf(revs[r].doc))

AttemptInv ==
  /\ Paired /\ LocksExclude /\ SeenFresh /\ CancelledDeleted /\ ActiveWhole
  /\ Watched /\ WorkKept /\ NumbersCount
----------------------------------------------------------------------------
(* What any step may do to a stored revision and to a document.            *)

Publishes(q) == \E w \in Workers : Publish(w) /\ workers[w].rev = q

(* A status changes by a deletion, by a worker or a callback that read the *)
(* revision as not settled, or by a publication.                           *)
StatusMove(q) ==
  \/ revs'[q].status = revs[q].status
  \/ revs[q].status = "pending" /\ revs'[q].status = "failed"
  \/ /\ revs'[q].status \in {"pending", "failed"}
     /\ \E w \in Workers : /\ workers[w].rev = q /\ workers[w].pc \in {"open", "fail"}
                           /\ ~workers[w].seen
  \/ revs'[q].status = "failed" /\ callbacks[q].pc = "mark" /\ ~callbacks[q].seen
  \/ revs'[q].status = "ready" /\ Publishes(q)

RowMoves(q) ==
  /\ revs'[q].doc = revs[q].doc /\ revs'[q].number = revs[q].number
  /\ StatusMove(q)
  /\ Complete(q) => chunks'[q] = "embedded"
  /\ jobs[q].artifacts \subseteq jobs'[q].artifacts \/ Publishes(q)
  /\ jobs'[q].state = "cancelled" =>
       jobs[q].state = "cancelled" \/ docs'[revs[q].doc].life = "deleted"

DocMoves(d) ==
  /\ docs[d].life = "deleted" => docs'[d].life = "deleted"
  /\ docs'[d].latest = docs[d].latest
     \/ \E q \in Revs : ~Stored(q) /\ docs'[d].latest = q
  /\ \/ docs'[d].active = docs[d].active
     \/ docs'[d].active = None
     \/ \E q \in Revs : Publishes(q) /\ docs'[d].active = q /\ revs[q].doc = d

Moves == /\ \A q \in Revs : Stored(q) => RowMoves(q)
         /\ \A q \in Revs : ~Stored(q) => revs'[q].status \in {"none", "pending"}
         /\ \A d \in Docs : DocMoves(d)

LEMMA TablesStay == UNCHANGED tables => Moves
BY DEF tables, Moves, RowMoves, StatusMove, DocMoves, Complete, Stored

LEMMA CreateMoves ==
  ASSUME IInv, NEW d \in Docs, NEW r \in Revs, CreateRevision(d, r), UNCHANGED chunks,
         \A e \in Docs \ {d} : docs'[e] = docs[e],
         docs[d].life # "deleted", docs'[d].latest = r,
         docs'[d].active \in {docs[d].active, None}
  PROVE  Moves
<1>1. /\ ~Stored(r) /\ revs'[r].status = "pending"
      /\ \A q \in Revs \ {r} : revs'[q] = revs[q] /\ jobs'[q] = jobs[q]
  BY DEF CreateRevision, Stored, IInv, TypeOK
<1>2. \A q \in Revs : Stored(q) => RowMoves(q)
  BY <1>1 DEF RowMoves, StatusMove, Complete
<1>3. \A e \in Docs : DocMoves(e)
  BY <1>1 DEF DocMoves
<1> QED BY <1>1, <1>2, <1>3 DEF Moves, Stored

LEMMA MarkMoves ==
  ASSUME IInv, NEW r, Stored(r), NEW rev \in {"pending", "failed"}, NEW job, job # "cancelled",
         NEW doc, SetStatus(r, rev, job, doc), UNCHANGED chunks,
         \/ \E w \in Workers : /\ workers[w].rev = r /\ workers[w].pc \in {"open", "fail"}
                               /\ ~workers[w].seen
         \/ rev = "failed" /\ callbacks[r].pc = "mark" /\ ~callbacks[r].seen
  PROVE  Moves
<1>1. \A q \in Revs : /\ revs'[q].doc = revs[q].doc /\ revs'[q].number = revs[q].number
                      /\ revs'[q].status = IF q = r THEN rev ELSE revs[q].status
  BY DEF SetStatus, IInv, TypeOK, RevType
<1>2. \A q \in Revs : /\ jobs'[q].artifacts = jobs[q].artifacts
                      /\ jobs'[q].state = IF q = r THEN job ELSE jobs[q].state
  BY DEF SetStatus, IInv, TypeOK, JobType
<1>3. \A d \in Docs : /\ docs'[d].life = docs[d].life /\ docs'[d].latest = docs[d].latest
                      /\ docs'[d].active = docs[d].active
  BY DEF SetStatus, IInv, TypeOK, DocType
<1>4. \A q \in Revs : StatusMove(q) BY <1>1 DEF StatusMove
<1>5. \A q \in Revs : RowMoves(q) BY <1>1, <1>2, <1>4 DEF RowMoves, Complete
<1>6. \A d \in Docs : DocMoves(d) BY <1>3 DEF DocMoves
<1> QED BY <1>1, <1>5, <1>6 DEF Moves, Stored

LEMMA MarkFailedMoves ==
  ASSUME IInv, NEW r, Stored(r), NEW seen \in BOOLEAN, MarkFailed(r, seen),
         \/ \E w \in Workers : /\ workers[w].rev = r /\ workers[w].pc \in {"open", "fail"}
                               /\ workers[w].seen = seen
         \/ callbacks[r].pc = "mark" /\ callbacks[r].seen = seen
  PROVE  Moves
<1>1. CASE Inactive(r, seen) BY <1>1, TablesStay DEF MarkFailed
<1>2. CASE ~Inactive(r, seen)
  <2>1. ~seen /\ SetStatus(r, "failed", "failed", "failed") /\ UNCHANGED chunks
    BY <1>2 DEF MarkFailed, Inactive
  <2> QED BY <2>1, MarkMoves
<1> QED BY <1>1, <1>2

LEMMA ApiMoves ==
  ASSUME IInv, NEW h \in Handlers, ApiRequest(h)
  PROVE  Moves
<1>1. ASSUME NEW d \in Docs, NEW r \in Revs, Reprocess(h, d, r) PROVE Moves
  <2>1. /\ docs'[d].latest = r /\ docs'[d].active = docs[d].active
        /\ docs[d].life # "deleted" /\ \A e \in Docs \ {d} : docs'[e] = docs[e]
    BY <1>1 DEF Reprocess, NewLatest, Live, IInv, TypeOK, DocType
  <2> QED BY <1>1, <2>1, CreateMoves DEF Reprocess
<1>2. ASSUME NEW c \in Contents, NEW r \in Revs, CreateDocument(h, c, r) PROVE Moves
  <2> DEFINE d == handlers[h].doc
  <2>1. d \in Docs /\ docs[d].life = "absent"
    BY <1>2 DEF CreateDocument, IInv, HandlersRefer
  <2>2. /\ docs'[d].latest = r /\ docs'[d].active = None
        /\ \A e \in Docs \ {d} : docs'[e] = docs[e]
    BY <1>2, <2>1 DEF CreateDocument, IInv, TypeOK
  <2>3. CreateRevision(d, r) /\ UNCHANGED chunks BY <1>2 DEF CreateDocument
  <2> HIDE DEF d
  <2> QED BY <2>1, <2>2, <2>3, CreateMoves
<1>3. CASE RecordDispatch(h)
  <2> DEFINE r == handlers[h].rev
             state == IF handlers[h].err THEN "dispatch_failed" ELSE "queued"
             status == IF handlers[h].err THEN "failed" ELSE "queued"
  <2>1. CASE ~DispatchChanges(r, handlers[h].err)
    BY <1>3, <2>1, TablesStay DEF RecordDispatch, tables
  <2>2. CASE DispatchChanges(r, handlers[h].err)
    <3>1. /\ UNCHANGED <<revs, chunks>> /\ jobs' = [jobs EXCEPT ![r].state = state]
          /\ docs' = [d \in Docs |-> IF Live(d) /\ docs[d].latest = r
                                     THEN [docs[d] EXCEPT !.status = status] ELSE docs[d]]
      BY <1>3, <2>2 DEF RecordDispatch
    <3>2. state # "cancelled" OBVIOUS
    <3> HIDE DEF r, state, status
    <3>3. \A q \in Revs : /\ jobs'[q].artifacts = jobs[q].artifacts
                          /\ jobs'[q].state \in {state, jobs[q].state}
      BY <3>1 DEF IInv, TypeOK, JobType
    <3>4. docs \in [Docs -> DocType] BY DEF IInv, TypeOK
    <3>5. \A d \in Docs : /\ docs'[d].life = docs[d].life /\ docs'[d].latest = docs[d].latest
                          /\ docs'[d].active = docs[d].active
      BY <3>1, <3>4 DEF DocType
    <3>6. \A q \in Revs : RowMoves(q)
      BY <3>1, <3>2, <3>3 DEF RowMoves, StatusMove, Complete
    <3>7. \A d \in Docs : DocMoves(d) BY <3>5 DEF DocMoves
    <3> QED BY <3>1, <3>6, <3>7 DEF Moves, Stored
  <2> QED BY <2>1, <2>2
<1>4. CASE UNCHANGED tables BY <1>4, TablesStay
<1> QED
  BY <1>1, <1>2, <1>3, <1>4
  DEF ApiRequest, SaveUpload, RetryDispatch, RejectUpload, GetAndDispatch, DispatchAccepted,
      DispatchErrored, AbandonRequest, tables

LEMMA DeleteMoves ==
  ASSUME IInv, NEW d \in Docs, DeleteDocument(d)
  PROVE  Moves
<1>1. \A q \in Revs :
        /\ revs'[q].doc = revs[q].doc /\ revs'[q].number = revs[q].number
        /\ jobs'[q].artifacts = jobs[q].artifacts
        /\ revs'[q].status = IF revs[q].doc = d /\ revs[q].status = "pending"
                             THEN "failed" ELSE revs[q].status
        /\ jobs'[q].state = IF revs[q].doc = d /\ jobs[q].state \notin FinishedJob
                            THEN "cancelled" ELSE jobs[q].state
  BY DEF DeleteDocument, IInv, TypeOK, RevType, JobType
<1>2. \A e \in Docs : /\ docs'[e].latest = docs[e].latest /\ docs'[e].active = docs[e].active
                      /\ docs'[e].life = IF e = d THEN "deleted" ELSE docs[e].life
  BY DEF DeleteDocument, IInv, TypeOK, DocType
<1>3. chunks' = chunks BY DEF DeleteDocument
<1>4. \A q \in Revs : RowMoves(q) BY <1>1, <1>2, <1>3 DEF RowMoves, StatusMove, Complete
<1>5. \A e \in Docs : DocMoves(e) BY <1>2 DEF DocMoves
<1> QED BY <1>1, <1>4, <1>5 DEF Moves, Stored

LEMMA RunStageMoves ==
  ASSUME IInv, NEW w \in Workers, RunStage(w)
  PROVE  Moves
<1> DEFINE r == workers[w].rev
<1>0. /\ workers[w].pc # "idle" => Stored(r)
      /\ workers[w].seen \in BOOLEAN
  BY DEF IInv, RunsRefer, TypeOK, WorkerType
<1>1. CASE OpenStage(w) /\ ~UNCHANGED tables
  <2>1. /\ ~workers[w].seen /\ workers[w].pc = "open"
        /\ SetStatus(r, "pending", "processing", "processing") /\ UNCHANGED chunks
    BY <1>1 DEF OpenStage, Inactive
  <2> QED BY <1>0, <2>1, MarkMoves
<1>2. CASE StoreOutput(w)
  <2>1. Stored(r) /\ r \in Revs BY <1>0, <1>2 DEF StoreOutput, Stored
  <2>2. /\ UNCHANGED <<docs, revs>>
        /\ \A q \in Revs \ {r} : chunks'[q] = chunks[q] /\ jobs'[q] = jobs[q]
    BY <1>2 DEF StoreOutput, IInv, TypeOK
  <2>3. jobs'[r].state = jobs[r].state /\ jobs[r].artifacts \subseteq jobs'[r].artifacts
    BY <1>2, <2>1 DEF StoreOutput, Handoff, IInv, TypeOK, JobType
  <2>4. Complete(r) => chunks'[r] = "embedded"
    BY <1>2, <2>1 DEF StoreOutput, ChunkRows, Complete, IInv, TypeOK
  <2>5. \A q \in Revs : RowMoves(q)
    BY <2>1, <2>2, <2>3, <2>4 DEF RowMoves, StatusMove, Complete
  <2>6. \A d \in Docs : DocMoves(d) BY <2>2 DEF DocMoves
  <2> QED BY <2>2, <2>5, <2>6 DEF Moves, Stored
<1>3. CASE Publish(w)
  <2>1. Stored(r) /\ r \in Revs /\ Publishes(r)
    BY <1>0, <1>3 DEF Publish, Stored, Publishes
  <2>2. /\ chunks' = chunks
        /\ \A q \in Revs \ {r} : revs'[q] = revs[q] /\ jobs'[q] = jobs[q]
    BY <1>3 DEF Publish, IInv, TypeOK
  <2>3. /\ revs'[r].doc = revs[r].doc /\ revs'[r].number = revs[r].number
        /\ revs'[r].status = "ready" /\ jobs'[r].state = "succeeded"
    BY <1>3, <2>1 DEF Publish, IInv, TypeOK, RevType
  <2>4. docs' = [docs EXCEPT ![revs[r].doc] =
                  [docs[revs[r].doc] EXCEPT !.active = r, !.status = "processed"]]
    BY <1>3 DEF Publish
  <2>5. \A d \in Docs : /\ docs'[d].life = docs[d].life /\ docs'[d].latest = docs[d].latest
                        /\ docs'[d].active = IF d = revs[r].doc THEN r ELSE docs[d].active
    BY <2>4 DEF IInv, TypeOK, DocType
  <2> HIDE DEF r
  <2>6. \A q \in Revs : Stored(q) => RowMoves(q)
    BY <2>1, <2>2, <2>3 DEF RowMoves, StatusMove, Complete
  <2>7. \A d \in Docs : DocMoves(d) BY <2>1, <2>5 DEF DocMoves
  <2>8. \A q \in Revs : ~Stored(q) => revs'[q].status \in {"none", "pending"}
    BY <2>1, <2>2 DEF Stored
  <2> QED BY <2>6, <2>7, <2>8 DEF Moves
<1>4. CASE FailStage(w)
  <2>1. Stored(r) /\ MarkFailed(r, workers[w].seen) /\ workers[w].pc = "fail"
    BY <1>0, <1>4 DEF FailStage
  <2> QED BY <1>0, <2>1, MarkFailedMoves
<1>5. CASE UNCHANGED tables BY <1>5, TablesStay
<1> QED
  BY <1>1, <1>2, <1>3, <1>4, <1>5
  DEF RunStage, AcquireLock, ReadJob, OpenStage, Compute, RereadJob, DiscardOutput,
      StageRaises, FailRead

LEMMA StepMoves == IInv /\ [Next]_vars => Moves
<1> SUFFICES ASSUME IInv, [Next]_vars PROVE Moves
  OBVIOUS
<1>1. ASSUME NEW r \in Revs, TaskFailure(r) \/ CallbackDies(r) PROVE Moves
  <2>1. CASE CallbackMark(r)
    <3>1. /\ Stored(r) /\ callbacks[r].seen \in BOOLEAN
          /\ callbacks[r].pc = "mark" /\ MarkFailed(r, callbacks[r].seen)
      BY <2>1 DEF CallbackMark, IInv, RunsRefer, TypeOK, CallbackType
    <3> QED BY <3>1, MarkFailedMoves
  <2> QED
    BY <1>1, <2>1, TablesStay DEF TaskFailure, CallbackCheck, CallbackRead, CallbackDies
<1>2. ASSUME NEW r \in Revs,
             CreateDagRun(r) \/ AttemptLost(r) \/ ClearTask(r)
             \/ \E w \in Workers : StartAttempt(r, w)
      PROVE  Moves
  BY <1>2, TablesStay DEF CreateDagRun, AttemptLost, ClearTask, StartAttempt
<1>3. ASSUME NEW w \in Workers, ReportSuccess(w) \/ ReportFailure(w) \/ AttemptDies(w)
      PROVE  Moves
  BY <1>3, TablesStay DEF ReportSuccess, ReportFailure, AttemptDies
<1>4. CASE UNCHANGED vars BY <1>4, TablesStay DEF vars, tables
<1> QED
  BY <1>1, <1>2, <1>3, <1>4, ApiMoves, DeleteMoves, RunStageMoves DEF Next
----------------------------------------------------------------------------
(* What any step may do to a worker.                                       *)

WorkerMoves(v) ==
  \/ workers'[v] = workers[v] /\ ~RunStage(v)
  \/ workers'[v] = IdleWorker
  \/ \E r \in Revs : StartAttempt(r, v)
  \/ RunStage(v)

LEMMA OneWorkerMoves ==
  ASSUME IInv, NEW w \in Workers, RunStage(w), NEW v \in Workers, v # w
  PROVE  workers'[v] = workers[v]
BY DEF RunStage, AcquireLock, ReadJob, OpenStage, Compute, RereadJob, DiscardOutput, StoreOutput,
       Publish, StageRaises, FailRead, FailStage, Goto, TakeSnapshot, IInv, TypeOK

LEMMA StepWorkers ==
  ASSUME IInv, [Next]_vars, NEW v \in Workers
  PROVE  WorkerMoves(v)
<1> USE DEF WorkerMoves
<1>1. ASSUME NEW w \in Workers, RunStage(w) PROVE WorkerMoves(v)
  BY <1>1, OneWorkerMoves
<1>2. ASSUME NEW w \in Workers, ReportSuccess(w) \/ ReportFailure(w) \/ AttemptDies(w)
      PROVE  WorkerMoves(v)
  <2>1. workers' = [workers EXCEPT ![w] = IdleWorker]
    BY <1>2 DEF ReportSuccess, ReportFailure, AttemptDies
  <2> QED BY <2>1 DEF IInv, TypeOK
<1>3. ASSUME NEW r \in Revs, NEW w \in Workers, StartAttempt(r, w) PROVE WorkerMoves(v)
  <2>1. w # v => workers'[v] = workers[v] BY <1>3 DEF StartAttempt, IInv, TypeOK
  <2> QED BY <1>3, <2>1
<1>4. CASE UNCHANGED workers BY <1>4
<1>5. \/ \E w \in Workers : RunStage(w) \/ ReportSuccess(w) \/ ReportFailure(w) \/ AttemptDies(w)
      \/ \E r \in Revs, w \in Workers : StartAttempt(r, w)
      \/ UNCHANGED workers
  <2>1. ASSUME NEW h \in Handlers, ApiRequest(h) PROVE UNCHANGED workers
    BY <2>1
    DEF ApiRequest, SaveUpload, RetryDispatch, Reprocess, CreateDocument, RejectUpload,
        GetAndDispatch, DispatchAccepted, DispatchErrored, RecordDispatch, AbandonRequest
  <2>2. ASSUME NEW r \in Revs,
               TaskFailure(r) \/ CallbackDies(r) \/ CreateDagRun(r) \/ AttemptLost(r)
               \/ ClearTask(r)
        PROVE  UNCHANGED workers
    BY <2>2 DEF TaskFailure, CallbackCheck, CallbackRead, CallbackMark, CallbackDies,
        CreateDagRun, AttemptLost, ClearTask
  <2> QED BY <2>1, <2>2 DEF Next, DeleteDocument, vars
<1> QED BY <1>1, <1>2, <1>3, <1>4, <1>5

(* The steps of run_stage, by what they leave in the worker.               *)
LEMMA StageSteps ==
  ASSUME IInv, NEW w \in Workers, RunStage(w)
  PROVE  /\ workers[w].pc # "idle" /\ Stored(workers[w].rev)
         /\ workers'[w].rev = workers[w].rev /\ workers'[w].stage = workers[w].stage
         /\ workers'[w].pc = "begin" => AcquireLock(w)
         /\ workers'[w].pc \in Holding =>
              workers[w].pc \in Holding \/ AcquireLock(w)
         /\ workers'[w].pc \in {"open", "write", "fail"} =>
              UNCHANGED tables /\ workers'[w].seen = SettledRow(workers[w].rev)
         /\ workers'[w].pc = "done" =>
              OpenStage(w) \/ DiscardOutput(w) \/ StoreOutput(w) \/ Publish(w)
         /\ workers'[w].pc \notin {"idle", "lock"}
         /\ UNCHANGED <<runs, callbacks, lost, cleared>>
<1>0. Stored(workers[w].rev)
  BY DEF IInv, RunsRefer, RunStage, AcquireLock, ReadJob, OpenStage, Compute, RereadJob,
         DiscardOutput, StoreOutput, Publish, StageRaises, FailRead, FailStage
<1>goto. ASSUME NEW pc, Goto(w, pc)
         PROVE  /\ workers'[w].rev = workers[w].rev /\ workers'[w].stage = workers[w].stage
                /\ workers'[w].pc = pc
  BY <1>goto DEF Goto, IInv, TypeOK, WorkerType
<1>snap. ASSUME NEW pc, TakeSnapshot(w, pc)
         PROVE  /\ workers'[w].rev = workers[w].rev /\ workers'[w].stage = workers[w].stage
                /\ workers'[w].pc = pc /\ workers'[w].seen = SettledRow(workers[w].rev)
  <2>1. workers' = [workers EXCEPT ![w] = [workers[w] EXCEPT !.pc = pc,
                                              !.seen = SettledRow(workers[w].rev)]]
    BY <1>snap DEF TakeSnapshot
  <2> QED BY <2>1 DEF IInv, TypeOK, WorkerType
<1> USE DEF Holding, airflow
<1>1. CASE AcquireLock(w)
  <2>1. workers[w].pc = "lock" /\ Goto(w, "begin") /\ UNCHANGED airflow
    BY <1>1 DEF AcquireLock
  <2> QED BY <1>0, <1>1, <1>goto, <2>1
<1>2. CASE ReadJob(w)
  <2>1. workers' = [workers EXCEPT ![w] = [workers[w] EXCEPT !.pc = "open",
                      !.seen = SettledRow(workers[w].rev),
                      !.arts = jobs[workers[w].rev].artifacts]]
    BY <1>2 DEF ReadJob
  <2>2. /\ workers'[w].rev = workers[w].rev /\ workers'[w].stage = workers[w].stage
        /\ workers'[w].pc = "open" /\ workers'[w].seen = SettledRow(workers[w].rev)
    BY <2>1 DEF IInv, TypeOK, WorkerType
  <2> QED BY <1>0, <1>2, <2>2 DEF ReadJob
<1>3. CASE OpenStage(w)
  <2>1. /\ workers[w].pc = "open" /\ UNCHANGED airflow
        /\ Goto(w, "done") \/ Goto(w, "compute")
    BY <1>3 DEF OpenStage
  <2> QED BY <1>0, <1>3, <1>goto, <2>1
<1>4. CASE Compute(w)
  <2>1. /\ workers[w].pc = "compute" /\ UNCHANGED airflow
        /\ Goto(w, "reread") \/ Goto(w, "failread")
    BY <1>4 DEF Compute
  <2> QED BY <1>0, <1>goto, <2>1
<1>5. CASE RereadJob(w)
  BY <1>0, <1>5, <1>snap DEF RereadJob
<1>6. CASE DiscardOutput(w) \/ StoreOutput(w) \/ Publish(w)
  <2>1. workers[w].pc = "write" /\ UNCHANGED airflow /\ Goto(w, "done")
    BY <1>6 DEF DiscardOutput, StoreOutput, Publish
  <2> QED BY <1>0, <1>6, <1>goto, <2>1
<1>7. CASE StageRaises(w)
  BY <1>0, <1>7, <1>goto DEF StageRaises
<1>8. CASE FailRead(w)
  BY <1>0, <1>8, <1>snap DEF FailRead
<1>9. CASE FailStage(w)
  BY <1>0, <1>9, <1>goto DEF FailStage
<1> QED BY <1>1, <1>2, <1>3, <1>4, <1>5, <1>6, <1>7, <1>8, <1>9 DEF RunStage

----------------------------------------------------------------------------
(* Runs and their watched attempts.                                        *)

(* An attempt that ends frees the run, for its next stage, another try, or *)
(* the callback of a failed run.                                           *)
LEMMA AttemptEnds ==
  ASSUME IInv, NEW r \in Revs, AttemptSucceeded(r) \/ AttemptFailed(r),
         callbacks[r].pc = "idle", runs[r].state = "running"
  PROVE  /\ \A q \in Revs \ {r} : runs'[q] = runs[q] /\ callbacks'[q] = callbacks[q]
         /\ runs'[r].worker = None
         /\ runs'[r].state \in {"running", "success", "failed"}
         /\ (callbacks'[r].pc # "idle") <=> (runs'[r].state = "failed")
         /\ AttemptFailed(r) => runs'[r].stage = runs[r].stage
         /\ AttemptSucceeded(r) =>
              \/ runs'[r].stage = runs[r].stage
              \/ runs[r].stage < 5 /\ runs'[r].stage = runs[r].stage + 1
<1> DEFINE ended == [runs[r] EXCEPT !.state = "success", !.worker = None]
           next == [runs[r] EXCEPT !.stage = runs[r].stage + 1, !.try = 1, !.worker = None]
           again == [runs[r] EXCEPT !.try = runs[r].try + 1, !.worker = None]
           failed == [runs[r] EXCEPT !.state = "failed", !.worker = None]
           called == [pc |-> "check", seen |-> FALSE]
<1>0. runs \in [Revs -> RunType] /\ runs[r] \in RunType /\ callbacks \in [Revs -> CallbackType]
  BY DEF IInv, TypeOK
<1>1. /\ ended.worker = None /\ ended.state = "success" /\ ended.stage = runs[r].stage
      /\ next.worker = None /\ next.state = "running" /\ next.stage = runs[r].stage + 1
      /\ again.worker = None /\ again.state = "running" /\ again.stage = runs[r].stage
      /\ failed.worker = None /\ failed.state = "failed" /\ failed.stage = runs[r].stage
      /\ called.pc = "check"
  BY <1>0 DEF RunType
<1>2. AttemptSucceeded(r) =>
        /\ runs' = [runs EXCEPT ![r] = ended] \/
             (runs[r].stage # 5 /\ runs' = [runs EXCEPT ![r] = next])
        /\ callbacks' = callbacks
  BY StagesType DEF AttemptSucceeded
<1>3. AttemptFailed(r) =>
        \/ runs' = [runs EXCEPT ![r] = again] /\ callbacks' = callbacks
        \/ /\ runs' = [runs EXCEPT ![r] = failed]
           /\ callbacks' = [callbacks EXCEPT ![r] = called]
  BY DEF AttemptFailed
<1>4. runs[r].stage # 5 => runs[r].stage < 5 BY <1>0 DEF RunType
<1> HIDE DEF ended, next, again, failed, called
<1>5. \/ /\ callbacks' = callbacks
         /\ \E x \in {ended, next, again} : runs' = [runs EXCEPT ![r] = x]
      \/ /\ runs' = [runs EXCEPT ![r] = failed]
         /\ callbacks' = [callbacks EXCEPT ![r] = called]
  BY <1>2, <1>3
<1>6. /\ \A q \in Revs \ {r} : runs'[q] = runs[q] /\ callbacks'[q] = callbacks[q]
      /\ runs'[r].worker = None /\ runs'[r].state \in {"running", "success", "failed"}
      /\ (callbacks'[r].pc # "idle") <=> (runs'[r].state = "failed")
  BY <1>0, <1>1, <1>5
<1>7. AttemptFailed(r) => runs'[r].stage = runs[r].stage BY <1>0, <1>1, <1>3
<1>8. AttemptSucceeded(r) =>
        \/ runs'[r].stage = runs[r].stage
        \/ runs[r].stage < 5 /\ runs'[r].stage = runs[r].stage + 1
  BY <1>0, <1>1, <1>2, <1>4
<1> QED BY <1>6, <1>7, <1>8

(* A run moves when a watched attempt reports, or is given up on.          *)
RunEnds(r) ==
  /\ runs[r].worker \in Workers /\ UNCHANGED tables /\ cleared' = cleared
  /\ \/ AttemptLost(r)
     \/ /\ workers' = [workers EXCEPT ![runs[r].worker] = IdleWorker] /\ lost' = lost
        /\ workers[runs[r].worker].pc # "idle" /\ workers[runs[r].worker].rev = r
        /\ AttemptFailed(r) \/ (AttemptSucceeded(r) /\ workers[runs[r].worker].pc = "done")

RunMoves ==
  \/ UNCHANGED runs
  \/ \E r \in Revs : \/ CreateDagRun(r) \/ ClearTask(r) \/ RunEnds(r)
                     \/ \E w \in Workers : StartAttempt(r, w)

LEMMA StepRuns == IInv /\ [Next]_vars => RunMoves
<1> SUFFICES ASSUME IInv, [Next]_vars PROVE RunMoves
  OBVIOUS
<1> USE DEF RunMoves
<1>1. ASSUME NEW w \in Workers, ReportSuccess(w) \/ ReportFailure(w) PROVE RunMoves
  <2> DEFINE r == workers[w].rev
  <2>1. CASE runs[r].worker # w BY <1>1, <2>1 DEF ReportSuccess, ReportFailure
  <2>2. CASE runs[r].worker = w
    <3>1. r \in Revs
      BY <1>1 DEF IInv, RunsRefer, Stored, ReportSuccess, ReportFailure
    <3>2. /\ workers[w].pc # "idle" /\ workers' = [workers EXCEPT ![w] = IdleWorker]
          /\ (AttemptSucceeded(r) /\ workers[w].pc = "done") \/ AttemptFailed(r)
          /\ UNCHANGED <<tables, lost, cleared>>
      BY <1>1, <2>2 DEF ReportSuccess, ReportFailure
    <3> QED BY <2>2, <3>1, <3>2 DEF RunEnds
  <2> QED BY <2>1, <2>2
<1>2. ASSUME NEW r \in Revs, AttemptLost(r) PROVE RunMoves
  <2>1. runs[r].worker \in Workers BY <1>2 DEF AttemptLost, IInv, TypeOK, RunType
  <2> QED BY <1>2, <2>1 DEF RunEnds, AttemptLost
<1>3. ASSUME NEW h \in Handlers, ApiRequest(h) PROVE UNCHANGED runs
  BY <1>3
  DEF ApiRequest, SaveUpload, RetryDispatch, Reprocess, CreateDocument, RejectUpload, airflow,
      GetAndDispatch, DispatchAccepted, DispatchErrored, RecordDispatch, AbandonRequest
<1>4. ASSUME NEW r \in Revs, TaskFailure(r) \/ CallbackDies(r) PROVE UNCHANGED runs
  BY <1>4 DEF TaskFailure, CallbackCheck, CallbackRead, CallbackMark, CallbackDies
<1>5. ASSUME NEW w \in Workers, RunStage(w) \/ AttemptDies(w) PROVE UNCHANGED runs
  BY <1>5, StageSteps DEF AttemptDies, airflow
<1> QED
  BY <1>1, <1>2, <1>3, <1>4, <1>5 DEF Next, DeleteDocument, airflow, vars

(* A callback process starts when its run fails, and then only its own     *)
(* steps move it.                                                          *)
LEMMA CallbackMoves ==
  ASSUME IInv, [Next]_vars, NEW r \in Revs
  PROVE  \/ callbacks'[r] = callbacks[r]
         \/ RunEnds(r) /\ AttemptFailed(r) /\ callbacks'[r].pc = "check"
         \/ TaskFailure(r) \/ CallbackDies(r)
<1> USE DEF IInv, TypeOK
<1>1. CASE UNCHANGED callbacks BY <1>1
<1>2. ASSUME NEW q \in Revs, TaskFailure(q) \/ CallbackDies(q), q # r
      PROVE  callbacks'[r] = callbacks[r]
  BY <1>2 DEF TaskFailure, CallbackCheck, CallbackRead, CallbackMark, CallbackDies
<1>3. ASSUME NEW q \in Revs, AttemptFailed(q)
      PROVE  callbacks'[r] = callbacks[r] \/ (q = r /\ callbacks'[r].pc = "check")
  BY <1>3 DEF AttemptFailed
<1>4. ASSUME NEW w \in Workers, ReportSuccess(w) \/ ReportFailure(w)
      PROVE  UNCHANGED callbacks \/ \E q \in Revs : RunEnds(q) /\ AttemptFailed(q)
  <2> DEFINE q == workers[w].rev
  <2>1. CASE runs[q].worker # w BY <1>4, <2>1 DEF ReportSuccess, ReportFailure
  <2>2. CASE runs[q].worker = w /\ ReportFailure(w)
    <3>1. q \in Revs BY <2>2 DEF RunsRefer, Stored, ReportFailure
    <3>2. RunEnds(q) BY <2>2, <3>1 DEF ReportFailure, RunEnds
    <3> QED BY <2>2, <3>1, <3>2 DEF ReportFailure
  <2>3. CASE ReportSuccess(w)
    BY <2>3 DEF ReportSuccess, AttemptSucceeded
  <2> QED BY <1>4, <2>1, <2>2, <2>3
<1>5. ASSUME NEW q \in Revs, AttemptLost(q) PROVE RunEnds(q) /\ AttemptFailed(q)
  BY <1>5 DEF AttemptLost, RunEnds, RunType
<1>6. ASSUME NEW q \in Revs,
             CreateDagRun(q) \/ ClearTask(q) \/ \E w \in Workers : StartAttempt(q, w)
      PROVE  UNCHANGED callbacks
  BY <1>6 DEF CreateDagRun, ClearTask, StartAttempt
<1>7. ASSUME NEW h \in Handlers, ApiRequest(h) PROVE UNCHANGED callbacks
  BY <1>7
  DEF ApiRequest, SaveUpload, RetryDispatch, Reprocess, CreateDocument, RejectUpload, airflow,
      GetAndDispatch, DispatchAccepted, DispatchErrored, RecordDispatch, AbandonRequest
<1>8. ASSUME NEW w \in Workers, RunStage(w) \/ AttemptDies(w) PROVE UNCHANGED callbacks
  BY <1>8, StageSteps DEF AttemptDies, airflow
<1> HIDE DEF IInv
<1> QED
  BY <1>1, <1>2, <1>3, <1>4, <1>5, <1>6, <1>7, <1>8 DEF Next, DeleteDocument, airflow, vars

LEMMA StepCallbacks ==
  ASSUME IInv, [Next]_vars, NEW r \in Revs, callbacks'[r].pc # "idle"
  PROVE  callbacks[r].pc # "idle" \/ RunEnds(r)
<1>1. TaskFailure(r) \/ CallbackDies(r) => callbacks[r].pc # "idle"
  BY DEF TaskFailure, CallbackCheck, CallbackRead, CallbackMark, CallbackDies
<1> QED BY <1>1, CallbackMoves

LEMMA PairedStep == IInv /\ Paired /\ [Next]_vars => Paired'
<1> SUFFICES ASSUME IInv, Paired, [Next]_vars PROVE Paired'
  OBVIOUS
<1> DEFINE Stage1(r) == runs'[r].state = "none" => runs'[r].stage = 1
           Pair(r, w) == runs'[r].worker = w =>
             /\ runs'[r].state = "running"
             /\ workers'[w].pc # "idle" => workers'[w].rev = r /\ workers'[w].stage = runs'[r].stage
           Called(r) == callbacks'[r].pc # "idle" => runs'[r].state = "failed"
<1>0. /\ runs \in [Revs -> RunType] /\ workers \in [Workers -> WorkerType]
      /\ None \notin Workers /\ IdleWorker.pc = "idle"
  BY ConstantsAssumption DEF IInv, TypeOK, IdleWorker
<1>kept. ASSUME NEW r \in Revs, NEW w \in Workers, runs'[r] = runs[r],
                ~\E q \in Revs : StartAttempt(q, w)
         PROVE  Pair(r, w)
  <2>1. CASE RunStage(w) BY <1>kept, <2>1, StageSteps DEF Paired
  <2>2. CASE workers'[w] = workers[w] BY <1>kept, <2>2 DEF Paired
  <2>3. CASE workers'[w] = IdleWorker BY <1>0, <1>kept, <2>3 DEF Paired
  <2> QED BY <1>kept, <2>1, <2>2, <2>3, StepWorkers DEF WorkerMoves
<1>1. CASE UNCHANGED runs
  <2>1. ASSUME NEW q \in Revs, NEW w \in Workers PROVE ~StartAttempt(q, w)
    <3>1. StartAttempt(q, w) => runs'[q].worker = w /\ runs[q].worker = None
      BY <1>0 DEF StartAttempt, RunType
    <3> QED BY <1>0, <1>1, <3>1
  <2>2. \A r \in Revs, w \in Workers : Pair(r, w) BY <1>1, <1>kept, <2>1
  <2>3. ASSUME NEW r \in Revs PROVE ~RunEnds(r)
    <3>1. RunEnds(r) => AttemptSucceeded(r) \/ AttemptFailed(r) BY DEF RunEnds, AttemptLost
    <3>2. RunEnds(r) => runs[r].state = "running" /\ callbacks[r].pc = "idle"
      BY DEF RunEnds, Paired
    <3>3. RunEnds(r) => runs'[r].worker = None BY <3>1, <3>2, AttemptEnds
    <3> QED BY <1>0, <1>1, <3>3 DEF RunEnds
  <2>4. \A r \in Revs : Called(r) BY <1>1, <2>3, StepCallbacks DEF Paired
  <2> QED BY <1>1, <2>2, <2>4 DEF Paired
<1>2. ASSUME NEW r \in Revs, RunEnds(r) PROVE Paired'
  <2>1. AttemptSucceeded(r) \/ AttemptFailed(r) BY <1>2 DEF RunEnds, AttemptLost
  <2>2. runs[r].state = "running" /\ callbacks[r].pc = "idle" BY <1>2 DEF RunEnds, Paired
  <2>3. /\ \A q \in Revs \ {r} : runs'[q] = runs[q] /\ callbacks'[q] = callbacks[q]
        /\ runs'[r].worker = None /\ runs'[r].state # "none" /\ Called(r)
    BY <2>1, <2>2, AttemptEnds
  <2>4. ASSUME NEW q \in Revs \ {r}, NEW w \in Workers PROVE Pair(q, w)
    <3>1. workers'[w] = workers[w] \/ workers'[w] = IdleWorker
      BY <1>0, <1>2 DEF RunEnds, AttemptLost
    <3> QED BY <1>0, <2>3, <3>1 DEF Paired
  <2>5. \A q \in Revs : Stage1(q) /\ Called(q) BY <2>3 DEF Paired
  <2>6. \A q \in Revs, w \in Workers : Pair(q, w) BY <1>0, <2>3, <2>4
  <2> QED BY <2>5, <2>6 DEF Paired
<1>3. ASSUME NEW r \in Revs, NEW w \in Workers, StartAttempt(r, w) PROVE Paired'
  <2>1. /\ \A q \in Revs \ {r} : runs'[q] = runs[q]
        /\ runs'[r].worker = w /\ runs'[r].state = "running" /\ runs'[r].stage = runs[r].stage
        /\ callbacks' = callbacks
    BY <1>0, <1>3 DEF StartAttempt, RunType
  <2>2. /\ \A v \in Workers \ {w} : workers'[v] = workers[v]
        /\ workers'[w].rev = r /\ workers'[w].stage = runs[r].stage
    BY <1>0, <1>3 DEF StartAttempt, IdleWorker
  <2>3. \A q \in Revs : runs[q].worker # w BY <1>3 DEF StartAttempt
  <2>4. runs[r].state = "running" BY <1>3 DEF StartAttempt
  <2> QED BY <2>1, <2>2, <2>3, <2>4 DEF Paired
<1>4. ASSUME NEW r \in Revs, CreateDagRun(r) PROVE Paired'
  <2>1. runs[r].state = "none" => runs[r].worker = None BY DEF IInv, RunsRefer
  <2>2. /\ \A q \in Revs \ {r} : runs'[q] = runs[q]
        /\ runs'[r].worker = runs[r].worker /\ runs'[r].stage = runs[r].stage
        /\ runs'[r].state = IF runs[r].state = "none" THEN "running" ELSE runs[r].state
    BY <1>0, <1>4 DEF CreateDagRun, RunType
  <2>3. callbacks' = callbacks /\ workers' = workers BY <1>4 DEF CreateDagRun
  <2> QED BY <1>0, <2>1, <2>2, <2>3 DEF Paired
<1>5. ASSUME NEW r \in Revs, ClearTask(r) PROVE Paired'
  <2>1. runs' = [runs EXCEPT ![r] = [runs[r] EXCEPT !.state = "running", !.try = 1]]
    BY <1>5 DEF ClearTask
  <2>2. /\ \A q \in Revs \ {r} : runs'[q] = runs[q]
        /\ runs'[r].worker = runs[r].worker /\ runs'[r].stage = runs[r].stage
        /\ runs'[r].state = "running"
    BY <1>0, <2>1 DEF RunType
  <2>3. callbacks' = callbacks /\ workers' = workers /\ callbacks[r].pc = "idle"
    BY <1>5 DEF ClearTask
  <2> QED BY <1>0, <2>2, <2>3 DEF Paired
<1> QED BY <1>1, <1>2, <1>3, <1>4, <1>5, StepRuns DEF RunMoves

----------------------------------------------------------------------------
(* The advisory lock and what a snapshot is worth.                         *)

(* An attempt starts by waiting for the lock.                              *)
LEMMA StartedIsLocking ==
  ASSUME IInv, NEW r \in Revs, NEW w \in Workers, StartAttempt(r, w)
  PROVE  workers'[w].pc = "lock" /\ workers'[w].rev = r /\ workers'[w].stage = runs[r].stage
<1>1. workers \in [Workers -> WorkerType] BY DEF IInv, TypeOK
<1>2. workers' = [workers EXCEPT ![w] = [IdleWorker EXCEPT !.pc = "lock", !.rev = r,
                                                      !.stage = runs[r].stage]]
  BY DEF StartAttempt
<1> QED BY <1>1, <1>2 DEF IdleWorker

LEMMA LocksStep == IInv /\ LocksExclude /\ [Next]_vars => LocksExclude'
<1> SUFFICES ASSUME IInv, LocksExclude, [Next]_vars PROVE LocksExclude'
  OBVIOUS
<1>1. ASSUME NEW v \in Workers, workers'[v].pc \in Holding
      PROVE  \/ workers[v].pc \in Holding /\ workers'[v].rev = workers[v].rev
             \/ AcquireLock(v) /\ workers'[v].rev = workers[v].rev
  <2>1. workers'[v] # IdleWorker BY <1>1 DEF IdleWorker, Holding
  <2>2. ~\E r \in Revs : StartAttempt(r, v)
    BY <1>1, StartedIsLocking DEF Holding
  <2> QED BY <1>1, <2>1, <2>2, StageSteps, StepWorkers DEF WorkerMoves
<1>2. ASSUME NEW v \in Workers, AcquireLock(v), NEW w \in Workers, w # v,
             workers'[w].pc \in Holding, workers'[w].rev = workers'[v].rev,
             workers'[v].rev = workers[v].rev
      PROVE  FALSE
  <2>1. workers'[w] = workers[w] BY <1>2 DEF AcquireLock, Goto, IInv, TypeOK
  <2> QED BY <1>2, <2>1 DEF AcquireLock
<1> QED BY <1>1, <1>2 DEF LocksExclude

(* Only the holder of a job's lock publishes its revision.                 *)
LEMMA PublisherHolds ==
  ASSUME LocksExclude, NEW w \in Workers, workers[w].pc \in Holding, Publishes(workers[w].rev)
  PROVE  Publish(w)
BY DEF LocksExclude, Publishes, Publish, Holding

LEMMA SeenStep == IInv /\ LocksExclude /\ SeenFresh /\ [Next]_vars => SeenFresh'
<1> SUFFICES ASSUME IInv, LocksExclude, SeenFresh, [Next]_vars,
                    NEW w \in Workers, workers'[w].pc \in {"open", "write", "fail"},
                    ~workers'[w].seen
             PROVE  revs'[workers'[w].rev].status # "ready"
  BY DEF SeenFresh
<1> DEFINE r == workers[w].rev
<1>1. CASE RunStage(w)
  <2>1. UNCHANGED tables /\ workers'[w].seen = SettledRow(r) /\ workers'[w].rev = r
    BY <1>1, StageSteps
  <2> QED BY <2>1 DEF SettledRow, tables
<1>2. CASE workers'[w] = workers[w] /\ ~RunStage(w)
  <2>1. revs[r].status # "ready" /\ Stored(r)
    BY <1>2 DEF SeenFresh, IInv, RunsRefer
  <2>2. ~Publishes(r)
    <3>1. ~Publish(w) BY <1>2 DEF RunStage
    <3> QED BY <1>2, <3>1, PublisherHolds DEF Holding
  <2>3. revs'[r].status # "ready"
    BY <2>1, <2>2, StepMoves DEF Moves, RowMoves, StatusMove, Stored
  <2> QED BY <1>2, <2>3
<1>3. workers'[w] # IdleWorker BY DEF IdleWorker
<1>4. ~\E q \in Revs : StartAttempt(q, w)
  BY StartedIsLocking
<1> QED BY <1>1, <1>2, <1>3, <1>4, StepWorkers DEF WorkerMoves

LEMMA CancelledStep == IInv /\ IInv' /\ CancelledDeleted /\ [Next]_vars => CancelledDeleted'
<1> SUFFICES ASSUME IInv, IInv', CancelledDeleted, [Next]_vars,
                    NEW r \in Revs, jobs'[r].state = "cancelled"
             PROVE  docs'[revs'[r].doc].life = "deleted"
  BY DEF CancelledDeleted, DocOf
<1>1. CASE Stored(r)
  <2>1. /\ revs'[r].doc = revs[r].doc /\ revs[r].doc \in Docs
        /\ jobs[r].state = "cancelled" \/ docs'[revs[r].doc].life = "deleted"
    BY <1>1, StepMoves DEF Moves, RowMoves, IInv, RevisionsOwned, Stored
  <2> QED BY <2>1, StepMoves DEF Moves, DocMoves, CancelledDeleted, DocOf
<1>2. CASE ~Stored(r)
  <2>1. revs'[r].status \in {"none", "pending"} BY <1>2, StepMoves DEF Moves
  <2> QED BY <2>1 DEF IInv, RowsAgree, JobsOf, AwaitingDispatch
<1> QED BY <1>1, <1>2

LEMMA ActiveStep == IInv /\ ActiveWhole /\ [Next]_vars => ActiveWhole'
<1> SUFFICES ASSUME IInv, ActiveWhole, [Next]_vars,
                    NEW d \in Docs, docs'[d].active # None
             PROVE  /\ docs'[d].active \in Revs /\ revs'[docs'[d].active].status # "none"
                    /\ revs'[docs'[d].active].doc = d /\ chunks'[docs'[d].active] = "embedded"
  BY DEF ActiveWhole, Stored, Complete
<1>1. PICK q \in Revs : docs'[d].active = q /\ Stored(q) /\ revs[q].doc = d /\ Complete(q)
  <2>1. CASE docs'[d].active = docs[d].active
    BY <2>1 DEF ActiveWhole, Stored
  <2>2. ASSUME NEW q \in Revs, Publishes(q), docs'[d].active = q, revs[q].doc = d
        PROVE  Stored(q) /\ Complete(q)
    BY <2>2 DEF Publishes, Publish, IInv, RunsRefer
  <2> QED BY <2>1, <2>2, StepMoves DEF Moves, DocMoves
<1>2. revs'[q].doc = d /\ chunks'[q] = "embedded" BY <1>1, StepMoves DEF Moves, RowMoves
<1>3. revs'[q].status # "none" BY <1>1, RowsKept DEF Grows, Stored
<1> QED BY <1>1, <1>2, <1>3
----------------------------------------------------------------------------
(* While no attempt was given up on.                                       *)

LEMMA LostStays ==
  ASSUME IInv, [Next]_vars, lost' = 0
  PROVE  lost = 0
<1>1. lost \in Nat BY ConstantsAssumption DEF IInv, TypeOK
<1>2. UNCHANGED lost \/ lost' = lost + 1
  <2>1. ASSUME NEW h \in Handlers, ApiRequest(h) PROVE UNCHANGED lost
    BY <2>1
    DEF ApiRequest, SaveUpload, RetryDispatch, Reprocess, CreateDocument, RejectUpload, airflow,
        GetAndDispatch, DispatchAccepted, DispatchErrored, RecordDispatch, AbandonRequest
  <2>2. ASSUME NEW r \in Revs PROVE AttemptLost(r) => UNCHANGED lost \/ lost' = lost + 1
    BY DEF AttemptLost
  <2>3. ASSUME NEW r \in Revs,
               CreateDagRun(r) \/ ClearTask(r) \/ TaskFailure(r) \/ CallbackDies(r)
               \/ \E w \in Workers : StartAttempt(r, w)
        PROVE  UNCHANGED lost
    BY <2>3 DEF CreateDagRun, ClearTask, TaskFailure, CallbackCheck, CallbackRead, CallbackMark,
                CallbackDies, StartAttempt
  <2>4. ASSUME NEW w \in Workers,
               RunStage(w) \/ ReportSuccess(w) \/ ReportFailure(w) \/ AttemptDies(w)
        PROVE  UNCHANGED lost
    BY <2>4, StageSteps DEF ReportSuccess, ReportFailure, AttemptDies, airflow
  <2> QED BY <2>1, <2>2, <2>3, <2>4 DEF Next, DeleteDocument, airflow, vars
<1> QED BY <1>1, <1>2

(* The attempt of a run that ends has reported or is dead.                 *)
LEMMA EndedIsIdle ==
  ASSUME IInv, NEW r \in Revs, RunEnds(r), lost' = 0
  PROVE  workers'[runs[r].worker].pc = "idle"
<1>1. lost \in Nat BY ConstantsAssumption DEF IInv, TypeOK
<1>2. CASE AttemptLost(r) BY <1>1, <1>2 DEF AttemptLost
<1>3. CASE workers' = [workers EXCEPT ![runs[r].worker] = IdleWorker]
  BY <1>3 DEF RunEnds, IdleWorker, IInv, TypeOK
<1> QED BY <1>2, <1>3 DEF RunEnds

(* What a step may do to the state and the worker of a run.                *)
LEMMA RunFields ==
  ASSUME IInv, Paired, [Next]_vars, NEW r \in Revs
  PROVE  \/ RunEnds(r)
         \/ \E w \in Workers : /\ StartAttempt(r, w)
                               /\ runs'[r].worker = w /\ runs'[r].stage = runs[r].stage
                               /\ runs'[r].state = "running"
         \/ /\ runs'[r].worker = runs[r].worker /\ runs'[r].stage = runs[r].stage
            /\ runs'[r].state = runs[r].state \/ runs'[r].state = "running"
<1>0. runs \in [Revs -> RunType] BY DEF IInv, TypeOK
<1>1. ASSUME NEW q \in Revs, RunEnds(q), q # r PROVE runs'[r] = runs[r]
  <2>1. AttemptSucceeded(q) \/ AttemptFailed(q) BY <1>1 DEF RunEnds, AttemptLost
  <2>2. runs[q].state = "running" /\ callbacks[q].pc = "idle" BY <1>1 DEF RunEnds, Paired
  <2> QED BY <1>1, <2>1, <2>2, AttemptEnds
<1>2. ASSUME NEW q \in Revs, NEW w \in Workers, StartAttempt(q, w)
      PROVE  \/ q # r /\ runs'[r] = runs[r]
             \/ /\ q = r /\ runs'[r].worker = w /\ runs'[r].stage = runs[r].stage
                /\ runs'[r].state = "running"
  BY <1>0, <1>2 DEF StartAttempt, RunType
<1>3. ASSUME NEW q \in Revs, CreateDagRun(q)
      PROVE  /\ runs'[r].worker = runs[r].worker /\ runs'[r].stage = runs[r].stage
             /\ runs'[r].state = runs[r].state \/ runs'[r].state = "running"
  BY <1>0, <1>3 DEF CreateDagRun, RunType
<1>4. ASSUME NEW q \in Revs, ClearTask(q)
      PROVE  /\ runs'[r].worker = runs[r].worker /\ runs'[r].stage = runs[r].stage
             /\ runs'[r].state = runs[r].state \/ runs'[r].state = "running"
  <2>1. runs' = [runs EXCEPT ![q] = [runs[q] EXCEPT !.state = "running", !.try = 1]]
    BY <1>4 DEF ClearTask
  <2> QED BY <1>0, <2>1 DEF RunType
<1> QED BY <1>1, <1>2, <1>3, <1>4, StepRuns DEF RunMoves

LEMMA StaysWatched ==
  ASSUME IInv, Paired, Watched, [Next]_vars, lost' = 0,
         NEW w \in Workers, workers'[w].pc # "idle"
  PROVE  runs'[workers'[w].rev].worker = w
<1> DEFINE r == workers[w].rev
<1>0. lost = 0 /\ None \notin Workers BY LostStays, ConstantsAssumption
<1>1. ASSUME NEW q \in Revs, StartAttempt(q, w) PROVE runs'[workers'[w].rev].worker = w
  <2>1. runs'[q].worker = w BY <1>1 DEF StartAttempt, IInv, TypeOK, RunType
  <2> QED BY <1>1, <2>1, StartedIsLocking
<1>2. CASE workers[w].pc # "idle" /\ workers'[w].rev = r
  <2>1. r \in Revs /\ runs[r].worker = w
    BY <1>0, <1>2 DEF Watched, IInv, RunsRefer, Stored
  <2>2. ~RunEnds(r) BY <2>1, EndedIsIdle
  <2>3. ~\E v \in Workers : StartAttempt(r, v) BY <1>0, <2>1 DEF StartAttempt
  <2> QED BY <1>2, <2>1, <2>2, <2>3, RunFields
<1>3. WorkerMoves(w) BY StepWorkers
<1>4. workers'[w] # IdleWorker BY DEF IdleWorker
<1> QED BY <1>1, <1>2, <1>3, <1>4, StageSteps DEF WorkerMoves

LEMMA NoneOnFailed ==
  ASSUME Paired, Watched, lost = 0, NEW w \in Workers, workers[w].pc # "idle",
         workers[w].rev \in Revs
  PROVE  runs[workers[w].rev].state = "running"
BY DEF Paired, Watched

(* The status of a revision whose run failed.                              *)
LEMMA FailedMoves ==
  ASSUME IInv, Paired, Watched, lost = 0, [Next]_vars, NEW r \in Revs, Stored(r),
         runs[r].state = "failed"
  PROVE  revs'[r].status \in {revs[r].status, "failed"}
<1>1. ASSUME NEW w \in Workers, workers[w].rev = r PROVE workers[w].pc = "idle"
  BY <1>1, NoneOnFailed
<1>2. ~Publishes(r) BY <1>1 DEF Publishes, Publish
<1> QED BY <1>1, <1>2, StepMoves DEF Moves, RowMoves, StatusMove

LEMMA CallbackKnows ==
  ASSUME IInv, Paired, Watched, [Next]_vars, lost = 0,
         NEW r \in Revs, callbacks'[r].pc = "mark"
  PROVE  revs'[r].status # IF callbacks'[r].seen THEN "pending" ELSE "ready"
<1>0. callbacks \in [Revs -> CallbackType] BY DEF IInv, TypeOK
<1>1. CASE callbacks'[r] = callbacks[r]
  <2>1. /\ Stored(r) /\ runs[r].state = "failed"
        /\ revs[r].status # IF callbacks[r].seen THEN "pending" ELSE "ready"
    BY <1>1 DEF IInv, RunsRefer, Paired, Watched
  <2> QED BY <1>1, <2>1, FailedMoves
<1>2. CASE CallbackRead(r)
  <2>1. callbacks'[r].seen = SettledRow(r) /\ revs' = revs
    BY <1>0, <1>2 DEF CallbackRead, tables
  <2>2. SettledRow(r) => revs[r].status # "pending"
    BY DEF SettledRow, IInv, RowsAgree, JobsOf, AwaitingDispatch
  <2> QED BY <2>1, <2>2 DEF SettledRow
<1>3. ~CallbackCheck(r) /\ ~CallbackMark(r) /\ ~CallbackDies(r)
  BY <1>0 DEF CallbackCheck, CallbackMark, CallbackDies, IdleCallback, CallbackType
<1> QED BY <1>1, <1>2, <1>3, CallbackMoves DEF TaskFailure

LEMMA ActiveStaysReady ==
  ASSUME IInv, SeenFresh, ActiveWhole, Watched, [Next]_vars, lost = 0
  PROVE  ActiveRevisionReady'
<1> SUFFICES ASSUME NEW d \in Docs, docs'[d].active # None
             PROVE  revs'[docs'[d].active].status = "ready"
  BY DEF ActiveRevisionReady
<1>1. ASSUME NEW q \in Revs, Publishes(q) PROVE revs'[q].status = "ready"
  BY <1>1 DEF Publishes, Publish, IInv, TypeOK, RevType
<1>2. CASE docs'[d].active = docs[d].active
  <2> DEFINE a == docs[d].active
  <2>1. Stored(a) /\ a \in Revs /\ revs[a].status = "ready"
    BY <1>2 DEF ActiveWhole, Watched, ActiveRevisionReady, Stored
  <2>2. ASSUME NEW w \in Workers, workers[w].rev = a, workers[w].pc \in {"open", "fail"}
        PROVE  workers[w].seen
    BY <2>1, <2>2 DEF SeenFresh
  <2>3. callbacks[a].pc = "mark" => callbacks[a].seen
    BY <2>1 DEF Watched
  <2> QED BY <1>2, <2>1, <2>2, <2>3, StepMoves DEF Moves, RowMoves, StatusMove
<1> QED BY <1>1, <1>2, StepMoves DEF Moves, DocMoves

LEMMA FailureMarked ==
  ASSUME IInv, Paired, Watched, [Next]_vars, lost = 0, CallbackReliable, lost' = 0,
         NEW r \in Revs, runs'[r].state = "failed", callbacks'[r].pc = "idle"
  PROVE  revs'[r].status # "pending"
<1>0. callbacks \in [Revs -> CallbackType] BY DEF IInv, TypeOK
<1>1. CASE callbacks'[r] = callbacks[r]
  <2>1. ~RunEnds(r)
    <3>1. RunEnds(r) => AttemptSucceeded(r) \/ AttemptFailed(r) BY DEF RunEnds, AttemptLost
    <3>2. RunEnds(r) => runs[r].state = "running" BY DEF RunEnds, Paired
    <3> QED BY <1>1, <3>1, <3>2, AttemptEnds
  <2>2. runs[r].state = "failed" BY <2>1, RunFields
  <2>3. Stored(r) BY <2>2 DEF IInv, RunsRefer
  <2>4. revs[r].status # "pending" BY <1>1, <2>2 DEF Watched
  <2> QED BY <2>2, <2>3, <2>4, FailedMoves
<1>2. CASE CallbackCheck(r)
  <2>1. CallbackStops(r) /\ revs' = revs BY <1>0, <1>2 DEF CallbackCheck, CallbackType, tables
  <2> QED BY <2>1 DEF CallbackStops, IInv, RowsAgree, JobsOf, AwaitingDispatch
<1>3. CASE CallbackMark(r)
  <2>1. CASE Inactive(r, callbacks[r].seen)
    <3>1. revs' = revs /\ callbacks[r].pc = "mark"
      BY <1>3, <2>1 DEF CallbackMark, MarkFailed, tables
    <3>2. callbacks[r].seen => revs[r].status # "pending" BY <3>1 DEF Watched
    <3>3. revs[r].status = "pending" => DocOf(r).life = "live" /\ DocOf(r).latest = r
      BY DEF IInv, PendingIsLatest
    <3> QED BY <2>1, <3>1, <3>2, <3>3 DEF Inactive
  <2>2. CASE ~Inactive(r, callbacks[r].seen)
    BY <1>3, <2>2 DEF CallbackMark, MarkFailed, SetStatus, IInv, TypeOK, RevType
  <2> QED BY <2>1, <2>2
<1>4. ~CallbackRead(r) /\ ~CallbackDies(r)
  BY <1>0 DEF CallbackRead, CallbackDies
<1> QED BY <1>1, <1>2, <1>3, <1>4, CallbackMoves DEF TaskFailure

LEMMA WatchedStep ==
  IInv /\ Paired /\ SeenFresh /\ ActiveWhole /\ Watched /\ [Next]_vars => Watched'
<1> SUFFICES ASSUME IInv, Paired, SeenFresh, ActiveWhole, Watched, [Next]_vars PROVE Watched'
  OBVIOUS
<1>1. lost' = 0 => lost = 0 BY LostStays
<1>2. lost' = 0 => \A w \in Workers : workers'[w].pc # "idle" => runs'[workers'[w].rev].worker = w
  BY StaysWatched
<1>3. lost' = 0 => \A r \in Revs : callbacks'[r].pc = "mark" =>
         revs'[r].status # IF callbacks'[r].seen THEN "pending" ELSE "ready"
  BY <1>1, CallbackKnows
<1>4. lost' = 0 => ActiveRevisionReady' BY <1>1, ActiveStaysReady
<1>5. lost' = 0 /\ CallbackReliable =>
        \A r \in Revs : runs'[r].state = "failed" /\ callbacks'[r].pc = "idle" =>
          revs'[r].status # "pending"
  BY <1>1, FailureMarked
<1> QED BY <1>2, <1>3, <1>4, <1>5 DEF Watched
----------------------------------------------------------------------------
(* What the stages of a run hand on.                                       *)

LEMMA ClearedMoves ==
  ASSUME IInv, [Next]_vars
  PROVE  cleared' = cleared \/ cleared' = cleared + 1
<1>1. ASSUME NEW h \in Handlers, ApiRequest(h) PROVE UNCHANGED cleared
  BY <1>1
  DEF ApiRequest, SaveUpload, RetryDispatch, Reprocess, CreateDocument, RejectUpload, airflow,
      GetAndDispatch, DispatchAccepted, DispatchErrored, RecordDispatch, AbandonRequest
<1>2. ASSUME NEW r \in Revs PROVE ClearTask(r) => cleared' = cleared + 1
  BY DEF ClearTask
<1>3. ASSUME NEW r \in Revs,
             CreateDagRun(r) \/ AttemptLost(r) \/ TaskFailure(r) \/ CallbackDies(r)
             \/ \E w \in Workers : StartAttempt(r, w)
      PROVE  UNCHANGED cleared
  BY <1>3 DEF CreateDagRun, AttemptLost, TaskFailure, CallbackCheck, CallbackRead, CallbackMark,
              CallbackDies, StartAttempt
<1>4. ASSUME NEW w \in Workers,
             RunStage(w) \/ ReportSuccess(w) \/ ReportFailure(w) \/ AttemptDies(w)
      PROVE  UNCHANGED cleared
  BY <1>4, StageSteps DEF ReportSuccess, ReportFailure, AttemptDies, airflow
<1> QED BY <1>1, <1>2, <1>3, <1>4 DEF Next, DeleteDocument, airflow, vars

(* Only an operator takes a run out of the failed state.                   *)
LEMMA FailedStays ==
  ASSUME IInv, Paired, [Next]_vars, cleared' = 0, NEW r \in Revs, runs[r].state = "failed"
  PROVE  runs'[r].state = "failed"
<1>0. runs \in [Revs -> RunType] /\ cleared \in Nat
  BY ConstantsAssumption DEF IInv, TypeOK
<1>1. ASSUME NEW q \in Revs, RunEnds(q) PROVE runs'[r] = runs[r]
  <2>1. AttemptSucceeded(q) \/ AttemptFailed(q) BY <1>1 DEF RunEnds, AttemptLost
  <2>2. runs[q].state = "running" /\ callbacks[q].pc = "idle" BY <1>1 DEF RunEnds, Paired
  <2> QED BY <2>1, <2>2, AttemptEnds
<1>2. ASSUME NEW q \in Revs, NEW w \in Workers, StartAttempt(q, w) PROVE runs'[r] = runs[r]
  BY <1>0, <1>2 DEF StartAttempt
<1>3. ASSUME NEW q \in Revs, CreateDagRun(q) PROVE runs'[r] = runs[r]
  BY <1>0, <1>3 DEF CreateDagRun
<1>4. ASSUME NEW q \in Revs PROVE ~ClearTask(q)
  BY <1>0 DEF ClearTask
<1> QED BY <1>1, <1>2, <1>3, <1>4, StepRuns DEF RunMoves

LEMMA SafeBefore ==
  ASSUME IInv, Paired, [Next]_vars, NEW r \in Revs, Safe(r)'
  PROVE  Safe(r)
<1>1. lost' = 0 => lost = 0 BY LostStays
<1>2. cleared' = 0 => cleared = 0
  BY ClearedMoves, ConstantsAssumption DEF IInv, TypeOK
<1> QED BY <1>1, <1>2, FailedStays DEF Safe

(* A revision that no longer counts, or is published, stays so.            *)
LEMMA SettledStays ==
  ASSUME IInv, Paired, SeenFresh, CancelledDeleted, Watched, [Next]_vars,
         NEW r, Stored(r), Safe(r), Settled(r)
  PROVE  Settled(r)'
<1> DEFINE d == revs[r].doc
<1>0. r \in Revs /\ d \in Docs /\ revs'[r].doc = d /\ DocMoves(d) /\ StatusMove(r)
  BY StepMoves DEF Stored, Moves, RowMoves, IInv, RevisionsOwned
<1>1. CASE docs[d].life = "deleted"
  BY <1>0, <1>1 DEF DocMoves, Settled, Inactive, DocOf
<1>2. CASE jobs[r].state = "cancelled"
  BY <1>0, <1>1, <1>2 DEF CancelledDeleted, DocOf
<1>3. CASE docs[d].latest # r
  BY <1>0, <1>3 DEF DocMoves, Settled, Inactive, DocOf
<1>4. CASE revs[r].status = "ready"
  <2>1. ASSUME NEW w \in Workers, workers[w].rev = r, workers[w].pc \in {"open", "fail"}
        PROVE  workers[w].seen
    BY <1>4, <2>1 DEF SeenFresh
  <2>2. callbacks[r].pc = "mark" => callbacks[r].seen
    BY <1>0, <1>4 DEF Paired, Safe, Watched
  <2>3. revs'[r].status = "ready" BY <1>0, <1>4, <2>1, <2>2 DEF StatusMove
  <2> QED BY <2>3 DEF Settled, Inactive, SettledRow
<1> QED BY <1>1, <1>2, <1>3, <1>4 DEF Settled, Inactive, SettledRow, DocOf

(* Outputs are kept until the revision is published.                       *)
LEMMA OutputsStay ==
  ASSUME IInv, [Next]_vars, NEW r, Stored(r)
  PROVE  /\ Complete(r) => Complete(r)'
         /\ jobs[r].artifacts \subseteq jobs'[r].artifacts \/ Settled(r)'
<1>1. ASSUME Publishes(r) PROVE revs'[r].status = "ready"
  BY <1>1 DEF Publishes, Publish, IInv, TypeOK, RevType, Stored
<1> QED BY <1>1, StepMoves DEF Moves, RowMoves, Stored, Complete, Settled, Inactive, SettledRow

LEMMA OutputStays ==
  ASSUME IInv, [Next]_vars, NEW r, Stored(r), NEW i \in 1..5, Output(r, i)
  PROVE  Output(r, i)' \/ Settled(r)'
BY OutputsStay DEF Output

LEMMA StageDone ==
  ASSUME IInv, [Next]_vars, WorkKept, NEW w \in Workers, RunStage(w),
         workers'[w].pc = "done", Safe(workers[w].rev), NEW r, r = workers[w].rev,
         NEW i, i = workers[w].stage
  PROVE  Settled(r)' \/ (i < 5 /\ Output(r, i)')
<1>0. /\ r \in Revs /\ i \in 1..5
      /\ OpenStage(w) \/ DiscardOutput(w) \/ StoreOutput(w) \/ Publish(w)
  BY StageSteps DEF Stored, IInv, TypeOK, WorkerType
<1>1. ASSUME Inactive(r, workers[w].seen), workers[w].pc \in {"open", "write"}, UNCHANGED tables
      PROVE  Settled(r)'
  <2>1. Settled(r) BY <1>1 DEF WorkKept, Settled, Inactive
  <2> QED BY <1>1, <2>1 DEF Settled, Inactive, SettledRow, DocOf, tables
<1>2. CASE OpenStage(w)
  <2>1. Goto(w, "compute") => workers'[w].pc = "compute"
    BY DEF Goto, IInv, TypeOK, WorkerType
  <2> QED BY <1>1, <1>2, <2>1 DEF OpenStage
<1>3. CASE DiscardOutput(w) BY <1>1, <1>3 DEF DiscardOutput, MayWrite
<1>4. CASE StoreOutput(w)
  <2>1. Stages[i] # "publish" BY <1>4 DEF StoreOutput, StageOf
  <2>2. i < 5 BY <1>0, <2>1 DEF Stages
  <2>3. Stages[i] \in jobs'[r].artifacts
    BY <1>0, <1>4 DEF StoreOutput, StageOf, Handoff, IInv, TypeOK, JobType
  <2>4. i = 4 => chunks'[r] = "embedded"
    BY <1>0, <1>4 DEF StoreOutput, StageOf, ChunkRows, Stages, IInv, TypeOK
  <2> QED BY <2>2, <2>3, <2>4 DEF Output, Complete
<1>5. CASE Publish(w)
  <2>1. revs'[r].status = "ready" BY <1>0, <1>5 DEF Publish, IInv, TypeOK, RevType
  <2> QED BY <2>1 DEF Settled, Inactive, SettledRow
<1> QED BY <1>0, <1>2, <1>3, <1>4, <1>5

LEMMA WorkerKept ==
  ASSUME IInv, Paired, SeenFresh, CancelledDeleted, Watched, WorkKept, [Next]_vars,
         NEW w \in Workers, NEW r \in Revs, NEW i \in 1..5, workers'[w].pc # "idle",
         workers'[w].rev = r, workers'[w].stage = i, Safe(r)'
  PROVE  /\ workers'[w].pc \in {"open", "write"} /\ workers'[w].seen => Settled(r)'
         /\ workers'[w].pc = "done" => Settled(r)' \/ (i < 5 /\ Output(r, i)')
<1>0. Safe(r) BY SafeBefore
<1>1. CASE workers'[w] = workers[w]
  <2>1. Stored(r) BY <1>1 DEF IInv, RunsRefer
  <2>2. Settled(r) => Settled(r)' BY <1>0, <2>1, SettledStays
  <2>3. Output(r, i) => Output(r, i)' \/ Settled(r)' BY <2>1, OutputStays
  <2> QED BY <1>0, <1>1, <2>2, <2>3 DEF WorkKept
<1>2. CASE RunStage(w)
  <2>1. workers[w].rev = r /\ workers[w].stage = i BY <1>2, StageSteps
  <2>2. workers'[w].pc = "done" => Settled(r)' \/ (i < 5 /\ Output(r, i)')
    BY <1>0, <1>2, <2>1, StageDone
  <2>3. ASSUME workers'[w].pc \in {"open", "write"}, workers'[w].seen PROVE Settled(r)'
    <3>1. UNCHANGED tables /\ SettledRow(r) BY <1>2, <2>1, <2>3, StageSteps
    <3> QED BY <3>1 DEF Settled, Inactive, SettledRow, tables
  <2> QED BY <2>2, <2>3
<1>3. ASSUME NEW q \in Revs, StartAttempt(q, w) PROVE workers'[w].pc = "lock"
  BY <1>3, StartedIsLocking
<1>4. workers'[w] # IdleWorker BY DEF IdleWorker
<1> QED BY <1>1, <1>2, <1>3, <1>4, StepWorkers DEF WorkerMoves

(* The work a stage needs is what the stage before it leaves.              *)
LEMMA NextNeeds ==
  ASSUME NEW r, NEW i \in 1..4, Needs(Stages[i]) \subseteq jobs[r].artifacts, Output(r, i)
  PROVE  /\ Needs(Stages[i + 1]) \subseteq jobs[r].artifacts
         /\ i + 1 = 5 => Complete(r)
<1>1. CASE i = 1 BY <1>1 DEF Output, Needs, Stages
<1>2. CASE i = 2 BY <1>2 DEF Output, Needs, Stages
<1>3. CASE i = 3 BY <1>3 DEF Output, Needs, Stages
<1>4. CASE i = 4 BY <1>4 DEF Output, Needs, Stages
<1> QED BY <1>1, <1>2, <1>3, <1>4

LEMMA RunKept ==
  ASSUME IInv, Paired, SeenFresh, CancelledDeleted, Watched, WorkKept, [Next]_vars,
         NEW r \in Revs, NEW i, runs'[r].stage = i, Safe(r)', ~Settled(r)'
  PROVE  /\ Needs(Stages[i]) \subseteq jobs'[r].artifacts
         /\ i = 5 => Complete(r)'
<1>0. Safe(r) /\ runs[r] \in RunType /\ None \notin Workers
  BY SafeBefore, ConstantsAssumption DEF IInv, TypeOK
<1>1. CASE ~Stored(r)
  <2>1. runs[r].state = "none" /\ runs[r].worker = None /\ runs[r].stage = 1
    BY <1>1 DEF IInv, RunsRefer, Paired
  <2>2. ~RunEnds(r) /\ ~\E w \in Workers : StartAttempt(r, w)
    BY <1>0, <2>1 DEF RunEnds, StartAttempt
  <2>3. i = 1 BY <2>1, <2>2, RunFields
  <2> QED BY <2>3 DEF Needs, Stages
<1>2. CASE Stored(r)
  <2>1. ~Settled(r) BY <1>0, <1>2, SettledStays
  <2>2. /\ Needs(Stages[runs[r].stage]) \subseteq jobs[r].artifacts
        /\ runs[r].stage = 5 => Complete(r)
    BY <1>0, <1>2, <2>1 DEF WorkKept
  <2>3. /\ Complete(r) => Complete(r)'
        /\ jobs[r].artifacts \subseteq jobs'[r].artifacts
    BY <1>2, OutputsStay
  <2>4. CASE runs'[r].stage = runs[r].stage BY <2>2, <2>3, <2>4
  <2>5. CASE RunEnds(r) /\ runs'[r].stage # runs[r].stage
    <3> DEFINE w == runs[r].worker
    <3>1. AttemptSucceeded(r) \/ AttemptFailed(r) BY <2>5 DEF RunEnds, AttemptLost
    <3>2. runs[r].state = "running" /\ callbacks[r].pc = "idle" BY <2>5 DEF RunEnds, Paired
    <3>3. runs[r].stage < 5 /\ i = runs[r].stage + 1 /\ ~AttemptFailed(r)
      BY <2>5, <3>1, <3>2, AttemptEnds
    <3>4. /\ w \in Workers /\ workers[w].pc = "done" /\ workers[w].rev = r
          /\ workers[w].stage = runs[r].stage
      BY <2>5, <3>3 DEF RunEnds, AttemptLost, Paired
    <3>5. Output(r, runs[r].stage) BY <1>0, <2>1, <3>4 DEF WorkKept
    <3>6. runs[r].stage \in 1..4 BY <1>0, <3>3 DEF RunType
    <3>7. Needs(Stages[i]) \subseteq jobs[r].artifacts /\ (i = 5 => Complete(r))
      BY <2>2, <3>3, <3>5, <3>6, NextNeeds
    <3> QED BY <2>3, <3>7
  <2> QED BY <2>4, <2>5, RunFields
<1> QED BY <1>1, <1>2

LEMMA WorkStep ==
  IInv /\ IInv' /\ Paired /\ SeenFresh /\ CancelledDeleted /\ Watched /\ WorkKept /\ [Next]_vars
    => WorkKept'
<1> SUFFICES ASSUME IInv, IInv', Paired, SeenFresh, CancelledDeleted, Watched, WorkKept, [Next]_vars
             PROVE  WorkKept'
  OBVIOUS
<1>1. ASSUME NEW w \in Workers, workers'[w].pc # "idle", Safe(workers[w].rev)'
      PROVE  /\ workers'[w].pc \in {"open", "write"} /\ workers'[w].seen =>
                  Settled(workers[w].rev)'
             /\ workers'[w].pc = "done" =>
                  \/ Settled(workers[w].rev)'
                  \/ workers'[w].stage < 5 /\ Output(workers[w].rev, workers[w].stage)'
  <2> DEFINE r == workers'[w].rev
             i == workers'[w].stage
  <2>1. r \in Revs /\ i \in 1..5 BY <1>1 DEF IInv, RunsRefer, Stored, TypeOK, WorkerType
  <2>2. lost' = 0 \/ (cleared' = 0 /\ runs'[r].state # "failed") BY <1>1 DEF Safe
  <2> HIDE DEF r, i
  <2>3. PICK q \in Revs, j \in 1..5 : q = r /\ j = i BY <2>1
  <2>4. Safe(q)' BY <2>2, <2>3 DEF Safe
  <2>5. /\ workers'[w].pc \in {"open", "write"} /\ workers'[w].seen => Settled(q)'
        /\ workers'[w].pc = "done" => Settled(q)' \/ (j < 5 /\ Output(q, j)')
    BY <1>1, <2>3, <2>4, WorkerKept DEF r, i
  <2> QED BY <2>3, <2>5 DEF r, i, Settled, Inactive, SettledRow, DocOf, Output, Complete
<1>2. ASSUME NEW r \in Revs, Safe(r)', ~Settled(r)'
      PROVE  /\ Needs(Stages[runs'[r].stage]) \subseteq jobs'[r].artifacts
             /\ runs'[r].stage = 5 => Complete(r)'
  BY <1>2, RunKept
<1> QED BY <1>1, <1>2 DEF WorkKept
----------------------------------------------------------------------------
(* Revision numbers.                                                       *)

LEMMA OnlyCreated ==
  ASSUME IInv, [Next]_vars, NEW r \in Revs, ~Stored(r), revs'[r].status # "none"
  PROVE  \E d \in Docs : CreateRevision(d, r)
<1> DEFINE Goal == \E d \in Docs : CreateRevision(d, r)
<1>0. revs[r].status = "none" /\ revs \in [Revs -> RevType] BY DEF Stored, IInv, TypeOK
<1>1. ASSUME NEW d \in Docs, NEW q \in Revs, CreateRevision(d, q) PROVE Goal
  <2>1. q # r => revs'[r] = revs[r] BY <1>0, <1>1 DEF CreateRevision
  <2> QED BY <1>0, <1>1, <2>1
<1>2. ASSUME NEW h \in Handlers, NEW c \in Contents, NEW q \in Revs, CreateDocument(h, c, q)
      PROVE  Goal
  <2>1. handlers[h].doc \in Docs /\ CreateRevision(handlers[h].doc, q)
    BY <1>2 DEF CreateDocument, IInv, HandlersRefer
  <2> QED BY <1>1, <2>1
<1>3. ASSUME NEW h \in Handlers, ApiRequest(h), UNCHANGED revs PROVE Goal
  BY <1>0, <1>3
<1>4. ASSUME NEW h \in Handlers, ApiRequest(h) PROVE Goal
  <2> HIDE DEF Goal
  <2> QED
    BY <1>1, <1>2, <1>3, <1>4
    DEF ApiRequest, SaveUpload, RetryDispatch, Reprocess, RejectUpload, GetAndDispatch, tables,
        DispatchAccepted, DispatchErrored, RecordDispatch, AbandonRequest
<1>5. ASSUME NEW d \in Docs PROVE ~DeleteDocument(d)
  BY <1>0 DEF DeleteDocument
<1>6. ASSUME NEW q, Stored(q), NEW rev, NEW job, NEW doc PROVE ~SetStatus(q, rev, job, doc)
  BY <1>0, <1>6 DEF SetStatus, Stored
<1>7. ASSUME NEW w \in Workers PROVE ~RunStage(w)
  <2>1. workers[w].pc # "idle" => Stored(workers[w].rev) BY DEF IInv, RunsRefer
  <2>2. ~Publish(w) BY <1>0, <2>1 DEF Publish, Stored
  <2>3. ~UNCHANGED revs BY <1>0
  <2> QED
    BY <1>6, <2>1, <2>2, <2>3
    DEF RunStage, AcquireLock, ReadJob, OpenStage, Compute, RereadJob, DiscardOutput, StoreOutput,
        StageRaises, FailRead, FailStage, MarkFailed, tables
<1>8. ASSUME NEW q \in Revs PROVE ~TaskFailure(q) /\ ~CallbackDies(q)
  <2>1. callbacks[q].pc # "idle" => Stored(q) BY DEF IInv, RunsRefer
  <2>2. ~UNCHANGED revs BY <1>0
  <2> QED
    BY <1>6, <2>1, <2>2
    DEF TaskFailure, CallbackCheck, CallbackRead, CallbackMark, CallbackDies, MarkFailed, tables
<1>9. ~UNCHANGED revs BY <1>0
<1> HIDE DEF Goal
<1>10. Goal
  BY <1>4, <1>5, <1>7, <1>8, <1>9
  DEF Next, CreateDagRun, AttemptLost, ClearTask, StartAttempt, ReportSuccess, ReportFailure,
      AttemptDies, tables, vars
<1> QED BY <1>10 DEF Goal

LEMMA RevisionsFinite ==
  ASSUME NEW d
  PROVE  IsFiniteSet(RevisionsOf(d)) /\ Cardinality(RevisionsOf(d)) \in Nat
<1>1. RevisionsOf(d) \subseteq Revs BY DEF RevisionsOf
<1>2. IsFiniteSet(RevisionsOf(d)) BY <1>1, RevsAssumption, FS_Subset
<1> QED BY <1>2, FS_CardinalityType

LEMMA NextNumberCounts ==
  ASSUME IInv, NumbersCount, NEW d \in Docs
  PROVE  NextNumber(d) \in 1..Cardinality(RevisionsOf(d)) + 1
<1> DEFINE S == {0} \cup {revs[r].number : r \in RevisionsOf(d)}
           m == Cardinality(RevisionsOf(d))
<1>1. m \in Nat BY RevisionsFinite
<1>2. \A r \in RevisionsOf(d) : revs[r].number \in 1..m
  BY ConstantsAssumption DEF RevisionsOf, NumbersCount, IInv, RevisionsOwned
<1>3. NextNumber(d) \in Nat /\ \A r \in RevisionsOf(d) : revs[r].number < NextNumber(d)
  BY NextNumberGreater
<1>4. NextNumber(d) = 1 + Max(S) BY DEF NextNumber
<1>5. Max(S) \in S
  <2>1. \E x \in S : \A y \in S : x >= y
    <3>1. CASE RevisionsOf(d) = {} BY <3>1
    <3>2. CASE RevisionsOf(d) # {}
      <4>1. PICK r \in RevisionsOf(d) : TRUE BY <3>2
      <4>2. docs[d].latest \in RevisionsOf(d)
        BY <4>1, ConstantsAssumption DEF IInv, RevisionsOwned, LatestIsNewest, RevisionsOf, DocOf
      <4>3. \A q \in RevisionsOf(d) : revs[q].number <= revs[docs[d].latest].number
        BY ConstantsAssumption
        DEF IInv, TypeOK, RevType, RevisionsOwned, LatestIsNewest, RevisionsOf, DocOf
      <4> HIDE DEF m
      <4>4. revs[docs[d].latest].number \in S /\ revs[docs[d].latest].number \in 1..m
        BY <1>2, <4>2
      <4>5. \A y \in S : revs[docs[d].latest].number >= y BY <1>1, <1>2, <4>3, <4>4
      <4> QED BY <4>4, <4>5
    <3> QED BY <3>1, <3>2
  <2> HIDE DEF S
  <2> QED BY <2>1 DEF Max
<1> HIDE DEF m
<1>6. Max(S) \in 0..m BY <1>1, <1>2, <1>5
<1> HIDE DEF S
<1> QED BY <1>1, <1>4, <1>6 DEF m

LEMMA NumbersStep == IInv /\ IInv' /\ NumbersCount /\ [Next]_vars => NumbersCount'
<1> SUFFICES ASSUME IInv, IInv', NumbersCount, [Next]_vars,
                    NEW r \in Revs, revs'[r].status # "none"
             PROVE  revs'[r].number \in 1..Cardinality({q \in Revs : revs'[q].doc = revs'[r].doc})
  BY DEF NumbersCount, RevisionsOf
<1> DEFINE After(d) == {q \in Revs : revs'[q].doc = d}
<1>0. ASSUME NEW d PROVE IsFiniteSet(After(d)) /\ Cardinality(After(d)) \in Nat
  <2>1. After(d) \subseteq Revs OBVIOUS
  <2>2. IsFiniteSet(After(d)) BY <2>1, RevsAssumption, FS_Subset
  <2> QED BY <2>2, FS_CardinalityType
<1>1. CASE Stored(r)
  <2> DEFINE d == revs[r].doc
  <2>1. d \in Docs /\ revs'[r].doc = d /\ revs'[r].number = revs[r].number
    BY <1>1, StepMoves DEF Moves, RowMoves, Stored, IInv, RevisionsOwned
  <2>2. RevisionsOf(d) \subseteq After(d)
    BY <2>1, ConstantsAssumption, StepMoves
    DEF RevisionsOf, Moves, RowMoves, Stored, IInv, RevisionsOwned
  <2>3. revs[r].number \in 1..Cardinality(RevisionsOf(d)) BY <1>1 DEF NumbersCount, Stored
  <2> HIDE DEF d, After
  <2>4. Cardinality(RevisionsOf(d)) <= Cardinality(After(d)) BY <1>0, <2>2, FS_Subset
  <2>5. revs[r].number \in 1..Cardinality(After(d))
    BY <1>0, <2>3, <2>4, RevisionsFinite
  <2> QED BY <2>1, <2>5 DEF After
<1>2. CASE ~Stored(r)
  <2>1. PICK d \in Docs : CreateRevision(d, r) BY <1>2, OnlyCreated
  <2>2. /\ revs[r].status = "none" /\ revs'[r].doc = d /\ revs'[r].number = NextNumber(d)
        /\ \A q \in Revs \ {r} : revs'[q] = revs[q]
    BY <2>1 DEF CreateRevision, IInv, TypeOK
  <2>3. r \notin RevisionsOf(d) /\ After(d) = RevisionsOf(d) \cup {r}
    BY <2>2, ConstantsAssumption DEF RevisionsOf, IInv, RevisionsOwned
  <2> HIDE DEF After
  <2>4. Cardinality(After(d)) = Cardinality(RevisionsOf(d)) + 1
    BY <2>3, RevisionsFinite, FS_AddElement
  <2>5. revs'[r].number \in 1..Cardinality(After(d)) BY <2>2, <2>4, NextNumberCounts
  <2> QED BY <2>2, <2>5 DEF After
<1> QED BY <1>1, <1>2
----------------------------------------------------------------------------
(* The invariant of the attempts, and what follows from it.                *)

LEMMA InitAttempts == Init => AttemptInv
<1> SUFFICES ASSUME Init PROVE AttemptInv
  OBVIOUS
<1>0. None \notin Docs \cup Revs \cup Contents \cup Workers BY ConstantsAssumption
<1>1. /\ \A d \in Docs : docs[d].active = None
      /\ \A r \in Revs : /\ revs[r].status = "none" /\ jobs[r].state = "none"
                         /\ runs[r].state = "none" /\ runs[r].stage = 1
                         /\ runs[r].worker = None /\ callbacks[r].pc = "idle"
      /\ \A w \in Workers : workers[w].pc = "idle"
  BY DEF Init, NoDoc, NoRev, NoJob, NoRun, IdleCallback, IdleWorker
<1>2. Paired /\ LocksExclude /\ SeenFresh /\ CancelledDeleted /\ ActiveWhole
  BY <1>0, <1>1 DEF Paired, LocksExclude, SeenFresh, CancelledDeleted, ActiveWhole, Holding
<1>3. Watched BY <1>1 DEF Watched, ActiveRevisionReady
<1>4. WorkKept BY <1>1 DEF WorkKept, Stored
<1>5. NumbersCount BY <1>1 DEF NumbersCount
<1> QED BY <1>2, <1>3, <1>4, <1>5 DEF AttemptInv

LEMMA AttemptStep == IInv /\ IInv' /\ AttemptInv /\ [Next]_vars => AttemptInv'
BY PairedStep, LocksStep, SeenStep, CancelledStep, ActiveStep, WatchedStep, WorkStep, NumbersStep
DEF AttemptInv

LEMMA AttemptInvariance == Spec => [](IInv /\ AttemptInv)
<1>1. IInv /\ AttemptInv /\ IInv' /\ [Next]_vars => AttemptInv' BY AttemptStep
<1> QED BY <1>1, InitAttempts, Invariance, PTL DEF Spec

(* While no attempt was given up on, what a document serves stays ready,   *)
(* through every replacement, failure, retry and deletion: only a second,  *)
(* unwatched attempt can take a published revision back (TLC shows how).   *)
THEOREM ActiveStaysUsable == Spec => [](lost = 0 => ActiveRevisionReady)
<1>1. AttemptInv => (lost = 0 => ActiveRevisionReady) BY DEF AttemptInv, Watched
<1> QED BY <1>1, AttemptInvariance, PTL

(* A run that failed, with its callback finished and no attempt given up   *)
(* on, leaves its revision open to a new one, provided no callback process *)
(* dies: the marks of run_stage and of task_failure miss none.             *)
THEOREM FailureAlwaysVisible == Spec => [](lost = 0 /\ CallbackReliable => FailureVisible)
<1>1. AttemptInv => (lost = 0 /\ CallbackReliable => FailureVisible)
  BY DEF AttemptInv, Watched, FailureVisible
<1> QED BY <1>1, AttemptInvariance, PTL

(* The work of a revision that still counts is there for the stage about   *)
(* to run, whatever number of attempts were lost or ran twice, unless a    *)
(* lost attempt and an operator's cleared task meet on one revision.       *)
THEOREM WorkAlwaysPresent == Spec => [](lost = 0 \/ cleared = 0 => WorkPresent)
<1>1. IInv /\ AttemptInv => (lost = 0 \/ cleared = 0 => WorkPresent)
  <2> SUFFICES ASSUME IInv, AttemptInv, lost = 0 \/ cleared = 0,
                      NEW r \in Revs, runs[r].state = "running", ~Inactive(r, SettledRow(r))
               PROVE  /\ Needs(Stages[runs[r].stage]) \subseteq jobs[r].artifacts
                      /\ Stages[runs[r].stage] = "publish" => chunks[r] = "embedded"
    BY DEF WorkPresent, HandoffPresent, VectorsPresent
  <2>1. Stored(r) /\ Safe(r) /\ ~Settled(r) BY DEF IInv, RunsRefer, Safe, Settled
  <2>2. /\ Needs(Stages[runs[r].stage]) \subseteq jobs[r].artifacts
        /\ runs[r].stage = 5 => Complete(r)
    BY <2>1 DEF AttemptInv, WorkKept
  <2>3. runs[r].stage \in 1..5 BY DEF IInv, TypeOK, RunType
  <2>4. Stages[runs[r].stage] = "publish" => runs[r].stage = 5 BY <2>3 DEF Stages
  <2> QED BY <2>2, <2>4 DEF Complete
<1> QED BY <1>1, AttemptInvariance, PTL
----------------------------------------------------------------------------
(* The refinement of Corpus.                                               *)

(* With no attempt given up on, a live document serves its active revision *)
(* whenever it has one.                                                    *)
Reads(d) == IF Live(d) /\ docs[d].active # None THEN revs[docs[d].active].number ELSE 0

LEMMA ServedReads ==
  ASSUME IInv, AttemptInv, lost = 0, NEW d \in Docs
  PROVE  Served(d) = Reads(d)
BY DEF Served, Searchable, Reads, AttemptInv, Watched, ActiveWhole, ActiveRevisionReady

LEMMA ReadsKept ==
  ASSUME IInv, AttemptInv, [Next]_vars, NEW d \in Docs,
         docs'[d].life = docs[d].life, docs'[d].active = docs[d].active
  PROVE  Reads(d)' = Reads(d)
<1>1. docs[d].active # None => revs'[docs[d].active].number = revs[docs[d].active].number
  BY StepMoves DEF Moves, RowMoves, AttemptInv, ActiveWhole, Stored
<1> QED BY <1>1 DEF Reads, Live

(* What a step may do to what the documents serve.                         *)
SameDoc(d) == docs'[d].life = docs[d].life /\ docs'[d].active = docs[d].active

CorpusMoves ==
  \/ \A d \in Docs : SameDoc(d)
  \/ \E d \in Docs :
       /\ \A e \in Docs \ {d} : SameDoc(e)
       /\ \/ docs[d].life = "absent" /\ docs'[d].life = "live" /\ docs'[d].active = None
          \/ /\ docs[d].life # "absent" /\ docs'[d].life = "deleted"
             /\ docs'[d].active = docs[d].active
          \/ \E w \in Workers :
               /\ Publish(w) /\ d = revs[workers[w].rev].doc
               /\ docs'[d].life = docs[d].life /\ docs'[d].active = workers[w].rev

LEMMA StatusKeepsDocs ==
  ASSUME IInv, NEW r, NEW rev, NEW job, NEW doc, SetStatus(r, rev, job, doc)
  PROVE  CorpusMoves
BY DEF SetStatus, IInv, TypeOK, DocType, CorpusMoves, SameDoc

LEMMA SameDocs == UNCHANGED docs => CorpusMoves
BY DEF CorpusMoves, SameDoc

LEMMA ApiCorpus == ASSUME IInv, NEW h \in Handlers, ApiRequest(h) PROVE CorpusMoves
<1>0. docs \in [Docs -> DocType] BY DEF IInv, TypeOK
<1>1. ASSUME NEW d \in Docs, NEW r \in Revs, Reprocess(h, d, r) PROVE CorpusMoves
  BY <1>0, <1>1 DEF Reprocess, NewLatest, DocType, CorpusMoves, SameDoc
<1>2. ASSUME NEW c \in Contents, NEW r \in Revs, CreateDocument(h, c, r) PROVE CorpusMoves
  <2>1. handlers[h].doc \in Docs /\ docs[handlers[h].doc].life = "absent"
    BY <1>2 DEF CreateDocument, IInv, HandlersRefer
  <2>2. docs' = [docs EXCEPT ![handlers[h].doc] =
                   [life |-> "live", content |-> c, status |-> "queued", latest |-> r,
                    active |-> None]]
    BY <1>2 DEF CreateDocument
  <2> QED BY <1>0, <2>1, <2>2 DEF CorpusMoves, SameDoc
<1>3. CASE RecordDispatch(h)
  <2> DEFINE status == IF handlers[h].err THEN "failed" ELSE "queued"
  <2>1. \/ UNCHANGED docs
        \/ docs' = [d \in Docs |-> IF Live(d) /\ docs[d].latest = handlers[h].rev
                                   THEN [docs[d] EXCEPT !.status = status] ELSE docs[d]]
    BY <1>3 DEF RecordDispatch
  <2> HIDE DEF status
  <2> QED BY <1>0, <2>1 DEF DocType, CorpusMoves, SameDoc
<1>4. CASE UNCHANGED docs BY <1>4, SameDocs
<1> QED
  BY <1>1, <1>2, <1>3, <1>4
  DEF ApiRequest, SaveUpload, RetryDispatch, RejectUpload, GetAndDispatch, DispatchAccepted,
      DispatchErrored, AbandonRequest, tables

LEMMA StepCorpus == IInv /\ [Next]_vars => CorpusMoves
<1> SUFFICES ASSUME IInv, [Next]_vars PROVE CorpusMoves
  OBVIOUS
<1>0. docs \in [Docs -> DocType] BY DEF IInv, TypeOK
<1>1. ASSUME NEW d \in Docs, DeleteDocument(d) PROVE CorpusMoves
  <2>1. docs' = [docs EXCEPT ![d] = [docs[d] EXCEPT !.life = "deleted"]]
    BY <1>1 DEF DeleteDocument
  <2>2. docs[d].life # "absent" BY <1>1 DEF DeleteDocument
  <2> QED BY <1>0, <2>1, <2>2 DEF DocType, CorpusMoves, SameDoc
<1>2. ASSUME NEW w \in Workers, Publish(w) PROVE CorpusMoves
  <2> DEFINE r == workers[w].rev
  <2>1. revs[r].doc \in Docs
    BY <1>2 DEF Publish, IInv, RunsRefer, Stored, RevisionsOwned
  <2>2. docs' = [docs EXCEPT ![revs[r].doc] =
                  [docs[revs[r].doc] EXCEPT !.active = r, !.status = "processed"]]
    BY <1>2 DEF Publish
  <2>3. \A d \in Docs : /\ docs'[d].life = docs[d].life
                        /\ docs'[d].active = IF d = revs[r].doc THEN r ELSE docs[d].active
    BY <1>0, <2>2 DEF DocType
  <2> QED BY <1>2, <2>1, <2>3 DEF CorpusMoves, SameDoc
<1>3. ASSUME NEW r, NEW seen, MarkFailed(r, seen) PROVE CorpusMoves
  BY <1>3, StatusKeepsDocs, SameDocs DEF MarkFailed, tables
<1>4. ASSUME NEW w \in Workers, RunStage(w) PROVE CorpusMoves
  BY <1>2, <1>3, <1>4, StatusKeepsDocs, SameDocs
  DEF RunStage, AcquireLock, ReadJob, OpenStage, Compute, RereadJob, DiscardOutput, StoreOutput,
      StageRaises, FailRead, FailStage, tables
<1>5. ASSUME NEW r \in Revs, TaskFailure(r) \/ CallbackDies(r) PROVE CorpusMoves
  BY <1>3, <1>5, SameDocs
  DEF TaskFailure, CallbackCheck, CallbackRead, CallbackMark, CallbackDies, tables
<1> QED
  BY <1>1, <1>4, <1>5, ApiCorpus, SameDocs
  DEF Next, CreateDagRun, AttemptLost, ClearTask, StartAttempt, ReportSuccess, ReportFailure,
      AttemptDies, tables, vars

(* A revision is published over an older one, or over none.                *)
LEMMA PublishedIsNewer ==
  ASSUME IInv, AttemptInv, lost = 0, NEW w \in Workers, Publish(w),
         NEW r, r = workers[w].rev, NEW d, d = revs[r].doc
  PROVE  /\ r \in Revs /\ d \in Docs /\ docs[d].life = "live"
         /\ revs[r].number \in 1..Cardinality(Revs)
         /\ Reads(d) < revs[r].number
<1>1. Stored(r) /\ workers[w].pc = "write" /\ ~Inactive(r, workers[w].seen)
  BY DEF Publish, MayWrite, IInv, RunsRefer
<1>2. /\ r \in Revs /\ d \in Docs /\ docs[d].life = "live"
      /\ revs[r].status # "none"
  BY <1>1 DEF Stored, IInv, RevisionsOwned, TypeOK, DocType, DocLife, Inactive, DocOf
<1>3. revs[r].status # "ready" /\ docs[d].latest = r
  BY <1>1 DEF Inactive, AttemptInv, SeenFresh, DocOf
<1>4. revs[r].number \in 1..Cardinality(RevisionsOf(d))
  BY <1>2 DEF AttemptInv, NumbersCount
<1>5. Cardinality(RevisionsOf(d)) <= Cardinality(Revs) /\ Cardinality(Revs) \in Nat
  <2>1. RevisionsOf(d) \subseteq Revs BY DEF RevisionsOf
  <2> QED BY <2>1, RevsAssumption, FS_Subset, FS_CardinalityType
<1>6. ASSUME docs[d].active # None PROVE revs[docs[d].active].number < revs[r].number
  <2> DEFINE a == docs[d].active
  <2>1. a \in Revs /\ revs[a].status = "ready" /\ revs[a].doc = d
    BY <1>2, <1>6 DEF AttemptInv, ActiveWhole, Watched, ActiveRevisionReady, Stored
  <2> HIDE DEF a
  <2>2. a # r BY <1>3, <2>1
  <2>3. revs[a].number < revs[r].number
    BY <1>3, <2>1, <2>2 DEF IInv, LatestIsNewest, DocOf
  <2> QED BY <2>3 DEF a
<1>7. revs[r].number \in 1..Cardinality(Revs)
  BY <1>4, <1>5, RevisionsFinite
<1>8. 0 < revs[r].number BY <1>4, RevisionsFinite
<1> QED BY <1>2, <1>6, <1>7, <1>8 DEF Reads

LEMMA LibraryStep ==
  ASSUME IInv, AttemptInv, IInv', AttemptInv', [Next]_vars
  PROVE  [lost' = 0 => Library!CNext]_(Library!corpusVars)
<1> SUFFICES ASSUME lost' = 0 PROVE Library!CNext \/ UNCHANGED Library!corpusVars
  OBVIOUS
<1> DEFINE life == [d \in Docs |-> docs[d].life]
           served == [d \in Docs |-> Reads(d)]
           nowLife == [d \in Docs |-> docs'[d].life]
           nowServed == [d \in Docs |-> Reads(d)']
<1>0. lost = 0 BY LostStays
<1>1. [d \in Docs |-> Served(d)] = served BY <1>0, ServedReads
<1>2. [d \in Docs |-> Served(d)'] = nowServed
  <2>1. ASSUME NEW d \in Docs PROVE Served(d)' = Reads(d)'
    BY DEF Served, Searchable, Reads, AttemptInv, Watched, ActiveWhole, ActiveRevisionReady,
           Live, Complete, Stored
  <2> QED BY <2>1
<1>3. \A d \in Docs : SameDoc(d) => Reads(d)' = Reads(d) BY ReadsKept DEF SameDoc
<1>4. CASE \A d \in Docs : SameDoc(d)
  <2>1. nowLife = life /\ nowServed = served BY <1>3, <1>4 DEF SameDoc
  <2> QED BY <1>1, <1>2, <2>1 DEF Library!corpusVars
<1>5. ASSUME NEW d \in Docs, \A e \in Docs \ {d} : SameDoc(e),
             docs[d].life = "absent", docs'[d].life = "live", docs'[d].active = None
      PROVE  Library!CNext
  <2>1. Reads(d) = 0 /\ Reads(d)' = 0 BY <1>5 DEF Reads, Live
  <2>2. nowServed = served /\ nowLife = [life EXCEPT ![d] = "live"]
    BY <1>3, <1>5, <2>1 DEF SameDoc
  <2>3. Library!Add(d) BY <1>1, <1>2, <1>5, <2>2 DEF Library!Add
  <2> QED BY <2>3 DEF Library!CNext
<1>6. ASSUME NEW d \in Docs, \A e \in Docs \ {d} : SameDoc(e),
             docs[d].life # "absent", docs'[d].life = "deleted",
             docs'[d].active = docs[d].active, ~SameDoc(d)
      PROVE  Library!CNext
  <2>1. docs[d].life = "live" BY <1>6 DEF SameDoc, IInv, TypeOK, DocType, DocLife
  <2>2. Reads(d)' = 0 BY <1>6 DEF Reads, Live
  <2>3. nowServed = [served EXCEPT ![d] = 0] /\ nowLife = [life EXCEPT ![d] = "deleted"]
    BY <1>3, <1>6, <2>2 DEF SameDoc
  <2>4. Library!Remove(d) BY <1>1, <1>2, <2>1, <2>3 DEF Library!Remove
  <2> QED BY <2>4 DEF Library!CNext
<1>7. ASSUME NEW d \in Docs, \A e \in Docs \ {d} : SameDoc(e), NEW w \in Workers, Publish(w),
             d = revs[workers[w].rev].doc, docs'[d].life = docs[d].life,
             docs'[d].active = workers[w].rev
      PROVE  Library!CNext
  <2> DEFINE r == workers[w].rev
             n == revs[r].number
  <2>1. /\ r \in Revs /\ docs[d].life = "live" /\ n \in 1..Cardinality(Revs)
        /\ Reads(d) < n
    BY <1>0, <1>7, PublishedIsNewer
  <2>2. Stored(r) /\ revs'[r].number = n
    BY <1>7, StepMoves DEF Publish, IInv, RunsRefer, Moves, RowMoves, Stored
  <2>3. Reads(d)' = n BY <1>7, <2>1, <2>2, ConstantsAssumption DEF Reads, Live
  <2> HIDE DEF n, r
  <2>4. nowServed = [served EXCEPT ![d] = n] /\ nowLife = life
    BY <1>3, <1>7, <2>3 DEF SameDoc
  <2>5. Library!Serve(d, n) BY <1>1, <1>2, <2>1, <2>4 DEF Library!Serve
  <2> QED BY <2>1, <2>5 DEF Library!CNext
<1> QED BY <1>4, <1>5, <1>6, <1>7, StepCorpus DEF CorpusMoves

(* While no attempt was given up on, the tables, the requests, Airflow and *)
(* the workers together implement Corpus: what searchable_chunks reads     *)
(* only moves to newer, complete revisions and goes with its document.     *)
THEOREM ServesForward == Spec => ServesForwardUnlessLost
<1>1. Init => Library!CInit
  BY DEF Init, Library!CInit, NoDoc, Served, Searchable, Live
<1>2. IInv /\ AttemptInv /\ IInv' /\ AttemptInv' /\ [Next]_vars
        => [lost' = 0 => Library!CNext]_(Library!corpusVars)
  BY LibraryStep
<1> QED BY <1>1, <1>2, AttemptInvariance, PTL DEF Spec, ServesForwardUnlessLost
=============================================================================
