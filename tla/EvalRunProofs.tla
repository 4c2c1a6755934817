--------------------------- MODULE EvalRunProofs ----------------------------
(***************************************************************************)
(* What holds of EvalRun for every set of runs, cases, requests and calls, *)
(* and any number of retries, calls that go on unheard and finalizations.  *)
(***************************************************************************)
EXTENDS EvalRun, TLAPS

----------------------------------------------------------------------------
(* Type correctness, with what it rests on: a request in flight is about a *)
(* run.                                                                    *)

RequestsRefer == \A q \in Requests : requests[q].pc # "idle" => requests[q].run \in Runs

LEMMA Statuses ==
  /\ CaseResult = {"completed", "failed", "evaluator_failed"}
  /\ Lifecycle!RunStatus =
       {"none", "created", "running", "completed", "partial", "failed", "dispatch_failed"}
BY DEF CaseResult, Lifecycle!CaseResult, Lifecycle!RunStatus, Lifecycle!Terminal

LEMMA OutcomeValues ==
  ASSUME NEW results
  PROVE  Outcome(results) \in {"completed", "partial", "failed"}
BY DEF Outcome, Lifecycle!OutcomeOf

LEMMA OneMore ==
  ASSUME NEW max \in Nat, NEW n \in 0..max, n < max
  PROVE  n + 1 \in 0..max
OBVIOUS

LEMMA FailedAttemptTyped ==
  ASSUME TypeOK, NEW r \in Runs, AttemptFailed(r)
  PROVE  dags' \in [Runs -> DagType]
<1>1. dags[r] \in DagType BY DEF TypeOK
<1>2. Retries \in Nat BY ConstantsAssumption
<1>3. TriesLeft(dags[r].try) => dags[r].try + 1 \in 1..Retries + 1
  BY <1>1, <1>2 DEF TriesLeft, DagType
<1>4. CASE TriesLeft(dags[r].try)
  BY <1>1, <1>3, <1>4 DEF AttemptFailed, TypeOK, DagType
<1>5. CASE ~TriesLeft(dags[r].try)
  BY <1>1, <1>5 DEF AttemptFailed, TypeOK, DagType
<1> QED BY <1>4, <1>5

LEMMA TypeInit == Init => TypeOK /\ RequestsRefer
<1>1. 1 \in 1..Retries + 1 BY ConstantsAssumption
<1>2. Init => TypeOK
  BY <1>1, ConstantsAssumption
  DEF Init, Lifecycle!Init, Lifecycle!RunStatus, TypeOK, RequestType, DagType, CallType,
      IdleRequest, NoDag, IdleCall
<1>3. Init => RequestsRefer BY DEF Init, RequestsRefer, IdleRequest
<1> QED BY <1>2, <1>3

LEMMA TypeRequest ==
  ASSUME TypeOK, RequestsRefer, NEW q \in Requests, Request(q) \/ Reply(q)
  PROVE  TypeOK'
<1> USE Statuses DEF TypeOK, rows, bounds
<1>0. requests[q] \in RequestType OBVIOUS
<1>go. ASSUME NEW pc \in {"post", "await", "record", "reply"},
              \/ requests' = [requests EXCEPT ![q].pc = pc]
              \/ requests' = [requests EXCEPT ![q] = [@ EXCEPT !.pc = pc, !.err = TRUE]]
       PROVE  requests' \in [Requests -> RequestType]
  <2>1. [requests[q] EXCEPT !.pc = pc] \in RequestType BY <1>0 DEF RequestType
  <2>2. [requests[q] EXCEPT !.pc = pc, !.err = TRUE] \in RequestType BY <1>0 DEF RequestType
  <2> QED BY <1>go, <2>1, <2>2
<1>1. ASSUME NEW r \in Runs, CreateRun(q, r) PROVE TypeOK'
  BY <1>1 DEF CreateRun, RequestType, IdleRequest
<1>2. CASE MarkRunning(q)
  <2>1. requests' \in [Requests -> RequestType] BY <1>go, <1>2 DEF MarkRunning
  <2>2. status' \in [Runs -> Lifecycle!RunStatus] BY <1>2 DEF MarkRunning
  <2> QED BY <1>2, <2>1, <2>2 DEF MarkRunning
<1>3. CASE PostRun(q)
  <2>1. requests' \in [Requests -> RequestType] BY <1>go, <1>3 DEF PostRun
  <2>2. posted' \subseteq Runs
    <3>1. CASE posted' = posted \cup {requests[q].run}
      BY <1>3, <3>1 DEF PostRun, RequestsRefer
    <3> QED BY <1>3, <3>1 DEF PostRun
  <2> QED BY <1>3, <2>1, <2>2 DEF PostRun
<1>4. CASE DispatchAnswered(q)
  <2>1. requests' \in [Requests -> RequestType] BY <1>go, <1>4 DEF DispatchAnswered
  <2> QED BY <1>4, <2>1 DEF DispatchAnswered
<1>5. CASE RecordDispatch(q)
  <2>1. requests' \in [Requests -> RequestType] BY <1>go, <1>5 DEF RecordDispatch
  <2>2. /\ status' \in [Runs -> Lifecycle!RunStatus]
        /\ tried' \in [Runs -> BOOLEAN]
    BY <1>5 DEF RecordDispatch
  <2> QED BY <1>5, <2>1, <2>2 DEF RecordDispatch
<1>6. CASE Reply(q) \/ AbandonRequest(q)
  <2>1. IdleRequest \in RequestType BY DEF RequestType, IdleRequest
  <2>2. requests' \in [Requests -> RequestType] BY <1>6, <2>1 DEF Reply, AbandonRequest
  <2> QED BY <1>6, <2>2 DEF Reply, AbandonRequest
<1> QED BY <1>1, <1>2, <1>3, <1>4, <1>5, <1>6 DEF Request

LEMMA TypeAirflow ==
  ASSUME TypeOK, NEW r \in Runs, CreateDagRun(r) \/ Airflow(r)
  PROVE  TypeOK'
<1> USE DEF TypeOK, rows, bounds
<1>0. dags[r] \in DagType /\ 1 \in 1..Retries + 1 BY ConstantsAssumption
<1>1. CASE CreateDagRun(r)
  BY <1>0, <1>1 DEF CreateDagRun, DagType
<1>2. CASE ReadPending(r)
  BY <1>0, <1>2 DEF ReadPending, DagType
<1>3. CASE CasesDone(r)
  BY <1>0, <1>3 DEF CasesDone, DagType
<1>4. ASSUME NEW k \in Calls, FinalizeRun(r, k) PROVE TypeOK'
  BY <1>0, <1>4 DEF FinalizeRun, DagType, CallType, IdleCall
<1>5. ASSUME NEW k \in Calls, NEW c \in Cases, ExecuteNext(r, c, k) PROVE TypeOK'
  BY <1>0, <1>5 DEF ExecuteNext, DagType, CallType, IdleCall
<1>6. CASE AnswerOK(r)
  <2>1. calls' \in [Calls -> CallType] BY <1>6 DEF AnswerOK, CallType, IdleCall
  <2>2. dags' \in [Runs -> DagType] BY <1>0, <1>6 DEF AnswerOK, DagType
  <2> QED BY <1>6, <2>1, <2>2 DEF AnswerOK
<1>7. CASE AnswerError(r)
  <2>1. calls' \in [Calls -> CallType] BY <1>7 DEF AnswerError, CallType, IdleCall
  <2>2. dags' \in [Runs -> DagType] BY <1>7, FailedAttemptTyped DEF AnswerError
  <2> QED BY <1>7, <2>1, <2>2 DEF AnswerError
<1>8. CASE AttemptDies(r)
  <2>1. calls' \in [Calls -> CallType] BY <1>8 DEF AttemptDies, CallType, IdleCall
  <2>2. dags' \in [Runs -> DagType] BY <1>8, FailedAttemptTyped DEF AttemptDies
  <2>3. lost' \in 0..MaxLost BY <1>8, OneMore, ConstantsAssumption DEF AttemptDies
  <2> QED BY <1>8, <2>1, <2>2, <2>3 DEF AttemptDies
<1> QED BY <1>1, <1>2, <1>3, <1>4, <1>5, <1>6, <1>7, <1>8 DEF Airflow

LEMMA TypeCall ==
  ASSUME TypeOK, NEW k \in Calls, Serve(k) \/ \E r \in Runs : FinalizeManually(k, r)
  PROVE  TypeOK'
<1> USE DEF TypeOK, rows, bounds
<1>0. calls[k] \in CallType OBVIOUS
<1>go. ASSUME NEW pc \in {"work", "count", "update", "ok", "error"}, Go(k, pc)
       PROVE  calls' \in [Calls -> CallType]
  BY <1>0, <1>go DEF Go, CallType
<1>1. CASE LookUp(k) \/ CallFails(k)
  <2>1. calls' \in [Calls -> CallType] BY <1>go, <1>1 DEF LookUp, CallFails
  <2> QED BY <1>1, <2>1 DEF LookUp, CallFails
<1>2. CASE Persist(k)
  <2>1. calls' \in [Calls -> CallType] BY <1>go, <1>2 DEF Persist
  <2>2. ASSUME NEW results \in [Cases -> CaseResult \cup {"none"}], NEW c, NEW s \in CaseResult
        PROVE  InsertOnce(results, c, s) \in [Cases -> CaseResult \cup {"none"}]
    BY DEF InsertOnce
  <2>3. stored' \in [Runs -> [Cases -> CaseResult \cup {"none"}]]
    <3> DEFINE r == calls[k].run
    <3>1. PICK s \in CaseResult :
            stored' = [stored EXCEPT ![r] = InsertOnce(stored[r], calls[k].case, s)]
      BY <1>2 DEF Persist
    <3>2. CASE r \in Runs
      <4>1. InsertOnce(stored[r], calls[k].case, s) \in [Cases -> CaseResult \cup {"none"}]
        BY <2>2, <3>2
      <4> QED BY <3>1, <4>1
    <3>3. CASE r \notin Runs BY <3>1, <3>3
    <3> QED BY <3>2, <3>3
  <2> QED BY <1>2, <2>1, <2>3 DEF Persist
<1>3. CASE Count(k)
  <2>1. calls' \in [Calls -> CallType]
    <3>1. CASE Go(k, "ok") BY <1>go, <3>1
    <3>2. CASE calls' = [calls EXCEPT ![k] = [@ EXCEPT !.pc = "update",
                                               !.count = Outcome(stored[calls[k].run])]]
      BY <1>0, <3>2, OutcomeValues DEF CallType
    <3> QED BY <1>3, <3>1, <3>2 DEF Count
  <2> QED BY <1>3, <2>1 DEF Count
<1>4. CASE UpdateStatus(k)
  <2>1. calls[k].count \in {"none", "completed", "partial", "failed"} BY <1>0 DEF CallType
  <2>2. status' \in [Runs -> Lifecycle!RunStatus] BY <1>4, <2>1, Statuses DEF UpdateStatus, StatusFrom
  <2>3. calls' \in [Calls -> CallType] BY <1>go, <1>4 DEF UpdateStatus
  <2> QED BY <1>4, <2>2, <2>3 DEF UpdateStatus
<1>5. CASE EndUnheard(k)
  BY <1>5 DEF EndUnheard, CallType, IdleCall
<1>6. ASSUME NEW r \in Runs, FinalizeManually(k, r) PROVE TypeOK'
  <2>1. manual' \in 0..MaxManual BY <1>6, OneMore, ConstantsAssumption DEF FinalizeManually
  <2> QED BY <1>6, <2>1 DEF FinalizeManually, CallType, IdleCall
<1> QED BY <1>1, <1>2, <1>3, <1>4, <1>5, <1>6 DEF Serve

LEMMA ReferStep == TypeOK /\ RequestsRefer /\ Next => RequestsRefer'
<1> SUFFICES ASSUME TypeOK, RequestsRefer, Next PROVE RequestsRefer' OBVIOUS
<1>1. ASSUME NEW q \in Requests, Request(q) \/ Reply(q) PROVE RequestsRefer'
  <2>1. requests \in [Requests -> RequestType] BY DEF TypeOK
  <2>2. ASSUME NEW r \in Runs, CreateRun(q, r) PROVE RequestsRefer'
    BY <2>1, <2>2 DEF CreateRun, RequestsRefer
  <2>3. ASSUME NEW pc, \/ requests' = [requests EXCEPT ![q].pc = pc]
                       \/ requests' = [requests EXCEPT ![q] = [@ EXCEPT !.pc = pc, !.err = TRUE]],
               requests[q].pc # "idle"
        PROVE  RequestsRefer'
    BY <2>1, <2>3 DEF RequestsRefer, RequestType
  <2>4. CASE MarkRunning(q) BY <2>3, <2>4 DEF MarkRunning
  <2>5. CASE PostRun(q) BY <2>3, <2>5 DEF PostRun
  <2>6. CASE DispatchAnswered(q) BY <2>3, <2>6 DEF DispatchAnswered
  <2>7. CASE RecordDispatch(q) BY <2>3, <2>7 DEF RecordDispatch
  <2>8. CASE Reply(q) \/ AbandonRequest(q)
    BY <2>1, <2>8 DEF Reply, AbandonRequest, IdleRequest, RequestsRefer
  <2> QED BY <1>1, <2>2, <2>4, <2>5, <2>6, <2>7, <2>8 DEF Request
<1>2. ASSUME NEW r \in Runs, CreateDagRun(r) \/ Airflow(r) PROVE UNCHANGED requests
  BY <1>2
  DEF CreateDagRun, Airflow, ReadPending, CasesDone, FinalizeRun, ExecuteNext, AnswerOK,
      AnswerError, AttemptDies
<1>3. ASSUME NEW k \in Calls, Serve(k) \/ \E r \in Runs : FinalizeManually(k, r)
      PROVE  UNCHANGED requests
  BY <1>3
  DEF Serve, LookUp, Persist, Count, UpdateStatus, CallFails, EndUnheard, FinalizeManually
<1> QED BY <1>1, <1>2, <1>3 DEF Next, RequestsRefer

LEMMA TypeStep == TypeOK /\ RequestsRefer /\ [Next]_vars => TypeOK' /\ RequestsRefer'
<1> SUFFICES ASSUME TypeOK, RequestsRefer, [Next]_vars PROVE TypeOK' /\ RequestsRefer'
  OBVIOUS
<1>1. CASE UNCHANGED vars BY <1>1 DEF vars, rows, bounds, TypeOK, RequestsRefer
<1>2. CASE Next BY <1>2, ReferStep, TypeRequest, TypeAirflow, TypeCall DEF Next
<1> QED BY <1>1, <1>2

(* Every variable keeps its type, for any sets and bounds.                 *)
THEOREM TypeCorrect == Spec => []TypeOK
<1>1. Spec => [](TypeOK /\ RequestsRefer) BY TypeInit, TypeStep, PTL DEF Spec
<1> QED BY <1>1, PTL
----------------------------------------------------------------------------
(* The inductive invariant behind FinishedIsWhole.                         *)

(* Whatever is in flight is about a run that exists.                       *)
Exists(r) == r \in Runs /\ status[r] # "none"

Created ==
  /\ \A q \in Requests : requests[q].pc # "idle" => Exists(requests[q].run)
  /\ \A r \in Runs : r \in posted \/ dags[r].state # "none" => Exists(r)
  /\ \A k \in Calls : calls[k].pc # "idle" => Exists(calls[k].run)

(* One request creates a run, and marks it before it posts it.             *)
MarkedFirst ==
  /\ \A p, q \in Requests :
       requests[p].pc # "idle" /\ requests[q].pc # "idle" /\ p # q
         => requests[p].run # requests[q].run
  /\ \A q \in Requests : requests[q].pc = "mark" =>
       requests[q].run \notin posted /\ dags[requests[q].run].state = "none"

(* A count that is still to be written is that of results which are        *)
(* stored, though not always of all of them.                               *)
StoredIn(results) == {c \in Cases : results[c] # "none"}
Counted(results, count) ==
  \E part \in SUBSET StoredIn(results) : count = Outcome(Lifecycle!Seen(results, part))

CountsReal ==
  \A k \in Calls : calls[k].pc = "update" => Counted(stored[calls[k].run], calls[k].count)

(* A DAG run waits for a call about itself; a call past its insert has     *)
(* stored its case; a case no longer to do is stored; and the finalize     *)
(* task starts with all of them stored.                                    *)
WaitsForItsCall(r) ==
  LET k == dags[r].call IN
  /\ k \in Calls /\ calls[k].pc # "idle" /\ calls[k].run = r
  /\ dags[r].task = "cases" <=> calls[k].case \in Cases

CallStored(k) ==
  calls[k].pc \in {"count", "update", "ok"} /\ calls[k].case \in Cases
    => stored[calls[k].run][calls[k].case] # "none"

CasesStored(r) ==
  \/ dags[r].state = "running" /\ dags[r].task = "cases" /\ dags[r].pc = "start"
  \/ dags[r].state = "running" /\ dags[r].task = "cases" /\ Cases \ dags[r].todo \subseteq StoredIn(stored[r])
  \/ dags[r].state \in {"none", "failed"}
  \/ StoredIn(stored[r]) = Cases

DagsFollow ==
  /\ \A r \in Runs : dags[r].state = "none" => dags[r] = NoDag
  /\ \A r \in Runs : Waiting(r) => WaitsForItsCall(r)
  /\ \A r \in Runs : CasesStored(r)
  /\ \A k \in Calls : CallStored(k)
  /\ \A k \in Calls : calls[k].pc \in {"lookup", "work"} => calls[k].case \in Cases

(* While no call goes on unheard and nobody else finalizes, every call is  *)
(* the one its DAG run waits for, so the last count is that of the final   *)
(* results.                                                                *)
Final(r) == status[r] \in {"dispatch_failed", Outcome(stored[r])}

CallAlone(k) ==
  LET r == calls[k].run IN
  /\ Waiting(r) /\ dags[r].call = k
  /\ dags[r].task = "finalize" =>
       /\ calls[k].pc = "update" => calls[k].count = Outcome(stored[r])
       /\ calls[k].pc = "ok" => Final(r)

LastCountFinal ==
  lost + manual = 0 =>
    /\ \A k \in Calls : calls[k].pc # "idle" => CallAlone(k)
    /\ \A r \in Runs : dags[r].state = "success" => Final(r)

IInv ==
  /\ TypeOK /\ RequestsRefer
  /\ Created /\ MarkedFirst /\ CompletedIsReal /\ CountsReal /\ DagsFollow /\ LastCountFinal
----------------------------------------------------------------------------
(* What steps do to the rows.                                              *)

LEMMA StoredFrame ==
  ASSUME Next, \A k \in Calls : ~Persist(k)
  PROVE  UNCHANGED stored
BY DEF Next, Request, Airflow, Serve, rows, bounds, CreateRun, MarkRunning, PostRun,
       DispatchAnswered, RecordDispatch, Reply, AbandonRequest, CreateDagRun, ReadPending,
       CasesDone, FinalizeRun, ExecuteNext, AnswerOK, AnswerError, AttemptDies, LookUp, Count,
       UpdateStatus, CallFails, EndUnheard, FinalizeManually

(* A result is inserted by a call that works on its case, and stays.       *)
LEMMA StoredMoves ==
  ASSUME TypeOK, DagsFollow, Next, NEW r \in Runs, stored'[r] # stored[r]
  PROVE  \E k \in Calls, s \in CaseResult :
           LET c == calls[k].case IN
           /\ Persist(k) /\ calls[k].run = r /\ c \in Cases
           /\ stored[r][c] = "none" /\ stored'[r] = [stored[r] EXCEPT ![c] = s]
<1>1. PICK k \in Calls : Persist(k) BY StoredFrame
<1>2. PICK s \in CaseResult :
        stored' = [stored EXCEPT ![calls[k].run] =
                     InsertOnce(stored[calls[k].run], calls[k].case, s)]
  BY <1>1 DEF Persist
<1>3. calls[k].case \in Cases BY <1>1 DEF Persist, DagsFollow
<1>4. calls[k].run = r BY <1>2 DEF TypeOK
<1>5. stored'[r] = InsertOnce(stored[r], calls[k].case, s) BY <1>2, <1>4 DEF TypeOK
<1>6. stored[r][calls[k].case] = "none" BY <1>5 DEF InsertOnce
<1> QED BY <1>1, <1>3, <1>4, <1>5, <1>6 DEF InsertOnce

LEMMA StoredStays ==
  ASSUME TypeOK, DagsFollow, Next, NEW r \in Runs, NEW c \in Cases, stored[r][c] # "none"
  PROVE  stored'[r][c] = stored[r][c]
<1>1. CASE stored'[r] = stored[r] BY <1>1
<1>2. CASE stored'[r] # stored[r]
  <2>1. PICK k \in Calls, s \in CaseResult :
          /\ stored[r][calls[k].case] = "none"
          /\ stored'[r] = [stored[r] EXCEPT ![calls[k].case] = s]
    BY <1>2, StoredMoves
  <2>2. stored[r] \in [Cases -> CaseResult \cup {"none"}] BY DEF TypeOK
  <2> QED BY <2>1, <2>2
<1> QED BY <1>1, <1>2

LEMMA StatusFrame ==
  ASSUME Next, \A q \in Requests : /\ ~MarkRunning(q) /\ ~RecordDispatch(q)
                                   /\ \A r \in Runs : ~CreateRun(q, r),
         \A k \in Calls : ~UpdateStatus(k)
  PROVE  UNCHANGED status
BY DEF Next, Request, Airflow, Serve, rows, bounds, PostRun, DispatchAnswered, Reply,
       AbandonRequest, CreateDagRun, ReadPending, CasesDone, FinalizeRun, ExecuteNext,
       AnswerOK, AnswerError, AttemptDies, LookUp, Persist, Count, CallFails, EndUnheard,
       FinalizeManually

LEMMA StatusMoves ==
  ASSUME TypeOK, RequestsRefer, Next, NEW r \in Runs, status'[r] # status[r]
  PROVE  \/ status[r] = "none" /\ status'[r] = "created"
         \/ status[r] \in {"created", "running"} /\ status'[r] = "dispatch_failed"
         \/ /\ status[r] = "created" /\ status'[r] = "running"
            /\ \E q \in Requests :
                 requests[q].run = r /\ requests[q].pc \in {"mark", "record"}
         \/ \E k \in Calls : /\ UpdateStatus(k) /\ calls[k].run = r
                             /\ status[r] # "dispatch_failed" /\ status'[r] = calls[k].count
<1> USE DEF TypeOK
<1>1. ASSUME NEW q \in Requests, NEW p \in Runs, CreateRun(q, p)
      PROVE  status[r] = "none" /\ status'[r] = "created"
  BY <1>1 DEF CreateRun
<1>2. ASSUME NEW q \in Requests, MarkRunning(q)
      PROVE  /\ status[r] = "created" /\ status'[r] = "running"
             /\ requests[q].run = r /\ requests[q].pc = "mark"
  BY <1>2 DEF MarkRunning
<1>3. ASSUME NEW q \in Requests, RecordDispatch(q)
      PROVE  /\ requests[q].run = r /\ requests[q].pc = "record"
             /\ status[r] \in {"created", "running"}
             /\ status'[r] \in {"running", "dispatch_failed"}
  BY <1>3 DEF RecordDispatch, RecordApplies
<1>4. ASSUME NEW k \in Calls, UpdateStatus(k)
      PROVE  /\ calls[k].run = r
             /\ status[r] # "dispatch_failed" /\ status'[r] = calls[k].count
  BY <1>4 DEF UpdateStatus, StatusFrom
<1> QED BY <1>1, <1>2, <1>3, <1>4, StatusFrame

LEMMA ExistsStays ==
  ASSUME TypeOK, RequestsRefer, CountsReal, Next, NEW r, Exists(r)
  PROVE  Exists(r)'
<1>1. r \in Runs /\ status[r] # "none" BY DEF Exists
<1>2. CASE status'[r] = status[r] BY <1>1, <1>2 DEF Exists
<1>3. ASSUME NEW k \in Calls, UpdateStatus(k), calls[k].run = r, status'[r] = calls[k].count
      PROVE  Exists(r)'
  <2>1. Counted(stored[r], calls[k].count) BY <1>3 DEF UpdateStatus, CountsReal
  <2> QED BY <1>1, <1>3, <2>1, OutcomeValues DEF Exists, Counted
<1>4. CASE status'[r] # status[r] BY <1>1, <1>3, <1>4, StatusMoves DEF Exists
<1> QED BY <1>2, <1>4
----------------------------------------------------------------------------
(* Created and MarkedFirst.                                                *)

LEMMA RequestMoves ==
  ASSUME TypeOK, Next, NEW q \in Requests, requests'[q].pc # "idle"
  PROVE  \/ requests'[q].run = requests[q].run /\ requests[q].pc # "idle"
         \/ \E r \in Runs : CreateRun(q, r) /\ requests'[q].run = r
<1>1. requests \in [Requests -> RequestType] BY DEF TypeOK
<1>2. CASE requests'[q] = requests[q] BY <1>2
<1>3. ASSUME NEW p \in Requests, Request(p) \/ Reply(p), requests'[q] # requests[q] PROVE p = q
  BY <1>1, <1>3
  DEF Request, CreateRun, MarkRunning, PostRun, DispatchAnswered, RecordDispatch, Reply,
      AbandonRequest
<1>4. ASSUME NEW r \in Runs, CreateDagRun(r) \/ Airflow(r) PROVE UNCHANGED requests
  BY <1>4
  DEF CreateDagRun, Airflow, ReadPending, CasesDone, FinalizeRun, ExecuteNext, AnswerOK,
      AnswerError, AttemptDies
<1>5. ASSUME NEW k \in Calls, Serve(k) \/ \E r \in Runs : FinalizeManually(k, r)
      PROVE  UNCHANGED requests
  BY <1>5
  DEF Serve, LookUp, Persist, Count, UpdateStatus, CallFails, EndUnheard, FinalizeManually
<1>6. CASE requests'[q] # requests[q]
  <2>1. Request(q) \/ Reply(q) BY <1>3, <1>4, <1>5, <1>6 DEF Next
  <2>2. ASSUME NEW r \in Runs, CreateRun(q, r) PROVE requests'[q].run = r
    BY <1>1, <2>2 DEF CreateRun, IdleRequest
  <2>3. CASE MarkRunning(q) BY <1>1, <2>3 DEF MarkRunning, RequestType
  <2>4. CASE PostRun(q) BY <1>1, <2>4 DEF PostRun, RequestType
  <2>5. CASE DispatchAnswered(q) BY <1>1, <2>5 DEF DispatchAnswered, RequestType
  <2>6. CASE RecordDispatch(q) BY <1>1, <2>6 DEF RecordDispatch, RequestType
  <2>7. CASE Reply(q) \/ AbandonRequest(q)
    BY <1>1, <2>7 DEF Reply, AbandonRequest, IdleRequest
  <2> QED BY <2>1, <2>2, <2>3, <2>4, <2>5, <2>6, <2>7 DEF Request
<1> QED BY <1>2, <1>6

LEMMA MarkOnlyFirst ==
  ASSUME TypeOK, Next, NEW q \in Requests, requests'[q].pc = "mark", requests[q].pc # "idle"
  PROVE  requests[q].pc = "mark"
<1>1. requests \in [Requests -> RequestType] BY DEF TypeOK
<1>2. ASSUME NEW p \in Requests, NEW r \in Runs, CreateRun(p, r)
      PROVE  requests[q].pc = "mark"
  BY <1>1, <1>2 DEF CreateRun
<1>3. ASSUME NEW p \in Requests, NEW pc \in {"post", "await", "record", "reply"},
             \/ requests' = [requests EXCEPT ![p].pc = pc]
             \/ requests' = [requests EXCEPT ![p] = [@ EXCEPT !.pc = pc, !.err = TRUE]]
      PROVE  requests[q].pc = "mark"
  BY <1>1, <1>3 DEF RequestType
<1>4. ASSUME NEW p \in Requests, Request(p) \/ Reply(p), ~\E r \in Runs : CreateRun(p, r)
      PROVE  requests[q].pc = "mark"
  <2>1. CASE MarkRunning(p) BY <1>3, <2>1 DEF MarkRunning
  <2>2. CASE PostRun(p) BY <1>3, <2>2 DEF PostRun
  <2>3. CASE DispatchAnswered(p) BY <1>3, <2>3 DEF DispatchAnswered
  <2>4. CASE RecordDispatch(p) BY <1>3, <2>4 DEF RecordDispatch
  <2>5. CASE Reply(p) \/ AbandonRequest(p)
    BY <1>1, <2>5 DEF Reply, AbandonRequest, IdleRequest
  <2> QED BY <1>4, <2>1, <2>2, <2>3, <2>4, <2>5 DEF Request
<1>5. ASSUME NEW r \in Runs, CreateDagRun(r) \/ Airflow(r) PROVE UNCHANGED requests
  BY <1>5
  DEF CreateDagRun, Airflow, ReadPending, CasesDone, FinalizeRun, ExecuteNext, AnswerOK,
      AnswerError, AttemptDies
<1>6. ASSUME NEW k \in Calls, Serve(k) \/ \E r \in Runs : FinalizeManually(k, r)
      PROVE  UNCHANGED requests
  BY <1>6
  DEF Serve, LookUp, Persist, Count, UpdateStatus, CallFails, EndUnheard, FinalizeManually
<1> QED BY <1>2, <1>4, <1>5, <1>6 DEF Next

LEMMA DagMoves ==
  ASSUME TypeOK, Next, NEW r \in Runs, r \in posted' \/ dags'[r].state # "none"
  PROVE  \/ r \in posted \/ dags[r].state # "none"
         \/ \E q \in Requests : requests[q].pc = "post" /\ requests[q].run = r
<1> USE DEF TypeOK
<1>1. ASSUME NEW q \in Requests, Request(q) \/ Reply(q) PROVE UNCHANGED dags
  BY <1>1
  DEF Request, CreateRun, MarkRunning, PostRun, DispatchAnswered, RecordDispatch, Reply,
      AbandonRequest
<1>2. ASSUME NEW q \in Requests, Request(q) \/ Reply(q), posted' # posted
      PROVE  requests[q].pc = "post" /\ posted' = posted \cup {requests[q].run}
  BY <1>2
  DEF Request, CreateRun, MarkRunning, PostRun, DispatchAnswered, RecordDispatch, Reply,
      AbandonRequest
<1>3. ASSUME NEW p \in Runs, CreateDagRun(p) \/ Airflow(p)
      PROVE  /\ posted' \subseteq posted
             /\ dags'[r] # dags[r] => r = p /\ (r \in posted \/ dags[r].state # "none")
  <2>1. CASE CreateDagRun(p) BY <2>1 DEF CreateDagRun
  <2>2. CASE Airflow(p)
    <3>1. UNCHANGED posted /\ dags[p].state # "none"
      BY <2>2
      DEF Airflow, ReadPending, CasesDone, FinalizeRun, ExecuteNext, AnswerOK,
          AnswerError, AttemptDies, At, Waiting
    <3>2. r # p => dags'[r] = dags[r]
      BY <2>2
      DEF Airflow, ReadPending, CasesDone, FinalizeRun, ExecuteNext, AnswerOK,
          AnswerError, AttemptDies, AttemptFailed
    <3> QED BY <3>1, <3>2
  <2> QED BY <1>3, <2>1, <2>2
<1>4. ASSUME NEW k \in Calls, Serve(k) \/ \E p \in Runs : FinalizeManually(k, p)
      PROVE  UNCHANGED <<posted, dags>>
  BY <1>4
  DEF Serve, LookUp, Persist, Count, UpdateStatus, CallFails, EndUnheard, FinalizeManually
<1> QED BY <1>1, <1>2, <1>3, <1>4 DEF Next

ExecuteStarts(k, r) == \E c \in Cases : ExecuteNext(r, c, k)

Answered(r, k) ==
  /\ Waiting(r) /\ dags[r].call = k
  /\ AnswerOK(r) \/ AnswerError(r) \/ AttemptDies(r)

Statement(k) ==
  /\ LookUp(k) \/ Persist(k) \/ Count(k) \/ UpdateStatus(k) \/ CallFails(k)
  /\ calls[k].pc # "idle" /\ calls'[k].pc # "idle"
  /\ calls'[k].run = calls[k].run /\ calls'[k].case = calls[k].case

(* What a call may become: started, ended, or one statement further.       *)
LEMMA CallMoves ==
  ASSUME TypeOK, Next, NEW k \in Calls, calls'[k] # calls[k]
  PROVE  \/ /\ calls'[k] = IdleCall
            /\ EndUnheard(k) \/ \E r \in Runs : Answered(r, k)
         \/ \E r \in Runs : /\ ExecuteStarts(k, r) \/ FinalizeRun(r, k) \/ FinalizeManually(k, r)
                           /\ calls[k].pc = "idle" /\ calls'[k].run = r
         \/ Statement(k)
<1> USE DEF TypeOK
<1>1. calls[k] \in CallType OBVIOUS
<1>2. ASSUME NEW q \in Requests, Request(q) \/ Reply(q) PROVE UNCHANGED calls
  BY <1>2
  DEF Request, CreateRun, MarkRunning, PostRun, DispatchAnswered, RecordDispatch, Reply,
      AbandonRequest
<1>3. ASSUME NEW r \in Runs, CreateDagRun(r) \/ ReadPending(r) \/ CasesDone(r)
      PROVE  UNCHANGED calls
  BY <1>3 DEF CreateDagRun, ReadPending, CasesDone
<1>4. ASSUME NEW r \in Runs, AnswerOK(r) \/ AnswerError(r) \/ AttemptDies(r)
      PROVE  calls'[k] = IdleCall /\ Answered(r, k)
  BY <1>4 DEF AnswerOK, AnswerError, AttemptDies, Answered
<1>5. ASSUME NEW r \in Runs, NEW j \in Calls, FinalizeRun(r, j) \/ FinalizeManually(j, r)
      PROVE  k = j /\ calls'[k].run = r /\ calls[k].pc = "idle"
  BY <1>5 DEF FinalizeRun, FinalizeManually, IdleCall
<1>6. ASSUME NEW r \in Runs, NEW j \in Calls, ExecuteStarts(j, r)
      PROVE  k = j /\ calls'[k].run = r /\ calls[k].pc = "idle"
  BY <1>6 DEF ExecuteStarts, ExecuteNext, IdleCall
<1>7. ASSUME NEW j \in Calls, Serve(j)
      PROVE  \/ calls'[k] = IdleCall /\ EndUnheard(k)
             \/ Statement(k)
  <2>1. CASE EndUnheard(j) BY <2>1 DEF EndUnheard
  <2>2. ASSUME NEW pc, Go(j, pc), pc # "idle"
        PROVE  /\ j = k /\ calls'[k].pc # "idle"
               /\ calls'[k].run = calls[k].run /\ calls'[k].case = calls[k].case
    BY <1>1, <2>2 DEF Go, CallType
  <2>3. CASE LookUp(j) \/ CallFails(j) BY <2>2, <2>3 DEF LookUp, CallFails, Statement
  <2>4. CASE Persist(j)
    <3>1. (\E pc : pc # "idle" /\ Go(j, pc)) /\ calls[j].pc = "work" BY <2>4 DEF Persist
    <3> QED BY <2>2, <2>4, <3>1 DEF Statement
  <2>5. CASE Count(j)
    <3>0. calls[j].pc = "count" BY <2>5 DEF Count
    <3>1. CASE Go(j, "ok") BY <2>2, <2>5, <3>0, <3>1 DEF Statement
    <3>2. CASE calls' = [calls EXCEPT ![j] = [@ EXCEPT !.pc = "update",
                                               !.count = Outcome(stored[calls[j].run])]]
      BY <1>1, <2>5, <3>2 DEF Count, CallType, Statement
    <3> QED BY <2>5, <3>1, <3>2 DEF Count
  <2>6. CASE UpdateStatus(j)
    <3>1. calls[j].pc = "update" /\ Go(j, "ok") BY <2>6 DEF UpdateStatus
    <3> QED BY <2>2, <2>6, <3>1 DEF Statement
  <2> QED BY <1>7, <2>1, <2>3, <2>4, <2>5, <2>6 DEF Serve
<1> QED BY <1>2, <1>3, <1>4, <1>5, <1>6, <1>7 DEF Next, Airflow, ExecuteStarts

LEMMA CreatedStep ==
  ASSUME IInv, Next
  PROVE  Created'
<1> USE DEF IInv
<1>1. ASSUME NEW q \in Requests, requests'[q].pc # "idle" PROVE Exists(requests[q].run)'
  <2>1. CASE requests'[q].run = requests[q].run /\ requests[q].pc # "idle"
    <3>1. PICK r \in Runs : r = requests[q].run /\ Exists(r) BY <2>1 DEF Created, Exists
    <3>2. Exists(r)' BY <3>1, ExistsStays
    <3> QED BY <2>1, <3>1, <3>2 DEF Exists
  <2>2. ASSUME NEW r \in Runs, CreateRun(q, r), requests'[q].run = r
        PROVE  Exists(requests[q].run)'
    <3>1. status'[r] = "created" BY <2>2 DEF CreateRun, TypeOK
    <3> QED BY <2>2, <3>1 DEF Exists
  <2> QED BY <1>1, <2>1, <2>2, RequestMoves
<1>2. ASSUME NEW r \in Runs, r \in posted' \/ dags'[r].state # "none" PROVE Exists(r)'
  <2>1. Exists(r) BY <1>2, DagMoves DEF Created
  <2> QED BY <2>1, ExistsStays
<1>3. ASSUME NEW k \in Calls, calls'[k].pc # "idle" PROVE Exists(calls[k].run)'
  <2>1. PICK r \in Runs : r = calls'[k].run /\ Exists(r)
    <3>1. CASE calls'[k] = calls[k] BY <1>3, <3>1 DEF Created, Exists
    <3>2. ASSUME NEW r \in Runs, ExecuteStarts(k, r) \/ FinalizeRun(r, k) PROVE Exists(r)
      BY <3>2 DEF ExecuteStarts, ExecuteNext, FinalizeRun, At, Created
    <3>3. ASSUME NEW r \in Runs, FinalizeManually(k, r) PROVE Exists(r)
      BY <3>3 DEF FinalizeManually, Exists
    <3>4. CASE calls[k].pc # "idle" /\ calls'[k].run = calls[k].run
      BY <3>4 DEF Created, Exists
    <3>5. CASE calls'[k] # calls[k]
      BY <1>3, <3>2, <3>3, <3>4, <3>5, CallMoves DEF IdleCall, Statement
    <3> QED BY <3>1, <3>5
  <2>2. Exists(r)' BY <2>1, ExistsStays
  <2> QED BY <2>1, <2>2 DEF Exists
<1> QED BY <1>1, <1>2, <1>3 DEF Created

LEMMA MarkedStep ==
  ASSUME IInv, Next
  PROVE  MarkedFirst'
<1> USE DEF IInv
<1>1. ASSUME NEW q \in Requests, NEW r \in Runs, CreateRun(q, r)
      PROVE  /\ \A p \in Requests : p # q => requests'[p] = requests[p]
             /\ \A p \in Requests : requests[p].pc # "idle" => requests[p].run # r
             /\ r \notin posted' /\ dags'[r].state = "none"
  BY <1>1 DEF CreateRun, Created, Exists, TypeOK
<1>2. ASSUME NEW p \in Requests, NEW q \in Requests, p # q,
             requests'[p].pc # "idle", requests'[q].pc # "idle"
      PROVE  requests'[p].run # requests'[q].run
  <2>1. ASSUME NEW a \in Requests, NEW b \in Requests, a # b, NEW r \in Runs, CreateRun(a, r),
               requests'[a].run = r, requests'[b].pc # "idle"
        PROVE  requests'[b].run # r
    BY <1>1, <2>1
  <2>2. CASE /\ requests'[p].run = requests[p].run /\ requests[p].pc # "idle"
             /\ requests'[q].run = requests[q].run /\ requests[q].pc # "idle"
    BY <1>2, <2>2 DEF MarkedFirst
  <2> QED BY <1>2, <2>1, <2>2, RequestMoves
<1>3. ASSUME NEW q \in Requests, requests'[q].pc = "mark"
      PROVE  requests'[q].run \notin posted' /\ dags'[requests'[q].run].state = "none"
  <2>1. CASE \E r \in Runs : CreateRun(q, r) /\ requests'[q].run = r
    BY <1>1, <2>1
  <2>2. CASE ~\E r \in Runs : CreateRun(q, r) /\ requests'[q].run = r
    <3>1. requests'[q].run = requests[q].run /\ requests[q].pc # "idle"
      BY <1>3, <2>2, RequestMoves
    <3>2. requests[q].pc = "mark" BY <1>3, <2>2, <3>1, MarkOnlyFirst
    <3>3. requests[q].run \in Runs BY <3>1 DEF RequestsRefer
    <3>4. ASSUME NEW p \in Requests, requests[p].pc = "post"
          PROVE  requests[p].run # requests[q].run
      BY <3>2, <3>4 DEF MarkedFirst
    <3> QED BY <3>1, <3>2, <3>3, <3>4, DagMoves DEF MarkedFirst
  <2> QED BY <2>1, <2>2
<1> QED BY <1>2, <1>3 DEF MarkedFirst
----------------------------------------------------------------------------
(* CompletedIsReal and CountsReal.                                         *)

LEMMA GoMoves ==
  ASSUME TypeOK, NEW k \in Calls, NEW pc, Go(k, pc)
  PROVE  /\ calls'[k].pc = pc /\ calls'[k].run = calls[k].run
         /\ calls'[k].case = calls[k].case /\ calls'[k].count = calls[k].count
<1>1. calls[k] \in CallType BY DEF TypeOK
<1> QED BY <1>1 DEF Go, CallType, TypeOK

LEMMA CountedGrows ==
  ASSUME NEW f, NEW g, \A c \in Cases : f[c] # "none" => g[c] = f[c],
         NEW count, Counted(f, count)
  PROVE  Counted(g, count)
<1>1. PICK part \in SUBSET StoredIn(f) : count = Outcome(Lifecycle!Seen(f, part))
  BY DEF Counted
<1>2. part \in SUBSET StoredIn(g) BY <1>1 DEF StoredIn
<1>3. Lifecycle!Seen(g, part) = Lifecycle!Seen(f, part)
  BY <1>1 DEF Lifecycle!Seen, StoredIn
<1> QED BY <1>1, <1>2, <1>3 DEF Counted

LEMMA CountedNow ==
  ASSUME NEW f \in [Cases -> CaseResult \cup {"none"}]
  PROVE  Counted(f, Outcome(f))
<1>1. Lifecycle!Seen(f, StoredIn(f)) = f BY DEF Lifecycle!Seen, StoredIn
<1> QED BY <1>1 DEF Counted

LEMMA CompletedCount ==
  ASSUME NEW f, Counted(f, "completed")
  PROVE  \A c \in Cases : f[c] = "completed"
<1>1. PICK part \in SUBSET StoredIn(f) : Outcome(Lifecycle!Seen(f, part)) = "completed"
  BY DEF Counted
<1>2. Lifecycle!With(Lifecycle!Seen(f, part), "completed") = Cases
  BY <1>1 DEF Outcome, Lifecycle!OutcomeOf
<1> QED BY <1>2 DEF Lifecycle!With, Lifecycle!Seen

LEMMA CompletedStep ==
  ASSUME IInv, Next
  PROVE  CompletedIsReal'
<1> USE DEF IInv
<1>1. SUFFICES ASSUME NEW r \in Runs, status'[r] = "completed", NEW c \in Cases
               PROVE  stored'[r][c] = "completed"
  BY DEF CompletedIsReal
<1>2. CASE status'[r] = status[r]
  <2>1. stored[r][c] = "completed" BY <1>1, <1>2 DEF CompletedIsReal
  <2> QED BY <2>1, StoredStays
<1>3. CASE status'[r] # status[r]
  <2>1. PICK k \in Calls : UpdateStatus(k) /\ calls[k].run = r /\ calls[k].count = "completed"
    BY <1>1, <1>3, StatusMoves
  <2>2. Counted(stored[r], "completed") BY <2>1 DEF UpdateStatus, CountsReal
  <2> QED BY <2>1, <2>2, CompletedCount DEF UpdateStatus
<1> QED BY <1>2, <1>3

LEMMA CountsStep ==
  ASSUME IInv, Next
  PROVE  CountsReal'
<1> USE DEF IInv
<1>1. SUFFICES ASSUME NEW k \in Calls, calls'[k].pc = "update"
               PROVE  Counted(stored'[calls'[k].run], calls'[k].count)
  BY DEF CountsReal, Counted, StoredIn
<1>2. CASE calls'[k] = calls[k]
  <2>1. Counted(stored[calls[k].run], calls[k].count) /\ calls[k].run \in Runs
    BY <1>1, <1>2 DEF CountsReal, Created, Exists
  <2>2. \A c \in Cases : stored[calls[k].run][c] # "none" =>
                         stored'[calls[k].run][c] = stored[calls[k].run][c]
    BY <2>1, StoredStays
  <2> QED BY <1>2, <2>1, <2>2, CountedGrows
<1>3. CASE Statement(k)
  <2>1. CASE LookUp(k) BY <1>1, <2>1, GoMoves DEF LookUp
  <2>2. CASE Persist(k)
    <3>1. \E pc \in {"count", "ok"} : Go(k, pc) BY <2>2 DEF Persist
    <3> QED BY <1>1, <3>1, GoMoves
  <2>3. CASE Count(k)
    <3>1. CASE Go(k, "ok") BY <1>1, <3>1, GoMoves
    <3>2. CASE calls' = [calls EXCEPT ![k] = [@ EXCEPT !.pc = "update",
                                               !.count = Outcome(stored[calls[k].run])]]
      <4>1. calls[k] \in CallType BY DEF TypeOK
      <4>2. calls'[k].run = calls[k].run /\ calls'[k].count = Outcome(stored[calls[k].run])
        BY <3>2, <4>1 DEF TypeOK, CallType
      <4>3. stored[calls[k].run] \in [Cases -> CaseResult \cup {"none"}]
        BY <1>3 DEF Statement, Created, Exists, TypeOK
      <4>4. UNCHANGED stored BY <2>3 DEF Count, rows
      <4> QED BY <4>2, <4>3, <4>4, CountedNow
    <3> QED BY <2>3, <3>1, <3>2 DEF Count
  <2>4. CASE UpdateStatus(k) BY <1>1, <2>4, GoMoves DEF UpdateStatus
  <2>5. CASE CallFails(k) BY <1>1, <2>5, GoMoves DEF CallFails
  <2> QED BY <1>3, <2>1, <2>2, <2>3, <2>4, <2>5 DEF Statement
<1>4. ASSUME NEW r \in Runs, ExecuteStarts(k, r) \/ FinalizeRun(r, k) \/ FinalizeManually(k, r)
      PROVE  FALSE
  BY <1>1, <1>4 DEF ExecuteStarts, ExecuteNext, FinalizeRun, FinalizeManually, IdleCall, TypeOK
<1>5. CASE calls'[k] # calls[k]
  BY <1>1, <1>3, <1>4, <1>5, CallMoves DEF IdleCall
<1> QED BY <1>2, <1>5
----------------------------------------------------------------------------
(* DagsFollow.                                                             *)

LEMMA DagFrame ==
  ASSUME Next, NEW r \in Runs, dags'[r] # dags[r], TypeOK
  PROVE  CreateDagRun(r) \/ Airflow(r)
<1>1. ASSUME NEW q \in Requests, Request(q) \/ Reply(q) PROVE UNCHANGED dags
  BY <1>1
  DEF Request, CreateRun, MarkRunning, PostRun, DispatchAnswered, RecordDispatch, Reply,
      AbandonRequest
<1>2. ASSUME NEW k \in Calls, Serve(k) \/ \E p \in Runs : FinalizeManually(k, p)
      PROVE  UNCHANGED dags
  BY <1>2
  DEF Serve, LookUp, Persist, Count, UpdateStatus, CallFails, EndUnheard, FinalizeManually
<1>3. ASSUME NEW p \in Runs, CreateDagRun(p) \/ Airflow(p) PROVE p = r
  BY <1>3
  DEF TypeOK, CreateDagRun, Airflow, ReadPending, CasesDone, FinalizeRun, ExecuteNext, AnswerOK,
      AnswerError, AttemptDies, AttemptFailed
<1> QED BY <1>1, <1>2, <1>3 DEF Next

(* What a DAG run may become.                                              *)
LEMMA DagSteps ==
  ASSUME TypeOK, NEW r \in Runs
  PROVE  /\ CreateDagRun(r) => dags[r].state = "none" /\ dags' = [dags EXCEPT ![r].state = "running"]
         /\ AnswerOK(r) \/ AnswerError(r) \/ AttemptDies(r) => ~Waiting(r)'
         /\ AnswerError(r) \/ AttemptDies(r) =>
              \/ dags'[r].state = "failed"
              \/ /\ dags'[r].state = "running" /\ dags[r].state = "running"
                 /\ dags'[r].task = dags[r].task /\ dags'[r].pc = "start"
<1>0. dags[r] \in DagType BY DEF TypeOK
<1>1. AttemptFailed(r) /\ dags[r].state = "running" =>
        /\ ~Waiting(r)'
        /\ \/ dags'[r].state = "failed"
           \/ /\ dags'[r].state = "running" /\ dags'[r].task = dags[r].task
              /\ dags'[r].pc = "start"
  <2>1. CASE TriesLeft(dags[r].try)
    BY <1>0, <2>1 DEF AttemptFailed, TypeOK, DagType, Waiting
  <2>2. CASE ~TriesLeft(dags[r].try)
    BY <1>0, <2>2 DEF AttemptFailed, TypeOK, DagType, Waiting
  <2> QED BY <2>1, <2>2
<1>2. AnswerError(r) \/ AttemptDies(r) => AttemptFailed(r) /\ dags[r].state = "running"
  BY DEF AnswerError, AttemptDies, Waiting
<1>3. AnswerOK(r) => ~Waiting(r)'
  BY <1>0 DEF AnswerOK, TypeOK, DagType, Waiting
<1>4. CreateDagRun(r) => dags[r].state = "none" /\ dags' = [dags EXCEPT ![r].state = "running"]
  BY DEF CreateDagRun
<1> QED BY <1>1, <1>2, <1>3, <1>4

(* A call a DAG run still waits for goes on.                               *)
LEMMA AwaitedGoesOn ==
  ASSUME IInv, Next, NEW r \in Runs, Waiting(r), dags'[r] = dags[r]
  PROVE  WaitsForItsCall(r)'
<1> DEFINE k == dags[r].call
<1>1. /\ k \in Calls /\ calls[k].pc # "idle" /\ calls[k].run = r
      /\ dags[r].task = "cases" <=> calls[k].case \in Cases
  BY DEF IInv, DagsFollow, WaitsForItsCall
<1>2. TypeOK BY DEF IInv
<1>3. ~EndUnheard(k) BY DEF EndUnheard
<1>4. ASSUME NEW p \in Runs, Answered(p, k) PROVE FALSE
  <2>1. WaitsForItsCall(p) BY <1>4 DEF IInv, DagsFollow, Answered
  <2>2. p = r BY <1>1, <1>4, <2>1 DEF WaitsForItsCall, Answered
  <2> QED BY <1>2, <1>4, <2>2, DagSteps DEF Answered, Waiting
<1>5. CASE calls'[k] = calls[k] BY <1>1, <1>5 DEF WaitsForItsCall
<1>6. CASE Statement(k) BY <1>1, <1>6 DEF Statement, WaitsForItsCall
<1> QED BY <1>1, <1>2, <1>3, <1>4, <1>5, <1>6, CallMoves

LEMMA WaitsStep ==
  ASSUME IInv, Next, NEW r \in Runs, Waiting(r)'
  PROVE  WaitsForItsCall(r)'
<1> USE DEF IInv
<1>0. dags[r] \in DagType /\ None \notin Cases BY ConstantsAssumption DEF TypeOK
<1>1. CASE dags'[r] = dags[r] BY <1>1, AwaitedGoesOn DEF Waiting
<1>2. CASE CreateDagRun(r)
  <2>1. dags[r] = NoDag BY <1>2, DagSteps DEF DagsFollow
  <2> QED BY <1>0, <1>2, <2>1, DagSteps DEF NoDag, Waiting, TypeOK
<1>3. CASE ReadPending(r) \/ CasesDone(r)
  <2>1. CASE ReadPending(r)
    <3>1. dags'[r].pc = "loop" BY <1>0, <2>1 DEF ReadPending, TypeOK, DagType
    <3> QED BY <3>1 DEF Waiting
  <2>2. CASE CasesDone(r)
    <3>1. dags'[r].pc = "start" BY <1>0, <2>2 DEF CasesDone, TypeOK, DagType
    <3> QED BY <3>1 DEF Waiting
  <2> QED BY <1>3, <2>1, <2>2
<1>4. ASSUME NEW k \in Calls, FinalizeRun(r, k) PROVE WaitsForItsCall(r)'
  <2>1. calls'[k] = [IdleCall EXCEPT !.pc = "count", !.run = r] BY <1>4 DEF FinalizeRun, TypeOK
  <2>2. dags'[r].call = k /\ dags'[r].task = "finalize"
    BY <1>0, <1>4 DEF FinalizeRun, TypeOK, DagType, At
  <2> QED BY <1>0, <2>1, <2>2 DEF IdleCall, WaitsForItsCall
<1>5. ASSUME NEW k \in Calls, NEW c \in Cases, ExecuteNext(r, c, k) PROVE WaitsForItsCall(r)'
  <2>1. calls'[k] = [IdleCall EXCEPT !.pc = "lookup", !.run = r, !.case = c]
    BY <1>5 DEF ExecuteNext, TypeOK
  <2>2. dags'[r].call = k /\ dags'[r].task = "cases"
    BY <1>0, <1>5 DEF ExecuteNext, TypeOK, DagType, At
  <2> QED BY <2>1, <2>2 DEF IdleCall, WaitsForItsCall
<1> QED BY <1>1, <1>2, <1>3, <1>4, <1>5, DagFrame, DagSteps DEF Airflow

LEMMA CallStoredStep ==
  ASSUME IInv, Next, NEW k \in Calls
  PROVE  /\ CallStored(k)'
         /\ calls'[k].pc \in {"lookup", "work"} => calls'[k].case \in Cases
<1> USE DEF IInv
<1>0. calls[k] \in CallType /\ None \notin Cases BY ConstantsAssumption DEF TypeOK
<1> DEFINE r == calls[k].run
           c == calls[k].case
<1>1. CASE calls'[k] = calls[k]
  <2>1. calls[k].pc \in {"lookup", "work"} => calls[k].case \in Cases BY DEF DagsFollow
  <2>2. calls[k].pc # "idle" => r \in Runs BY DEF Created, Exists
  <2>3. CallStored(k) BY DEF DagsFollow
  <2> QED BY <1>1, <2>1, <2>2, <2>3, StoredStays DEF CallStored
<1>2. CASE calls'[k] = IdleCall BY <1>2 DEF IdleCall, CallStored
<1>3. ASSUME NEW p \in Runs, FinalizeRun(p, k) \/ FinalizeManually(k, p)
      PROVE  calls'[k].pc = "count" /\ calls'[k].case = None
  BY <1>3 DEF FinalizeRun, FinalizeManually, IdleCall, TypeOK
<1>4. ASSUME NEW p \in Runs, ExecuteStarts(k, p)
      PROVE  calls'[k].pc = "lookup" /\ calls'[k].case \in Cases
  BY <1>4 DEF ExecuteStarts, ExecuteNext, IdleCall, TypeOK
<1>5. CASE Statement(k)
  <2>1. r \in Runs BY <1>5 DEF Statement, Created, Exists
  <2>2. stored[r] \in [Cases -> CaseResult \cup {"none"}] BY <2>1 DEF TypeOK
  <2>3. calls'[k].run = r /\ calls'[k].case = c BY <1>5 DEF Statement
  <2>4. CASE LookUp(k)
    <3>1. c \in Cases BY <2>4 DEF LookUp, DagsFollow
    <3>2. stored[r][c] # "none" \/ calls'[k].pc = "work" BY <2>4, GoMoves DEF LookUp
    <3> QED BY <2>1, <2>3, <3>1, <3>2, StoredStays DEF CallStored
  <2>5. CASE Persist(k)
    <3>1. c \in Cases BY <2>5 DEF Persist, DagsFollow
    <3>2. PICK s \in CaseResult : stored' = [stored EXCEPT ![r] = InsertOnce(stored[r], c, s)]
      BY <2>5 DEF Persist
    <3>3. stored'[r][c] # "none"
      BY <2>1, <2>2, <3>1, <3>2, Statuses DEF InsertOnce, TypeOK
    <3>4. \E pc \in {"count", "ok"} : Go(k, pc) BY <2>5 DEF Persist
    <3>5. calls'[k].pc \notin {"lookup", "work"} BY <3>4, GoMoves
    <3> QED BY <2>3, <3>1, <3>3, <3>5 DEF CallStored
  <2>6. CASE Count(k) \/ UpdateStatus(k)
    <3>1. calls[k].pc \in {"count", "update"} /\ UNCHANGED stored
      BY <2>6 DEF Count, UpdateStatus, rows
    <3>2. c \in Cases => stored[r][c] # "none" BY <3>1 DEF DagsFollow, CallStored
    <3>3. calls'[k].pc \in {"ok", "update"}
      <4>1. CASE Go(k, "ok") BY <4>1, GoMoves
      <4>2. CASE calls' = [calls EXCEPT ![k] = [@ EXCEPT !.pc = "update",
                                                 !.count = Outcome(stored[calls[k].run])]]
        BY <1>0, <4>2 DEF TypeOK, CallType
      <4> QED BY <2>6, <4>1, <4>2 DEF Count, UpdateStatus
    <3> QED BY <2>3, <3>1, <3>2, <3>3 DEF CallStored
  <2>7. CASE CallFails(k) BY <2>7, GoMoves DEF CallFails, CallStored
  <2> QED BY <1>5, <2>4, <2>5, <2>6, <2>7 DEF Statement
<1>6. CASE calls'[k] # calls[k]
  BY <1>0, <1>2, <1>3, <1>4, <1>5, <1>6, CallMoves DEF CallStored
<1> QED BY <1>1, <1>6

LEMMA StoredInGrows ==
  ASSUME IInv, Next, NEW r \in Runs
  PROVE  /\ StoredIn(stored[r]) \subseteq StoredIn(stored'[r])
         /\ StoredIn(stored[r]) = Cases => stored'[r] = stored[r]
<1> USE DEF IInv
<1>1. StoredIn(stored[r]) \subseteq StoredIn(stored'[r]) BY StoredStays DEF StoredIn
<1>2. StoredIn(stored[r]) = Cases => stored'[r] = stored[r] BY StoredMoves DEF StoredIn
<1> QED BY <1>1, <1>2

(* What a step of a DAG run leaves of its state, its task and its loop.    *)
LEMMA DagAfter ==
  ASSUME TypeOK, NEW r \in Runs
  PROVE  /\ ReadPending(r) => /\ dags'[r].state = "running" /\ dags'[r].task = "cases"
                             /\ dags'[r].todo = {c \in Cases : stored[r][c] = "none"}
         /\ \A c \in Cases, k \in Calls : ExecuteNext(r, c, k) =>
              /\ dags[r].state = "running" /\ dags[r].task = "cases" /\ dags[r].pc = "loop"
              /\ dags'[r].state = "running" /\ dags'[r].task = "cases"
              /\ dags'[r].todo = dags[r].todo
         /\ CasesDone(r) => /\ dags[r].state = "running" /\ dags[r].task = "cases"
                           /\ dags[r].pc = "loop" /\ dags[r].todo = {}
                           /\ dags'[r].state = "running"
         /\ \A k \in Calls : FinalizeRun(r, k) =>
              /\ dags[r].state = "running" /\ dags[r].task = "finalize"
              /\ dags'[r].state = "running" /\ dags'[r].task = "finalize"
         /\ AnswerOK(r) =>
              /\ dags[r].state = "running" /\ dags[r].pc = "wait"
              /\ dags[r].task = "cases" =>
                   /\ dags'[r].state = "running" /\ dags'[r].task = "cases"
                   /\ dags'[r].todo = dags[r].todo \ {calls[dags[r].call].case}
              /\ dags[r].task = "finalize" => dags'[r].state = "success"
<1>0. dags[r] \in DagType /\ dags \in [Runs -> DagType] BY DEF TypeOK
<1>1. ReadPending(r) => /\ dags'[r].state = "running" /\ dags'[r].task = "cases"
                        /\ dags'[r].todo = {c \in Cases : stored[r][c] = "none"}
  BY <1>0 DEF ReadPending, At, DagType
<1>2. ASSUME NEW c \in Cases, NEW k \in Calls, ExecuteNext(r, c, k)
      PROVE  /\ dags[r].state = "running" /\ dags[r].task = "cases" /\ dags[r].pc = "loop"
             /\ dags'[r].state = "running" /\ dags'[r].task = "cases"
             /\ dags'[r].todo = dags[r].todo
  BY <1>0, <1>2 DEF ExecuteNext, At, DagType
<1>3. CasesDone(r) => /\ dags[r].state = "running" /\ dags[r].task = "cases"
                      /\ dags[r].pc = "loop" /\ dags[r].todo = {}
                      /\ dags'[r].state = "running"
  BY <1>0 DEF CasesDone, LoopEnds, At, DagType
<1>4. ASSUME NEW k \in Calls, FinalizeRun(r, k)
      PROVE  /\ dags[r].state = "running" /\ dags[r].task = "finalize"
             /\ dags'[r].state = "running" /\ dags'[r].task = "finalize"
  BY <1>0, <1>4 DEF FinalizeRun, At, DagType
<1>5. ASSUME AnswerOK(r)
      PROVE  /\ dags[r].state = "running" /\ dags[r].pc = "wait"
             /\ dags[r].task = "cases" =>
                  /\ dags'[r].state = "running" /\ dags'[r].task = "cases"
                  /\ dags'[r].todo = dags[r].todo \ {calls[dags[r].call].case}
             /\ dags[r].task = "finalize" => dags'[r].state = "success"
  BY <1>0, <1>5 DEF AnswerOK, Waiting, DagType
<1> QED BY <1>1, <1>2, <1>3, <1>4, <1>5

LEMMA CasesStoredStep ==
  ASSUME IInv, Next, NEW r \in Runs
  PROVE  CasesStored(r)'
<1> USE DEF IInv
<1>0. dags[r] \in DagType /\ CasesStored(r) BY DEF DagsFollow, TypeOK
<1>g. StoredIn(stored[r]) \subseteq StoredIn(stored'[r]) BY StoredInGrows
<1>all. StoredIn(stored[r]) = Cases => CasesStored(r)'
  BY <1>g DEF CasesStored, StoredIn
<1>1. CASE dags'[r] = dags[r] BY <1>0, <1>1, <1>g, <1>all DEF CasesStored
<1>2. CASE CreateDagRun(r)
  <2>1. dags[r] = NoDag BY <1>2, DagSteps DEF DagsFollow
  <2>2. dags'[r].state = "running" /\ dags'[r].task = "cases" /\ dags'[r].pc = "start"
    BY <1>0, <1>2, <2>1, DagSteps DEF NoDag, TypeOK
  <2> QED BY <2>2 DEF CasesStored
<1>3. CASE ReadPending(r)
  <2>1. Cases \ dags'[r].todo \subseteq StoredIn(stored[r])
    BY <1>3, DagAfter DEF StoredIn
  <2> QED BY <1>3, <1>g, <2>1, DagAfter DEF CasesStored
<1>4. ASSUME NEW c \in Cases, NEW k \in Calls, ExecuteNext(r, c, k) PROVE CasesStored(r)'
  <2>1. /\ dags[r].state = "running" /\ dags[r].task = "cases" /\ dags[r].pc = "loop"
        /\ dags'[r].state = "running" /\ dags'[r].task = "cases"
        /\ dags'[r].todo = dags[r].todo
    BY <1>4, DagAfter
  <2>2. Cases \ dags[r].todo \subseteq StoredIn(stored[r]) BY <1>0, <2>1 DEF CasesStored
  <2> QED BY <1>g, <2>1, <2>2 DEF CasesStored
<1>5. CASE CasesDone(r)
  <2>1. /\ dags[r].state = "running" /\ dags[r].task = "cases" /\ dags[r].pc = "loop"
        /\ dags[r].todo = {}
    BY <1>5, DagAfter
  <2>2. StoredIn(stored[r]) = Cases BY <1>0, <2>1 DEF CasesStored, StoredIn
  <2> QED BY <1>all, <2>2
<1>6. ASSUME NEW k \in Calls, FinalizeRun(r, k) PROVE CasesStored(r)'
  <2>1. dags[r].state = "running" /\ dags[r].task = "finalize" BY <1>6, DagAfter
  <2> QED BY <1>0, <1>all, <2>1 DEF CasesStored
<1>7. CASE AnswerOK(r)
  <2>1. dags[r].state = "running" /\ dags[r].pc = "wait" BY <1>7, DagAfter
  <2>2. CASE dags[r].task = "finalize" BY <1>0, <1>all, <2>1, <2>2 DEF CasesStored
  <2>3. CASE dags[r].task = "cases"
    <3> DEFINE k == dags[r].call
    <3>1. k \in Calls /\ calls[k].run = r /\ calls[k].case \in Cases
      BY <2>1, <2>3 DEF DagsFollow, Waiting, WaitsForItsCall
    <3>2. calls[k].pc = "ok" BY <1>7 DEF AnswerOK
    <3>3. calls[k].case \in StoredIn(stored[r])
      BY <3>1, <3>2 DEF DagsFollow, CallStored, StoredIn
    <3>4. Cases \ dags[r].todo \subseteq StoredIn(stored[r])
      BY <1>0, <2>1, <2>3 DEF CasesStored, StoredIn
    <3>5. /\ dags'[r].state = "running" /\ dags'[r].task = "cases"
          /\ dags'[r].todo = dags[r].todo \ {calls[k].case}
      BY <1>7, <2>3, DagAfter
    <3> QED BY <1>g, <3>3, <3>4, <3>5 DEF CasesStored
  <2> QED BY <1>0, <2>2, <2>3 DEF DagType
<1>8. CASE AnswerError(r) \/ AttemptDies(r)
  <2>1. CASE dags'[r].state = "failed" BY <2>1 DEF CasesStored
  <2>2. CASE /\ dags'[r].state = "running" /\ dags[r].state = "running"
             /\ dags'[r].task = dags[r].task /\ dags'[r].pc = "start"
    <3>1. CASE dags[r].task = "cases" BY <2>2, <3>1 DEF CasesStored
    <3>2. CASE dags[r].task = "finalize" BY <1>0, <1>all, <2>2, <3>2 DEF CasesStored
    <3> QED BY <1>0, <3>1, <3>2 DEF DagType
  <2> QED BY <1>8, <2>1, <2>2, DagSteps
<1> QED BY <1>1, <1>2, <1>3, <1>4, <1>5, <1>6, <1>7, <1>8, DagFrame DEF Airflow

LEMMA DagsStep ==
  ASSUME IInv, Next
  PROVE  DagsFollow'
<1> USE DEF IInv
<1>1. ASSUME NEW r \in Runs, dags'[r].state = "none" PROVE dags'[r] = NoDag
  <2>1. CASE dags'[r] = dags[r] BY <1>1, <2>1 DEF DagsFollow
  <2>2. CASE dags'[r] # dags[r]
    <3>1. CASE CreateDagRun(r)
      <4>1. dags'[r].state = "running" BY <3>1, DagSteps DEF TypeOK, DagType
      <4> QED BY <1>1, <4>1
    <3>2. CASE Airflow(r)
      <4>1. dags[r].task \in {"cases", "finalize"} BY DEF TypeOK, DagType
      <4> QED BY <1>1, <3>2, <4>1, DagAfter, DagSteps DEF Airflow
    <3> QED BY <2>2, <3>1, <3>2, DagFrame
  <2> QED BY <2>1, <2>2
<1>2. \A r \in Runs : Waiting(r)' => WaitsForItsCall(r)' BY WaitsStep
<1>3. \A r \in Runs : CasesStored(r)' BY CasesStoredStep
<1>4. \A k \in Calls : /\ CallStored(k)'
                       /\ calls'[k].pc \in {"lookup", "work"} => calls'[k].case \in Cases
  BY CallStoredStep
<1> QED BY <1>1, <1>2, <1>3, <1>4 DEF DagsFollow
----------------------------------------------------------------------------
(* LastCountFinal.                                                         *)

LEMMA BoundsGrow ==
  ASSUME TypeOK, Next, lost' + manual' = 0
  PROVE  lost + manual = 0 /\ UNCHANGED bounds
<1>0. lost \in Nat /\ manual \in Nat BY DEF TypeOK
<1>1. ASSUME NEW q \in Requests, Request(q) \/ Reply(q) PROVE UNCHANGED bounds
  BY <1>1
  DEF Request, CreateRun, MarkRunning, PostRun, DispatchAnswered, RecordDispatch, Reply,
      AbandonRequest
<1>2. ASSUME NEW r \in Runs, CreateDagRun(r) \/ Airflow(r)
      PROVE  UNCHANGED manual /\ (lost' = lost \/ lost' = lost + 1)
  BY <1>2
  DEF Airflow, bounds, CreateDagRun, ReadPending, CasesDone, FinalizeRun, ExecuteNext, AnswerOK,
      AnswerError, AttemptDies
<1>3. ASSUME NEW k \in Calls, Serve(k) \/ \E r \in Runs : FinalizeManually(k, r)
      PROVE  UNCHANGED lost /\ (manual' = manual \/ manual' = manual + 1)
  BY <1>3
  DEF Serve, bounds, LookUp, Persist, Count, UpdateStatus, CallFails, EndUnheard, FinalizeManually
<1> QED BY <1>0, <1>1, <1>2, <1>3 DEF Next, bounds

(* A call that an attempt leaves behind is counted in lost.                *)
LEMMA CallEnds ==
  ASSUME TypeOK, RequestsRefer, DagsFollow, UNCHANGED bounds, NEW r \in Runs, Waiting(r),
         AnswerOK(r) \/ AnswerError(r) \/ AttemptDies(r)
  PROVE  calls'[dags[r].call] = IdleCall
<1>1. dags[r].call \in Calls BY DEF DagsFollow, WaitsForItsCall
<1>2. lost \in Nat /\ lost' = lost /\ calls \in [Calls -> CallType] BY DEF TypeOK, bounds
<1> QED BY <1>1, <1>2 DEF AnswerOK, AnswerError, AttemptDies

LEMMA DagStays ==
  ASSUME IInv, Next, UNCHANGED bounds,
         NEW k \in Calls, calls'[k].pc # "idle", NEW r \in Runs, Waiting(r), dags[r].call = k
  PROVE  dags'[r] = dags[r]
<1> USE DEF IInv
<1>1. CASE AnswerOK(r) \/ AnswerError(r) \/ AttemptDies(r) BY <1>1, CallEnds DEF IdleCall
<1>2. ~CreateDagRun(r) BY DEF CreateDagRun, Waiting
<1>3. /\ ~ReadPending(r) /\ ~CasesDone(r)
      /\ \A j \in Calls : ~FinalizeRun(r, j) /\ \A c \in Cases : ~ExecuteNext(r, c, j)
  BY DEF ReadPending, CasesDone, FinalizeRun, ExecuteNext, At, Waiting
<1> QED BY <1>1, <1>2, <1>3, DagFrame DEF Airflow

(* A settled status stays that of the results, unless a call of the run is *)
(* about to write.                                                         *)
LEMMA FinalStays ==
  ASSUME IInv, Next, NEW r \in Runs, Final(r), StoredIn(stored[r]) = Cases,
         \A k \in Calls : UpdateStatus(k) => calls[k].run # r
  PROVE  Final(r)'
<1> USE DEF IInv
<1>1. stored'[r] = stored[r] BY StoredInGrows
<1>2. status[r] \in {"dispatch_failed", "completed", "partial", "failed"}
  BY OutcomeValues DEF Final
<1>3. status'[r] = status[r] BY <1>2, StatusMoves
<1> QED BY <1>1, <1>3 DEF Final

LEMMA AloneStep ==
  ASSUME IInv, Next, lost + manual = 0, UNCHANGED bounds,
         NEW k \in Calls, calls'[k].pc # "idle"
  PROVE  CallAlone(k)'
<1> USE DEF IInv
<1>0. calls[k] \in CallType BY DEF TypeOK
<1>al. \A j \in Calls : calls[j].pc # "idle" => CallAlone(j) BY DEF LastCountFinal
<1>1. CASE calls'[k] = calls[k]
  <2>0. CallAlone(k) /\ calls[k].run \in Runs BY <1>1, <1>al DEF Created, Exists
  <2>1. PICK r \in Runs : r = calls[k].run BY <2>0
  <2>2. Waiting(r) /\ dags[r].call = k BY <2>0, <2>1 DEF CallAlone
  <2>3. dags'[r] = dags[r] BY <2>1, <2>2, DagStays
  <2>4. CASE dags[r].task = "finalize"
    <3>1. StoredIn(stored[r]) = Cases BY <2>1, <2>2, <2>4 DEF DagsFollow, CasesStored, Waiting
    <3>2. stored'[r] = stored[r] BY <2>1, <3>1, StoredInGrows
    <3>3. ASSUME NEW j \in Calls, UpdateStatus(j) PROVE calls[j].run # r
      <4>1. CallAlone(j) BY <1>al, <3>3 DEF UpdateStatus
      <4>2. calls'[j] # calls[j] BY <3>3, GoMoves DEF UpdateStatus
      <4> QED BY <1>1, <2>2, <4>1, <4>2 DEF CallAlone
    <3>4. calls[k].pc = "ok" => Final(r)'
      BY <2>0, <2>1, <2>4, <3>1, <3>3, FinalStays DEF CallAlone
    <3>5. calls[k].pc = "update" => calls[k].count = Outcome(stored[r])
      BY <2>0, <2>1, <2>4 DEF CallAlone
    <3> QED BY <1>1, <2>1, <2>2, <2>3, <3>2, <3>4, <3>5 DEF CallAlone, Waiting, Final
  <2>5. CASE dags[r].task # "finalize" BY <1>1, <2>1, <2>2, <2>3, <2>5 DEF CallAlone, Waiting
  <2> QED BY <2>4, <2>5
<1>2. CASE Statement(k)
  <2>0. CallAlone(k) /\ calls[k].run \in Runs BY <1>2, <1>al DEF Created, Exists, Statement
  <2>1. PICK r \in Runs : r = calls[k].run BY <2>0
  <2>2. Waiting(r) /\ dags[r].call = k BY <2>0, <2>1 DEF CallAlone
  <2>3. calls'[k].run = r BY <1>2, <2>1 DEF Statement
  <2>4. dags'[r] = dags[r] BY <2>1, <2>2, DagStays
  <2>5. CASE dags[r].task # "finalize" BY <2>2, <2>3, <2>4, <2>5 DEF CallAlone, Waiting
  <2>6. CASE dags[r].task = "finalize"
    <3>1. calls[k].case \notin Cases
      BY <2>1, <2>2, <2>6 DEF DagsFollow, WaitsForItsCall
    <3>2. ~LookUp(k) /\ ~Persist(k) BY <3>1 DEF DagsFollow, LookUp, Persist
    <3>3. CASE Count(k)
      <4>1. UNCHANGED <<status, stored>> BY <3>3 DEF Count, rows
      <4>o. \/ status[r] = "dispatch_failed" /\ Go(k, "ok")
            \/ calls' = [calls EXCEPT ![k] = [@ EXCEPT !.pc = "update",
                                               !.count = Outcome(stored[r])]]
        BY <2>1, <3>3 DEF Count
      <4>2. CASE status[r] = "dispatch_failed" /\ Go(k, "ok")
        <5>1. calls'[k].pc = "ok" BY <4>2, GoMoves
        <5>2. Final(r)' BY <4>1, <4>2 DEF Final
        <5> QED BY <2>2, <2>3, <2>4, <5>1, <5>2 DEF CallAlone, Waiting, Final
      <4>3. CASE calls' = [calls EXCEPT ![k] = [@ EXCEPT !.pc = "update",
                                                 !.count = Outcome(stored[r])]]
        <5>1. calls'[k].pc = "update" /\ calls'[k].count = Outcome(stored[r])
          BY <1>0, <4>3 DEF TypeOK, CallType
        <5> QED BY <2>2, <2>3, <2>4, <4>1, <5>1 DEF CallAlone, Waiting
      <4> QED BY <4>o, <4>2, <4>3
    <3>4. CASE UpdateStatus(k)
      <4>1. calls[k].count = Outcome(stored[r]) BY <2>0, <2>1, <2>6, <3>4 DEF UpdateStatus, CallAlone
      <4>2. UNCHANGED stored /\ status'[r] = StatusFrom(status[r], calls[k].count)
        BY <2>1, <3>4 DEF UpdateStatus, TypeOK
      <4>3. Final(r)' BY <4>1, <4>2 DEF StatusFrom, Final
      <4>4. calls'[k].pc = "ok" BY <3>4, GoMoves DEF UpdateStatus
      <4> QED BY <2>2, <2>3, <2>4, <4>3, <4>4 DEF CallAlone, Waiting, Final
    <3>5. CASE CallFails(k)
      <4>1. calls'[k].pc = "error" BY <3>5, GoMoves DEF CallFails
      <4> QED BY <2>2, <2>3, <2>4, <4>1 DEF CallAlone, Waiting
    <3> QED BY <1>2, <3>2, <3>3, <3>4, <3>5 DEF Statement
  <2> QED BY <2>5, <2>6
<1>3. ASSUME NEW p \in Runs, FinalizeRun(p, k) PROVE CallAlone(k)'
  <2>1. calls'[k].pc = "count" /\ calls'[k].run = p
    BY <1>3 DEF FinalizeRun, IdleCall, TypeOK
  <2>2. dags[p] \in DagType BY DEF TypeOK
  <2>3. dags'[p].state = "running" /\ dags'[p].pc = "wait" /\ dags'[p].call = k
    BY <1>3, <2>2 DEF FinalizeRun, At, TypeOK, DagType
  <2> QED BY <2>1, <2>3 DEF CallAlone, Waiting
<1>4. ASSUME NEW p \in Runs, ExecuteStarts(k, p) PROVE CallAlone(k)'
  <2>1. PICK c \in Cases : ExecuteNext(p, c, k) BY <1>4 DEF ExecuteStarts
  <2>2. calls'[k].pc = "lookup" /\ calls'[k].run = p
    BY <2>1 DEF ExecuteNext, IdleCall, TypeOK
  <2>3. dags[p] \in DagType BY DEF TypeOK
  <2>4. dags'[p].state = "running" /\ dags'[p].pc = "wait" /\ dags'[p].call = k
    BY <2>1, <2>3 DEF ExecuteNext, At, TypeOK, DagType
  <2> QED BY <2>2, <2>4 DEF CallAlone, Waiting
<1>5. ASSUME NEW p \in Runs PROVE ~FinalizeManually(k, p)
  BY DEF FinalizeManually, TypeOK, bounds
<1>6. CASE calls'[k] # calls[k]
  BY <1>2, <1>3, <1>4, <1>5, <1>6, CallMoves DEF IdleCall
<1> QED BY <1>1, <1>6

LEMMA LastStep ==
  ASSUME IInv, Next
  PROVE  LastCountFinal'
<1> USE DEF IInv
<1>1. SUFFICES ASSUME lost' + manual' = 0
               PROVE  /\ \A k \in Calls : calls'[k].pc # "idle" => CallAlone(k)'
                      /\ \A r \in Runs : dags'[r].state = "success" => Final(r)'
  BY DEF LastCountFinal
<1>2. lost + manual = 0 /\ UNCHANGED bounds BY <1>1, BoundsGrow
<1>3. \A k \in Calls : calls'[k].pc # "idle" => CallAlone(k)' BY <1>2, AloneStep
<1>4. ASSUME NEW r \in Runs, dags'[r].state = "success" PROVE Final(r)'
  <2>al. \A j \in Calls : calls[j].pc # "idle" => CallAlone(j) BY <1>2 DEF LastCountFinal
  <2>1. CASE dags[r].state = "success"
    <3>1. Final(r) BY <1>2, <2>1 DEF LastCountFinal
    <3>2. StoredIn(stored[r]) = Cases BY <2>1 DEF DagsFollow, CasesStored
    <3>3. ASSUME NEW k \in Calls, UpdateStatus(k) PROVE calls[k].run # r
      BY <2>1, <2>al, <3>3 DEF UpdateStatus, CallAlone, Waiting
    <3> QED BY <3>1, <3>2, <3>3, FinalStays
  <2>2. CASE dags[r].state # "success"
    <3>1. AnswerOK(r)
      <4>1. CreateDagRun(r) \/ Airflow(r) BY <1>4, <2>2, DagFrame
      <4>2. ~CreateDagRun(r)
        <5>1. CreateDagRun(r) => dags'[r].state = "running"
          BY DagSteps DEF TypeOK, DagType
        <5> QED BY <1>4, <5>1
      <4> QED BY <1>4, <4>1, <4>2, DagAfter, DagSteps DEF Airflow
    <3> DEFINE k == dags[r].call
    <3>2. dags[r].task = "finalize" /\ Waiting(r)
      <4>1. dags[r].task \in {"cases", "finalize"} BY DEF TypeOK, DagType
      <4> QED BY <1>4, <3>1, <4>1, DagAfter DEF Waiting
    <3>3. k \in Calls /\ calls[k].run = r /\ calls[k].pc = "ok"
      BY <3>1, <3>2 DEF DagsFollow, WaitsForItsCall, AnswerOK
    <3>4. Final(r) BY <2>al, <3>2, <3>3 DEF CallAlone
    <3>5. UNCHANGED <<status, stored>> BY <3>1 DEF AnswerOK, rows
    <3> QED BY <3>4, <3>5 DEF Final
  <2> QED BY <2>1, <2>2
<1> QED BY <1>3, <1>4
----------------------------------------------------------------------------
LEMMA InvInit == Init => IInv
<1> SUFFICES ASSUME Init PROVE IInv OBVIOUS
<1>1. TypeOK /\ RequestsRefer BY TypeInit
<1>2. /\ \A q \in Requests : requests[q].pc = "idle"
      /\ \A k \in Calls : calls[k].pc = "idle"
      /\ \A r \in Runs : dags[r] = NoDag /\ status[r] = "none"
      /\ posted = {}
  BY DEF Init, Lifecycle!Init, IdleRequest, IdleCall
<1>3. NoDag.state = "none" BY DEF NoDag
<1>4. Created /\ MarkedFirst BY <1>2, <1>3 DEF Created, MarkedFirst
<1>5. CompletedIsReal /\ CountsReal BY <1>2 DEF CompletedIsReal, CountsReal
<1>6. DagsFollow BY <1>2, <1>3 DEF DagsFollow, Waiting, CasesStored, CallStored
<1>7. LastCountFinal BY <1>2, <1>3 DEF LastCountFinal
<1> QED BY <1>1, <1>4, <1>5, <1>6, <1>7 DEF IInv

LEMMA InvStep == IInv /\ [Next]_vars => IInv'
<1> SUFFICES ASSUME IInv, [Next]_vars PROVE IInv' OBVIOUS
<1>1. CASE Next
  <2>1. TypeOK' /\ RequestsRefer' BY <1>1, TypeStep DEF IInv
  <2> QED BY <1>1, <2>1, CreatedStep, MarkedStep, CompletedStep, CountsStep, DagsStep, LastStep
          DEF IInv
<1>2. CASE UNCHANGED vars
  <2>1. TypeOK' /\ RequestsRefer' BY <1>2, TypeStep DEF IInv
  <2>2. UNCHANGED <<status, stored, requests, posted, dags, calls, lost, manual>>
    BY <1>2 DEF vars
  <2>3. Created' /\ MarkedFirst'
    BY <2>2 DEF IInv, Created, MarkedFirst, Exists
  <2>4. CompletedIsReal' /\ CountsReal' /\ DagsFollow' /\ LastCountFinal'
    BY <2>2
    DEF IInv, CompletedIsReal, CountsReal, Counted, StoredIn, DagsFollow, Waiting,
        WaitsForItsCall, CasesStored, CallStored, LastCountFinal, CallAlone, Final
  <2> QED BY <2>1, <2>3, <2>4 DEF IInv
<1> QED BY <1>1, <1>2

(* A completed run has a completed result for every case; and when the DAG *)
(* run has succeeded, every case is stored, and the status is the outcome  *)
(* of these results unless a call went on unheard or an operator           *)
(* finalized meanwhile (evalrun/store.go:331-386, exec.go:106-155).        *)
THEOREM FinishedAlwaysWhole == Spec => []FinishedIsWhole
<1>1. IInv => FinishedIsWhole
  <2> SUFFICES ASSUME IInv, NEW r \in Runs, dags[r].state = "success"
               PROVE  /\ \A c \in Cases : stored[r][c] # "none"
                      /\ lost + manual = 0 => status[r] \in {"dispatch_failed", Outcome(stored[r])}
    BY DEF IInv, FinishedIsWhole, SuccessIsWhole
  <2>1. StoredIn(stored[r]) = Cases BY DEF IInv, DagsFollow, CasesStored
  <2>2. lost + manual = 0 => Final(r) BY DEF IInv, LastCountFinal
  <2> QED BY <2>1, <2>2 DEF StoredIn, Final
<1> QED BY <1>1, InvInit, InvStep, PTL DEF Spec
----------------------------------------------------------------------------
(* EvalRun implements RunLifecycle.                                        *)

LEMMA StepMaps == IInv /\ [Next]_vars => [Lifecycle!Next]_(Lifecycle!vars)
<1> SUFFICES ASSUME IInv, [Next]_vars, UNCHANGED <<status, stored>> => FALSE
             PROVE  Lifecycle!Next
  BY DEF Lifecycle!vars
<1> USE DEF IInv
<1>0. /\ Next
      /\ status \in [Runs -> Lifecycle!RunStatus]
      /\ stored \in [Runs -> [Cases -> CaseResult \cup {"none"}]]
  BY DEF vars, TypeOK
<1>1. CASE \E k \in Calls : Persist(k)
  <2>1. PICK k \in Calls : Persist(k) BY <1>1
  <2> DEFINE r == calls[k].run
             c == calls[k].case
  <2>2. r \in Runs /\ c \in Cases BY <2>1 DEF Persist, Created, Exists, DagsFollow
  <2>3. PICK s \in CaseResult : stored' = [stored EXCEPT ![r] = InsertOnce(stored[r], c, s)]
    BY <2>1 DEF Persist
  <2>4. UNCHANGED status BY <2>1 DEF Persist
  <2>5. stored[r][c] = "none"
    <3>1. CASE stored[r][c] # "none"
      <4>1. stored' = stored BY <1>0, <2>3, <3>1 DEF InsertOnce
      <4> QED BY <2>4, <4>1
    <3> QED BY <3>1
  <2>6. stored' = [stored EXCEPT ![r][c] = s] BY <2>3, <2>5 DEF InsertOnce
  <2>7. Lifecycle!Store(r, c) BY <2>4, <2>5, <2>6 DEF Lifecycle!Store, CaseResult
  <2> QED BY <2>2, <2>7 DEF Lifecycle!Next
<1>2. CASE ~\E k \in Calls : Persist(k)
  <2>0. UNCHANGED stored BY <1>0, <1>2, StoredFrame
  <2>1. ASSUME NEW q \in Requests, NEW r \in Runs, CreateRun(q, r) PROVE Lifecycle!Create(r)
    BY <2>1 DEF CreateRun, Lifecycle!Create
  <2>2. ASSUME NEW q \in Requests, MarkRunning(q)
        PROVE  requests[q].run \in Runs /\ Lifecycle!Start(requests[q].run)
    <3> DEFINE r == requests[q].run
    <3>1. r \in Runs BY <2>2 DEF MarkRunning, RequestsRefer
    <3>2. status' = [status EXCEPT ![r] = "running"] /\ status[r] \in {"created", "running"}
      BY <2>0, <2>2 DEF MarkRunning
    <3>3. status[r] # "running" BY <1>0, <2>0, <3>1, <3>2
    <3> QED BY <2>0, <3>1, <3>2, <3>3 DEF Lifecycle!Start
  <2>3. ASSUME NEW q \in Requests, RecordDispatch(q)
        PROVE  /\ requests[q].run \in Runs
               /\ Lifecycle!Start(requests[q].run) \/ Lifecycle!Refuse(requests[q].run)
    <3> DEFINE r == requests[q].run
    <3>1. r \in Runs BY <2>3 DEF RecordDispatch, RequestsRefer
    <3>2. /\ status[r] \in {"created", "running"}
          /\ status' = [status EXCEPT ![r] =
                          IF requests[q].err THEN "dispatch_failed" ELSE "running"]
      BY <2>0, <2>3 DEF RecordDispatch, RecordApplies
    <3>3. CASE requests[q].err BY <2>0, <3>1, <3>2, <3>3 DEF Lifecycle!Refuse
    <3>4. CASE ~requests[q].err
      <4>1. status' = [status EXCEPT ![r] = "running"] BY <3>2, <3>4
      <4>2. status[r] # "running" BY <1>0, <2>0, <3>1, <4>1
      <4> QED BY <2>0, <3>1, <3>2, <4>1, <4>2 DEF Lifecycle!Start
    <3> QED BY <3>1, <3>3, <3>4
  <2>4. ASSUME NEW k \in Calls, UpdateStatus(k)
        PROVE  calls[k].run \in Runs /\ Lifecycle!Settle(calls[k].run)
    <3> DEFINE r == calls[k].run
    <3>1. r \in Runs /\ status[r] # "none" BY <2>4 DEF UpdateStatus, Created, Exists
    <3>2. status' = [status EXCEPT ![r] = StatusFrom(status[r], calls[k].count)]
      BY <2>4 DEF UpdateStatus
    <3>3. status[r] # "dispatch_failed"
      <4>1. CASE status[r] = "dispatch_failed"
        <5>1. status' = status BY <1>0, <3>1, <3>2, <4>1 DEF StatusFrom
        <5> QED BY <2>0, <5>1
      <4> QED BY <4>1
    <3>4. PICK part \in SUBSET StoredIn(stored[r]) :
            calls[k].count = Outcome(Lifecycle!Seen(stored[r], part))
      BY <2>4 DEF UpdateStatus, CountsReal, Counted
    <3>5. part \in SUBSET Cases BY <3>4 DEF StoredIn
    <3>6. status' = [status EXCEPT ![r] = Lifecycle!OutcomeOf(Lifecycle!Seen(stored[r], part))]
      BY <3>2, <3>3, <3>4 DEF StatusFrom, Outcome
    <3> QED BY <2>0, <3>1, <3>3, <3>5, <3>6 DEF Lifecycle!Settle
  <2> QED BY <1>0, <2>0, <2>1, <2>2, <2>3, <2>4, StatusFrame DEF Lifecycle!Next
<1> QED BY <1>1, <1>2

(* Readers of a run see no status and no result outside RunLifecycle:      *)
(* whatever the order of records, counts and updates, a case is stored     *)
(* once, a refused dispatch stays, and a status is the outcome of stored   *)
(* results (evalrun/store.go:184-214, 331-386; httpapi/evalruns.go).       *)
THEOREM ImplementsLifecycle == Spec => FollowsLifecycle
<1>1. Init => Lifecycle!Init BY DEF Init
<1>2. Spec => [][Lifecycle!Next]_(Lifecycle!vars)
  BY InvInit, InvStep, StepMaps, PTL DEF Spec
<1> QED BY <1>1, <1>2, PTL DEF Spec, FollowsLifecycle, Lifecycle!Spec
=============================================================================
