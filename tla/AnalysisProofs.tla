--------------------------- MODULE AnalysisProofs ---------------------------
(***************************************************************************)
(* What holds of Analysis for every set of analyses, requests and stage    *)
(* calls, and any number of retries, lost answers and cleared tasks.       *)
(***************************************************************************)
EXTENDS Analysis, TLAPS

----------------------------------------------------------------------------
(* The inductive invariant.                                                *)

(* One row: what ColumnsAgree, OutputsChain and ReportComplete say of it,  *)
(* that it is at stage 0 before its first claim, that no output is ahead   *)
(* of the current stage, and that a stage that succeeded left an output.   *)
RowInv(row) ==
  /\ row.status \in StatusesOf(row)
  /\ \A s \in Stages : /\ s < row.stage => row.metrics[s] = "succeeded"
                       /\ s > row.stage => row.metrics[s] = "none"
                       /\ s > row.stage => row.out[s] = 0
                       /\ row.metrics[s] = "succeeded" => row.out[s] # 0
  /\ row.job = "failed" => row.stage # 0 /\ row.metrics[row.stage] = "failed"
  /\ row.job = "succeeded" => /\ row.stage = Summarize
                              /\ row.metrics[Summarize] = "succeeded"
  /\ row.status = "partial" => row.stage = Summarize
  /\ row.job \in AwaitingDispatch \cup {"none", "queued"} => row.stage = 0
  /\ \A s \in Stages \ {1} : row.out[s] # 0 => row.from[s] = row.out[s - 1]

(* Requests in flight are about an analysis.                               *)
RequestsRefer == \A q \in Requests : requests[q].pc # "idle" => requests[q].a \in Analyses

(* Airflow is never behind the row: a run reaches a stage when the stages  *)
(* before it succeeded (or the analysis was cancelled), and its callback   *)
(* is about the stage it stopped at.                                       *)
Passed(row, s) ==
  row.job = "cancelled" \/ \A t \in Stages : t < s => row.metrics[t] = "succeeded"

RunsLead ==
  \A a \in Analyses :
    /\ Passed(rows[a], runs[a].stage)
    /\ rows[a].stage <= runs[a].stage
    /\ callbacks[a] # 0 => callbacks[a] = runs[a].stage /\ runs[a].state = "failed"
    /\ runs[a].call # None => runs[a].task = "calling"
    /\ runs[a].task # "waiting" => runs[a].state = "running"

(* A call belongs to a stage its run has reached, its attempt's stage      *)
(* while the attempt waits for it; "ok" stands for a durable success; and  *)
(* a call that claimed the current stage works on the persisted input.     *)
CallFollows(c) ==
  LET a == calls[c].a
      s == calls[c].stage
  IN
  /\ a \in Analyses
  /\ s <= runs[a].stage
  /\ runs[a].call = c => s = runs[a].stage
  /\ calls[c].pc = "ok" =>
       rows[a].job = "cancelled" \/ rows[a].metrics[s] = "succeeded"
  /\ calls[c].pc = "save" => calls[c].product # 0
  /\ calls[c].pc \in {"work", "save", "fail"} =>
       /\ s <= rows[a].stage
       /\ s = rows[a].stage => calls[c].input = InputOf(rows[a], s)

CallsFollow == \A c \in Calls : calls[c].pc # "idle" => CallFollows(c)

WaitsForItsCall ==
  \A a \in Analyses : runs[a].task = "calling" =>
    /\ runs[a].call \in Calls
    /\ calls[runs[a].call].pc # "idle" /\ calls[runs[a].call].a = a

RowsInv == \A a \in Analyses : RowInv(rows[a])

(* Requests, dagRuns and calls are about analyses that were created.       *)
Created ==
  /\ \A q \in Requests : requests[q].pc # "idle" => rows[requests[q].a].job # "none"
  /\ \A a \in posted : rows[a].job # "none"
  /\ \A a \in Analyses : runs[a].state # "none" => rows[a].job # "none"
  /\ \A c \in Calls : calls[c].pc # "idle" => rows[calls[c].a].job # "none"

IInv == TypeOK /\ RowsInv /\ RequestsRefer /\ RunsLead /\ CallsFollow /\ WaitsForItsCall /\ Created
----------------------------------------------------------------------------
(* One row: what the writers of the table may do to it.                    *)

(* The stage goes forward, successes stay, a finished job does not reopen  *)
(* (unless it failed), and an output changes only at the current stage.    *)
Kept(old, new) ==
  /\ old.stage <= new.stage
  /\ \A s \in Stages :
       /\ old.metrics[s] = "succeeded" => new.metrics[s] = "succeeded"
       /\ new.out[s] # old.out[s] => s = old.stage /\ s = new.stage
  /\ old.job = "cancelled" => new = old
  /\ old.job = "succeeded" => new.job = "succeeded"
  /\ old.job \notin AwaitingDispatch \cup {"none"} => new.job \notin AwaitingDispatch
  /\ old.job # "none" => new.job # "none"

(* A reader sees nothing of it, or one of the moves of AnalysisLifecycle.  *)
Moved(old, new) ==
  ViewOf(new) = ViewOf(old) \/ Lifecycle!Move(ViewOf(old), ViewOf(new))

GoodStep(old, new) ==
  new \in RowType /\ RowInv(new) /\ Kept(old, new) /\ Moved(old, new)

LEMMA RowUpdate ==
  ASSUME NEW row \in RowType, NEW j \in JobState, NEW st \in Status, NEW k \in 0..Summarize
  PROVE  /\ [row EXCEPT !.job = j, !.status = st] \in RowType
         /\ [row EXCEPT !.job = j, !.status = st, !.stage = k] \in RowType
  BY DEF RowType

LEMMA StatusValues ==
  /\ {"dispatch_pending", "dispatch_failed", "queued", "cancelled", "processing",
      "failed"} \subseteq JobState
  /\ {"queued", "failed", "partial", "processing", "cancelled"} \subseteq Status
  /\ 0 \in 0..Summarize /\ Stages \subseteq 0..Summarize
  BY DEF JobState, Status, Stages, Summarize

LEMMA SameRow ==
  ASSUME NEW row \in RowType, RowInv(row)
  PROVE  GoodStep(row, row)
  BY DEF GoodStep, Kept, Moved, RowType, Stages, Summarize

(* The stages that succeeded, as a reader sees them: those before the      *)
(* stage whose turn it is.                                                 *)
DoneOf(row) == {s \in Stages : row.metrics[s] = "succeeded"}
Seen(row) == IF row.job \in AwaitingDispatch THEN "waiting" ELSE row.status

LEMMA ViewFields ==
  ASSUME NEW row
  PROVE  ViewOf(row) = [status |-> Seen(row), stage |-> row.stage,
                        done |-> DoneOf(row), out |-> row.out]
  BY DEF ViewOf, Seen, DoneOf

LEMMA DoneBefore ==
  ASSUME NEW row \in RowType, RowInv(row), NEW s \in Stages,
         row.stage <= s, \A t \in Stages : t < s => row.metrics[t] = "succeeded",
         row.metrics[s] # "succeeded"
  PROVE  DoneOf(row) = 1..s - 1
<1>1. row.stage \in 0..Summarize BY DEF RowType
<1>2. ASSUME NEW t \in Stages PROVE row.metrics[t] = "succeeded" <=> t < s
  <2>1. CASE t < s BY <2>1
  <2>2. CASE t = s BY <2>2
  <2>3. CASE t > s
    <3>1. t > row.stage BY <1>1, <2>3 DEF Stages, Summarize
    <3> QED BY <2>3, <3>1 DEF RowInv, Stages, Summarize
  <2> QED BY <2>1, <2>2, <2>3 DEF Stages, Summarize
<1> QED BY <1>2 DEF DoneOf, Stages, Summarize

(* Create, the two outcomes of RecordDispatch, and Delete.                 *)
LEMMA DispatchRow ==
  ASSUME NEW row \in RowType, RowInv(row),
         row.job \in AwaitingDispatch \cup {"none"},
         NEW new, \/ row.job = "none" /\ new = [row EXCEPT !.job = "dispatch_pending", !.status = "queued"]
                  \/ row.job # "none" /\ new = [row EXCEPT !.job = "dispatch_failed", !.status = "failed", !.stage = 0]
                  \/ row.job # "none" /\ new = [row EXCEPT !.job = "queued", !.status = "queued"]
  PROVE  GoodStep(row, new)
<1>1. row.stage = 0 BY DEF RowInv
<1>2. new \in RowType
  <2>1. CASE new = [row EXCEPT !.job = "dispatch_pending", !.status = "queued"]
    BY <2>1, RowUpdate, StatusValues
  <2>2. CASE new = [row EXCEPT !.job = "dispatch_failed", !.status = "failed", !.stage = 0]
    BY <2>2, RowUpdate, StatusValues
  <2>3. CASE new = [row EXCEPT !.job = "queued", !.status = "queued"]
    BY <2>3, RowUpdate, StatusValues
  <2> QED BY <2>1, <2>2, <2>3
<1>3. /\ new.stage = 0 /\ new.metrics = row.metrics /\ new.out = row.out /\ new.from = row.from
      /\ new.job \in {"dispatch_pending", "dispatch_failed", "queued"}
      /\ new.status \in {"queued", "failed"} /\ new.status \in StatusesOf(new)
  BY <1>1 DEF RowType, StatusesOf
<1>4. RowInv(new)
  BY <1>1, <1>3 DEF RowInv, AwaitingDispatch
<1>5. Kept(row, new)
  BY <1>1, <1>3 DEF Kept, AwaitingDispatch
<1>6. Moved(row, new)
  <2>1. DoneOf(new) = DoneOf(row) BY <1>3 DEF DoneOf
  <2>2. CASE row.job = "none"
    <3>1. new.job = "dispatch_pending" BY <2>2 DEF RowType
    <3>2. Seen(row) = "none" /\ Seen(new) = "waiting"
      BY <2>2, <3>1 DEF Seen, AwaitingDispatch, RowInv, StatusesOf
    <3>3. DoneOf(row) = {} BY <1>1 DEF DoneOf, RowInv, Stages
    <3>4. row.out = [s \in Stages |-> 0]
      <4>1. \A s \in Stages : s > row.stage BY <1>1 DEF Stages
      <4>2. row.out \in [Stages -> Nat] /\ \A s \in Stages : row.out[s] = 0
        BY <4>1 DEF RowType, RowInv
      <4> QED BY <4>2
    <3>5. ViewOf(row) = Lifecycle!Unseen
      BY <1>1, <3>2, <3>3, <3>4, ViewFields DEF Lifecycle!Unseen, Lifecycle!Stages, Stages
    <3>6. ViewOf(new) = [ViewOf(row) EXCEPT !.status = "waiting"]
      BY <1>1, <1>3, <2>1, <3>2, ViewFields
    <3> QED BY <3>5, <3>6 DEF Moved, Lifecycle!Move, Lifecycle!Submit
  <2>3. CASE row.job # "none" /\ new.job = "dispatch_failed"
    <3>1. Seen(row) = "waiting" /\ Seen(new) = "waiting" BY <2>3 DEF Seen, AwaitingDispatch
    <3>2. ViewOf(new) = ViewOf(row) BY <1>1, <1>3, <2>1, <3>1, ViewFields
    <3> QED BY <3>2 DEF Moved
  <2>4. CASE row.job # "none" /\ new.job # "dispatch_failed"
    <3>1. new.job = "queued" /\ new.status = "queued" BY <2>4 DEF RowType
    <3>2. Seen(row) = "waiting" /\ Seen(new) = "queued" BY <2>4, <3>1 DEF Seen, AwaitingDispatch
    <3>3. ViewOf(new) = [ViewOf(row) EXCEPT !.status = "queued"] /\ ViewOf(row).status = "waiting"
      BY <1>1, <1>3, <2>1, <3>2, ViewFields
    <3> QED BY <3>3 DEF Moved, Lifecycle!Move, Lifecycle!Accept
  <2> QED BY <2>2, <2>3, <2>4
<1> QED BY <1>2, <1>4, <1>5, <1>6 DEF GoodStep

(* A row at work on a stage, or about to be: what a reader sees of it.     *)
LEMMA UnfinishedSeen ==
  ASSUME NEW row \in RowType, RowInv(row), row.job \notin {"none", "cancelled", "succeeded"}
  PROVE  Seen(row) \in Lifecycle!Unfinished
<1>1. row.job \in AwaitingDispatch \cup {"queued", "processing", "failed"}
  BY DEF RowType, JobState, AwaitingDispatch
<1> QED BY <1>1 DEF Seen, Lifecycle!Unfinished, Lifecycle!Ongoing, AwaitingDispatch,
                    RowInv, StatusesOf

LEMMA CancelledRow ==
  ASSUME NEW row \in RowType, RowInv(row), row.job \notin FinishedJob \cup {"none"}
  PROVE  GoodStep(row, [row EXCEPT !.job = "cancelled", !.status = "cancelled"])
<1> DEFINE new == [row EXCEPT !.job = "cancelled", !.status = "cancelled"]
<1>1. new \in RowType BY RowUpdate, StatusValues
<1>2. /\ new.stage = row.stage /\ new.metrics = row.metrics /\ new.out = row.out
      /\ new.from = row.from /\ new.job = "cancelled" /\ new.status = "cancelled"
  BY DEF RowType
<1> HIDE DEF new
<1>3. RowInv(new) BY <1>2 DEF RowInv, StatusesOf, AwaitingDispatch
<1>4. Kept(row, new) BY <1>2 DEF Kept, FinishedJob, AwaitingDispatch, RowType, Summarize
<1>5. Moved(row, new)
  <2>1. DoneOf(new) = DoneOf(row) BY <1>2 DEF DoneOf
  <2>2. row.job \in AwaitingDispatch \cup {"queued", "processing"}
    BY DEF RowType, JobState, FinishedJob, AwaitingDispatch
  <2>3. Seen(row) \in Lifecycle!Ongoing /\ Seen(new) = "cancelled"
    BY <1>2, <2>2 DEF Seen, Lifecycle!Ongoing, AwaitingDispatch, RowInv, StatusesOf
  <2>4. ViewOf(new) = [ViewOf(row) EXCEPT !.status = "cancelled"]
        /\ ViewOf(row).status \in Lifecycle!Ongoing
    BY <1>2, <2>1, <2>3, ViewFields
  <2> QED BY <2>4 DEF Moved, Lifecycle!Move, Lifecycle!Cancel
<1> QED BY <1>1, <1>3, <1>4, <1>5 DEF GoodStep, new

LEMMA FailedMove ==
  ASSUME NEW row \in RowType, RowInv(row), NEW s \in Stages, NEW new \in RowType,
         row.stage <= s, \A t \in Stages : t < s => row.metrics[t] = "succeeded",
         row.job \notin {"none", "cancelled", "succeeded"}, row.metrics[s] # "succeeded",
         new.job = "failed", new.stage = s,
         s = Summarize => new.status = "partial",
         s # Summarize => new.status = "failed",
         new.metrics[s] = "failed",
         \A t \in Stages : t # s => /\ new.metrics[t] = row.metrics[t]
                                    /\ new.out[t] = row.out[t]
  PROVE  Moved(row, new)
<1> DEFINE v == ViewOf(row)
           w == ViewOf(new)
           status == IF s = Summarize THEN "partial" ELSE "failed"
<1>1. DoneOf(row) = 1..s - 1 BY DoneBefore
<1>2. DoneOf(new) = DoneOf(row) BY DEF DoneOf
<1>3. Seen(row) \in Lifecycle!Unfinished BY UnfinishedSeen
<1>4. Seen(new) = status BY DEF Seen, AwaitingDispatch
<1>5. new.out = [row.out EXCEPT ![s] = new.out[s]] BY DEF RowType
<1>6. /\ v = [status |-> Seen(row), stage |-> row.stage, done |-> DoneOf(row), out |-> row.out]
      /\ w = [status |-> status, stage |-> s, done |-> DoneOf(row), out |-> new.out]
  BY <1>2, <1>4, ViewFields
<1> HIDE DEF status, v, w
<1>7. v.status \in Lifecycle!Unfinished /\ v.done = 1..s - 1 /\ w.stage = s /\ w.out = new.out
  BY <1>1, <1>3, <1>6
<1>8. w = [status |-> status, stage |-> w.stage, done |-> v.done,
           out |-> [v.out EXCEPT ![w.stage] = w.out[w.stage]]]
  BY <1>5, <1>6
<1>9. Lifecycle!Fail(v, w)
  BY <1>7, <1>8 DEF Lifecycle!Fail, Lifecycle!Turn, Lifecycle!Stages, Stages, status
<1> QED BY <1>9 DEF Moved, Lifecycle!Move, v, w

(* mark_failed and FailStage: a stage that has not succeeded, with all     *)
(* before it succeeded, becomes the failed current stage.                  *)
LEMMA FailedRow ==
  ASSUME NEW row \in RowType, RowInv(row), NEW s \in Stages,
         row.stage <= s, Passed(row, s),
         row.job \notin {"none", "cancelled", "succeeded"}, row.metrics[s] # "succeeded"
  PROVE  /\ GoodStep(row, FailedAt(row, s))
         /\ FailedAt(row, s).stage = s /\ FailedAt(row, s).job = "failed"
         /\ FailedAt(row, s).out = row.out
<1> DEFINE new == FailedAt(row, s)
<1>1. /\ new.job = "failed" /\ new.status = FailureStatus(row, s) /\ new.stage = s
      /\ new.metrics = [row.metrics EXCEPT ![s] = "failed"]
      /\ new.out = row.out /\ new.from = row.from
  BY DEF FailedAt, RowType
<1>2. new \in RowType
  <2>1. FailureStatus(row, s) \in Status BY DEF FailureStatus, Status
  <2>2. [row.metrics EXCEPT ![s] = "failed"] \in [Stages -> Metric] BY DEF RowType, Metric
  <2>3. "failed" \in JobState /\ s \in 0..Summarize BY StatusValues
  <2> QED BY <2>1, <2>2, <2>3 DEF FailedAt, RowType
<1> HIDE DEF new
<1>3. FailureStatus(row, s) \in {"failed", "partial"} /\ (FailureStatus(row, s) = "partial" => s = Summarize)
  BY DEF FailureStatus
<1>4. \A t \in Stages : /\ t # s => new.metrics[t] = row.metrics[t]
                        /\ new.metrics[s] = "failed"
  BY <1>1 DEF RowType
<1>5. \A t \in Stages : t < s => row.metrics[t] = "succeeded"
  BY DEF Passed
<1>6. RowInv(new)
  BY <1>1, <1>3, <1>4, <1>5 DEF RowInv, StatusesOf, RowType, Stages, Summarize, AwaitingDispatch
<1>7. Kept(row, new)
  BY <1>1, <1>4 DEF Kept, AwaitingDispatch
<1>8. Moved(row, new)
  <2>1. /\ s = Summarize => new.status = "partial"
        /\ s # Summarize => new.status = "failed"
    <3>1. s = Summarize => row.out[3] # 0 BY <1>5 DEF RowInv, Stages, Summarize
    <3> QED BY <1>1, <3>1 DEF FailureStatus
  <2>2. \A t \in Stages : t # s => new.metrics[t] = row.metrics[t] /\ new.out[t] = row.out[t]
    BY <1>1, <1>4
  <2>3. new.metrics[s] = "failed" /\ new.job = "failed" /\ new.stage = s BY <1>1, <1>4
  <2> QED BY <1>2, <1>5, <2>1, <2>2, <2>3, FailedMove
<1> QED BY <1>1, <1>2, <1>6, <1>7, <1>8 DEF GoodStep, new

(* claimStage: the next stage, or the failed one again.                    *)
LEMMA ClaimedRow ==
  ASSUME NEW row \in RowType, RowInv(row), NEW s \in Stages, Passed(row, s),
         ~AlreadyDone(row, s), Claimable(row, s), row.job # "none"
  PROVE  LET new == [row EXCEPT !.job = "processing", !.status = "processing", !.stage = s]
         IN  GoodStep(row, new) /\ new.stage = s /\ new.out = row.out
<1> DEFINE new == [row EXCEPT !.job = "processing", !.status = "processing", !.stage = s]
<1>1. /\ new.job = "processing" /\ new.status = "processing" /\ new.stage = s
      /\ new.metrics = row.metrics /\ new.out = row.out /\ new.from = row.from
  BY DEF RowType
<1>2. new \in RowType BY RowUpdate, StatusValues
<1> HIDE DEF new
<1>3. row.stage <= s /\ row.job # "cancelled" /\ row.job # "succeeded"
  BY DEF Claimable, AlreadyDone, RowType, Stages
<1>4. \A t \in Stages : t < s => row.metrics[t] = "succeeded"
  BY <1>3 DEF Passed
<1>5. RowInv(new)
  BY <1>1, <1>3, <1>4 DEF RowInv, StatusesOf, RowType, Stages, Summarize, AwaitingDispatch
<1>6. Kept(row, new)
  BY <1>1, <1>3 DEF Kept, AwaitingDispatch
<1>7. Moved(row, new)
  <2> DEFINE v == ViewOf(row)
             w == ViewOf(new)
  <2>1. DoneOf(row) = 1..s - 1 BY <1>3, <1>4, DoneBefore DEF AlreadyDone
  <2>2. DoneOf(new) = DoneOf(row) BY <1>1 DEF DoneOf
  <2>3. Seen(row) \in Lifecycle!Unfinished BY <1>3, UnfinishedSeen
  <2>4. Seen(new) = "processing" BY <1>1 DEF Seen, AwaitingDispatch
  <2>5. /\ v = [status |-> Seen(row), stage |-> row.stage, done |-> DoneOf(row), out |-> row.out]
        /\ w = [status |-> "processing", stage |-> s, done |-> DoneOf(row), out |-> row.out]
    BY <1>1, <2>2, <2>4, ViewFields
  <2> HIDE DEF v, w
  <2>6. v.status \in Lifecycle!Unfinished /\ v.done = 1..s - 1 /\ w.stage = s
        /\ w = [status |-> "processing", stage |-> w.stage, done |-> v.done, out |-> v.out]
    <3>1. v.status = Seen(row) /\ v.done = DoneOf(row) /\ w.stage = s BY <2>5
    <3>2. w = [status |-> "processing", stage |-> w.stage, done |-> v.done, out |-> v.out]
      BY <2>5
    <3> QED BY <2>1, <2>3, <3>1, <3>2
  <2>7. Lifecycle!Begin(v, w)
    BY <2>6 DEF Lifecycle!Begin, Lifecycle!Turn, Lifecycle!Stages, Stages
  <2> QED BY <2>7 DEF Moved, Lifecycle!Move, v, w
<1> QED BY <1>1, <1>2, <1>5, <1>6, <1>7 DEF GoodStep, new

(* CompleteStage: the current stage's output, computed from the persisted  *)
(* one before it.                                                          *)
LEMMA OutputRow ==
  ASSUME NEW row \in RowType, NEW call \in CallType,
         call.stage = row.stage
  PROVE  LET new == WithOutput(row, call)
         IN  /\ new \in RowType /\ new.job = row.job /\ new.status = row.status
             /\ new.stage = row.stage /\ new.metrics = row.metrics
             /\ \A t \in Stages : t # row.stage => /\ new.out[t] = row.out[t]
                                                  /\ new.from[t] = row.from[t]
             /\ IF call.product = 0
                THEN new.out[row.stage] = row.out[row.stage] /\ new.from[row.stage] = row.from[row.stage]
                ELSE new.out[row.stage] = call.product /\ new.from[row.stage] = call.input
<1>1. CASE call.product = 0 BY <1>1 DEF WithOutput
<1>2. CASE call.product # 0
  <2>1. call.stage \in Stages /\ call.product \in Nat /\ call.input \in Nat BY DEF CallType
  <2>2. /\ row.out \in [Stages -> Nat] /\ row.from \in [Stages -> Nat] BY DEF RowType
  <2>3. WithOutput(row, call) = [row EXCEPT !.out = [row.out EXCEPT ![call.stage] = call.product],
                                            !.from = [row.from EXCEPT ![call.stage] = call.input]]
    BY <1>2 DEF WithOutput, RowType
  <2> DEFINE o == [row.out EXCEPT ![call.stage] = call.product]
             f == [row.from EXCEPT ![call.stage] = call.input]
             new == WithOutput(row, call)
  <2>4. /\ o \in [Stages -> Nat] /\ f \in [Stages -> Nat]
        /\ o[row.stage] = call.product /\ f[row.stage] = call.input
        /\ \A t \in Stages : t # row.stage => o[t] = row.out[t] /\ f[t] = row.from[t]
    BY <2>1, <2>2
  <2> HIDE DEF o, f
  <2>5. new = [row EXCEPT !.out = o, !.from = f] BY <2>3 DEF o, f
  <2>6. /\ new \in RowType /\ new.job = row.job /\ new.status = row.status
        /\ new.stage = row.stage /\ new.metrics = row.metrics
        /\ new.out = o /\ new.from = f
    BY <2>4, <2>5 DEF RowType
  <2> QED BY <1>2, <2>4, <2>6
<1> QED BY <1>1, <1>2

LEMMA CompletedRow ==
  ASSUME NEW row \in RowType, RowInv(row), NEW call \in CallType,
         row.job # "cancelled", call.stage = row.stage, call.product # 0,
         call.input = InputOf(row, call.stage)
  PROVE  LET new == CompletedAt(WithOutput(row, call), call.stage)
         IN  /\ GoodStep(row, new) /\ new.stage = row.stage
             /\ new.metrics[call.stage] = "succeeded"
<1> DEFINE mid == WithOutput(row, call)
           s == call.stage
           new == CompletedAt(mid, s)
<1>1. s \in Stages /\ s = row.stage BY DEF CallType
<1>2. /\ mid \in RowType /\ mid.job = row.job /\ mid.status = row.status
      /\ mid.stage = row.stage /\ mid.metrics = row.metrics
      /\ mid.out[s] = call.product /\ mid.from[s] = call.input
      /\ \A t \in Stages : t # s => mid.out[t] = row.out[t] /\ mid.from[t] = row.from[t]
  BY <1>1, OutputRow
<1> HIDE DEF mid
<1>3. /\ new.stage = s /\ new.out = mid.out /\ new.from = mid.from
      /\ new.metrics = [row.metrics EXCEPT ![s] = "succeeded"]
      /\ new.job = IF s = Summarize THEN "succeeded" ELSE "processing"
      /\ new.status = IF s = Summarize THEN "completed" ELSE "processing"
  BY <1>1, <1>2 DEF CompletedAt, RowType
<1>4. new \in RowType
  <2>1. [mid.metrics EXCEPT ![s] = "succeeded"] \in [Stages -> Metric]
    BY <1>2 DEF RowType, Metric
  <2>2. (IF s = Summarize THEN "succeeded" ELSE "processing") \in JobState BY DEF JobState
  <2>3. (IF s = Summarize THEN "completed" ELSE "processing") \in Status BY DEF Status
  <2> QED BY <1>2, <2>1, <2>2, <2>3 DEF CompletedAt, RowType
<1> HIDE DEF new
<1>5. /\ new.metrics[s] = "succeeded"
      /\ \A t \in Stages : t # s => new.metrics[t] = row.metrics[t]
  BY <1>1, <1>3 DEF RowType
<1>6. /\ new.status \in StatusesOf(new) /\ new.status # "partial"
      /\ new.job \in {"succeeded", "processing"}
      /\ new.job = "succeeded" => s = Summarize
  BY <1>3 DEF StatusesOf
<1>7. \A t \in Stages : /\ t < new.stage => new.metrics[t] = "succeeded"
                        /\ t > new.stage => new.metrics[t] = "none"
                        /\ t > new.stage => new.out[t] = 0
                        /\ new.metrics[t] = "succeeded" => new.out[t] # 0
  BY <1>1, <1>2, <1>3, <1>5 DEF RowInv, Stages, Summarize
<1>8. \A t \in Stages \ {1} : new.out[t] # 0 => new.from[t] = new.out[t - 1]
  <2> SUFFICES ASSUME NEW t \in Stages \ {1}, new.out[t] # 0
               PROVE  new.from[t] = new.out[t - 1]
    OBVIOUS
  <2>1. t - 1 \in Stages /\ t - 1 # t BY DEF Stages, Summarize
  <2>2. CASE t = s BY <1>1, <1>2, <1>3, <2>1, <2>2 DEF InputOf
  <2>3. CASE t < s BY <1>1, <1>2, <1>3, <2>1, <2>3 DEF RowInv, Stages, Summarize
  <2>4. CASE t > s BY <1>1, <1>2, <1>3, <2>4 DEF RowInv
  <2> QED BY <1>1, <2>2, <2>3, <2>4 DEF Stages, Summarize
<1>9. RowInv(new)
  BY <1>1, <1>3, <1>5, <1>6, <1>7, <1>8 DEF RowInv, AwaitingDispatch
<1>10. Kept(row, new)
  <2>1. row.job = "succeeded" => new.job = "succeeded" BY <1>1, <1>3 DEF RowInv
  <2> QED BY <1>1, <1>2, <1>3, <1>5, <1>6, <2>1 DEF Kept, AwaitingDispatch, RowType, Stages, Summarize
<1>11. Moved(row, new)
  <2> DEFINE v == ViewOf(row)
             w == ViewOf(new)
             status == IF s = Summarize THEN "completed" ELSE "processing"
  <2>1. DoneOf(new) = DoneOf(row) \cup {s} BY <1>1, <1>5 DEF DoneOf
  <2>2. Seen(row) \in Lifecycle!Unfinished \cup {"completed"}
    <3>1. row.job # "none" BY <1>1 DEF RowInv, Stages, Summarize
    <3>2. CASE row.job = "succeeded"
      BY <3>2 DEF Seen, AwaitingDispatch, RowInv, StatusesOf
    <3>3. CASE row.job # "succeeded" BY <3>1, <3>3, UnfinishedSeen
    <3> QED BY <3>2, <3>3
  <2>3. Seen(new) = status BY <1>3 DEF Seen, AwaitingDispatch
  <2>4. new.out = [row.out EXCEPT ![s] = call.product] /\ new.out[s] = call.product
    <3>1. /\ row.out \in [Stages -> Nat] /\ new.out \in [Stages -> Nat] BY <1>4 DEF RowType
    <3>2. new.out[s] = call.product /\ \A t \in Stages : t # s => new.out[t] = row.out[t]
      BY <1>2, <1>3
    <3> QED BY <1>1, <3>1, <3>2
  <2>5. /\ v = [status |-> Seen(row), stage |-> s, done |-> DoneOf(row), out |-> row.out]
        /\ w = [status |-> status, stage |-> s, done |-> DoneOf(row) \cup {s}, out |-> new.out]
    BY <1>1, <1>3, <2>1, <2>3, ViewFields
  <2> HIDE DEF v, w, status
  <2>6. /\ v.status \in Lifecycle!Unfinished \cup {"completed"} /\ v.stage = s
        /\ w.out = new.out /\ w.out[s] = call.product
    BY <2>2, <2>4, <2>5
  <2>7. w = [status |-> status, stage |-> v.stage, done |-> v.done \cup {v.stage},
             out |-> [v.out EXCEPT ![v.stage] = w.out[v.stage]]]
    BY <2>4, <2>5
  <2>8. Lifecycle!Publish(v, w)
    <3>1. v.stage # 0 BY <1>1, <2>6 DEF Stages, Summarize
    <3> QED BY <2>6, <2>7, <3>1 DEF Lifecycle!Publish, status
  <2> QED BY <2>8 DEF Moved, Lifecycle!Move, v, w
<1> QED BY <1>1, <1>3, <1>4, <1>5, <1>9, <1>10, <1>11 DEF GoodStep, new, mid

(* FailStage: the failure, with whatever output the call came to.          *)
LEMMA FailedOutputRow ==
  ASSUME NEW row \in RowType, RowInv(row), NEW call \in CallType,
         row.job \notin {"cancelled", "succeeded"}, call.stage = row.stage,
         row.metrics[call.stage] # "succeeded",
         call.input = InputOf(row, call.stage)
  PROVE  LET new == WithOutput(FailedAt(row, call.stage), call)
         IN  GoodStep(row, new) /\ new.stage = row.stage
<1> DEFINE s == call.stage
           mid == FailedAt(row, s)
           new == WithOutput(mid, call)
<1>1. s \in Stages /\ s = row.stage BY DEF CallType
<1>2. Passed(row, s) BY <1>1 DEF Passed, RowInv
<1>3. /\ GoodStep(row, mid) /\ mid.stage = s /\ mid.job = "failed" /\ mid.out = row.out
  <2>1. row.job # "none" BY <1>1 DEF RowInv, Stages, Summarize
  <2>2. row.stage <= s BY <1>1 DEF Stages, Summarize
  <2> QED BY <1>1, <1>2, <2>1, <2>2, FailedRow
<1> HIDE DEF mid
<1>4. mid \in RowType /\ RowInv(mid) /\ Kept(row, mid) BY <1>3 DEF GoodStep
<1>5. /\ new \in RowType /\ new.job = "failed" /\ new.status = mid.status
      /\ new.stage = s /\ new.metrics = mid.metrics
      /\ \A t \in Stages : t # s => new.out[t] = row.out[t] /\ new.from[t] = mid.from[t]
      /\ IF call.product = 0 THEN new.out[s] = row.out[s] /\ new.from[s] = mid.from[s]
                             ELSE new.out[s] = call.product /\ new.from[s] = call.input
  BY <1>1, <1>3, <1>4, OutputRow
<1> HIDE DEF new
<1>6. mid.metrics[s] = "failed" /\ new.status \in StatusesOf(new) /\ new.status \in {"failed", "partial"}
  BY <1>3, <1>4, <1>5 DEF RowInv, StatusesOf
<1>7. \A t \in Stages : /\ t < new.stage => new.metrics[t] = "succeeded"
                        /\ t > new.stage => new.metrics[t] = "none"
                        /\ t > new.stage => new.out[t] = 0
                        /\ new.metrics[t] = "succeeded" => new.out[t] # 0
  BY <1>1, <1>3, <1>4, <1>5, <1>6 DEF RowInv, Stages, Summarize
<1>8. \A t \in Stages \ {1} : new.out[t] # 0 => new.from[t] = new.out[t - 1]
  <2> SUFFICES ASSUME NEW t \in Stages \ {1}, new.out[t] # 0
               PROVE  new.from[t] = new.out[t - 1]
    OBVIOUS
  <2>1. t - 1 \in Stages /\ t - 1 # t BY DEF Stages, Summarize
  <2>2. CASE t = s /\ call.product # 0 BY <1>1, <1>5, <2>1, <2>2 DEF InputOf
  <2>3. CASE t = s /\ call.product = 0 BY <1>3, <1>4, <1>5, <2>1, <2>3 DEF RowInv
  <2>4. CASE t < s BY <1>1, <1>3, <1>4, <1>5, <2>1, <2>4 DEF RowInv, Stages, Summarize
  <2>5. CASE t > s BY <1>1, <1>3, <1>4, <1>5, <2>5 DEF RowInv
  <2> QED BY <1>1, <2>2, <2>3, <2>4, <2>5 DEF Stages, Summarize
<1>9. new.status = "partial" => s = Summarize
  BY <1>3, <1>4, <1>5 DEF RowInv
<1>10. RowInv(new)
  BY <1>1, <1>5, <1>6, <1>7, <1>8, <1>9 DEF RowInv, AwaitingDispatch, Stages, Summarize
<1>11. Kept(row, new)
  BY <1>1, <1>3, <1>4, <1>5 DEF Kept, AwaitingDispatch, RowType, Stages, Summarize
<1>12. Moved(row, new)
  <2>1. \A t \in Stages : t # s => mid.metrics[t] = row.metrics[t]
    BY <1>1 DEF mid, FailedAt, RowType
  <2>2. /\ s = Summarize => mid.status = "partial"
        /\ s # Summarize => mid.status = "failed"
    <3>1. s = Summarize => row.out[3] # 0 BY <1>1 DEF RowInv, Stages, Summarize
    <3>2. mid.status = FailureStatus(row, s) BY DEF mid, FailedAt, RowType
    <3> QED BY <3>1, <3>2 DEF FailureStatus
  <2>3. row.job # "none" /\ row.stage <= s BY <1>1 DEF RowInv, Stages, Summarize
  <2>4. \A t \in Stages : t < s => row.metrics[t] = "succeeded" BY <1>1 DEF RowInv
  <2> QED BY <1>1, <1>5, <1>6, <2>1, <2>2, <2>3, <2>4, FailedMove
<1> QED BY <1>1, <1>5, <1>10, <1>11, <1>12 DEF GoodStep, new, mid
----------------------------------------------------------------------------
(* Every step changes every row in one of those ways, and leaves the       *)
(* current stage within the run's.                                         *)

RowsGood == \A a \in Analyses : /\ GoodStep(rows[a], rows'[a])
                                /\ rows'[a].stage <= runs[a].stage

LEMMA InvFacts ==
  ASSUME IInv, NEW a \in Analyses
  PROVE  /\ rows[a] \in RowType /\ RowInv(rows[a]) /\ GoodStep(rows[a], rows[a])
         /\ runs[a] \in RunType /\ runs[a].stage \in Stages
         /\ Passed(rows[a], runs[a].stage) /\ rows[a].stage <= runs[a].stage
  BY SameRow DEF IInv, TypeOK, RowsInv, RunsLead, RunType

LEMMA RowsUnchanged == IInv /\ UNCHANGED rows => RowsGood
  BY InvFacts DEF RowsGood

(* A step that changes one row.                                            *)
LEMMA OneRowChanged ==
  ASSUME IInv, NEW a \in Analyses, NEW new,
         rows' = [rows EXCEPT ![a] = new],
         GoodStep(rows[a], new), new.stage <= runs[a].stage
  PROVE  RowsGood
  BY InvFacts DEF RowsGood, IInv, TypeOK

LEMMA RowsMarked ==
  ASSUME IInv, NEW a \in Analyses, MarkFailed(a, runs[a].stage), runs[a].state # "none"
  PROVE  RowsGood
<1> DEFINE s == runs[a].stage
<1>1. CASE MarkRefused(a, s) BY <1>1, RowsUnchanged DEF MarkFailed
<1>2. CASE ~MarkRefused(a, s)
  <2>1. rows' = [rows EXCEPT ![a] = FailedAt(rows[a], s)]
    BY <1>2 DEF MarkFailed
  <2>2. rows[a].job \notin {"none", "cancelled", "succeeded"} /\ rows[a].metrics[s] # "succeeded"
    BY <1>2 DEF MarkRefused, IInv, Created
  <2>3. GoodStep(rows[a], FailedAt(rows[a], s)) /\ FailedAt(rows[a], s).stage = s
    BY <2>2, InvFacts, FailedRow
  <2>4. s <= s BY InvFacts DEF Stages, Summarize
  <2> QED BY <2>1, <2>3, <2>4, OneRowChanged
<1> QED BY <1>1, <1>2

LEMMA RowsApi ==
  ASSUME IInv, NEW q \in Requests, ApiRequest(q)
  PROVE  RowsGood
<1>1. ASSUME NEW a \in Analyses, CreateAnalysis(q, a) PROVE RowsGood
  <2> DEFINE new == [rows[a] EXCEPT !.job = "dispatch_pending", !.status = "queued"]
  <2>1. rows' = [rows EXCEPT ![a] = new] /\ rows[a].job = "none"
    BY <1>1 DEF CreateAnalysis
  <2>2. GoodStep(rows[a], new) BY <2>1, InvFacts, DispatchRow
  <2>3. new.stage = rows[a].stage BY InvFacts DEF RowType
  <2>4. new.stage <= runs[a].stage BY <2>3, InvFacts
  <2> HIDE DEF new
  <2> QED BY <2>1, <2>2, <2>4, OneRowChanged
<1>2. CASE RecordDispatch(q)
  <2> DEFINE a == requests[q].a
  <2>1. CASE ~DispatchChanges(a) BY <1>2, <2>1, RowsUnchanged DEF RecordDispatch
  <2>2. CASE DispatchChanges(a)
    <3>1. a \in Analyses BY <1>2 DEF RecordDispatch, IInv, RequestsRefer
    <3>2. PICK new : /\ rows' = [rows EXCEPT ![a] = new]
                     /\ \/ new = [rows[a] EXCEPT !.job = "dispatch_failed", !.status = "failed", !.stage = 0]
                        \/ new = [rows[a] EXCEPT !.job = "queued", !.status = "queued"]
      BY <1>2, <2>2 DEF RecordDispatch
    <3>3. rows[a].job \in AwaitingDispatch /\ rows[a].job # "none"
      BY <2>2 DEF DispatchChanges, AwaitingDispatch
    <3>4. GoodStep(rows[a], new) BY <3>1, <3>2, <3>3, InvFacts, DispatchRow
    <3>5. new.stage <= runs[a].stage
      <4>1. rows[a].stage = 0 BY <3>1, <3>3, InvFacts DEF RowInv
      <4>2. new.stage = 0 BY <3>1, <3>2, <4>1, InvFacts DEF RowType
      <4> QED BY <3>1, <4>1, <4>2, InvFacts
    <3> QED BY <3>1, <3>2, <3>4, <3>5, OneRowChanged
  <2> QED BY <2>1, <2>2
<1>3. CASE \/ \E a \in Analyses : RetryDispatch(q, a)
           \/ PostRun(q) \/ DispatchAccepted(q) \/ DispatchErrored(q) \/ AbandonRequest(q)
  BY <1>3, RowsUnchanged DEF RetryDispatch, PostRun, DispatchAccepted, DispatchErrored, AbandonRequest
<1> QED BY <1>1, <1>2, <1>3 DEF ApiRequest

LEMMA RowsDeleted ==
  ASSUME IInv, DeleteDocument
  PROVE  RowsGood
<1> SUFFICES ASSUME NEW a \in Analyses
             PROVE  GoodStep(rows[a], rows'[a]) /\ rows'[a].stage <= runs[a].stage
  BY DEF RowsGood
<1>1. CASE CancelledByDelete(a)
  <2> DEFINE new == [rows[a] EXCEPT !.job = "cancelled", !.status = "cancelled"]
  <2>1. rows'[a] = new BY <1>1 DEF DeleteDocument
  <2>2. GoodStep(rows[a], new) BY <1>1, InvFacts, CancelledRow DEF CancelledByDelete
  <2>3. new.stage = rows[a].stage BY InvFacts DEF RowType
  <2> QED BY <2>1, <2>2, <2>3, InvFacts
<1>2. CASE ~CancelledByDelete(a)
  BY <1>2, InvFacts DEF DeleteDocument
<1> QED BY <1>1, <1>2

LEMMA CallFacts ==
  ASSUME IInv, NEW c \in Calls, calls[c].pc # "idle"
  PROVE  /\ calls[c] \in CallType /\ calls[c].stage \in Stages
         /\ CallFollows(c) /\ calls[c].a \in Analyses
         /\ calls[c].stage <= runs[calls[c].a].stage
         /\ Passed(rows[calls[c].a], calls[c].stage)
<1>1. calls[c] \in CallType /\ calls[c].stage \in Stages BY DEF IInv, TypeOK, CallType
<1>2. CallFollows(c) BY DEF IInv, CallsFollow
<1>3. calls[c].a \in Analyses /\ calls[c].stage <= runs[calls[c].a].stage
  BY <1>2 DEF CallFollows
<1>4. Passed(rows[calls[c].a], calls[c].stage)
  BY <1>1, <1>3, InvFacts DEF Passed, Stages, Summarize
<1> QED BY <1>1, <1>2, <1>3, <1>4

LEMMA RowsRunStage ==
  ASSUME IInv, NEW c \in Calls, RunStage(c)
  PROVE  RowsGood
<1> DEFINE a == calls[c].a
           s == calls[c].stage
<1>1. CASE Claim(c)
  <2> DEFINE new == [rows[a] EXCEPT !.job = "processing", !.status = "processing", !.stage = s]
  <2>1. /\ rows' = [rows EXCEPT ![a] = new]
        /\ calls[c].pc # "idle" /\ ~AlreadyDone(rows[a], s) /\ Claimable(rows[a], s)
    BY <1>1 DEF Claim
  <2>2. GoodStep(rows[a], new) /\ new.stage = s
    <3>1. rows[a].job # "none" BY <2>1 DEF IInv, Created
    <3> QED BY <2>1, <3>1, CallFacts, InvFacts, ClaimedRow
  <2>3. a \in Analyses /\ new.stage <= runs[a].stage BY <2>1, <2>2, CallFacts
  <2> HIDE DEF new
  <2> QED BY <2>1, <2>2, <2>3, OneRowChanged
<1>2. CASE CompleteStage(c) \/ CompleteUnacknowledged(c)
  <2> DEFINE new == CompletedAt(WithOutput(rows[a], calls[c]), s)
  <2>1. /\ rows' = [rows EXCEPT ![a] = new]
        /\ calls[c].pc = "save" /\ rows[a].job # "cancelled" /\ rows[a].stage = s
    BY <1>2 DEF CompleteStage, CompleteUnacknowledged, SaveCompleted, Completes
  <2>2. calls[c].product # 0 /\ calls[c].input = InputOf(rows[a], s)
    BY <2>1, CallFacts DEF CallFollows
  <2>3. GoodStep(rows[a], new) /\ new.stage = rows[a].stage
    BY <2>1, <2>2, CallFacts, InvFacts, CompletedRow
  <2>4. a \in Analyses /\ new.stage <= runs[a].stage BY <2>1, <2>3, CallFacts
  <2> HIDE DEF new
  <2> QED BY <2>1, <2>3, <2>4, OneRowChanged
<1>3. CASE FailStage(c)
  <2> DEFINE new == WithOutput(FailedAt(rows[a], s), calls[c])
  <2>1. /\ rows' = [rows EXCEPT ![a] = new]
        /\ calls[c].pc = "fail" /\ rows[a].job # "cancelled" /\ rows[a].stage = s
        /\ rows[a].metrics[s] # "succeeded"
    BY <1>3 DEF FailStage, Fails
  <2>2. calls[c].input = InputOf(rows[a], s)
    BY <2>1, CallFacts DEF CallFollows
  <2>3. rows[a].job # "succeeded"
    BY <2>1, CallFacts, InvFacts DEF RowInv
  <2>4. GoodStep(rows[a], new) /\ new.stage = rows[a].stage
    BY <2>1, <2>2, <2>3, CallFacts, InvFacts, FailedOutputRow
  <2>5. a \in Analyses /\ new.stage <= runs[a].stage BY <2>1, <2>4, CallFacts
  <2> HIDE DEF new
  <2> QED BY <2>1, <2>4, <2>5, OneRowChanged
<1>4. CASE \/ ClaimRefused(c) \/ ClaimDone(c) \/ Work(c) \/ WorkRejected(c) \/ WorkFails(c)
           \/ CompleteNothing(c) \/ FailNothing(c)
  BY <1>4, RowsUnchanged
  DEF ClaimRefused, ClaimDone, Work, WorkRejected, WorkFails, CompleteNothing, FailNothing, Answer
<1> QED BY <1>1, <1>2, <1>3, <1>4 DEF RunStage

LEMMA RowsStep == IInv /\ [Next]_vars => RowsGood
<1> SUFFICES ASSUME IInv, [Next]_vars PROVE RowsGood
  OBVIOUS
<1>1. ASSUME NEW q \in Requests, ApiRequest(q) PROVE RowsGood BY <1>1, RowsApi
<1>2. CASE DeleteDocument BY <1>2, RowsDeleted
<1>3. ASSUME NEW a \in Analyses, MarkAndRaise(a) PROVE RowsGood
  BY <1>3, RowsMarked DEF MarkAndRaise, Running
<1>4. ASSUME NEW a \in Analyses, TaskFailure(a) PROVE RowsGood
  <2>1. callbacks[a] = runs[a].stage /\ MarkFailed(a, callbacks[a]) /\ runs[a].state = "failed"
    BY <1>4 DEF TaskFailure, IInv, RunsLead
  <2> QED BY <2>1, RowsMarked
<1>5. ASSUME NEW a \in Analyses,
             \/ CreateDagRun(a) \/ StartTask(a) \/ AnswerOK(a) \/ AnswerError(a)
             \/ AnswerLost(a) \/ AttemptDies(a) \/ CallbackDies(a) \/ ClearTask(a)
      PROVE  RowsGood
  BY <1>5, RowsUnchanged
  DEF CreateDagRun, StartTask, PrepareFails, CallStage, AnswerOK, AnswerError,
      AnswerLost, AttemptDies, CallbackDies, ClearTask
<1>6. ASSUME NEW c \in Calls, RunStage(c) PROVE RowsGood BY <1>6, RowsRunStage
<1>7. ASSUME NEW c \in Calls, AnswerUnheard(c) PROVE RowsGood
  BY <1>7, RowsUnchanged DEF AnswerUnheard
<1>8. CASE UNCHANGED vars BY <1>8, RowsUnchanged DEF vars
<1> QED BY <1>1, <1>2, <1>3, <1>4, <1>5, <1>6, <1>7, <1>8 DEF Next, AirflowRun
----------------------------------------------------------------------------
(* Requests, and what each kind of step leaves alone.                      *)

LEMMA OneRequestChanged ==
  ASSUME IInv, NEW q \in Requests, NEW new \in RequestType,
         requests' = [requests EXCEPT ![q] = new],
         new.pc # "idle" => new.a \in Analyses
  PROVE  requests' \in [Requests -> RequestType] /\ RequestsRefer'
<1>1. requests \in [Requests -> RequestType] /\ RequestsRefer BY DEF IInv, TypeOK
<1>2. \A p \in Requests : requests'[p] = IF p = q THEN new ELSE requests[p]
  BY <1>1
<1> QED BY <1>1, <1>2 DEF RequestsRefer

LEMMA RequestValues ==
  /\ IdleRequest \in RequestType /\ IdleRequest.pc = "idle"
  /\ \A a \in Analyses : [IdleRequest EXCEPT !.pc = "post", !.a = a] \in RequestType
  /\ \A a \in Analyses : [IdleRequest EXCEPT !.pc = "post", !.a = a].a = a
  /\ \A r \in RequestType, pc \in {"await", "record"} :
       [r EXCEPT !.pc = pc] \in RequestType /\ [r EXCEPT !.pc = pc].a = r.a
  /\ \A r \in RequestType : LET t == [r EXCEPT !.pc = "record", !.err = TRUE]
                             IN  t \in RequestType /\ t.a = r.a
  BY DEF IdleRequest, RequestType

LEMMA RequestsStep ==
  IInv /\ [Next]_vars => /\ requests' \in [Requests -> RequestType]
                         /\ RequestsRefer' /\ posted' \subseteq Analyses
<1> SUFFICES ASSUME IInv, [Next]_vars
             PROVE  /\ requests' \in [Requests -> RequestType]
                    /\ RequestsRefer' /\ posted' \subseteq Analyses
  OBVIOUS
<1> USE DEF IInv, TypeOK, RequestsRefer
<1>1. ASSUME NEW q \in Requests, ApiRequest(q)
      PROVE  /\ requests' \in [Requests -> RequestType]
             /\ RequestsRefer' /\ posted' \subseteq Analyses
  <2>1. requests[q] \in RequestType OBVIOUS
  <2>2. ASSUME NEW a \in Analyses, CreateAnalysis(q, a) \/ RetryDispatch(q, a)
        PROVE  /\ requests' \in [Requests -> RequestType]
               /\ RequestsRefer' /\ posted' \subseteq Analyses
    <3>1. /\ requests' = [requests EXCEPT ![q] = [IdleRequest EXCEPT !.pc = "post", !.a = a]]
          /\ posted' = posted
      BY <2>2 DEF CreateAnalysis, RetryDispatch
    <3> QED BY <3>1, RequestValues, OneRequestChanged
  <2>3. ASSUME PostRun(q) \/ DispatchAccepted(q) \/ DispatchErrored(q)
        PROVE  /\ requests' \in [Requests -> RequestType]
               /\ RequestsRefer' /\ posted' \subseteq Analyses
    <3>1. requests[q].pc # "idle" /\ requests[q].a \in Analyses
      BY <2>3 DEF PostRun, DispatchAccepted, DispatchErrored
    <3>2. posted' \subseteq Analyses
      BY <2>3, <3>1 DEF PostRun, DispatchAccepted, DispatchErrored
    <3>3. PICK new \in RequestType :
            requests' = [requests EXCEPT ![q] = new] /\ new.a = requests[q].a
      BY <2>1, <2>3, RequestValues DEF PostRun, DispatchAccepted, DispatchErrored
    <3> QED BY <3>1, <3>2, <3>3, OneRequestChanged
  <2>4. CASE RecordDispatch(q) \/ AbandonRequest(q)
    <3>1. requests' = [requests EXCEPT ![q] = IdleRequest] /\ posted' = posted
      BY <2>4 DEF RecordDispatch, AbandonRequest
    <3> QED BY <3>1, RequestValues, OneRequestChanged
  <2> QED BY <1>1, <2>2, <2>3, <2>4 DEF ApiRequest
<1>2. ASSUME NEW a \in Analyses, CreateDagRun(a)
      PROVE  requests' = requests /\ posted' \subseteq posted
  BY <1>2 DEF CreateDagRun
<1>3. ASSUME NEW a \in Analyses, AirflowRun(a) \/ TaskFailure(a) \/ CallbackDies(a) \/ ClearTask(a)
      PROVE  requests' = requests /\ posted' = posted
  BY <1>3 DEF AirflowRun, StartTask, PrepareFails, CallStage, AnswerOK, AnswerError,
              MarkAndRaise, AnswerLost, AttemptDies, TaskFailure, CallbackDies, ClearTask
<1>4. ASSUME NEW c \in Calls, RunStage(c) \/ AnswerUnheard(c)
      PROVE  requests' = requests /\ posted' = posted
  BY <1>4 DEF RunStage, ClaimRefused, ClaimDone, Claim, Work, WorkRejected, WorkFails,
              Answer, CompleteStage, CompleteUnacknowledged, CompleteNothing, FailStage,
              FailNothing, AnswerUnheard
<1>5. CASE DeleteDocument BY <1>5 DEF DeleteDocument
<1>6. CASE UNCHANGED vars BY <1>6 DEF vars
<1> QED BY <1>1, <1>2, <1>3, <1>4, <1>5, <1>6 DEF Next

(* Runs, callbacks and calls after a step.                                 *)
FlowInv == /\ runs \in [Analyses -> RunType]
           /\ callbacks \in [Analyses -> 0..Summarize]
           /\ calls \in [Calls -> CallType]
           /\ RunsLead /\ CallsFollow /\ WaitsForItsCall

LEMMA PassedKept ==
  ASSUME NEW old, NEW new, NEW s \in Stages, Kept(old, new), Passed(old, s)
  PROVE  Passed(new, s)
  BY DEF Kept, Passed

(* A claimed call that is still at the current stage still has the         *)
(* persisted input: outputs change only at the current stage.              *)
LEMMA ClaimKept ==
  ASSUME IInv, RowsGood, NEW c \in Calls, calls[c].pc \in {"work", "save", "fail"}
  PROVE  LET a == calls[c].a
             s == calls[c].stage
         IN  /\ s <= rows'[a].stage
             /\ s = rows'[a].stage => calls[c].input = InputOf(rows'[a], s)
<1> DEFINE a == calls[c].a
           s == calls[c].stage
<1>1. a \in Analyses /\ s \in Stages /\ CallFollows(c) BY CallFacts
<1>2. Kept(rows[a], rows'[a]) BY <1>1 DEF RowsGood, GoodStep
<1>3. rows[a] \in RowType BY <1>1, InvFacts
<1>4. rows'[a] \in RowType BY <1>1 DEF RowsGood, GoodStep
<1>5. s <= rows[a].stage /\ (s = rows[a].stage => calls[c].input = InputOf(rows[a], s))
  BY <1>1 DEF CallFollows
<1>6. s <= rows'[a].stage /\ (s = rows'[a].stage => s = rows[a].stage)
  <2>1. rows[a].stage <= rows'[a].stage BY <1>2 DEF Kept
  <2>2. rows[a].stage \in 0..Summarize /\ rows'[a].stage \in 0..Summarize
    BY <1>3, <1>4 DEF RowType
  <2> HIDE DEF s
  <2>3. s \in Stages /\ s <= rows[a].stage BY <1>1, <1>5
  <2> QED BY <2>1, <2>2, <2>3 DEF Stages, Summarize
<1>7. ASSUME s = rows[a].stage PROVE InputOf(rows'[a], s) = InputOf(rows[a], s)
  <2>1. CASE s = 1 BY <2>1 DEF InputOf
  <2>2. CASE s # 1
    <3>1. s - 1 \in Stages /\ s - 1 # s BY <1>1, <2>2 DEF Stages, Summarize
    <3>2. rows'[a].out[s - 1] = rows[a].out[s - 1] BY <1>2, <1>7, <3>1 DEF Kept
    <3> QED BY <2>2, <3>2 DEF InputOf
  <2> QED BY <2>1, <2>2
<1> QED BY <1>5, <1>6, <1>7

(* A call that a step leaves alone still follows its row and its run.      *)
LEMMA CallKept ==
  ASSUME IInv, RowsGood, NEW c \in Calls, calls[c].pc # "idle",
         calls'[c] = calls[c],
         runs[calls[c].a].stage <= runs'[calls[c].a].stage,
         runs'[calls[c].a].stage \in Stages,
         runs'[calls[c].a].call = c =>
           runs[calls[c].a].call = c /\ runs'[calls[c].a].stage = runs[calls[c].a].stage
  PROVE  CallFollows(c)'
<1> DEFINE a == calls[c].a
           s == calls[c].stage
<1>1. a \in Analyses /\ s \in Stages /\ CallFollows(c) BY CallFacts
<1>2. Kept(rows[a], rows'[a]) BY <1>1 DEF RowsGood, GoodStep
<1>3. rows[a] \in RowType /\ runs[a].stage \in Stages BY <1>1, InvFacts
<1>4. rows'[a] \in RowType BY <1>1 DEF RowsGood, GoodStep
<1>5. s <= runs'[a].stage BY <1>1, <1>3 DEF CallFollows, Stages, Summarize
<1>6. calls[c].pc = "ok" => rows'[a].job = "cancelled" \/ rows'[a].metrics[s] = "succeeded"
  BY <1>1, <1>2 DEF CallFollows, Kept
<1>7. ASSUME calls[c].pc \in {"work", "save", "fail"}
      PROVE  /\ s <= rows'[a].stage
             /\ s = rows'[a].stage => calls[c].input = InputOf(rows'[a], s)
  BY <1>7, ClaimKept
<1>8. runs'[a].call = c => s = runs'[a].stage
  BY <1>1 DEF CallFollows
<1>9. calls[c].pc = "save" => calls[c].product # 0 BY <1>1 DEF CallFollows
<1> QED BY <1>1, <1>5, <1>6, <1>7, <1>8, <1>9 DEF CallFollows

(* Runs and callbacks unchanged (or a callback that ended).                *)
LEMMA RunsLeadKept ==
  ASSUME IInv, RowsGood, runs' = runs,
         \A a \in Analyses : callbacks'[a] \in {0, callbacks[a]}
  PROVE  RunsLead'
<1> SUFFICES ASSUME NEW a \in Analyses
             PROVE  /\ Passed(rows'[a], runs[a].stage) /\ rows'[a].stage <= runs[a].stage
                    /\ callbacks'[a] # 0 => callbacks'[a] = runs[a].stage /\ runs[a].state = "failed"
                    /\ runs[a].call # None => runs[a].task = "calling"
                    /\ runs[a].task # "waiting" => runs[a].state = "running"
  BY DEF RunsLead
<1>1. Passed(rows'[a], runs[a].stage) BY InvFacts, PassedKept DEF RowsGood, GoodStep
<1>2. rows'[a].stage <= runs[a].stage BY DEF RowsGood
<1> QED BY <1>1, <1>2 DEF IInv, RunsLead

LEMMA FlowUnchanged ==
  ASSUME IInv, RowsGood, runs' = runs, calls' = calls,
         callbacks' \in [Analyses -> 0..Summarize],
         \A a \in Analyses : callbacks'[a] \in {0, callbacks[a]}
  PROVE  FlowInv'
<1>1. RunsLead' BY RunsLeadKept
<1>2. CallsFollow'
  <2> SUFFICES ASSUME NEW c \in Calls, calls[c].pc # "idle" PROVE CallFollows(c)'
    BY DEF CallsFollow
  <2>1. calls[c].a \in Analyses BY CallFacts
  <2>2. runs[calls[c].a].stage \in Stages BY <2>1, InvFacts
  <2>3. runs[calls[c].a].stage <= runs[calls[c].a].stage BY <2>2 DEF Stages, Summarize
  <2> QED BY <2>2, <2>3, CallKept
<1>3. WaitsForItsCall' BY DEF WaitsForItsCall, IInv
<1> QED BY <1>1, <1>2, <1>3 DEF FlowInv, IInv, TypeOK

(* A step of one stage call, whose analysis and stage stay.                *)
LEMMA OneCallChanged ==
  ASSUME IInv, RowsGood, NEW c \in Calls, NEW new \in CallType,
         runs' = runs, callbacks' = callbacks, calls' = [calls EXCEPT ![c] = new],
         calls[c].pc # "idle", new.pc # "idle",
         new.a = calls[c].a, new.stage = calls[c].stage,
         new.pc = "ok" => rows'[new.a].job = "cancelled" \/ rows'[new.a].metrics[new.stage] = "succeeded",
         new.pc = "save" => new.product # 0,
         new.pc \in {"work", "save", "fail"} =>
           /\ new.stage <= rows'[new.a].stage
           /\ new.stage = rows'[new.a].stage => new.input = InputOf(rows'[new.a], new.stage)
  PROVE  FlowInv'
<1>1. RunsLead' BY RunsLeadKept
<1>2. CallsFollow'
  <2> SUFFICES ASSUME NEW d \in Calls, calls'[d].pc # "idle" PROVE CallFollows(d)'
    BY DEF CallsFollow
  <2>1. CASE d = c
    <3>1. calls'[d] = new BY <2>1 DEF IInv, TypeOK
    <3>2. CallFollows(c) BY CallFacts
    <3> QED BY <2>1, <3>1, <3>2 DEF CallFollows
  <2>2. CASE d # c
    <3>1. calls'[d] = calls[d] BY <2>2 DEF IInv, TypeOK
    <3>2. runs[calls[d].a].stage \in Stages BY <3>1, CallFacts, InvFacts
    <3>3. runs[calls[d].a].stage <= runs[calls[d].a].stage BY <3>2 DEF Stages, Summarize
    <3> QED BY <3>1, <3>2, <3>3, CallKept
  <2> QED BY <2>1, <2>2
<1>3. WaitsForItsCall' BY DEF WaitsForItsCall, IInv, TypeOK
<1>4. calls' \in [Calls -> CallType] BY DEF IInv, TypeOK
<1> QED BY <1>1, <1>2, <1>3, <1>4 DEF FlowInv, IInv, TypeOK

LEMMA CallValue ==
  ASSUME NEW call \in CallType, NEW pc \in {"work", "save", "fail", "ok", "error"}
  PROVE  LET new == [call EXCEPT !.pc = pc]
         IN  /\ new \in CallType /\ new.pc = pc /\ new.a = call.a /\ new.stage = call.stage
             /\ new.input = call.input /\ new.product = call.product
  BY DEF CallType

LEMMA ClaimValue ==
  ASSUME NEW call \in CallType, NEW n \in Nat
  PROVE  LET new == [call EXCEPT !.pc = "work", !.input = n]
         IN  /\ new \in CallType /\ new.pc = "work" /\ new.a = call.a /\ new.stage = call.stage
             /\ new.input = n
  BY DEF CallType

LEMMA FlowRunStage ==
  ASSUME IInv, RowsGood, NEW c \in Calls, RunStage(c)
  PROVE  FlowInv'
<1> DEFINE a == calls[c].a
           s == calls[c].stage
<1>1. calls[c].pc # "idle" /\ runs' = runs /\ callbacks' = callbacks
  BY DEF RunStage, ClaimRefused, ClaimDone, Claim, Work, WorkRejected, WorkFails, Answer,
         CompleteStage, CompleteUnacknowledged, CompleteNothing, FailStage, FailNothing
<1>2. /\ a \in Analyses /\ s \in Stages /\ calls[c] \in CallType /\ CallFollows(c)
      /\ rows[a] \in RowType
  BY <1>1, CallFacts, InvFacts
(* the call ends with an error                                             *)
<1>3. CASE calls' = [calls EXCEPT ![c].pc = "error"]
  <2> DEFINE new == [calls[c] EXCEPT !.pc = "error"]
  <2>1. calls' = [calls EXCEPT ![c] = new] BY <1>3
  <2>2. new \in CallType /\ new.pc = "error" /\ new.a = a /\ new.stage = s
    BY <1>2, CallValue
  <2> HIDE DEF new
  <2> QED BY <1>1, <2>1, <2>2, OneCallChanged
(* ... or successfully                                                     *)
<1>4. CASE /\ calls' = [calls EXCEPT ![c].pc = "ok"]
           /\ rows'[a].job = "cancelled" \/ rows'[a].metrics[s] = "succeeded"
  <2> DEFINE new == [calls[c] EXCEPT !.pc = "ok"]
  <2>1. calls' = [calls EXCEPT ![c] = new] BY <1>4
  <2>2. new \in CallType /\ new.pc = "ok" /\ new.a = a /\ new.stage = s
    BY <1>2, CallValue
  <2> HIDE DEF new
  <2> QED BY <1>1, <1>4, <2>1, <2>2, OneCallChanged
(* ... or goes on to persist its failure                                   *)
<1>5. CASE calls' = [calls EXCEPT ![c].pc = "fail"] /\ calls[c].pc \in {"work", "save"}
  <2> DEFINE new == [calls[c] EXCEPT !.pc = "fail"]
  <2>1. calls' = [calls EXCEPT ![c] = new] BY <1>5
  <2>2. new \in CallType /\ new.pc = "fail" /\ new.a = a /\ new.stage = s /\ new.input = calls[c].input
    BY <1>2, CallValue
  <2> HIDE DEF new
  <2> QED BY <1>1, <1>5, <2>1, <2>2, ClaimKept, OneCallChanged
(* ... with an answer, or to persist that                                  *)
<1>6. ASSUME NEW p \in {"save", "fail"}, Answer(c, p), calls[c].pc = "work"
      PROVE  FlowInv'
  <2>1. PICK n \in Nat : /\ n # 0
                         /\ calls' = [calls EXCEPT ![c] = [@ EXCEPT !.pc = p, !.product = n]]
    <3>1. answers + 1 \in Nat /\ answers + 1 # 0 BY DEF IInv, TypeOK
    <3> QED BY <1>6, <3>1 DEF Answer
  <2> DEFINE old == calls[c]
             new == [old EXCEPT !.pc = p, !.product = n]
  <2>2. calls' = [calls EXCEPT ![c] = new] BY <2>1
  <2>3. old \in CallType BY <1>2
  <2> HIDE DEF old
  <2>4. /\ new \in CallType /\ new.pc = p /\ new.a = old.a /\ new.stage = old.stage
        /\ new.input = old.input /\ new.product = n
    BY <2>3 DEF CallType
  <2> HIDE DEF new
  <2>5. new.a = a /\ new.stage = s /\ new.input = calls[c].input BY <2>4 DEF old
  <2>6. p # "ok" /\ p # "idle" OBVIOUS
  <2> QED BY <1>1, <1>6, <2>1, <2>2, <2>4, <2>5, <2>6, ClaimKept, OneCallChanged
<1>7. CASE Claim(c)
  <2>1. InputOf(rows[a], s) \in Nat
    <3>1. s # 1 => s - 1 \in Stages BY <1>2 DEF Stages, Summarize
    <3> QED BY <1>2, <3>1 DEF InputOf, RowType
  <2>2. PICK n \in Nat : /\ n = InputOf(rows[a], s)
                         /\ calls' = [calls EXCEPT ![c] = [@ EXCEPT !.pc = "work", !.input = n]]
    BY <1>7, <2>1 DEF Claim
  <2> DEFINE new == [calls[c] EXCEPT !.pc = "work", !.input = n]
  <2>3. /\ new \in CallType /\ new.pc = "work" /\ new.a = a /\ new.stage = s
        /\ new.input = InputOf(rows[a], s)
    BY <1>2, <2>2, ClaimValue
  <2>4. rows'[a].stage = s /\ rows'[a].out = rows[a].out
    BY <1>2, <1>7 DEF Claim, IInv, TypeOK, RowType
  <2>5. s <= rows'[a].stage /\ InputOf(rows'[a], s) = InputOf(rows[a], s)
    BY <1>2, <2>4 DEF InputOf, Stages, Summarize
  <2>6. calls' = [calls EXCEPT ![c] = new] BY <2>2
  <2> HIDE DEF new
  <2> QED BY <1>1, <2>3, <2>5, <2>6, OneCallChanged
<1>8. CASE ClaimRefused(c) BY <1>3, <1>8 DEF ClaimRefused, Reply
<1>9. CASE ClaimDone(c) BY <1>4, <1>9 DEF ClaimDone, Reply, AlreadyDone
<1>10. CASE Work(c) BY <1>6, <1>10 DEF Work
<1>11. CASE WorkRejected(c) BY <1>6, <1>11 DEF WorkRejected
<1>12. CASE WorkFails(c) BY <1>5, <1>12 DEF WorkFails, Reply
<1>13. ASSUME CompleteStage(c) \/ CompleteUnacknowledged(c)
       PROVE  rows'[a].metrics[s] = "succeeded"
  <2>1. /\ rows' = [rows EXCEPT ![a] = CompletedAt(WithOutput(rows[a], calls[c]), s)]
        /\ calls[c].pc = "save" /\ rows[a].job # "cancelled" /\ rows[a].stage = s
    BY <1>13 DEF CompleteStage, CompleteUnacknowledged, SaveCompleted, Completes
  <2>2. calls[c].product # 0 /\ calls[c].input = InputOf(rows[a], s)
    BY <1>2, <2>1 DEF CallFollows
  <2>3. CompletedAt(WithOutput(rows[a], calls[c]), s).metrics[s] = "succeeded"
    BY <1>2, <2>1, <2>2, InvFacts, CompletedRow
  <2> QED BY <1>2, <2>1, <2>3 DEF IInv, TypeOK
<1>14. CASE CompleteStage(c) BY <1>4, <1>13, <1>14 DEF CompleteStage, Reply
<1>15. CASE CompleteUnacknowledged(c)
  BY <1>5, <1>15 DEF CompleteUnacknowledged, Reply
<1>16. CASE CompleteNothing(c)
  BY <1>4, <1>5, <1>16 DEF CompleteNothing, Reply
<1>17. CASE FailStage(c) \/ FailNothing(c) BY <1>3, <1>17 DEF FailStage, FailNothing, Reply
<1> QED BY <1>7, <1>8, <1>9, <1>10, <1>11, <1>12, <1>14, <1>15, <1>16, <1>17 DEF RunStage
----------------------------------------------------------------------------
(* The Airflow run's own steps.                                            *)

(* A run that waits for no call.                                           *)
Callless == {r \in RunType : /\ r.call = None /\ r.task # "calling"
                             /\ r.task # "waiting" => r.state = "running"}

LEMMA RunValues ==
  ASSUME NEW r \in RunType
  PROVE  /\ r \in Callless => [r EXCEPT !.state = "running"] \in Callless
         /\ r \in Callless => [r EXCEPT !.state = "running", !.try = 1] \in Callless
         /\ r.call = None /\ r.state = "running" => [r EXCEPT !.task = "marking"] \in Callless
         /\ r.state = "running" => [r EXCEPT !.task = "marking", !.call = None] \in Callless
         /\ r.try + 1 \in 1..Retries + 1 =>
              [r EXCEPT !.try = r.try + 1, !.task = "waiting", !.call = None] \in Callless
         /\ \A st \in {"failed", "success"} :
              [r EXCEPT !.state = st, !.task = "waiting", !.call = None] \in Callless
         /\ \A s \in Stages :
              [r EXCEPT !.stage = s, !.try = 1, !.task = "waiting", !.call = None] \in Callless
<1>1. 1 \in 1..Retries + 1 BY ConstantsAssumption
<1>2. /\ r.state = "running" => [r EXCEPT !.task = "marking", !.call = None] \in Callless
      /\ r.call = None /\ r.state = "running" => [r EXCEPT !.task = "marking"] \in Callless
      /\ r \in Callless => [r EXCEPT !.state = "running"] \in Callless
  BY DEF RunType, Callless
<1>3. r \in Callless => [r EXCEPT !.state = "running", !.try = 1] \in Callless
  BY <1>1 DEF RunType, Callless
<1>4. ASSUME NEW n \in 1..Retries + 1
      PROVE  [r EXCEPT !.try = n, !.task = "waiting", !.call = None] \in Callless
  BY DEF RunType, Callless
<1>5. ASSUME NEW st \in {"failed", "success"}
      PROVE  [r EXCEPT !.state = st, !.task = "waiting", !.call = None] \in Callless
  BY DEF RunType, Callless
<1>6. ASSUME NEW s \in Stages
      PROVE  [r EXCEPT !.stage = s, !.try = 1, !.task = "waiting", !.call = None] \in Callless
  BY <1>1 DEF RunType, Callless
<1> QED BY <1>2, <1>3, <1>4, <1>5, <1>6

(* Other calls and runs when one call ends, or none.                       *)
EndsOwnCall(a) ==
  \/ calls' = calls
  \/ runs[a].task = "calling" /\ calls' = [calls EXCEPT ![runs[a].call] = IdleCall]

LEMMA IdleCallValue == IdleCall \in CallType /\ IdleCall.pc = "idle"
  BY DEF IdleCall, CallType, Stages, Summarize

LEMMA OneRunChanged ==
  ASSUME IInv, RowsGood, NEW a \in Analyses, NEW new \in Callless,
         runs' = [runs EXCEPT ![a] = new], EndsOwnCall(a),
         callbacks' \in [Analyses -> 0..Summarize],
         \A b \in Analyses \ {a} : callbacks'[b] = callbacks[b],
         callbacks'[a] # 0 => callbacks'[a] = new.stage /\ new.state = "failed",
         runs[a].stage <= new.stage, Passed(rows'[a], new.stage)
  PROVE  FlowInv'
<1>1. /\ new \in RunType /\ new.call = None /\ new.task # "calling" /\ new.stage \in Stages
      /\ new.task # "waiting" => new.state = "running"
  BY DEF Callless, RunType
<1>2. runs' \in [Analyses -> RunType] /\ runs'[a] = new /\ \A b \in Analyses \ {a} : runs'[b] = runs[b]
  BY <1>1 DEF IInv, TypeOK
<1>3. /\ calls' \in [Calls -> CallType]
      /\ \A c \in Calls : \/ calls'[c] = calls[c]
                          \/ calls'[c] = IdleCall /\ runs[a].task = "calling" /\ c = runs[a].call
  <2>1. calls \in [Calls -> CallType] BY DEF IInv, TypeOK
  <2>2. CASE calls' = calls BY <2>1, <2>2
  <2>3. CASE runs[a].task = "calling" /\ calls' = [calls EXCEPT ![runs[a].call] = IdleCall]
    BY <2>1, <2>3, IdleCallValue
  <2> QED BY <2>2, <2>3 DEF EndsOwnCall
<1>4. RunsLead'
  <2> SUFFICES ASSUME NEW b \in Analyses
               PROVE  /\ Passed(rows'[b], runs'[b].stage) /\ rows'[b].stage <= runs'[b].stage
                      /\ callbacks'[b] # 0 => callbacks'[b] = runs'[b].stage /\ runs'[b].state = "failed"
                      /\ runs'[b].call # None => runs'[b].task = "calling"
                      /\ runs'[b].task # "waiting" => runs'[b].state = "running"
    BY DEF RunsLead
  <2>1. CASE b = a
    <3>1. rows'[a] \in RowType /\ rows'[a].stage <= runs[a].stage BY DEF RowsGood, GoodStep
    <3>2. runs[a].stage \in Stages BY InvFacts
    <3>3. rows'[a].stage <= new.stage BY <1>1, <3>1, <3>2 DEF RowType, Stages, Summarize
    <3> QED BY <1>1, <1>2, <2>1, <3>3
  <2>2. CASE b # a
    <3>1. runs'[b] = runs[b] /\ callbacks'[b] = callbacks[b] BY <1>2, <2>2
    <3>2. Passed(rows'[b], runs[b].stage) BY InvFacts, PassedKept DEF RowsGood, GoodStep
    <3>3. rows'[b].stage <= runs[b].stage BY DEF RowsGood
    <3> QED BY <3>1, <3>2, <3>3 DEF IInv, RunsLead
  <2> QED BY <2>1, <2>2
<1>5. CallsFollow'
  <2> SUFFICES ASSUME NEW c \in Calls, calls'[c].pc # "idle" PROVE CallFollows(c)'
    BY DEF CallsFollow
  <2>1. calls'[c] = calls[c] BY <1>3, IdleCallValue
  <2>2. calls[c].a \in Analyses /\ runs[calls[c].a].stage \in Stages
    BY <2>1, CallFacts, InvFacts
  <2>3. CASE calls[c].a = a
    <3>1. runs'[calls[c].a] = new /\ new.call # c BY <1>1, <1>2, <2>3, ConstantsAssumption
    <3> QED BY <1>1, <2>1, <2>2, <2>3, <3>1, CallKept
  <2>4. CASE calls[c].a # a
    <3>1. runs'[calls[c].a] = runs[calls[c].a] BY <1>2, <2>2, <2>4
    <3>2. runs[calls[c].a].stage <= runs[calls[c].a].stage BY <2>2 DEF Stages, Summarize
    <3> QED BY <2>1, <2>2, <3>1, <3>2, CallKept
  <2> QED BY <2>3, <2>4
<1>6. WaitsForItsCall'
  <2> SUFFICES ASSUME NEW b \in Analyses, runs'[b].task = "calling"
               PROVE  /\ runs'[b].call \in Calls /\ calls'[runs'[b].call].pc # "idle"
                      /\ calls'[runs'[b].call].a = b
    BY DEF WaitsForItsCall
  <2>1. b # a /\ runs'[b] = runs[b] BY <1>1, <1>2
  <2>2. runs[b].call \in Calls /\ calls[runs[b].call].pc # "idle" /\ calls[runs[b].call].a = b
    BY <2>1 DEF IInv, WaitsForItsCall
  <2>3. ~(runs[a].task = "calling" /\ runs[b].call = runs[a].call)
    BY <2>1, <2>2 DEF IInv, WaitsForItsCall
  <2> QED BY <1>3, <2>1, <2>2, <2>3
<1> QED BY <1>2, <1>3, <1>4, <1>5, <1>6 DEF FlowInv

(* An attempt that fails without waiting for an answer any more.           *)
LEMMA FlowAttemptFailed ==
  ASSUME IInv, RowsGood, NEW a \in Analyses, runs[a].state = "running",
         AttemptFailed(a), EndsOwnCall(a)
  PROVE  FlowInv'
<1>1. /\ runs[a] \in RunType /\ runs[a].stage \in Stages /\ callbacks[a] = 0
      /\ Passed(rows'[a], runs[a].stage)
  BY InvFacts, PassedKept DEF IInv, RunsLead, RowsGood, GoodStep
<1>2. runs[a].stage <= runs[a].stage BY <1>1 DEF Stages, Summarize
<1>3. CASE TriesLeft(a)
  <2> DEFINE new == [runs[a] EXCEPT !.try = runs[a].try + 1, !.task = "waiting", !.call = None]
  <2>1. runs' = [runs EXCEPT ![a] = new] /\ callbacks' = callbacks BY <1>3 DEF AttemptFailed
  <2>2. runs[a].try + 1 \in 1..Retries + 1
    BY <1>1, <1>3, ConstantsAssumption DEF TriesLeft, RunType
  <2>3. new \in Callless BY <1>1, <2>2, RunValues
  <2>4. new.stage = runs[a].stage BY <1>1 DEF RunType
  <2> HIDE DEF new
  <2> QED BY <1>1, <1>2, <2>1, <2>3, <2>4, OneRunChanged DEF IInv, TypeOK
<1>4. CASE ~TriesLeft(a)
  <2> DEFINE new == [runs[a] EXCEPT !.state = "failed", !.task = "waiting", !.call = None]
  <2>1. /\ runs' = [runs EXCEPT ![a] = new]
        /\ callbacks' = [callbacks EXCEPT ![a] = runs[a].stage]
    BY <1>4 DEF AttemptFailed
  <2>2. new \in Callless BY <1>1, RunValues
  <2>3. new.stage = runs[a].stage /\ new.state = "failed" BY <1>1 DEF RunType
  <2>4. runs[a].stage \in 0..Summarize BY <1>1, StatusValues
  <2>5. /\ callbacks' \in [Analyses -> 0..Summarize] /\ callbacks'[a] = runs[a].stage
        /\ \A b \in Analyses \ {a} : callbacks'[b] = callbacks[b]
    BY <2>1, <2>4 DEF IInv, TypeOK
  <2> HIDE DEF new
  <2> QED BY <1>1, <1>2, <2>1, <2>2, <2>3, <2>5, OneRunChanged
<1> QED BY <1>3, <1>4

(* The steps after which the run is at the same stage and goes on.         *)
LEMMA FlowRunChanged ==
  ASSUME IInv, RowsGood, NEW a \in Analyses, NEW new \in Callless,
         runs' = [runs EXCEPT ![a] = new], new.stage = runs[a].stage,
         EndsOwnCall(a), callbacks' = callbacks, callbacks[a] = 0
  PROVE  FlowInv'
<1>1. runs[a].stage \in Stages /\ Passed(rows'[a], runs[a].stage)
  BY InvFacts, PassedKept DEF RowsGood, GoodStep
<1>2. runs[a].stage <= runs[a].stage BY <1>1 DEF Stages, Summarize
<1> QED BY <1>1, <1>2, OneRunChanged DEF IInv, TypeOK

LEMMA FlowAnswerOK ==
  ASSUME IInv, RowsGood, NEW a \in Analyses, AnswerOK(a)
  PROVE  FlowInv'
<1> DEFINE c == runs[a].call
           s == runs[a].stage
<1>1. /\ runs[a].state = "running" /\ runs[a].task = "calling" /\ calls[c].pc = "ok"
      /\ calls' = [calls EXCEPT ![c] = IdleCall] /\ callbacks' = callbacks /\ rows' = rows
  BY DEF AnswerOK, Running
<1>2. /\ runs[a] \in RunType /\ s \in Stages /\ callbacks[a] = 0 /\ c \in Calls
      /\ calls[c].a = a /\ Passed(rows[a], s)
  BY <1>1, InvFacts DEF IInv, RunsLead, WaitsForItsCall
<1>3. EndsOwnCall(a) BY <1>1 DEF EndsOwnCall
<1>4. CASE s = Summarize
  <2> DEFINE new == [runs[a] EXCEPT !.state = "success", !.task = "waiting", !.call = None]
  <2>1. runs' = [runs EXCEPT ![a] = new] BY <1>4 DEF AnswerOK
  <2>2. new \in Callless BY <1>2, RunValues
  <2>3. new.stage = s BY <1>2 DEF RunType
  <2> HIDE DEF new
  <2> QED BY <1>1, <1>2, <1>3, <2>1, <2>2, <2>3, FlowRunChanged
<1>5. CASE s # Summarize
  <2> DEFINE new == [runs[a] EXCEPT !.stage = s + 1, !.try = 1, !.task = "waiting", !.call = None]
  <2>1. runs' = [runs EXCEPT ![a] = new] BY <1>5 DEF AnswerOK
  <2>2. s + 1 \in Stages /\ s <= s + 1 BY <1>2, <1>5 DEF Stages, Summarize
  <2>3. new \in Callless BY <1>2, <2>2, RunValues
  <2>4. new.stage = s + 1 BY <1>2 DEF RunType
  <2>5. rows[a].job = "cancelled" \/ rows[a].metrics[s] = "succeeded"
    BY <1>1, <1>2 DEF IInv, CallsFollow, CallFollows
  <2>6. Passed(rows'[a], s + 1)
    BY <1>1, <1>2, <2>5 DEF Passed, Stages, Summarize
  <2> HIDE DEF new
  <2> QED BY <1>1, <1>2, <1>3, <2>1, <2>2, <2>3, <2>4, <2>6, OneRunChanged DEF IInv, TypeOK
<1> QED BY <1>4, <1>5

LEMMA NewCallValue ==
  ASSUME NEW a \in Analyses, NEW s \in Stages
  PROVE  LET new == [IdleCall EXCEPT !.pc = "claim", !.a = a, !.stage = s]
         IN  new \in CallType /\ new.pc = "claim" /\ new.a = a /\ new.stage = s
  BY DEF IdleCall, CallType

LEMMA FlowCallStage ==
  ASSUME IInv, RowsGood, NEW a \in Analyses, NEW c \in Calls, CallStage(a, c)
  PROVE  FlowInv'
<1> DEFINE call == [IdleCall EXCEPT !.pc = "claim", !.a = a, !.stage = runs[a].stage]
           new == [runs[a] EXCEPT !.task = "calling", !.call = c]
<1>1. /\ runs[a].state = "running" /\ runs[a].task = "waiting" /\ calls[c].pc = "idle"
      /\ callbacks' = callbacks
      /\ calls' = [calls EXCEPT ![c] = call] /\ runs' = [runs EXCEPT ![a] = new]
  BY DEF CallStage, Running
<1>2. runs[a] \in RunType /\ runs[a].stage \in Stages /\ callbacks[a] = 0
  BY <1>1, InvFacts DEF IInv, RunsLead
<1>3. call \in CallType /\ call.pc = "claim" /\ call.a = a /\ call.stage = runs[a].stage
  BY <1>2, NewCallValue
<1>4. /\ new \in RunType /\ new.task = "calling" /\ new.call = c /\ new.state = "running"
      /\ new.stage = runs[a].stage
  BY <1>1, <1>2 DEF RunType
<1> HIDE DEF call, new
<1>5. /\ runs' \in [Analyses -> RunType] /\ runs'[a] = new
      /\ \A b \in Analyses \ {a} : runs'[b] = runs[b]
  BY <1>1, <1>4 DEF IInv, TypeOK
<1>6. /\ calls' \in [Calls -> CallType] /\ calls'[c] = call
      /\ \A d \in Calls \ {c} : calls'[d] = calls[d]
  BY <1>1, <1>3 DEF IInv, TypeOK
<1>7. RunsLead'
  <2> SUFFICES ASSUME NEW b \in Analyses
               PROVE  /\ Passed(rows'[b], runs'[b].stage) /\ rows'[b].stage <= runs'[b].stage
                      /\ callbacks'[b] # 0 => callbacks'[b] = runs'[b].stage /\ runs'[b].state = "failed"
                      /\ runs'[b].call # None => runs'[b].task = "calling"
                      /\ runs'[b].task # "waiting" => runs'[b].state = "running"
    BY DEF RunsLead
  <2>1. Passed(rows'[b], runs[b].stage) /\ rows'[b].stage <= runs[b].stage
    BY InvFacts, PassedKept DEF RowsGood, GoodStep
  <2>2. CASE b = a BY <1>1, <1>2, <1>4, <1>5, <2>1, <2>2
  <2>3. CASE b # a
    <3>1. runs'[b] = runs[b] BY <1>5, <2>3
    <3> QED BY <1>1, <2>1, <3>1 DEF IInv, RunsLead
  <2> QED BY <2>2, <2>3
<1>8. CallsFollow'
  <2> SUFFICES ASSUME NEW d \in Calls, calls'[d].pc # "idle" PROVE CallFollows(d)'
    BY DEF CallsFollow
  <2>1. CASE d = c
    <3>1. calls'[d].a = a /\ calls'[d].stage = runs[a].stage /\ calls'[d].pc = "claim"
      BY <1>3, <1>6, <2>1
    <3>2. runs'[a].stage = runs[a].stage BY <1>4, <1>5
    <3>3. runs[a].stage <= runs[a].stage BY <1>2 DEF Stages, Summarize
    <3> QED BY <3>1, <3>2, <3>3 DEF CallFollows
  <2>2. CASE d # c
    <3>1. calls'[d] = calls[d] BY <1>6, <2>2
    <3>2. calls[d].a \in Analyses /\ runs[calls[d].a].stage \in Stages
      BY <2>2, <3>1, CallFacts, InvFacts
    <3>3. runs'[calls[d].a].stage = runs[calls[d].a].stage BY <1>4, <1>5, <3>2
    <3>4. runs[calls[d].a].stage <= runs[calls[d].a].stage BY <3>2 DEF Stages, Summarize
    <3>5. runs'[calls[d].a].call = d => runs[calls[d].a].call = d
      BY <1>4, <1>5, <2>2, <3>2
    <3> QED BY <3>1, <3>2, <3>3, <3>4, <3>5, CallKept
  <2> QED BY <2>1, <2>2
<1>9. WaitsForItsCall'
  <2> SUFFICES ASSUME NEW b \in Analyses, runs'[b].task = "calling"
               PROVE  /\ runs'[b].call \in Calls /\ calls'[runs'[b].call].pc # "idle"
                      /\ calls'[runs'[b].call].a = b
    BY DEF WaitsForItsCall
  <2>1. CASE b = a BY <1>3, <1>4, <1>5, <1>6, <2>1
  <2>2. CASE b # a
    <3>1. runs'[b] = runs[b] BY <1>5, <2>2
    <3>2. runs[b].call \in Calls /\ calls[runs[b].call].pc # "idle" /\ calls[runs[b].call].a = b
      BY <3>1 DEF IInv, WaitsForItsCall
    <3> QED BY <1>1, <1>6, <3>1, <3>2
  <2> QED BY <2>1, <2>2
<1> QED BY <1>1, <1>5, <1>6, <1>7, <1>8, <1>9 DEF FlowInv, IInv, TypeOK

(* A call nobody waits for ends.                                           *)
LEMMA FlowUnheard ==
  ASSUME IInv, RowsGood, NEW c \in Calls, AnswerUnheard(c)
  PROVE  FlowInv'
<1>1. /\ calls[c].pc # "idle" /\ runs[calls[c].a].call # c /\ runs' = runs
      /\ callbacks' = callbacks /\ calls' = [calls EXCEPT ![c] = IdleCall]
  BY DEF AnswerUnheard
<1>2. /\ calls' \in [Calls -> CallType] /\ calls'[c] = IdleCall
      /\ \A d \in Calls \ {c} : calls'[d] = calls[d]
  BY <1>1, IdleCallValue DEF IInv, TypeOK
<1>3. RunsLead' BY <1>1, RunsLeadKept
<1>4. CallsFollow'
  <2> SUFFICES ASSUME NEW d \in Calls, calls'[d].pc # "idle" PROVE CallFollows(d)'
    BY DEF CallsFollow
  <2>1. calls'[d] = calls[d] BY <1>2, IdleCallValue
  <2>2. calls[d].a \in Analyses /\ runs[calls[d].a].stage \in Stages
    BY <2>1, CallFacts, InvFacts
  <2>3. runs[calls[d].a].stage <= runs[calls[d].a].stage BY <2>2 DEF Stages, Summarize
  <2> QED BY <1>1, <2>1, <2>2, <2>3, CallKept
<1>5. WaitsForItsCall'
  <2> SUFFICES ASSUME NEW b \in Analyses, runs'[b].task = "calling"
               PROVE  /\ runs'[b].call \in Calls /\ calls'[runs'[b].call].pc # "idle"
                      /\ calls'[runs'[b].call].a = b
    BY DEF WaitsForItsCall
  <2>1. runs[b].call \in Calls /\ calls[runs[b].call].pc # "idle" /\ calls[runs[b].call].a = b
    BY <1>1 DEF IInv, WaitsForItsCall
  <2>2. runs[b].call # c BY <1>1, <2>1
  <2> QED BY <1>1, <1>2, <2>1, <2>2
<1> QED BY <1>1, <1>2, <1>3, <1>4, <1>5 DEF FlowInv, IInv, TypeOK

LEMMA FlowAirflow ==
  ASSUME IInv, RowsGood, NEW a \in Analyses,
         CreateDagRun(a) \/ AirflowRun(a) \/ TaskFailure(a) \/ CallbackDies(a) \/ ClearTask(a)
  PROVE  FlowInv'
<1>1. /\ runs[a] \in RunType
      /\ runs[a].state # "failed" => callbacks[a] = 0
      /\ runs[a].call # None => runs[a].task = "calling"
      /\ runs[a].task # "waiting" => runs[a].state = "running"
  BY InvFacts DEF IInv, RunsLead
<1>2. CASE CreateDagRun(a)
  <2>1. calls' = calls /\ callbacks' = callbacks BY <1>2 DEF CreateDagRun
  <2>2. CASE runs[a].state = "none"
    <3> DEFINE new == [runs[a] EXCEPT !.state = "running"]
    <3>1. runs' = [runs EXCEPT ![a] = new] BY <1>2, <2>2 DEF CreateDagRun
    <3>2. runs[a] \in Callless BY <1>1, <2>2 DEF Callless
    <3>3. new \in Callless BY <1>1, <3>2, RunValues
    <3>4. new.stage = runs[a].stage BY <1>1 DEF RunType
    <3> HIDE DEF new
    <3> QED BY <1>1, <2>1, <2>2, <3>1, <3>3, <3>4, FlowRunChanged DEF EndsOwnCall
  <2>3. CASE runs[a].state # "none"
    <3>1. runs' = runs BY <1>2, <2>3 DEF CreateDagRun
    <3> QED BY <2>1, <3>1, FlowUnchanged DEF IInv, TypeOK
  <2> QED BY <2>2, <2>3
<1>3. CASE StartTask(a)
  <2>1. CASE PrepareFails(a)
    <3> DEFINE new == [runs[a] EXCEPT !.task = "marking"]
    <3>1. /\ runs' = [runs EXCEPT ![a] = new] /\ calls' = calls /\ callbacks' = callbacks
          /\ runs[a].state = "running" /\ runs[a].task = "waiting"
      BY <2>1 DEF PrepareFails, Running
    <3>2. new \in Callless BY <1>1, <3>1, RunValues
    <3>3. new.stage = runs[a].stage BY <1>1 DEF RunType
    <3> HIDE DEF new
    <3> QED BY <1>1, <3>1, <3>2, <3>3, FlowRunChanged DEF EndsOwnCall
  <2> QED BY <1>3, <2>1, FlowCallStage DEF StartTask
<1>4. CASE AnswerOK(a) BY <1>4, FlowAnswerOK
<1>5. CASE AnswerError(a) \/ AnswerLost(a)
  <2> DEFINE new == [runs[a] EXCEPT !.task = "marking", !.call = None]
  <2>1. /\ runs' = [runs EXCEPT ![a] = new] /\ callbacks' = callbacks
        /\ runs[a].state = "running" /\ EndsOwnCall(a)
    BY <1>5 DEF AnswerError, AnswerLost, Running, CallGone, EndsOwnCall
  <2>2. new \in Callless BY <1>1, <2>1, RunValues
  <2>3. new.stage = runs[a].stage BY <1>1 DEF RunType
  <2> HIDE DEF new
  <2> QED BY <1>1, <2>1, <2>2, <2>3, FlowRunChanged
<1>6. CASE MarkAndRaise(a) \/ AttemptDies(a)
  <2>1. /\ runs[a].state = "running" /\ AttemptFailed(a) /\ EndsOwnCall(a)
    BY <1>6 DEF MarkAndRaise, AttemptDies, Running, CallGone, EndsOwnCall
  <2> QED BY <2>1, FlowAttemptFailed
<1>7. CASE TaskFailure(a) \/ CallbackDies(a)
  <2>1. runs' = runs /\ calls' = calls /\ callbacks' = [callbacks EXCEPT ![a] = 0]
    BY <1>7 DEF TaskFailure, CallbackDies
  <2> QED BY <2>1, FlowUnchanged, StatusValues DEF IInv, TypeOK
<1>8. CASE ClearTask(a)
  <2> DEFINE new == [runs[a] EXCEPT !.state = "running", !.try = 1]
  <2>1. /\ runs' = [runs EXCEPT ![a] = new] /\ calls' = calls /\ callbacks' = callbacks
        /\ runs[a].state = "failed" /\ callbacks[a] = 0
    BY <1>8 DEF ClearTask
  <2>2. runs[a] \in Callless BY <1>1, <2>1 DEF Callless
  <2>3. new \in Callless BY <1>1, <2>2, RunValues
  <2>4. new.stage = runs[a].stage BY <1>1 DEF RunType
  <2> HIDE DEF new
  <2> QED BY <1>1, <2>1, <2>3, <2>4, FlowRunChanged DEF EndsOwnCall
<1> QED BY <1>2, <1>3, <1>4, <1>5, <1>6, <1>7, <1>8 DEF AirflowRun

LEMMA FlowStep == IInv /\ [Next]_vars => FlowInv'
<1> SUFFICES ASSUME IInv, [Next]_vars PROVE FlowInv'
  OBVIOUS
<1>1. RowsGood BY RowsStep
<1>2. ASSUME runs' = runs, calls' = calls, callbacks' = callbacks PROVE FlowInv'
  BY <1>1, <1>2, FlowUnchanged DEF IInv, TypeOK
<1>3. ASSUME NEW q \in Requests, ApiRequest(q) PROVE FlowInv'
  BY <1>2, <1>3 DEF ApiRequest, CreateAnalysis, RetryDispatch, PostRun, DispatchAccepted,
                    DispatchErrored, RecordDispatch, AbandonRequest
<1>4. CASE DeleteDocument BY <1>2, <1>4 DEF DeleteDocument
<1>5. ASSUME NEW c \in Calls, RunStage(c) \/ AnswerUnheard(c) PROVE FlowInv'
  BY <1>1, <1>5, FlowRunStage, FlowUnheard
<1>6. CASE UNCHANGED vars BY <1>2, <1>6 DEF vars
<1> QED BY <1>1, <1>3, <1>4, <1>5, <1>6, FlowAirflow DEF Next

(* What is in flight after a step was in flight before, or is about an     *)
(* analysis that has just been created or had been.                        *)
RequestsFrom ==
  \A q \in Requests : requests'[q].pc # "idle" =>
    \/ requests[q].pc # "idle" /\ requests'[q].a = requests[q].a
    \/ rows'[requests'[q].a].job # "none"
PostedFrom ==
  \A a \in posted' :
    a \in posted \/ \E q \in Requests : requests[q].pc # "idle" /\ requests[q].a = a
RunsFrom ==
  \A a \in Analyses : runs'[a].state # "none" => runs[a].state # "none" \/ a \in posted
CallsFrom ==
  \A c \in Calls : calls'[c].pc # "idle" =>
    \/ calls[c].pc # "idle" /\ calls'[c].a = calls[c].a
    \/ calls'[c].a \in Analyses /\ runs[calls'[c].a].state # "none"

LEMMA CreatedStep == IInv /\ [Next]_vars => Created'
<1> SUFFICES ASSUME IInv, [Next]_vars PROVE Created'
  OBVIOUS
<1>1. RowsGood BY RowsStep
<1>2. \A a \in Analyses : rows[a].job # "none" => rows'[a].job # "none"
  BY <1>1 DEF RowsGood, GoodStep, Kept
<1>3. /\ rows \in [Analyses -> RowType] /\ requests \in [Requests -> RequestType]
      /\ posted \subseteq Analyses /\ runs \in [Analyses -> RunType]
      /\ calls \in [Calls -> CallType]
  BY DEF IInv, TypeOK
<1>4. RequestsFrom
  <2>1. ASSUME NEW q \in Requests, ApiRequest(q) PROVE RequestsFrom
    <3>1. ASSUME NEW a \in Analyses, CreateAnalysis(q, a) \/ RetryDispatch(q, a)
          PROVE  RequestsFrom
      <4>1. rows'[a].job # "none"
        <5>1. CASE RetryDispatch(q, a)
          BY <1>2, <5>1 DEF RetryDispatch, AwaitingDispatch
        <5>2. CASE CreateAnalysis(q, a)
          <6> DEFINE new == [rows[a] EXCEPT !.job = "dispatch_pending", !.status = "queued"]
          <6>1. rows' = [rows EXCEPT ![a] = new] BY <5>2 DEF CreateAnalysis
          <6>2. new.job = "dispatch_pending" BY <1>3 DEF RowType
          <6> HIDE DEF new
          <6> QED BY <1>3, <6>1, <6>2
        <5> QED BY <3>1, <5>1, <5>2
      <4>2. requests' = [requests EXCEPT ![q] = [IdleRequest EXCEPT !.pc = "post", !.a = a]]
        BY <3>1 DEF CreateAnalysis, RetryDispatch
      <4> QED BY <1>3, <4>1, <4>2, RequestValues DEF RequestsFrom
    <3>2. CASE PostRun(q) \/ DispatchAccepted(q) \/ DispatchErrored(q)
      <4>1. PICK new \in RequestType :
              requests' = [requests EXCEPT ![q] = new] /\ new.a = requests[q].a
        BY <1>3, <3>2, RequestValues DEF PostRun, DispatchAccepted, DispatchErrored
      <4>2. requests[q].pc # "idle" BY <3>2 DEF PostRun, DispatchAccepted, DispatchErrored
      <4> QED BY <1>3, <4>1, <4>2 DEF RequestsFrom
    <3>3. CASE RecordDispatch(q) \/ AbandonRequest(q)
      <4>1. requests' = [requests EXCEPT ![q] = IdleRequest]
        BY <3>3 DEF RecordDispatch, AbandonRequest
      <4> QED BY <1>3, <4>1, RequestValues DEF RequestsFrom
    <3> QED BY <2>1, <3>1, <3>2, <3>3 DEF ApiRequest
  <2>2. ASSUME requests' = requests PROVE RequestsFrom BY <2>2 DEF RequestsFrom
  <2>3. ASSUME NEW a \in Analyses,
               CreateDagRun(a) \/ AirflowRun(a) \/ TaskFailure(a) \/ CallbackDies(a) \/ ClearTask(a)
        PROVE  requests' = requests
    BY <2>3 DEF CreateDagRun, AirflowRun, StartTask, PrepareFails, CallStage, AnswerOK,
                AnswerError, MarkAndRaise, AnswerLost, AttemptDies, TaskFailure,
                CallbackDies, ClearTask
  <2>4. ASSUME NEW c \in Calls, RunStage(c) \/ AnswerUnheard(c) PROVE requests' = requests
    BY <2>4 DEF RunStage, ClaimRefused, ClaimDone, Claim, Work, WorkRejected, WorkFails,
                Answer, CompleteStage, CompleteUnacknowledged, CompleteNothing, FailStage,
                FailNothing, AnswerUnheard
  <2>5. ASSUME DeleteDocument \/ UNCHANGED vars PROVE requests' = requests
    BY <2>5 DEF DeleteDocument, vars
  <2> QED BY <2>1, <2>2, <2>3, <2>4, <2>5 DEF Next
<1>5. PostedFrom
  <2>1. ASSUME NEW q \in Requests, ApiRequest(q) PROVE PostedFrom
    BY <2>1 DEF PostedFrom, ApiRequest, CreateAnalysis, RetryDispatch, PostRun,
                DispatchAccepted, DispatchErrored, RecordDispatch, AbandonRequest
  <2>2. ASSUME posted' \subseteq posted PROVE PostedFrom BY <2>2 DEF PostedFrom
  <2>3. ASSUME NEW a \in Analyses,
               CreateDagRun(a) \/ AirflowRun(a) \/ TaskFailure(a) \/ CallbackDies(a) \/ ClearTask(a)
        PROVE  posted' \subseteq posted
    BY <2>3 DEF CreateDagRun, AirflowRun, StartTask, PrepareFails, CallStage, AnswerOK,
                AnswerError, MarkAndRaise, AnswerLost, AttemptDies, TaskFailure,
                CallbackDies, ClearTask
  <2>4. ASSUME NEW c \in Calls, RunStage(c) \/ AnswerUnheard(c) PROVE posted' \subseteq posted
    BY <2>4 DEF RunStage, ClaimRefused, ClaimDone, Claim, Work, WorkRejected, WorkFails,
                Answer, CompleteStage, CompleteUnacknowledged, CompleteNothing, FailStage,
                FailNothing, AnswerUnheard
  <2>5. ASSUME DeleteDocument \/ UNCHANGED vars PROVE posted' \subseteq posted
    BY <2>5 DEF DeleteDocument, vars
  <2> QED BY <2>1, <2>2, <2>3, <2>4, <2>5 DEF Next
<1>6. RunsFrom
  <2>1. ASSUME NEW a \in Analyses, NEW new, runs' = [runs EXCEPT ![a] = new],
               runs[a].state # "none" \/ a \in posted
        PROVE  RunsFrom
    BY <1>3, <2>1 DEF RunsFrom
  <2>2. ASSUME runs' = runs PROVE RunsFrom BY <2>2 DEF RunsFrom
  <2>3. ASSUME NEW a \in Analyses, CreateDagRun(a) PROVE RunsFrom
    <3>1. runs' = runs \/ runs' = [runs EXCEPT ![a] = [@ EXCEPT !.state = "running"]]
      BY <2>3 DEF CreateDagRun
    <3>2. a \in posted BY <2>3 DEF CreateDagRun
    <3> QED BY <2>1, <2>2, <3>1, <3>2
  <2>4. ASSUME NEW a \in Analyses, AirflowRun(a) \/ ClearTask(a) PROVE RunsFrom
    <3>1. runs[a].state # "none" /\ \E new : runs' = [runs EXCEPT ![a] = new]
      BY <2>4 DEF AirflowRun, StartTask, PrepareFails, CallStage, AnswerOK, AnswerError,
                  MarkAndRaise, AnswerLost, AttemptDies, AttemptFailed, ClearTask, Running
    <3> QED BY <2>1, <3>1
  <2>5. ASSUME NEW a \in Analyses, TaskFailure(a) \/ CallbackDies(a) PROVE runs' = runs
    BY <2>5 DEF TaskFailure, CallbackDies
  <2>6. ASSUME NEW q \in Requests, ApiRequest(q) PROVE runs' = runs
    BY <2>6 DEF ApiRequest, CreateAnalysis, RetryDispatch, PostRun, DispatchAccepted,
                DispatchErrored, RecordDispatch, AbandonRequest
  <2>7. ASSUME NEW c \in Calls, RunStage(c) \/ AnswerUnheard(c) PROVE runs' = runs
    BY <2>7 DEF RunStage, ClaimRefused, ClaimDone, Claim, Work, WorkRejected, WorkFails,
                Answer, CompleteStage, CompleteUnacknowledged, CompleteNothing, FailStage,
                FailNothing, AnswerUnheard
  <2>8. ASSUME DeleteDocument \/ UNCHANGED vars PROVE runs' = runs
    BY <2>8 DEF DeleteDocument, vars
  <2> QED BY <2>2, <2>3, <2>4, <2>5, <2>6, <2>7, <2>8 DEF Next
<1>7. CallsFrom
  <2>1. ASSUME calls' = calls PROVE CallsFrom BY <2>1 DEF CallsFrom
  <2>2. ASSUME NEW c \in Calls, calls' = [calls EXCEPT ![c] = IdleCall] PROVE CallsFrom
    BY <1>3, <2>2, IdleCallValue DEF CallsFrom
  <2>3. ASSUME NEW c \in Calls, NEW new, calls' = [calls EXCEPT ![c] = new],
               calls[c].pc # "idle", new.a = calls[c].a
        PROVE  CallsFrom
    BY <1>3, <2>3 DEF CallsFrom
  <2>4. ASSUME NEW c \in Calls, RunStage(c) PROVE CallsFrom
    <3>1. calls[c].pc # "idle" /\ calls[c] \in CallType
      BY <1>3, <2>4 DEF RunStage, ClaimRefused, ClaimDone, Claim, Work, WorkRejected, WorkFails,
                  CompleteStage, CompleteUnacknowledged, CompleteNothing, FailStage, FailNothing
    <3>2. CASE Claim(c)
      <4> DEFINE new == [calls[c] EXCEPT !.pc = "work", !.input = InputOf(rows[calls[c].a], calls[c].stage)]
      <4>1. calls' = [calls EXCEPT ![c] = new] BY <3>2 DEF Claim
      <4>2. new.a = calls[c].a BY <3>1 DEF CallType
      <4> HIDE DEF new
      <4> QED BY <2>3, <3>1, <4>1, <4>2
    <3>3. ASSUME NEW pc, Answer(c, pc) PROVE CallsFrom
      <4> DEFINE new == [calls[c] EXCEPT !.pc = pc, !.product = answers + 1]
      <4>1. calls' = [calls EXCEPT ![c] = new] BY <3>3 DEF Answer
      <4>2. new.a = calls[c].a BY <3>1 DEF CallType
      <4> HIDE DEF new
      <4> QED BY <2>3, <3>1, <4>1, <4>2
    <3>4. ASSUME NEW pc, Reply(c, pc) PROVE CallsFrom
      <4> DEFINE new == [calls[c] EXCEPT !.pc = pc]
      <4>1. calls' = [calls EXCEPT ![c] = new] BY <3>4 DEF Reply
      <4>2. new.a = calls[c].a BY <3>1 DEF CallType
      <4> HIDE DEF new
      <4> QED BY <2>3, <3>1, <4>1, <4>2
    <3> QED
      BY <2>4, <3>2, <3>3, <3>4
      DEF RunStage, ClaimRefused, ClaimDone, Work, WorkRejected, WorkFails, CompleteStage,
          CompleteUnacknowledged, CompleteNothing, FailStage, FailNothing
  <2>5. ASSUME NEW a \in Analyses, NEW c \in Calls, CallStage(a, c) PROVE CallsFrom
    <3> DEFINE new == [IdleCall EXCEPT !.pc = "claim", !.a = a, !.stage = runs[a].stage]
    <3>1. calls' = [calls EXCEPT ![c] = new] /\ runs[a].state # "none"
      BY <2>5 DEF CallStage, Running
    <3>2. new.a = a BY DEF IdleCall
    <3> HIDE DEF new
    <3> QED BY <1>3, <3>1, <3>2 DEF CallsFrom
  <2>6. ASSUME NEW c \in Calls, CallGone(c) PROVE CallsFrom
    BY <2>1, <2>2, <2>6 DEF CallGone
  <2>7. ASSUME NEW a \in Analyses, AirflowRun(a) PROVE CallsFrom
    <3>1. CASE AnswerOK(a) \/ AnswerError(a) \/ AnswerLost(a)
      <4>1. runs[a].call \in Calls
        BY <3>1 DEF AnswerOK, AnswerError, AnswerLost, Running, IInv, WaitsForItsCall
      <4> QED BY <2>2, <2>6, <3>1, <4>1 DEF AnswerOK, AnswerError, AnswerLost
    <3>2. CASE AttemptDies(a)
      <4>1. runs[a].task = "calling" => runs[a].call \in Calls BY DEF IInv, WaitsForItsCall
      <4> QED BY <2>1, <2>6, <3>2, <4>1 DEF AttemptDies
    <3>3. CASE PrepareFails(a) \/ MarkAndRaise(a)
      BY <2>1, <3>3 DEF PrepareFails, MarkAndRaise
    <3> QED BY <2>5, <2>7, <3>1, <3>2, <3>3 DEF AirflowRun, StartTask
  <2>8. ASSUME NEW a \in Analyses,
               CreateDagRun(a) \/ TaskFailure(a) \/ CallbackDies(a) \/ ClearTask(a)
        PROVE  calls' = calls
    BY <2>8 DEF CreateDagRun, TaskFailure, CallbackDies, ClearTask
  <2>9. ASSUME NEW q \in Requests, ApiRequest(q) PROVE calls' = calls
    BY <2>9 DEF ApiRequest, CreateAnalysis, RetryDispatch, PostRun, DispatchAccepted,
                DispatchErrored, RecordDispatch, AbandonRequest
  <2>10. ASSUME NEW c \in Calls, AnswerUnheard(c) PROVE CallsFrom
    BY <2>2, <2>10 DEF AnswerUnheard
  <2>11. ASSUME DeleteDocument \/ UNCHANGED vars PROVE calls' = calls
    BY <2>11 DEF DeleteDocument, vars
  <2> QED BY <2>1, <2>4, <2>7, <2>8, <2>9, <2>10, <2>11 DEF Next
<1>8. \A q \in Requests : requests'[q].pc # "idle" => rows'[requests'[q].a].job # "none"
  BY <1>2, <1>4 DEF RequestsFrom, IInv, RequestsRefer, Created
<1>9. \A a \in posted' : rows'[a].job # "none"
  BY <1>2, <1>3, <1>5 DEF PostedFrom, IInv, RequestsRefer, Created
<1>10. \A a \in Analyses : runs'[a].state # "none" => rows'[a].job # "none"
  BY <1>2, <1>6 DEF RunsFrom, IInv, Created
<1>11. \A c \in Calls : calls'[c].pc # "idle" => rows'[calls'[c].a].job # "none"
  <2> SUFFICES ASSUME NEW c \in Calls, calls'[c].pc # "idle"
               PROVE  rows'[calls'[c].a].job # "none"
    OBVIOUS
  <2>1. CASE calls[c].pc # "idle" /\ calls'[c].a = calls[c].a
    BY <1>2, <2>1, CallFacts DEF IInv, Created
  <2>2. CASE calls'[c].a \in Analyses /\ runs[calls'[c].a].state # "none"
    BY <1>2, <2>2 DEF IInv, Created
  <2> QED BY <1>7, <2>1, <2>2 DEF CallsFrom
<1> QED BY <1>8, <1>9, <1>10, <1>11 DEF Created

LEMMA BoundsStep ==
  IInv /\ [Next]_vars => /\ deleted' \in BOOLEAN /\ answers' \in Nat
                         /\ lost' \in 0..MaxLost /\ cleared' \in 0..MaxClears
<1> SUFFICES ASSUME IInv, [Next]_vars
             PROVE  /\ deleted' \in BOOLEAN /\ answers' \in Nat
                    /\ lost' \in 0..MaxLost /\ cleared' \in 0..MaxClears
  OBVIOUS
<1>1. /\ deleted \in BOOLEAN /\ answers \in Nat /\ lost \in 0..MaxLost /\ cleared \in 0..MaxClears
  BY DEF IInv, TypeOK
<1> DEFINE Goal == /\ deleted' \in {deleted, TRUE} /\ answers' \in {answers, answers + 1}
                   /\ lost' = lost \/ (lost < MaxLost /\ lost' = lost + 1)
                   /\ cleared' = cleared \/ (cleared < MaxClears /\ cleared' = cleared + 1)
<1>2. ASSUME NEW q \in Requests, ApiRequest(q) PROVE Goal
  BY <1>2 DEF ApiRequest, CreateAnalysis, RetryDispatch, PostRun, DispatchAccepted,
             DispatchErrored, RecordDispatch, AbandonRequest, bounds
<1>3. ASSUME NEW a \in Analyses,
             CreateDagRun(a) \/ AirflowRun(a) \/ TaskFailure(a) \/ CallbackDies(a) \/ ClearTask(a)
      PROVE  Goal
  BY <1>3 DEF CreateDagRun, AirflowRun, StartTask, PrepareFails, CallStage, AnswerOK,
              AnswerError, MarkAndRaise, AnswerLost, AttemptDies, CallGone,
              TaskFailure, CallbackDies, ClearTask, bounds
<1>4. ASSUME NEW c \in Calls, RunStage(c) \/ AnswerUnheard(c) PROVE Goal
  BY <1>4 DEF RunStage, ClaimRefused, ClaimDone, Claim, Work, WorkRejected, WorkFails,
              Answer, CompleteStage, CompleteUnacknowledged, CompleteNothing,
              FailStage, FailNothing, AnswerUnheard, bounds
<1>5. ASSUME DeleteDocument \/ UNCHANGED vars PROVE Goal
  BY <1>5 DEF DeleteDocument, vars, bounds
<1>6. Goal BY <1>2, <1>3, <1>4, <1>5 DEF Next
<1>7. answers' \in Nat BY <1>1, <1>6
<1>8. lost' \in 0..MaxLost /\ cleared' \in 0..MaxClears
  BY <1>1, <1>6, ConstantsAssumption
<1>9. deleted' \in BOOLEAN BY <1>1, <1>6
<1> QED BY <1>7, <1>8, <1>9
----------------------------------------------------------------------------
(* The invariant holds, and what follows from it.                          *)

LEMMA InvInit == Init => IInv
<1> SUFFICES ASSUME Init PROVE IInv
  OBVIOUS
<1>1. NoAnalysis \in RowType /\ RowInv(NoAnalysis)
  BY DEF NoAnalysis, RowType, RowInv, StatusesOf, JobState, Status, Metric, Stages,
         Summarize, AwaitingDispatch
<1>2. NoRun \in RunType
  <2>1. 1 \in 1..Retries + 1 BY ConstantsAssumption
  <2> QED BY <2>1 DEF NoRun, RunType, Stages, Summarize
<1>3. TypeOK
  <2>1. rows \in [Analyses -> RowType] BY <1>1 DEF Init
  <2>2. requests \in [Requests -> RequestType] BY RequestValues DEF Init
  <2>3. runs \in [Analyses -> RunType] BY <1>2 DEF Init
  <2>4. callbacks \in [Analyses -> 0..Summarize] BY StatusValues DEF Init
  <2>5. calls \in [Calls -> CallType] BY IdleCallValue DEF Init
  <2>6. lost \in 0..MaxLost /\ cleared \in 0..MaxClears BY ConstantsAssumption DEF Init
  <2> QED BY <2>1, <2>2, <2>3, <2>4, <2>5, <2>6 DEF Init, TypeOK
<1>4. RowsInv BY <1>1 DEF Init, RowsInv
<1>5. RequestsRefer BY RequestValues DEF Init, RequestsRefer
<1>6. RunsLead
  BY DEF Init, RunsLead, Passed, NoRun, NoAnalysis, Stages, Summarize
<1>7. CallsFollow BY IdleCallValue DEF Init, CallsFollow
<1>8. WaitsForItsCall BY DEF Init, WaitsForItsCall, NoRun
<1>9. Created BY IdleCallValue, RequestValues DEF Init, Created, NoRun
<1> QED BY <1>3, <1>4, <1>5, <1>6, <1>7, <1>8, <1>9 DEF IInv

(* Every writer of the table updates it as a function.                     *)
LEMMA RowsAreAFunction ==
  ASSUME rows \in [Analyses -> RowType], [Next]_vars
  PROVE  rows' = [a \in Analyses |-> rows'[a]]
<1> DEFINE Goal == rows' = [a \in Analyses |-> rows'[a]]
<1>2. ASSUME NEW q \in Requests, ApiRequest(q) PROVE Goal
  BY <1>2 DEF ApiRequest, CreateAnalysis, RetryDispatch, PostRun, DispatchAccepted,
             DispatchErrored, RecordDispatch, AbandonRequest, bounds
<1>3. ASSUME NEW a \in Analyses,
             CreateDagRun(a) \/ AirflowRun(a) \/ TaskFailure(a) \/ CallbackDies(a) \/ ClearTask(a)
      PROVE  Goal
  BY <1>3 DEF CreateDagRun, AirflowRun, StartTask, PrepareFails, CallStage, AnswerOK,
              AnswerError, MarkAndRaise, MarkFailed,
              AnswerLost, AttemptDies, CallGone,
              TaskFailure, CallbackDies, ClearTask, bounds
<1>4. ASSUME NEW c \in Calls, RunStage(c) \/ AnswerUnheard(c) PROVE Goal
  BY <1>4 DEF RunStage, ClaimRefused, ClaimDone, Claim, Work, WorkRejected, WorkFails,
              Answer, CompleteStage, CompleteUnacknowledged, SaveCompleted,
              CompleteNothing,
              FailStage, FailNothing, AnswerUnheard, bounds
<1>5. ASSUME DeleteDocument \/ UNCHANGED vars PROVE Goal
  BY <1>5 DEF DeleteDocument, vars, bounds
<1> QED BY <1>2, <1>3, <1>4, <1>5 DEF Next

LEMMA InvStep == IInv /\ [Next]_vars => IInv'
<1> SUFFICES ASSUME IInv, [Next]_vars PROVE IInv'
  OBVIOUS
<1>1. rows' \in [Analyses -> RowType] /\ RowsInv'
  <2>1. rows' = [a \in Analyses |-> rows'[a]] BY RowsAreAFunction DEF IInv, TypeOK
  <2> QED BY <2>1, RowsStep DEF RowsGood, GoodStep, RowsInv
<1> QED BY <1>1, RequestsStep, FlowStep, CreatedStep, BoundsStep DEF IInv, TypeOK, FlowInv

LEMMA Invariance == Spec => []IInv
  BY InvInit, InvStep, PTL DEF Spec

(* Rows, requests, runs and calls always hold values of their types.       *)
THEOREM TypeCorrect == Spec => []TypeOK
<1>1. IInv => TypeOK BY DEF IInv
<1> QED BY <1>1, Invariance, PTL

(* The status, job and stage columns of every analysis always tell the     *)
(* same story, whatever calls, callbacks and requests write them.          *)
THEOREM ColumnsAlwaysAgree == Spec => []ColumnsAgree
<1>1. IInv => ColumnsAgree BY DEF IInv, RowsInv, RowInv, ColumnsAgree
<1> QED BY <1>1, Invariance, PTL

(* No analysis is completed or partial without the outputs that promises.  *)
THEOREM ReportAlwaysComplete == Spec => []ReportComplete
<1>1. IInv => ReportComplete
  <2> SUFFICES ASSUME IInv, NEW a \in Analyses
               PROVE  /\ rows[a].status = "completed" => \A s \in Stages : rows[a].out[s] # 0
                      /\ rows[a].status = "partial" =>
                           \A s \in Stages \ {Summarize} : rows[a].out[s] # 0
    BY DEF ReportComplete
  <2>1. rows[a] \in RowType /\ RowInv(rows[a]) BY InvFacts
  <2>2. ASSUME rows[a].status = "completed" PROVE rows[a].job = "succeeded"
    BY <2>1, <2>2 DEF RowInv, StatusesOf, RowType, JobState
  <2>3. rows[a].status = "completed" => \A s \in Stages : rows[a].metrics[s] = "succeeded"
    BY <2>1, <2>2 DEF RowInv, Stages, Summarize
  <2>4. rows[a].status = "partial" =>
          \A s \in Stages \ {Summarize} : rows[a].metrics[s] = "succeeded"
    BY <2>1 DEF RowInv, Stages, Summarize
  <2> QED BY <2>1, <2>3, <2>4 DEF RowInv
<1> QED BY <1>1, Invariance, PTL

(* No report ever mixes an output with one computed from another answer.   *)
THEOREM OutputsAlwaysChain == Spec => []OutputsChain
<1>1. IInv => OutputsChain BY DEF IInv, RowsInv, RowInv, OutputsChain
<1> QED BY <1>1, Invariance, PTL

(* No step turns a stage's durable success into anything else.             *)
THEOREM SuccessAlwaysKept == Spec => SuccessKept
<1>1. IInv /\ [Next]_vars =>
        [\A a \in Analyses, s \in Stages :
           rows[a].metrics[s] = "succeeded" => rows'[a].metrics[s] = "succeeded"]_vars
  BY RowsStep DEF RowsGood, GoodStep, Kept
<1> QED BY <1>1, Invariance, PTL DEF Spec, SuccessKept

(* No step reopens a completed analysis or touches a cancelled one.        *)
THEOREM EndAlwaysKept == Spec => EndKept
<1>1. IInv /\ [Next]_vars =>
        [\A a \in Analyses :
           /\ rows[a].job = "succeeded" => rows'[a].job = "succeeded"
           /\ rows[a].job = "cancelled" => rows'[a] = rows[a]]_vars
  BY RowsStep DEF RowsGood, GoodStep, Kept
<1> QED BY <1>1, Invariance, PTL DEF Spec, EndKept

(* No step moves an analysis to an earlier stage, or back to dispatching.  *)
THEOREM ProgressAlwaysKept == Spec => ProgressKept
<1>1. IInv /\ [Next]_vars =>
        [\A a \in Analyses :
           /\ rows'[a].stage >= rows[a].stage
           /\ rows[a].job \notin AwaitingDispatch \cup {"none"} =>
                rows'[a].job \notin AwaitingDispatch]_vars
  <2> SUFFICES ASSUME IInv, [Next]_vars, NEW a \in Analyses
               PROVE  /\ rows'[a].stage >= rows[a].stage
                      /\ rows[a].job \notin AwaitingDispatch \cup {"none"} =>
                           rows'[a].job \notin AwaitingDispatch
    OBVIOUS
  <2>1. Kept(rows[a], rows'[a]) /\ rows[a] \in RowType /\ rows'[a] \in RowType
    BY RowsStep, InvFacts DEF RowsGood, GoodStep
  <2> QED BY <2>1 DEF Kept, RowType, Summarize
<1> QED BY <1>1, Invariance, PTL DEF Spec, ProgressKept

(* A row's columns agree and its report has what its status promises.      *)
THEOREM RowsAlwaysWhole == Spec => []RowsWhole
<1>1. ColumnsAgree /\ ReportComplete => RowsWhole BY DEF RowsWhole
<1> QED BY <1>1, ColumnsAlwaysAgree, ReportAlwaysComplete, PTL

(* No step undoes a success, an end or the progress of an analysis.        *)
THEOREM RowsAlwaysForward == Spec => RowsForward
  BY SuccessAlwaysKept, EndAlwaysKept, ProgressAlwaysKept DEF RowsForward

(* The view of a row has the type AnalysisLifecycle gives it.              *)
LEMMA ViewTyped ==
  ASSUME NEW row \in RowType
  PROVE  ViewOf(row) \in Lifecycle!View
<1>1. Seen(row) \in Lifecycle!Status
  BY DEF Seen, RowType, Status, Lifecycle!Status
<1>2. DoneOf(row) \in SUBSET Stages /\ row.stage \in 0..Summarize /\ row.out \in [Stages -> Nat]
  BY DEF DoneOf, RowType
<1> QED BY <1>1, <1>2, ViewFields DEF Lifecycle!View, Lifecycle!Stages, Stages

(* Analysis implements AnalysisLifecycle: whatever calls, callbacks and    *)
(* requests do to the rows in whatever order, a reader sees stages succeed *)
(* in their turn and answers that are final once a later stage has begun.  *)
THEOREM ImplementsLifecycle == Spec => FollowsLifecycle
<1> DEFINE View == [a \in Analyses |-> ViewOf(rows[a])]
<1>1. Init => Lifecycle!Init
  <2> SUFFICES ASSUME Init PROVE View = [a \in Analyses |-> Lifecycle!Unseen]
    BY DEF Lifecycle!Init
  <2>1. NoAnalysis.out = [s \in Stages |-> 0] /\ NoAnalysis.stage = 0
    BY DEF NoAnalysis
  <2>2. Seen(NoAnalysis) = "none" /\ DoneOf(NoAnalysis) = {}
    BY DEF NoAnalysis, Seen, DoneOf, AwaitingDispatch
  <2>3. ViewOf(NoAnalysis) = Lifecycle!Unseen
    BY <2>1, <2>2, ViewFields DEF Lifecycle!Unseen, Lifecycle!Stages, Stages
  <2> QED BY <2>3 DEF Init
<1>2. IInv /\ [Next]_vars => [Lifecycle!Next]_View
  <2> SUFFICES ASSUME IInv, [Next]_vars PROVE Lifecycle!Next
    OBVIOUS
  <2>1. RowsGood BY RowsStep
  <2>2. View' = [a \in Analyses |-> ViewOf(rows'[a])] OBVIOUS
  <2>3. View' \in [Analyses -> Lifecycle!View]
    BY <2>1, <2>2, ViewTyped DEF RowsGood, GoodStep
  <2>4. ASSUME NEW a \in Analyses
        PROVE  View'[a] = View[a] \/ Lifecycle!Move(View[a], View'[a])
    <3>1. Moved(rows[a], rows'[a]) BY <2>1 DEF RowsGood, GoodStep
    <3>2. View[a] = ViewOf(rows[a]) /\ View'[a] = ViewOf(rows'[a]) BY <2>2
    <3> QED BY <3>1, <3>2 DEF Moved
  <2> QED BY <2>3, <2>4 DEF Lifecycle!Next
<1> QED BY <1>1, <1>2, Invariance, PTL DEF Spec, FollowsLifecycle, Lifecycle!Spec
----------------------------------------------------------------------------
(* While every answer is heard: the calls of an analysis are those its     *)
(* attempts wait for, and what they work on is still in processing unless  *)
(* it was cancelled; a deleted document has only ended analyses; a failed  *)
(* run has a callback to come or an ended job; and a success of the run's  *)
(* own stage is about to be heard.                                         *)
HeardAt(a) ==
  /\ \A c \in Calls : calls[c].pc # "idle" /\ calls[c].a = a =>
       /\ runs[a].call = c
       /\ calls[c].pc \in {"work", "save", "fail"} => rows[a].job \in {"processing", "cancelled"}
  /\ deleted => rows[a].job \in FinishedJob \cup {"none"}
  /\ runs[a].state = "failed" => callbacks[a] # 0 \/ rows[a].job \in FinishedJob
  /\ rows[a].metrics[runs[a].stage] = "succeeded" =>
       \/ rows[a].job \in {"cancelled", "succeeded"} \/ runs[a].state = "success"
       \/ runs[a].task = "calling" /\ calls[runs[a].call].pc = "ok"

HeardInv == lost = 0 => \A a \in Analyses : HeardAt(a)

LEMMA LostGrows ==
  ASSUME IInv, [Next]_vars
  PROVE  lost \in Nat /\ (lost' = lost \/ lost' = lost + 1)
<1>1. lost \in Nat BY ConstantsAssumption DEF IInv, TypeOK
<1> DEFINE Goal == lost' = lost \/ lost' = lost + 1
<1>2. ASSUME NEW q \in Requests, ApiRequest(q) PROVE Goal
  BY <1>2 DEF ApiRequest, CreateAnalysis, RetryDispatch, PostRun, DispatchAccepted,
             DispatchErrored, RecordDispatch, AbandonRequest, bounds
<1>3. ASSUME NEW a \in Analyses,
             CreateDagRun(a) \/ AirflowRun(a) \/ TaskFailure(a) \/ CallbackDies(a) \/ ClearTask(a)
      PROVE  Goal
  BY <1>3 DEF CreateDagRun, AirflowRun, StartTask, PrepareFails, CallStage, AnswerOK,
              AnswerError, MarkAndRaise, AnswerLost, AttemptDies, CallGone,
              TaskFailure, CallbackDies, ClearTask, bounds
<1>4. ASSUME NEW c \in Calls, RunStage(c) \/ AnswerUnheard(c) PROVE Goal
  BY <1>4 DEF RunStage, ClaimRefused, ClaimDone, Claim, Work, WorkRejected, WorkFails,
              Answer, CompleteStage, CompleteUnacknowledged, CompleteNothing,
              FailStage, FailNothing, AnswerUnheard, bounds
<1>5. ASSUME DeleteDocument \/ UNCHANGED vars PROVE Goal
  BY <1>5 DEF DeleteDocument, vars, bounds
<1> QED BY <1>1, <1>2, <1>3, <1>4, <1>5 DEF Next

(* A step of one analysis leaves the others' promises alone.               *)
LEMMA HeardElsewhere ==
  ASSUME IInv, NEW a \in Analyses, NEW b \in Analyses, b # a, HeardAt(b),
         deleted' = deleted, runs'[b] = runs[b], callbacks'[b] = callbacks[b],
         rows'[b] = rows[b],
         \A c \in Calls : \/ calls'[c] = calls[c]
                          \/ /\ calls[c].pc = "idle" \/ calls[c].a = a
                             /\ calls'[c].pc = "idle" \/ calls'[c].a = a
  PROVE  HeardAt(b)'
<1>1. ASSUME NEW c \in Calls, calls'[c].pc # "idle", calls'[c].a = b
      PROVE  /\ runs'[b].call = c
             /\ calls'[c].pc \in {"work", "save", "fail"} =>
                  rows'[b].job \in {"processing", "cancelled"}
  BY <1>1 DEF HeardAt
<1>2. ASSUME runs[b].task = "calling" PROVE calls'[runs[b].call] = calls[runs[b].call]
  BY <1>2 DEF IInv, WaitsForItsCall
<1>3. rows'[b].metrics[runs'[b].stage] = "succeeded" =>
        \/ rows'[b].job \in {"cancelled", "succeeded"} \/ runs'[b].state = "success"
        \/ runs'[b].task = "calling" /\ calls'[runs'[b].call].pc = "ok"
  BY <1>2 DEF HeardAt
<1>4. /\ deleted' => rows'[b].job \in FinishedJob \cup {"none"}
      /\ runs'[b].state = "failed" => callbacks'[b] # 0 \/ rows'[b].job \in FinishedJob
  BY DEF HeardAt
<1> QED BY <1>1, <1>3, <1>4 DEF HeardAt

(* A call that is heard belongs to the running attempt that waits for it.  *)
LEMMA HeardCall ==
  ASSUME IInv, NEW c \in Calls, calls[c].pc # "idle", HeardAt(calls[c].a)
  PROVE  /\ calls[c].a \in Analyses /\ runs[calls[c].a].call = c
         /\ runs[calls[c].a].task = "calling" /\ runs[calls[c].a].state = "running"
         /\ calls[c].stage = runs[calls[c].a].stage
<1>1. calls[c].a \in Analyses /\ CallFollows(c) BY CallFacts
<1>2. runs[calls[c].a].call = c BY DEF HeardAt
<1>3. c # None BY ConstantsAssumption
<1>4. runs[calls[c].a].task = "calling" /\ runs[calls[c].a].state = "running"
  BY <1>1, <1>2, <1>3 DEF IInv, RunsLead
<1> QED BY <1>1, <1>2, <1>4 DEF CallFollows

(* Only an attempt that waits has calls.                                   *)
LEMMA NoCalls ==
  ASSUME IInv, NEW a \in Analyses, HeardAt(a), runs[a].task # "calling",
         NEW c \in Calls, calls[c].pc # "idle"
  PROVE  calls[c].a # a
  BY HeardCall

(* An operation on the row of an analysis that has nothing in flight.      *)
LEMMA HeardRows ==
  ASSUME IInv, NEW a \in Analyses, HeardAt(a), deleted' = deleted,
         runs'[a] = runs[a], callbacks'[a] = callbacks[a], calls' = calls,
         rows'[a].metrics = rows[a].metrics,
         \/ rows'[a].job = rows[a].job
         \/ /\ rows[a].job \in AwaitingDispatch \cup {"none"}
            /\ rows[a].job = "none" => ~deleted
  PROVE  HeardAt(a)'
<1>1. CASE rows'[a].job = rows[a].job BY <1>1 DEF HeardAt
<1>2. CASE /\ rows[a].job \in AwaitingDispatch \cup {"none"}
           /\ rows[a].job = "none" => ~deleted
  <2>1. rows[a].job \notin {"processing", "cancelled", "succeeded", "failed"}
    BY <1>2 DEF AwaitingDispatch
  <2>2. ~deleted BY <1>2, <2>1 DEF HeardAt, FinishedJob
  <2>3. rows[a].metrics[runs[a].stage] = "none"
    <3>1. RowInv(rows[a]) /\ runs[a].stage \in Stages BY InvFacts
    <3>2. rows[a].stage = 0 BY <1>2, <3>1 DEF RowInv
    <3> QED BY <3>1, <3>2 DEF RowInv, Stages
  <2> QED BY <2>1, <2>2, <2>3 DEF HeardAt, FinishedJob
<1> QED BY <1>1, <1>2

(* A request writes outputs and metrics of no row, and the job of none     *)
(* that was accepted.                                                      *)
ApiChange(a) ==
  /\ rows'[a].metrics = rows[a].metrics /\ rows'[a].out = rows[a].out
  /\ \/ rows'[a].job = rows[a].job
     \/ /\ rows[a].job \in AwaitingDispatch \cup {"none"}
        /\ rows[a].job = "none" => ~deleted

LEMMA ApiChanges ==
  ASSUME IInv, NEW q \in Requests, ApiRequest(q), NEW a \in Analyses
  PROVE  ApiChange(a)
<1>1. rows \in [Analyses -> RowType] /\ rows[a] \in RowType BY DEF IInv, TypeOK
<1>2. ASSUME NEW b \in Analyses, CreateAnalysis(q, b) PROVE ApiChange(a)
  <2>1. CASE a = b
    <3>1. /\ ~deleted /\ rows[a].job = "none"
          /\ rows'[a] = [rows[a] EXCEPT !.job = "dispatch_pending", !.status = "queued"]
      BY <1>1, <1>2, <2>1 DEF CreateAnalysis
    <3> QED BY <1>1, <3>1 DEF RowType, ApiChange
  <2>2. CASE a # b BY <1>1, <1>2, <2>2 DEF CreateAnalysis, ApiChange
  <2> QED BY <2>1, <2>2
<1>3. CASE RecordDispatch(q)
  <2> DEFINE b == requests[q].a
  <2>1. CASE a = b /\ DispatchChanges(b)
    <3>1. rows[a].job \in AwaitingDispatch /\ rows[a].job # "none"
      BY <2>1 DEF DispatchChanges, AwaitingDispatch
    <3>2. \/ rows'[a] = [rows[a] EXCEPT !.job = "dispatch_failed", !.status = "failed", !.stage = 0]
          \/ rows'[a] = [rows[a] EXCEPT !.job = "queued", !.status = "queued"]
      BY <1>1, <1>3, <2>1 DEF RecordDispatch
    <3>3. rows'[a].metrics = rows[a].metrics /\ rows'[a].out = rows[a].out
      BY <1>1, <3>2 DEF RowType
    <3> QED BY <3>1, <3>3 DEF ApiChange
  <2>2. CASE a # b \/ ~DispatchChanges(b)
    <3>1. rows'[a] = rows[a] BY <1>1, <1>3, <2>2 DEF RecordDispatch
    <3> QED BY <3>1 DEF ApiChange
  <2> QED BY <2>1, <2>2
<1>4. CASE \/ \E b \in Analyses : RetryDispatch(q, b)
           \/ PostRun(q) \/ DispatchAccepted(q) \/ DispatchErrored(q) \/ AbandonRequest(q)
  BY <1>4 DEF RetryDispatch, PostRun, DispatchAccepted, DispatchErrored, AbandonRequest, ApiChange
<1> QED BY <1>2, <1>3, <1>4 DEF ApiRequest

LEMMA HeardApi ==
  ASSUME IInv, NEW q \in Requests, ApiRequest(q), NEW a \in Analyses, HeardAt(a)
  PROVE  HeardAt(a)'
<1>1. runs' = runs /\ callbacks' = callbacks /\ calls' = calls /\ deleted' = deleted
  BY DEF ApiRequest, CreateAnalysis, RetryDispatch, PostRun, DispatchAccepted,
         DispatchErrored, RecordDispatch, AbandonRequest
<1> QED BY <1>1, ApiChanges, HeardRows DEF ApiChange

LEMMA HeardDelete ==
  ASSUME IInv, DeleteDocument, NEW a \in Analyses, HeardAt(a)
  PROVE  HeardAt(a)'
<1>1. runs' = runs /\ callbacks' = callbacks /\ calls' = calls /\ deleted' = TRUE
  BY DEF DeleteDocument
<1>2. rows[a] \in RowType BY InvFacts
<1>3. /\ rows'[a].metrics = rows[a].metrics
      /\ \/ rows'[a].job = "cancelled"
         \/ rows'[a].job = rows[a].job /\ rows[a].job \in FinishedJob \cup {"none"}
  <2>1. CASE CancelledByDelete(a)
    BY <1>2, <2>1 DEF DeleteDocument, RowType
  <2>2. CASE ~CancelledByDelete(a)
    BY <2>2 DEF DeleteDocument, CancelledByDelete
  <2> QED BY <2>1, <2>2
<1> QED BY <1>1, <1>3 DEF HeardAt, FinishedJob

(* mark_failed on the run's stage ends the row.                            *)
LEMMA MarkEnds ==
  ASSUME IInv, NEW a \in Analyses, HeardAt(a), MarkFailed(a, runs[a].stage),
         runs[a].task # "calling", runs[a].state # "success"
  PROVE  /\ rows'[a].job \in FinishedJob
         /\ rows'[a].metrics[runs[a].stage] = "succeeded" =>
              rows'[a].job \in {"cancelled", "succeeded"}
         /\ \A b \in Analyses \ {a} : rows'[b] = rows[b]
<1> DEFINE s == runs[a].stage
<1>1. rows \in [Analyses -> RowType] /\ rows[a] \in RowType /\ s \in Stages
  BY InvFacts DEF IInv, TypeOK
<1>2. CASE MarkRefused(a, s)
  <2>1. rows' = rows BY <1>2 DEF MarkFailed
  <2> QED BY <1>2, <2>1 DEF MarkRefused, HeardAt, FinishedJob
<1>3. CASE ~MarkRefused(a, s)
  <2>1. rows' = [rows EXCEPT ![a] = FailedAt(rows[a], s)] BY <1>3 DEF MarkFailed
  <2>2. FailedAt(rows[a], s).job = "failed" /\ FailedAt(rows[a], s).metrics[s] = "failed"
    BY <1>1 DEF FailedAt, RowType
  <2> QED BY <1>1, <2>1, <2>2 DEF FinishedJob
<1> QED BY <1>2, <1>3

LEMMA AttemptFailedRun ==
  ASSUME IInv, NEW a \in Analyses, AttemptFailed(a), runs[a].state = "running"
  PROVE  /\ runs'[a].task = "waiting" /\ runs'[a].stage = runs[a].stage
         /\ runs'[a].state \in {"running", "failed"}
         /\ runs'[a].state = "failed" => callbacks'[a] # 0
         /\ \A b \in Analyses \ {a} : runs'[b] = runs[b] /\ callbacks'[b] = callbacks[b]
<1>1. /\ runs \in [Analyses -> RunType] /\ runs[a] \in RunType
      /\ callbacks \in [Analyses -> 0..Summarize]
  BY DEF IInv, TypeOK
<1>2. CASE TriesLeft(a)
  <2>1. /\ runs' = [runs EXCEPT ![a] = [@ EXCEPT !.try = runs[a].try + 1,
                                                 !.task = "waiting", !.call = None]]
        /\ callbacks' = callbacks
    BY <1>2 DEF AttemptFailed
  <2>2. runs'[a] = [runs[a] EXCEPT !.try = runs[a].try + 1, !.task = "waiting", !.call = None]
    BY <1>1, <2>1
  <2>3. /\ runs'[a].task = "waiting" /\ runs'[a].stage = runs[a].stage
        /\ runs'[a].state = runs[a].state
    BY <1>1, <2>2 DEF RunType
  <2> QED BY <1>1, <2>1, <2>3
<1>3. CASE ~TriesLeft(a)
  <2>1. /\ runs' = [runs EXCEPT ![a] = [@ EXCEPT !.state = "failed",
                                                 !.task = "waiting", !.call = None]]
        /\ callbacks' = [callbacks EXCEPT ![a] = runs[a].stage]
    BY <1>3 DEF AttemptFailed
  <2>2. runs'[a] = [runs[a] EXCEPT !.state = "failed", !.task = "waiting", !.call = None]
    BY <1>1, <2>1
  <2>3. /\ runs'[a].task = "waiting" /\ runs'[a].stage = runs[a].stage
        /\ runs'[a].state = "failed"
    BY <1>1, <2>2 DEF RunType
  <2>4. callbacks'[a] # 0 BY <1>1, <2>1 DEF RunType, Stages
  <2> QED BY <1>1, <2>1, <2>3, <2>4
<1> QED BY <1>2, <1>3

(* A step of the run that leaves its row and its stage alone, and ends or  *)
(* keeps the call its attempt waits for.                                   *)
LEMMA HeardTask ==
  ASSUME IInv, NEW a \in Analyses, HeardAt(a), deleted' = deleted, rows' = rows,
         \A c \in Calls : calls'[c] = calls[c] \/ calls'[c] = IdleCall,
         \A c \in Calls : calls[c].a = a /\ calls'[c].pc # "idle" => runs'[a].call = c,
         runs'[a].stage = runs[a].stage,
         runs'[a].state = "failed" =>
           callbacks'[a] # 0 \/ (runs[a].state = "failed" /\ callbacks'[a] = callbacks[a]),
         runs[a].state = "success" => runs'[a].state = "success",
         runs[a].task = "calling" => calls[runs[a].call].pc # "ok"
  PROVE  HeardAt(a)'
<1>1. ASSUME NEW c \in Calls, calls'[c].pc # "idle", calls'[c].a = a
      PROVE  /\ runs'[a].call = c
             /\ calls'[c].pc \in {"work", "save", "fail"} =>
                  rows'[a].job \in {"processing", "cancelled"}
  BY <1>1, IdleCallValue DEF HeardAt
<1>2. rows[a].metrics[runs[a].stage] = "succeeded" =>
        rows[a].job \in {"cancelled", "succeeded"} \/ runs[a].state = "success"
  BY DEF HeardAt
<1>3. /\ deleted' => rows'[a].job \in FinishedJob \cup {"none"}
      /\ runs'[a].state = "failed" => callbacks'[a] # 0 \/ rows'[a].job \in FinishedJob
  BY DEF HeardAt
<1>4. rows'[a].metrics[runs'[a].stage] = "succeeded" =>
        \/ rows'[a].job \in {"cancelled", "succeeded"} \/ runs'[a].state = "success"
        \/ runs'[a].task = "calling" /\ calls'[runs'[a].call].pc = "ok"
  BY <1>2
<1> QED BY <1>1, <1>3, <1>4 DEF HeardAt

LEMMA HeardAirflow ==
  ASSUME IInv, NEW a \in Analyses, \A b \in Analyses : HeardAt(b), lost = 0, lost' = 0,
         CreateDagRun(a) \/ AirflowRun(a) \/ TaskFailure(a) \/ CallbackDies(a) \/ ClearTask(a)
  PROVE  \A b \in Analyses : HeardAt(b)'
<1>1. /\ runs \in [Analyses -> RunType] /\ runs[a] \in RunType /\ runs[a].stage \in Stages
      /\ calls \in [Calls -> CallType] /\ callbacks \in [Analyses -> 0..Summarize]
      /\ rows \in [Analyses -> RowType]
  BY InvFacts DEF IInv, TypeOK
<1>2. /\ runs[a].state # "failed" => callbacks[a] = 0
      /\ callbacks[a] # 0 => callbacks[a] = runs[a].stage
      /\ runs[a].call # None => runs[a].task = "calling"
      /\ runs[a].task # "waiting" => runs[a].state = "running"
  BY DEF IInv, RunsLead
<1>3. runs[a].task = "calling" =>
        /\ runs[a].call \in Calls /\ calls[runs[a].call].pc # "idle"
        /\ calls[runs[a].call].a = a
  BY DEF IInv, WaitsForItsCall
<1>4. HeardAt(a) OBVIOUS
<1>5. deleted' = deleted
  BY DEF CreateDagRun, AirflowRun, StartTask, PrepareFails, CallStage, AnswerOK,
         AnswerError, MarkAndRaise, AnswerLost, AttemptDies, TaskFailure, CallbackDies,
         ClearTask
<1> DEFINE Local == \A b \in Analyses \ {a} : /\ runs'[b] = runs[b] /\ callbacks'[b] = callbacks[b]
                                              /\ rows'[b] = rows[b]
           Mine == \A c \in Calls : \/ calls'[c] = calls[c]
                                    \/ /\ calls[c].pc = "idle" \/ calls[c].a = a
                                       /\ calls'[c].pc = "idle" \/ calls'[c].a = a
<1>6. SUFFICES Local /\ Mine /\ HeardAt(a)'
  <2>1. ASSUME NEW b \in Analyses, b # a PROVE HeardAt(b)'
    BY <1>5, <1>6, <2>1, HeardElsewhere
  <2> QED BY <1>6, <2>1
(* the dagRun is created                                                   *)
<1>7. CASE CreateDagRun(a)
  <2>1. calls' = calls /\ callbacks' = callbacks /\ rows' = rows BY <1>7 DEF CreateDagRun
  <2>2. Local BY <1>1, <1>7, <2>1 DEF CreateDagRun
  <2>3. CASE runs[a].state = "none"
    <3>1. runs'[a] = [runs[a] EXCEPT !.state = "running"] BY <1>1, <1>7, <2>3 DEF CreateDagRun
    <3>2. /\ runs'[a].state = "running" /\ runs'[a].stage = runs[a].stage
          /\ runs'[a].call = runs[a].call /\ runs[a].task = "waiting"
      BY <1>1, <1>2, <2>3, <3>1 DEF RunType
    <3>3. \A c \in Calls : calls[c].pc # "idle" => calls[c].a # a BY <1>4, <3>2, NoCalls
    <3>4. HeardAt(a)' BY <1>4, <1>5, <2>1, <2>3, <3>2, <3>3, HeardTask
    <3> QED BY <2>1, <2>2, <3>4
  <2>4. CASE runs[a].state # "none"
    <3>1. runs' = runs BY <1>7, <2>4 DEF CreateDagRun
    <3>2. HeardAt(a)' BY <1>4, <1>5, <2>1, <3>1 DEF HeardAt
    <3> QED BY <2>1, <2>2, <3>2
  <2> QED BY <2>3, <2>4
(* an attempt starts                                                       *)
<1>8. CASE PrepareFails(a)
  <2>1. /\ calls' = calls /\ callbacks' = callbacks /\ rows' = rows
        /\ runs[a].state = "running" /\ runs[a].task = "waiting"
        /\ runs' = [runs EXCEPT ![a] = [runs[a] EXCEPT !.task = "marking"]]
    BY <1>8 DEF PrepareFails, Running
  <2>2. runs'[a].state = "running" /\ runs'[a].stage = runs[a].stage
    BY <1>1, <2>1 DEF RunType
  <2>3. \A c \in Calls : calls[c].pc # "idle" => calls[c].a # a BY <1>4, <2>1, NoCalls
  <2>4. HeardAt(a)' BY <1>4, <1>5, <2>1, <2>2, <2>3, HeardTask
  <2> QED BY <1>1, <2>1, <2>4
<1>9. ASSUME NEW c \in Calls, CallStage(a, c) PROVE Local /\ Mine /\ HeardAt(a)'
  <2>1. /\ callbacks' = callbacks /\ rows' = rows /\ calls[c].pc = "idle"
        /\ runs[a].state = "running" /\ runs[a].task = "waiting"
        /\ runs' = [runs EXCEPT ![a] = [runs[a] EXCEPT !.task = "calling", !.call = c]]
        /\ calls' = [calls EXCEPT ![c] = [IdleCall EXCEPT !.pc = "claim", !.a = a,
                                                          !.stage = runs[a].stage]]
    BY <1>9 DEF CallStage, Running
  <2>2. /\ runs'[a].state = "running" /\ runs'[a].stage = runs[a].stage
        /\ runs'[a].call = c
    BY <1>1, <2>1 DEF RunType
  <2>3. /\ calls'[c].pc = "claim" /\ calls'[c].a = a
        /\ \A d \in Calls \ {c} : calls'[d] = calls[d]
    BY <1>1, <2>1 DEF IdleCall
  <2>4. \A d \in Calls : calls[d].pc # "idle" => calls[d].a # a BY <1>4, <2>1, NoCalls
  <2>5. \A d \in Calls : calls'[d].pc # "idle" /\ calls'[d].a = a => d = c
    BY <2>3, <2>4
  <2>6. rows[a].metrics[runs[a].stage] = "succeeded" => rows[a].job \in {"cancelled", "succeeded"}
    BY <1>4, <2>1 DEF HeardAt
  <2>7. HeardAt(a)' BY <1>4, <1>5, <2>1, <2>2, <2>3, <2>5, <2>6 DEF HeardAt
  <2> QED BY <1>1, <2>1, <2>3, <2>7
(* the stage succeeded                                                     *)
<1>10. CASE AnswerOK(a)
  <2>1. PICK c \in Calls :
          /\ c = runs[a].call /\ calls[c].pc = "ok" /\ calls[c].a = a
          /\ runs[a].state = "running"
          /\ calls' = [calls EXCEPT ![c] = IdleCall] /\ callbacks' = callbacks /\ rows' = rows
    BY <1>3, <1>10 DEF AnswerOK, Running
  <2>2. /\ calls'[c].pc = "idle" /\ \A d \in Calls \ {c} : calls'[d] = calls[d]
    BY <1>1, <2>1 DEF IdleCall
  <2>3. \A d \in Calls : calls'[d].pc # "idle" => calls'[d].a # a
    BY <1>4, <2>1, <2>2 DEF HeardAt
  <2>4. Local BY <1>1, <1>10, <2>1 DEF AnswerOK
  <2>5. CASE runs[a].stage = Summarize
    <3>1. runs'[a] = [runs[a] EXCEPT !.state = "success", !.task = "waiting", !.call = None]
      BY <1>1, <1>10, <2>5 DEF AnswerOK
    <3>2. runs'[a].state = "success" BY <1>1, <3>1 DEF RunType
    <3>3. HeardAt(a)' BY <1>4, <1>5, <2>1, <2>3, <3>2 DEF HeardAt
    <3> QED BY <2>1, <2>2, <2>4, <3>3
  <2>6. CASE runs[a].stage # Summarize
    <3>1. runs'[a] = [runs[a] EXCEPT !.stage = runs[a].stage + 1, !.try = 1,
                                     !.task = "waiting", !.call = None]
      BY <1>1, <1>10, <2>6 DEF AnswerOK
    <3>2. runs'[a].state = "running" /\ runs'[a].stage = runs[a].stage + 1
      BY <1>1, <2>1, <3>1 DEF RunType
    <3>3. rows[a].metrics[runs[a].stage + 1] = "none"
      <4>1. /\ RowInv(rows[a]) /\ rows[a].stage <= runs[a].stage /\ rows[a].stage \in 0..Summarize
        BY InvFacts DEF RowType
      <4>2. runs[a].stage + 1 \in Stages /\ runs[a].stage + 1 > rows[a].stage
        BY <1>1, <2>6, <4>1 DEF Stages, Summarize
      <4> QED BY <4>1, <4>2 DEF RowInv
    <3>4. HeardAt(a)' BY <1>4, <1>5, <2>1, <2>3, <3>2, <3>3 DEF HeardAt
    <3> QED BY <2>1, <2>2, <2>4, <3>4
  <2> QED BY <2>5, <2>6
(* ... or failed, and its error is heard or its answer lost                *)
<1>11. CASE AnswerError(a) \/ AnswerLost(a)
  <2>1. PICK c \in Calls :
          /\ c = runs[a].call /\ calls[c].pc # "ok" /\ calls[c].a = a
          /\ runs[a].state = "running" /\ runs[a].task = "calling"
          /\ calls' = [calls EXCEPT ![c] = IdleCall] /\ callbacks' = callbacks /\ rows' = rows
          /\ runs' = [runs EXCEPT ![a] = [runs[a] EXCEPT !.task = "marking", !.call = None]]
    BY <1>3, <1>11 DEF AnswerError, AnswerLost, CallGone, Running
  <2>2. /\ calls'[c] = IdleCall /\ IdleCall.pc = "idle"
        /\ \A d \in Calls \ {c} : calls'[d] = calls[d]
    BY <1>1, <2>1 DEF IdleCall
  <2>3. runs'[a].state = "running" /\ runs'[a].stage = runs[a].stage
    BY <1>1, <2>1 DEF RunType
  <2>4. \A d \in Calls : calls[d].a = a => calls'[d].pc = "idle"
    BY <1>4, <2>1, <2>2 DEF HeardAt
  <2>5. HeardAt(a)' BY <1>4, <1>5, <2>1, <2>2, <2>3, <2>4, HeardTask
  <2> QED BY <1>1, <2>1, <2>2, <2>5
(* the attempt ends                                                        *)
<1>12. CASE MarkAndRaise(a)
  <2>1. /\ runs[a].state = "running" /\ runs[a].task = "marking" /\ calls' = calls
        /\ MarkFailed(a, runs[a].stage) /\ AttemptFailed(a)
    BY <1>12 DEF MarkAndRaise, Running
  <2>2. /\ rows'[a].job \in FinishedJob
        /\ rows'[a].metrics[runs[a].stage] = "succeeded" =>
             rows'[a].job \in {"cancelled", "succeeded"}
        /\ \A b \in Analyses \ {a} : rows'[b] = rows[b]
    BY <1>4, <2>1, MarkEnds
  <2>3. /\ runs'[a].stage = runs[a].stage
        /\ \A b \in Analyses \ {a} : runs'[b] = runs[b] /\ callbacks'[b] = callbacks[b]
    BY <2>1, AttemptFailedRun
  <2>4. \A c \in Calls : calls[c].pc # "idle" => calls[c].a # a BY <1>4, <2>1, NoCalls
  <2>5. HeardAt(a)' BY <1>5, <2>1, <2>2, <2>3, <2>4 DEF HeardAt
  <2> QED BY <2>1, <2>2, <2>3, <2>5
<1>13. CASE AttemptDies(a)
  <2>1. /\ runs[a].state = "running" /\ AttemptFailed(a) /\ rows' = rows
        /\ IF runs[a].task = "calling"
           THEN /\ calls[runs[a].call].pc # "ok"
                /\ calls' = [calls EXCEPT ![runs[a].call] = IdleCall]
           ELSE calls' = calls
    BY <1>13 DEF AttemptDies, CallGone
  <2>2. /\ runs'[a].stage = runs[a].stage
        /\ runs'[a].state = "failed" => callbacks'[a] # 0
        /\ \A b \in Analyses \ {a} : runs'[b] = runs[b] /\ callbacks'[b] = callbacks[b]
    BY <2>1, AttemptFailedRun
  <2>3. IdleCall.pc = "idle" BY DEF IdleCall
  <2>4. /\ \A d \in Calls : calls'[d] = calls[d] \/ (calls[d].a = a /\ calls'[d] = IdleCall)
        /\ \A d \in Calls : calls[d].a = a => calls'[d].pc = "idle"
    <3>1. CASE runs[a].task = "calling"
      BY <1>1, <1>3, <1>4, <2>1, <2>3, <3>1 DEF HeardAt
    <3>2. CASE runs[a].task # "calling"
      <4>1. \A c \in Calls : calls[c].pc # "idle" => calls[c].a # a BY <1>4, <3>2, NoCalls
      <4> QED BY <2>1, <3>2, <4>1
    <3> QED BY <3>1, <3>2
  <2>5. runs[a].task = "calling" => calls[runs[a].call].pc # "ok" BY <2>1
  <2>6. HeardAt(a)' BY <1>4, <1>5, <2>1, <2>2, <2>4, <2>5, HeardTask
  <2> QED BY <2>1, <2>2, <2>3, <2>4, <2>6
(* the callback runs, dies, or the task is cleared                         *)
<1>14. CASE TaskFailure(a)
  <2>1. /\ callbacks[a] # 0 /\ MarkFailed(a, runs[a].stage) /\ runs' = runs /\ calls' = calls
        /\ callbacks' = [callbacks EXCEPT ![a] = 0]
    BY <1>2, <1>14 DEF TaskFailure
  <2>2. runs[a].state = "failed" /\ runs[a].task = "waiting" BY <1>2, <2>1
  <2>3. /\ rows'[a].job \in FinishedJob
        /\ rows'[a].metrics[runs[a].stage] = "succeeded" =>
             rows'[a].job \in {"cancelled", "succeeded"}
        /\ \A b \in Analyses \ {a} : rows'[b] = rows[b]
    BY <1>4, <2>1, <2>2, MarkEnds
  <2>4. \A c \in Calls : calls[c].pc # "idle" => calls[c].a # a BY <1>4, <2>2, NoCalls
  <2>5. HeardAt(a)' BY <1>5, <2>1, <2>3, <2>4 DEF HeardAt
  <2> QED BY <1>1, <2>1, <2>3, <2>5
<1>15. CASE CallbackDies(a) BY <1>15 DEF CallbackDies
<1>16. CASE ClearTask(a)
  <2>1. /\ runs[a].state = "failed" /\ calls' = calls /\ callbacks' = callbacks /\ rows' = rows
        /\ runs' = [runs EXCEPT ![a] = [runs[a] EXCEPT !.state = "running", !.try = 1]]
    BY <1>16 DEF ClearTask
  <2>2. runs'[a].state = "running" /\ runs'[a].stage = runs[a].stage /\ runs[a].task = "waiting"
    BY <1>1, <1>2, <2>1 DEF RunType
  <2>3. \A c \in Calls : calls[c].pc # "idle" => calls[c].a # a BY <1>4, <2>2, NoCalls
  <2>4. HeardAt(a)' BY <1>4, <1>5, <2>1, <2>2, <2>3, HeardTask
  <2> QED BY <1>1, <2>1, <2>4
<1> QED BY <1>7, <1>8, <1>9, <1>10, <1>11, <1>12, <1>13, <1>14, <1>15, <1>16
        DEF AirflowRun, StartTask

(* A step of a stage call: it is the one its running attempt waits for.    *)
LEMMA HeardRunStage ==
  ASSUME IInv, NEW c \in Calls, \A b \in Analyses : HeardAt(b), lost = 0, lost' = 0,
         RunStage(c)
  PROVE  \A b \in Analyses : HeardAt(b)'
<1>1. /\ calls[c].pc # "idle" /\ runs' = runs /\ callbacks' = callbacks /\ deleted' = deleted
  BY DEF RunStage, ClaimRefused, ClaimDone, Claim, Work, WorkRejected, WorkFails, Answer,
         CompleteStage, CompleteUnacknowledged, CompleteNothing, FailStage, FailNothing
<1>2. PICK a \in Analyses : a = calls[c].a BY <1>1, CallFacts
<1>3. PICK s \in Stages : s = calls[c].stage BY <1>1, CallFacts
<1>4. /\ HeardAt(a) /\ runs[a].call = c /\ runs[a].task = "calling"
      /\ runs[a].state = "running" /\ s = runs[a].stage
  BY <1>1, <1>2, <1>3, HeardCall
<1>5. /\ rows \in [Analyses -> RowType] /\ rows[a] \in RowType
      /\ calls \in [Calls -> CallType] /\ calls[c] \in CallType
  BY InvFacts DEF IInv, TypeOK
<1>6. /\ \A d \in Calls \ {c} : calls'[d] = calls[d]
      /\ calls'[c].a = a
  <2>1. CASE Claim(c)
    <3>1. PICK n : calls' = [calls EXCEPT ![c] = [calls[c] EXCEPT !.pc = "work", !.input = n]]
      BY <2>1 DEF Claim
    <3> QED BY <1>2, <1>5, <3>1 DEF CallType
  <2>2. ASSUME NEW pc, Answer(c, pc)
        PROVE  /\ \A d \in Calls \ {c} : calls'[d] = calls[d]
               /\ calls'[c].a = a
    <3>1. PICK n : calls' = [calls EXCEPT ![c] = [calls[c] EXCEPT !.pc = pc, !.product = n]]
      BY <2>2 DEF Answer
    <3> QED BY <1>2, <1>5, <3>1 DEF CallType
  <2>3. ASSUME NEW pc, Reply(c, pc)
        PROVE  /\ \A d \in Calls \ {c} : calls'[d] = calls[d]
               /\ calls'[c].a = a
    <3>1. calls' = [calls EXCEPT ![c] = [calls[c] EXCEPT !.pc = pc]]
      BY <2>3 DEF Reply
    <3> QED BY <1>2, <1>5, <3>1 DEF CallType
  <2> QED BY <2>1, <2>2, <2>3
          DEF RunStage, ClaimRefused, ClaimDone, Work, WorkRejected, WorkFails,
              CompleteStage, CompleteUnacknowledged, CompleteNothing, FailStage, FailNothing
<1>7. \A d \in Calls : calls[d].pc # "idle" /\ calls[d].a = a => d = c
  BY <1>4 DEF HeardAt
(* the row, as the call leaves it                                          *)
<1> DEFINE Local == \A b \in Analyses \ {a} : rows'[b] = rows[b]
           Follows == /\ calls'[c].pc \in {"work", "save", "fail"} =>
                           rows'[a].job \in {"processing", "cancelled"}
                      /\ deleted => rows'[a].job \in FinishedJob \cup {"none"}
                      /\ rows'[a].metrics[s] = "succeeded" =>
                           rows'[a].job \in {"cancelled", "succeeded"} \/ calls'[c].pc = "ok"
<1>8. SUFFICES Local /\ Follows
  <2>1. ASSUME NEW b \in Analyses, b # a PROVE HeardAt(b)'
    BY <1>1, <1>2, <1>6, <1>8, <2>1, HeardElsewhere
  <2>2. \A d \in Calls : calls'[d].pc # "idle" /\ calls'[d].a = a => d = c
    BY <1>6, <1>7
  <2>3. HeardAt(a)' BY <1>1, <1>4, <1>8, <2>2 DEF HeardAt
  <2> QED BY <2>1, <2>3
<1>9. /\ calls[c].pc \in {"work", "save", "fail"} => rows[a].job \in {"processing", "cancelled"}
      /\ deleted => rows[a].job \in FinishedJob \cup {"none"}
      /\ rows[a].metrics[s] = "succeeded" =>
           rows[a].job \in {"cancelled", "succeeded"} \/ calls[c].pc = "ok"
  BY <1>1, <1>2, <1>4 DEF HeardAt
<1>10. CASE ClaimRefused(c) \/ ClaimDone(c)
  <2>1. /\ rows' = rows /\ calls'[c].pc \in {"error", "ok"} /\ calls[c].pc = "claim"
    BY <1>5, <1>10 DEF ClaimRefused, ClaimDone, Reply, CallType
  <2> QED BY <1>9, <2>1
<1>11. CASE Claim(c)
  <2>1. /\ ~deleted /\ ~AlreadyDone(rows[a], s)
        /\ rows' = [rows EXCEPT ![a] = [rows[a] EXCEPT !.job = "processing",
                                          !.status = "processing", !.stage = s]]
    BY <1>2, <1>3, <1>11 DEF Claim
  <2>2. rows'[a].job = "processing" /\ rows'[a].metrics = rows[a].metrics
    BY <1>5, <2>1 DEF RowType
  <2> QED BY <1>5, <2>1, <2>2 DEF AlreadyDone
<1>12. CASE \/ Work(c) \/ WorkRejected(c) \/ WorkFails(c) \/ CompleteNothing(c) \/ FailNothing(c)
  <2>1. /\ rows' = rows /\ calls[c].pc \in {"work", "save", "fail"}
    BY <1>12 DEF Work, WorkRejected, WorkFails, CompleteNothing, FailNothing, Answer
  <2> QED BY <1>9, <2>1
<1>13. CASE CompleteStage(c)
  <2> DEFINE row == WithOutput(rows[a], calls[c])
  <2>1. /\ calls[c].pc = "save" /\ rows[a].job # "cancelled" /\ rows[a].stage = s
        /\ rows' = [rows EXCEPT ![a] = CompletedAt(row, s)]
        /\ calls' = [calls EXCEPT ![c].pc = "ok"]
    BY <1>2, <1>3, <1>13 DEF CompleteStage, Completes, SaveCompleted, Reply
  <2>2. rows[a].job = "processing" BY <1>9, <2>1
  <2>3. ~deleted BY <1>9, <2>2 DEF FinishedJob
  <2>4. calls'[c].pc = "ok" BY <1>5, <2>1 DEF CallType
  <2> QED BY <1>5, <2>1, <2>3, <2>4
<1>14. CASE CompleteUnacknowledged(c) BY <1>14 DEF CompleteUnacknowledged
<1>15. CASE FailStage(c)
  <2> DEFINE row == WithOutput(FailedAt(rows[a], s), calls[c])
  <2>1. /\ calls[c].pc = "fail" /\ rows[a].job # "cancelled" /\ rows[a].stage = s
        /\ rows' = [rows EXCEPT ![a] = row]
        /\ calls' = [calls EXCEPT ![c].pc = "error"]
        /\ rows[a].metrics[s] # "succeeded"
    BY <1>2, <1>3, <1>15 DEF FailStage, Fails, Reply
  <2>2. rows[a].job = "processing" BY <1>9, <2>1
  <2>3. ~deleted BY <1>9, <2>2 DEF FinishedJob
  <2>4. calls'[c].pc = "error" BY <1>5, <2>1 DEF CallType
  <2>5. Passed(rows[a], s) /\ rows[a].stage <= s BY <1>4, InvFacts
  <2>6. /\ FailedAt(rows[a], s) \in RowType /\ FailedAt(rows[a], s).stage = s
        /\ FailedAt(rows[a], s).metrics[s] = "failed"
    <3>1. GoodStep(rows[a], FailedAt(rows[a], s)) /\ FailedAt(rows[a], s).stage = s
      BY <1>5, <2>1, <2>2, <2>5, InvFacts, FailedRow
    <3> QED BY <1>5, <3>1 DEF GoodStep, FailedAt, RowType
  <2>7. row.metrics[s] = "failed"
    BY <1>3, <1>5, <2>6, OutputRow
  <2> QED BY <1>5, <2>1, <2>3, <2>4, <2>7
<1> QED BY <1>10, <1>11, <1>12, <1>13, <1>14, <1>15 DEF RunStage

LEMMA HeardStep == IInv /\ HeardInv /\ [Next]_vars => HeardInv'
<1> SUFFICES ASSUME IInv, HeardInv, [Next]_vars, lost' = 0
             PROVE  \A a \in Analyses : HeardAt(a)'
  BY DEF HeardInv
<1>1. lost = 0 BY LostGrows
<1>2. \A a \in Analyses : HeardAt(a) BY <1>1 DEF HeardInv
<1>3. ASSUME NEW q \in Requests, ApiRequest(q) PROVE \A a \in Analyses : HeardAt(a)'
  BY <1>2, <1>3, HeardApi
<1>4. CASE DeleteDocument BY <1>2, <1>4, HeardDelete
<1>5. ASSUME NEW a \in Analyses,
             CreateDagRun(a) \/ AirflowRun(a) \/ TaskFailure(a) \/ CallbackDies(a) \/ ClearTask(a)
      PROVE  \A b \in Analyses : HeardAt(b)'
  BY <1>1, <1>2, <1>5, HeardAirflow
<1>6. ASSUME NEW c \in Calls, RunStage(c) PROVE \A b \in Analyses : HeardAt(b)'
  BY <1>1, <1>2, <1>6, HeardRunStage
<1>7. ASSUME NEW c \in Calls, AnswerUnheard(c) PROVE FALSE
  BY <1>2, <1>7, HeardCall, CallFacts DEF AnswerUnheard
<1>8. CASE UNCHANGED vars BY <1>2, <1>8 DEF vars, HeardAt
<1> QED BY <1>3, <1>4, <1>5, <1>6, <1>7, <1>8 DEF Next

LEMMA HeardAlways == Spec => []HeardInv
<1>1. Init => HeardInv
  <2> SUFFICES ASSUME Init, NEW a \in Analyses PROVE HeardAt(a)
    BY DEF HeardInv
  <2>1. /\ \A c \in Calls : calls[c].pc = "idle"
        /\ deleted = FALSE /\ runs[a].state = "none" /\ runs[a].stage = 1
        /\ rows[a].metrics = [s \in Stages |-> "none"]
    BY DEF Init, IdleCall, NoRun, NoAnalysis
  <2>2. rows[a].metrics[1] = "none" BY <2>1 DEF Stages, Summarize
  <2> QED BY <2>1, <2>2 DEF HeardAt
<1> QED BY <1>1, Invariance, HeardStep, PTL DEF Spec

(* runner.go promises a classified terminal failure: while every answer is *)
(* heard, a run that failed for good leaves no analysis in processing.     *)
THEOREM NeverStranded == Spec => []NotStrandedUnlessLost
<1>1. HeardInv => NotStrandedUnlessLost
  BY DEF HeardInv, HeardAt, NotStrandedUnlessLost, Quiet
<1> QED BY <1>1, HeardAlways, PTL

(* documents/store.go fences the workers of a deleted document: while      *)
(* every answer is heard, CompleteStage and FailStage publish nothing for  *)
(* an analysis whose document is deleted.                                  *)
THEOREM DeletedAlwaysFenced == Spec => DeletedFencedUnlessLost
<1> DEFINE A == deleted /\ lost' = 0 => \A a \in Analyses : rows'[a].out = rows[a].out
<1>1. IInv /\ HeardInv /\ [Next]_vars => [A]_vars
  <2> SUFFICES ASSUME IInv, HeardInv, [Next]_vars, deleted, lost' = 0, NEW a \in Analyses
               PROVE  rows'[a].out = rows[a].out
    OBVIOUS
  <2>1. \A b \in Analyses : HeardAt(b) BY LostGrows DEF HeardInv
  <2>2. rows \in [Analyses -> RowType] /\ rows[a] \in RowType BY DEF IInv, TypeOK
  <2>3. ASSUME NEW c \in Calls, RunStage(c) PROVE rows' = rows
    <3>1. ASSUME calls[c].pc \in {"save", "fail"} PROVE rows[calls[c].a].job = "cancelled"
      BY <2>1, <3>1, CallFacts DEF HeardAt, FinishedJob
    <3> QED BY <2>3, <3>1
            DEF RunStage, ClaimRefused, ClaimDone, Claim, Work, WorkRejected, WorkFails, Answer,
                CompleteStage, CompleteUnacknowledged, CompleteNothing, FailStage, FailNothing,
                Completes, Fails
  <2>4. ASSUME NEW q \in Requests, ApiRequest(q) PROVE rows'[a].out = rows[a].out
    BY <2>4, ApiChanges DEF ApiChange
  <2>5. CASE DeleteDocument BY <2>2, <2>5 DEF DeleteDocument, RowType
  <2>6. ASSUME NEW b \in Analyses,
               CreateDagRun(b) \/ AirflowRun(b) \/ TaskFailure(b) \/ CallbackDies(b) \/ ClearTask(b)
        PROVE  rows'[a].out = rows[a].out
    <3>1. rows' = rows \/ \E s \in Stages : rows' = [rows EXCEPT ![b] = FailedAt(rows[b], s)]
      BY <2>6, InvFacts
      DEF CreateDagRun, AirflowRun, StartTask, PrepareFails, CallStage, AnswerOK, AnswerError,
          MarkAndRaise, AnswerLost, AttemptDies, TaskFailure, CallbackDies, ClearTask,
          MarkFailed, IInv, RunsLead
    <3>2. \A s \in Stages : FailedAt(rows[a], s).out = rows[a].out
      BY <2>2 DEF FailedAt, RowType
    <3> QED BY <2>2, <3>1, <3>2
  <2>7. ASSUME NEW c \in Calls, AnswerUnheard(c) PROVE rows' = rows
    BY <2>7 DEF AnswerUnheard
  <2>8. CASE UNCHANGED vars BY <2>8 DEF vars
  <2> QED BY <2>3, <2>4, <2>5, <2>6, <2>7, <2>8 DEF Next
<1> QED BY <1>1, HeardAlways, Invariance, PTL DEF Spec, DeletedFencedUnlessLost
=============================================================================
