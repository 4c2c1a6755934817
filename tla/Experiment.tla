----------------------------- MODULE Experiment -----------------------------
(***************************************************************************)
(* A parameter sweep: one experiment whose cells Advance takes forward one *)
(* step a call (experiment/advance.go, store.go), preparing the library    *)
(* (documents/index.go) and launching evaluation runs (LaunchRun).  Calls  *)
(* come from the rag_parameter_sweep DAG, its retry and the Experiments    *)
(* page; a call reads the cells once and then works on what it read, one   *)
(* committed statement after the other.                                    *)
(***************************************************************************)
EXTENDS Naturals, Sequences, FiniteSets, FiniteSetsExt, SweepMatrix

CONSTANTS Requests,   \* what may be asked for: [matrix, combination_limit]
          Base,       \* the base configuration, a value per dimension
          Docs,       \* live documents, indexed for the base at first
          Calls,      \* Advance calls in flight
          None,
          MaxRuns,    \* bound: evaluation runs launched
          MaxTrouble  \* bound: kinds of trouble in one behaviour

ASSUME RequestsAssumption ==
  /\ Base \in [ToSet(Dimensions) -> Nat]
  /\ \A q \in Requests : q.matrix \in [ToSet(Dimensions) -> Seq(Nat)]

ASSUME ExperimentAssumption ==
  /\ MaxRuns \in Nat /\ MaxTrouble \in Nat
  /\ None \notin Nat \cup Docs \cup Calls

VARIABLES matrix,    \* experiments.requested_matrix
          status,    \* experiments.status
          cells,     \* experiment_combinations
          runs,      \* the evaluation runs launched, oldest first
          docs,      \* per document: active index, latest index, its state
          calls,
          trouble    \* what has gone wrong so far, for the properties

vars == <<matrix, status, cells, runs, docs, calls, trouble>>

Settled == {"completed", "partial", "failed", "dispatch_failed"}
OverUnlessCompleted(s) == s \in Settled \ {"completed"}   \* mutant
Over(s) == s \in Settled

NewCell(s) ==
  [setting |-> s, config |-> FALSE, dispatched |-> FALSE, ready |-> FALSE, indexErr |-> FALSE,
   run |-> None, runErr |-> FALSE, runStatus |-> "none"]
IdleCall == [pc |-> "idle", seen |-> <<>>, cell |-> 0, needed |-> FALSE, todo |-> {},
             doc |-> None, run |-> None, runStatus |-> "none"]

(* The chunking a setting needs; the embedding is the base's.              *)
IndexOf(setting) == <<setting["chunk_size"], setting["chunk_overlap"]>>

(* Create: an empty matrix, or one above its limit, is refused before      *)
(* anything is stored; the cells are stored with the experiment.           *)
Accepted(q) == /\ Declares(q.matrix)
               /\ Len(Expand(Base, q.matrix)) <= q.combination_limit

Init ==
  /\ \E q \in {q \in Requests : Accepted(q)} :
       LET settings == Expand(Base, q.matrix) IN
       /\ matrix = q.matrix
       /\ cells = [c \in 1..Len(settings) |-> NewCell(settings[c])]
  /\ status = "created"
  /\ runs = <<>>
  /\ docs = [d \in Docs |-> [active |-> IndexOf(Base), latest |-> IndexOf(Base), state |-> "ready"]]
  /\ calls = [k \in Calls |-> IdleCall]
  /\ trouble = {}

Cells == DOMAIN cells
Needs(c) == IndexOf(cells[c].setting)

(* Each kind of trouble comes once, and MaxTrouble kinds at most.          *)
Suffer(kind) == /\ kind \notin trouble /\ Cardinality(trouble) < MaxTrouble
                /\ trouble' = trouble \cup {kind}
----------------------------------------------------------------------------
Failed(row) == row.indexErr \/ row.runErr
DoneWhenCompleted(row) == row.runStatus = "completed"   \* mutant
Done(row) == row.runStatus \in Settled

(* The loop of Advance: on to the next cell read that is not handled.      *)
ScanFrom(k, seen, c) ==
  LET open == {d \in Cells : d > c /\ ~Failed(seen[d]) /\ ~Done(seen[d])} IN
  calls' = [calls EXCEPT ![k] =
    IF open = {} THEN [IdleCall EXCEPT !.pc = "finalize", !.seen = seen]
    ELSE [IdleCall EXCEPT !.pc = IF seen[Min(open)].config THEN "load" ELSE "config",
                          !.seen = seen, !.cell = Min(open)]]

Go(k, pc) == calls' = [calls EXCEPT ![k].pc = pc]
Answer(k) == calls' = [calls EXCEPT ![k] = IdleCall]
At(k, pc) == calls[k].pc = pc
Row(k) == calls[k].seen[calls[k].cell]

SetCell(k, f, v) == cells' = [cells EXCEPT ![calls[k].cell] = [@ EXCEPT ![f] = v]]

(* An update whose error the code ignores may be lost.                     *)
OrDropped(update) ==
  \/ update /\ UNCHANGED trouble
  \/ UNCHANGED cells /\ Suffer("dropped")
----------------------------------------------------------------------------
BeginAdvance(k) ==
  /\ At(k, "idle") /\ ~Over(status)
  /\ Go(k, "get")
  /\ IF \E j \in Calls \ {k} : calls[j].pc # "idle" THEN Suffer("overlap") ELSE UNCHANGED trouble
  /\ UNCHANGED <<matrix, status, cells, runs, docs>>

(* Store.Get reads the experiment's row and then its cells.                *)
GetExperiment(k) ==
  /\ At(k, "get")
  /\ IF Over(status) THEN Answer(k) ELSE Go(k, "rows")
  /\ UNCHANGED <<matrix, status, cells, runs, docs, trouble>>

GetCells(k) ==
  /\ At(k, "rows")
  /\ ScanFrom(k, cells, 0)
  /\ UNCHANGED <<matrix, status, cells, runs, docs, trouble>>

(* Step 1.  The identity has a fixed name, so one that an interrupted call *)
(* created is found and used.                                              *)
CreateConfig(k) ==
  /\ At(k, "config")
  /\ SetCell(k, "config", TRUE)
  /\ Answer(k)
  /\ UNCHANGED <<matrix, status, runs, docs, trouble>>

LoadConfig(k) ==
  /\ At(k, "load")
  /\ \/ /\ Go(k, IF ~Row(k).dispatched \/ ~Row(k).ready THEN "plan"
                 ELSE IF Row(k).run = None THEN "create" ELSE "refresh")
        /\ UNCHANGED trouble
     \/ Go(k, "fail_index") /\ Suffer("misread")
  /\ UNCHANGED <<matrix, status, cells, runs, docs>>

(* ReindexNeeded, for a cell not dispatched yet or waiting for its index.  *)
IndexFailed(i) == \E d \in Docs : docs[d].state = "failed" /\ docs[d].latest = i
ReindexIfAllMissing(i) == \A d \in Docs : docs[d].active # i   \* mutant
ReindexNeeded(i) == \E d \in Docs : docs[d].active # i

Plan(k) ==
  LET i == Needs(calls[k].cell) IN
  /\ At(k, "plan")
  /\ \/ IndexFailed(i) /\ Go(k, "fail_index")
     \/ /\ ~IndexFailed(i) /\ ~Row(k).dispatched
        /\ calls' = [calls EXCEPT ![k] =
                      [@ EXCEPT !.needed = ReindexNeeded(i), !.todo = Docs,
                                !.pc = IF ReindexNeeded(i) THEN "reprocess" ELSE "mark"]]
     \/ ~IndexFailed(i) /\ Row(k).dispatched /\ ReindexNeeded(i) /\ Answer(k)
     \/ ~IndexFailed(i) /\ Row(k).dispatched /\ ~ReindexNeeded(i) /\ Go(k, "ready")
  /\ UNCHANGED <<matrix, status, cells, runs, docs, trouble>>

(* DispatchIndex: Reprocess refuses a document whose latest revision is    *)
(* pending, and the first refusal ends it.                                 *)
Reprocess(k, d) ==
  /\ At(k, "reprocess") /\ d \in calls[k].todo
  /\ IF docs[d].state \in {"pending", "queued"}
     THEN Go(k, "fail_index") /\ UNCHANGED docs
     ELSE /\ docs' = [docs EXCEPT ![d] = [@ EXCEPT !.latest = Needs(calls[k].cell),
                                                   !.state = "pending"]]
          /\ calls' = [calls EXCEPT ![k] = [@ EXCEPT !.pc = "dispatch", !.doc = d,
                                                     !.todo = calls[k].todo \ {d}]]
  /\ UNCHANGED <<matrix, status, cells, runs, trouble>>

(* A refused dispatch leaves the revision pending; one whose answer is     *)
(* lost counts as refused and indexes the document all the same.           *)
DispatchDocument(k) ==
  /\ At(k, "dispatch")
  /\ \/ /\ docs' = [docs EXCEPT ![calls[k].doc].state = "queued"]
        /\ \/ Go(k, IF calls[k].todo = {} THEN "mark" ELSE "reprocess")
           \/ Go(k, "fail_index")
     \/ Go(k, "fail_index") /\ UNCHANGED docs
  /\ UNCHANGED <<matrix, status, cells, runs, trouble>>

MarkIndexDispatched(k) ==
  /\ At(k, "mark")
  /\ SetCell(k, "dispatched", TRUE)
  /\ IF calls[k].needed THEN Answer(k) ELSE Go(k, "ready")
  /\ UNCHANGED <<matrix, status, runs, docs, trouble>>

(* setIndexOutcome; step 3 then goes on to the run.                        *)
SetReady(k) ==
  /\ At(k, "ready")
  /\ cells' = [cells EXCEPT ![calls[k].cell] = [@ EXCEPT !.ready = TRUE, !.indexErr = FALSE]]
  /\ IF ~Row(k).dispatched THEN Answer(k)
     ELSE Go(k, IF Row(k).run = None THEN "create" ELSE "refresh")
  /\ UNCHANGED <<matrix, status, runs, docs, trouble>>
----------------------------------------------------------------------------
(* Step 4, LaunchRun.  The run pins the documents' active revisions.       *)
CreateRun(k) ==
  /\ At(k, "create")
  /\ \/ /\ Len(runs) < MaxRuns
        /\ runs' = Append(runs, [cell |-> calls[k].cell, status |-> "created",
                                 executing |-> FALSE, pinned |-> [d \in Docs |-> docs[d].active]])
        /\ calls' = [calls EXCEPT ![k] = [@ EXCEPT !.pc = "mark_run", !.run = Len(runs) + 1]]
     \/ Go(k, "fail_run") /\ UNCHANGED runs
  /\ UNCHANGED <<matrix, status, cells, docs, trouble>>

MarkRunning(k) ==
  /\ At(k, "mark_run")
  /\ \/ runs' = [runs EXCEPT ![calls[k].run].status = "running"] /\ Go(k, "dispatch_run")
     \/ Go(k, "fail_run") /\ UNCHANGED runs
  /\ UNCHANGED <<matrix, status, cells, docs, trouble>>

(* Dispatch, record, read: a run refused is returned with its id; a record *)
(* or read that fails returns no run, though Airflow has one.              *)
DispatchRun(k) ==
  LET r == calls[k].run IN
  /\ At(k, "dispatch_run")
  /\ \/ /\ runs' = [runs EXCEPT ![r].executing = TRUE]
        /\ \/ calls' = [calls EXCEPT ![k] = [@ EXCEPT !.pc = "link", !.runStatus = "running"]]
           \/ Go(k, "fail_run")
     \/ /\ runs' = [runs EXCEPT ![r].status = "dispatch_failed"]
        /\ calls' = [calls EXCEPT ![k] = [@ EXCEPT !.pc = "link",
                                           !.runStatus = "dispatch_failed"]]
  /\ UNCHANGED <<matrix, status, cells, docs, trouble>>

(* setEvalRun reads the link and then writes it.  After a refused dispatch *)
(* its error is ignored.                                                   *)
LinkConflict(k) == cells[calls[k].cell].run \notin {None, calls[k].run}

ReadLink(k) ==
  /\ At(k, "link")
  /\ IF ~LinkConflict(k) THEN Go(k, "write_link")
     ELSE IF calls[k].runStatus = "dispatch_failed" THEN Go(k, "outcome") ELSE Answer(k)
  /\ UNCHANGED <<matrix, status, cells, runs, docs, trouble>>

ClearedRow(row, r) == [row EXCEPT !.runErr = FALSE]   \* mutant: the link is not stored
LinkedRow(row, r) == [row EXCEPT !.run = r, !.runErr = FALSE]

WriteLink(k) ==
  LET written == cells' = [cells EXCEPT ![calls[k].cell] = LinkedRow(@, calls[k].run)] IN
  /\ At(k, "write_link")
  /\ IF calls[k].runStatus = "dispatch_failed" THEN OrDropped(written)
     ELSE written /\ UNCHANGED trouble
  /\ Go(k, "outcome")
  /\ UNCHANGED <<matrix, status, runs, docs>>

(* setEvalRunOutcome, after a launch or a refresh.                         *)
SetOutcome(k) ==
  /\ At(k, "outcome")
  /\ OrDropped(SetCell(k, "runStatus", calls[k].runStatus))
  /\ IF calls[k].runStatus = "dispatch_failed" THEN Go(k, "fail_run") ELSE Answer(k)
  /\ UNCHANGED <<matrix, status, runs, docs>>

(* Step 5.                                                                 *)
Refresh(k) ==
  /\ At(k, "refresh")
  /\ \/ /\ calls' = [calls EXCEPT ![k] = [@ EXCEPT !.pc = "outcome",
                                           !.runStatus = runs[Row(k).run].status]]
        /\ UNCHANGED trouble
     \/ Go(k, "fail_run") /\ Suffer("misread")
  /\ UNCHANGED <<matrix, status, cells, runs, docs>>

(* setFailure.  The scan goes on, except when step 5 met a refused run.    *)
FailedRowUnlinked(row, pc) == [row EXCEPT !.runErr = TRUE, !.run = None]   \* mutant
FailedRow(row, pc) ==
  IF pc = "fail_index" THEN [row EXCEPT !.indexErr = TRUE] ELSE [row EXCEPT !.runErr = TRUE]

SetFailure(k) ==
  /\ calls[k].pc \in {"fail_index", "fail_run"}
  /\ OrDropped(cells' = [cells EXCEPT ![calls[k].cell] = FailedRow(@, calls[k].pc)])
  /\ IF Row(k).run # None /\ calls[k].runStatus = "dispatch_failed" THEN Answer(k)
     ELSE ScanFrom(k, calls[k].seen, calls[k].cell)
  /\ UNCHANGED <<matrix, status, runs, docs>>

(* finalize counts the cells as they were read, and setExperimentStatus    *)
(* spares a dispatch failure only, which nothing stores.                   *)
AggregateOfLinks(seen) ==   \* mutant: failures of linked cells do not count
  IF \A c \in Cells : seen[c].run # None THEN "completed" ELSE "failed"
Aggregate(seen) ==
  LET failed == {c \in Cells : Failed(seen[c])}
      linked == {c \in Cells \ failed : seen[c].run # None}
  IN CASE failed # {} /\ linked # {} -> "partial"
       [] failed # {} /\ linked = {} -> "failed"
       [] failed = {} /\ linked = Cells -> "completed"
       [] OTHER -> "created"

Finalize(k) ==
  /\ At(k, "finalize")
  /\ status' = Aggregate(calls[k].seen)
  /\ Answer(k)
  /\ UNCHANGED <<matrix, cells, runs, docs, trouble>>

(* The API dies, or an error that is not ignored ends the call.            *)
CallDies(k) ==
  /\ calls[k].pc \notin {"idle", "get"}
  /\ Answer(k) /\ Suffer("crash")
  /\ UNCHANGED <<matrix, status, cells, runs, docs>>
----------------------------------------------------------------------------
(* The rest of the system.  document_reindex publishes a queued revision   *)
(* or fails it; a run stores its cases, and from the first one on shows    *)
(* partial or failed, which nothing here tells apart.                      *)
IndexDocument(d) ==
  /\ docs[d].state = "queued"
  /\ \/ docs' = [docs EXCEPT ![d] = [@ EXCEPT !.active = docs[d].latest, !.state = "ready"]]
     \/ docs' = [docs EXCEPT ![d].state = "failed"]
  /\ UNCHANGED <<matrix, status, cells, runs, calls, trouble>>

StoreCase(r) ==
  /\ runs[r].executing
  /\ runs' = [runs EXCEPT ![r].status = "partial"]
  /\ UNCHANGED <<matrix, status, cells, docs, calls, trouble>>

StoreLastCase(r) ==
  /\ runs[r].executing
  /\ \E s \in {"completed", "partial"} :
       runs' = [runs EXCEPT ![r] = [@ EXCEPT !.status = s, !.executing = FALSE]]
  /\ UNCHANGED <<matrix, status, cells, docs, calls, trouble>>

Work(k) ==
  \/ GetExperiment(k) \/ GetCells(k) \/ CreateConfig(k) \/ LoadConfig(k) \/ Plan(k)
  \/ (\E d \in Docs : Reprocess(k, d)) \/ DispatchDocument(k)
  \/ MarkIndexDispatched(k) \/ SetReady(k) \/ CreateRun(k) \/ MarkRunning(k) \/ DispatchRun(k)
  \/ ReadLink(k) \/ WriteLink(k) \/ SetOutcome(k) \/ Refresh(k) \/ SetFailure(k) \/ Finalize(k)

Next ==
  \/ \E k \in Calls : BeginAdvance(k) \/ Work(k) \/ CallDies(k)
  \/ \E d \in Docs : IndexDocument(d)
  \/ \E r \in DOMAIN runs : StoreCase(r) \/ StoreLastCase(r)

Spec == Init /\ [][Next]_vars

----------------------------------------------------------------------------
(* Properties.                                                             *)

Alone == "overlap" \notin trouble

(* advance.go:43: retries never duplicate runs.  With one call at a time,  *)
(* no call that died and no lost update, a cell has one run at most.       *)
OneRunPerCell ==
  trouble \subseteq {"misread"} =>
    \A r, s \in DOMAIN runs : runs[r].cell = runs[s].cell => r = s

(* A sweep that completed has every combination of the requested matrix in *)
(* exactly one cell, each linked to a run launched for it that already had *)
(* a result to show.  That run may still be executing its other cases: the *)
(* first one makes it partial, which Done takes for its end.  It may be a  *)
(* run whose dispatch was refused, if the call died, or lost an update,    *)
(* before it stored the cell's failure.  No cell has failed, unless it was *)
(* a cell the last pass could not read: finalize does not count that one.  *)
(* A sweep that failed, in whole or in part, has a failed cell.  Calls run *)
(* one after the other.                                                    *)
ShowsResult(r) ==
  \/ runs[r].status \in {"completed", "partial"}
  \/ runs[r].status = "dispatch_failed" /\ trouble \cap {"crash", "dropped"} # {}

SettledIsWhole ==
  Alone =>
    /\ status = "completed" =>
         /\ \A s \in Combinations(Base, matrix) :
              Cardinality({c \in Cells : cells[c].setting = s}) = 1
         /\ \A c \in Cells :
              /\ cells[c].setting \in Combinations(Base, matrix)
              /\ cells[c].run \in DOMAIN runs /\ runs[cells[c].run].cell = c
              /\ "misread" \notin trouble => ShowsResult(cells[c].run) /\ ~Failed(cells[c])
    /\ status \in {"partial", "failed"} => \E c \in Cells : Failed(cells[c])

(* Calls that die or lose an update never undo what an earlier one stored: *)
(* a linked run stays the cell's run, and a settled sweep stays as it is.  *)
(* Only calls that run beside each other can.                              *)
NothingUndone ==
  [][Alone' => /\ \A c \in Cells : cells[c].run # None => cells'[c].run = cells[c].run
               /\ status \in Settled => UNCHANGED <<status, cells>>]_vars

(* migrations/0012: a failed reindex blocks evaluation.  While no call ran *)
(* beside another and no failure was lost, a run is launched on the        *)
(* indexes its cell asks for, unless some cell of the sweep has failed.    *)
RunsUseTheirIndex ==
  trouble \cap {"overlap", "dropped"} = {} /\ (\A c \in Cells : ~Failed(cells[c])) =>
    \A r \in DOMAIN runs : \A d \in Docs : runs[r].pinned[d] = Needs(runs[r].cell)

=============================================================================
