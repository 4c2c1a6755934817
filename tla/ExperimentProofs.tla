-------------------------- MODULE ExperimentProofs --------------------------
(***************************************************************************)
(* Proofs about parameter sweeps (Experiment), and about one that its DAG  *)
(* drives (SweepDag).  Typed, the first invariant, holds whatever happens. *)
(* Quiet says what a call may rely on while no other call ran beside it:   *)
(* what it read is still so, but for its own cell, which is taken forward  *)
(* in order and has neither failed nor ended.  Five invariants rest on     *)
(* Quiet, each under the trouble its property allows: RunsKept (every run  *)
(* created stays with its cell), WholeInv (what finalize counts is what    *)
(* the cells hold), LinkedInv (a cell's run is its own, and showed a       *)
(* result before the cell said so), RefusedInv (a refused run's cell has   *)
(* failed, or is about to) and ServedInv (documents on their way go to the *)
(* index of the cell whose turn it is).                                    *)
(***************************************************************************)
EXTENDS SweepDag, FiniteSetTheorems, SequenceTheorems, WellFoundedInduction, TLAPS

(* The expansion of the stored matrix is fixed when the experiment is      *)
(* created; what it lists is AlwaysExpandsOnce, further down.              *)

Settings == Expand(Base, matrix)
Places == 1..Len(Settings)
Indexes == {IndexOf(s) : s \in {Base} \cup {Settings[c] : c \in Places}}

RunStatus == {"none", "created", "running", "partial", "completed", "dispatch_failed"}
CellType == [setting : {Settings[c] : c \in Places}, config : BOOLEAN, dispatched : BOOLEAN,
             ready : BOOLEAN, indexErr : BOOLEAN, run : Nat \cup {None}, runErr : BOOLEAN,
             runStatus : RunStatus]
RunType == [cell : Places, status : RunStatus, executing : BOOLEAN, pinned : [Docs -> Indexes]]
DocType == [active : Indexes, latest : Indexes, state : {"ready", "pending", "queued", "failed"}]

Launching == {"mark_run", "dispatch_run", "link", "write_link"}
Handling == {"config", "load", "plan", "reprocess", "dispatch", "mark", "ready", "create",
             "outcome", "refresh", "fail_index", "fail_run"} \cup Launching
PC == {"idle", "get", "rows", "finalize"} \cup Handling
CallType == [pc : PC, seen : {<<>>} \cup [Places -> CellType], cell : Nat, needed : BOOLEAN,
             todo : SUBSET Docs, doc : Docs \cup {None}, run : Nat \cup {None},
             runStatus : RunStatus]

TypeOK ==
  /\ status \in {"created"} \cup Settled
  /\ cells \in [Places -> CellType]
  /\ runs \in Seq(RunType)
  /\ docs \in [Docs -> DocType]
  /\ calls \in [Calls -> CallType]

(* A cell's run exists, and a call works on an open cell of what it read.  *)
Rows(seen) == /\ seen \in [Places -> CellType]
              /\ \A c \in Places : seen[c].run \in DOMAIN runs \cup {None}

CallRefers(k) ==
  /\ calls[k].pc \in Handling \cup {"finalize"} => Rows(calls[k].seen)
  /\ calls[k].pc \in Handling =>
       calls[k].cell \in Places /\ ~Failed(Row(k)) /\ ~Done(Row(k))
  /\ calls[k].pc = "dispatch" => calls[k].doc \in Docs
  /\ calls[k].pc \in Launching => calls[k].run \in DOMAIN runs
  /\ calls[k].pc = "refresh" => Row(k).run # None

References == Rows(cells) /\ \A k \in Calls : CallRefers(k)
----------------------------------------------------------------------------
(* Helpers.                                                                *)

(* Every set of natural numbers that is not empty has a least one.         *)
LEMMA Least ==
  ASSUME NEW S, S \subseteq Nat, S # {}
  PROVE  Min(S) \in S /\ \A y \in S : Min(S) <= y
<1> DEFINE R == {ss \in Nat \X Nat : ss[1] < ss[2]}
<1>1. IsWellFoundedOn(R, Nat) BY NatLessThanWellFounded DEF OpToRel
<1> HIDE DEF R
<1>2. PICK x \in S : \A y \in S : ~(<<y, x>> \in R) BY <1>1, WFMin
<1>3. \A y \in S : ~(y < x) BY <1>2 DEF R
<1>4. \A y \in S : x <= y BY <1>3
<1> QED BY <1>4 DEF Min

LEMMA PlacesNat == Places \subseteq Nat
BY DEF Places

LEMMA MatrixStays == [Next]_vars => matrix' = matrix
BY DEF Next, Work, BeginAdvance, GetExperiment, GetCells, CreateConfig, LoadConfig, Plan, Reprocess,
       DispatchDocument, MarkIndexDispatched, SetReady, CreateRun, MarkRunning, DispatchRun,
       ReadLink, WriteLink, SetOutcome, Refresh, SetFailure, Finalize, CallDies, IndexDocument,
       StoreCase, StoreLastCase, vars

LEMMA TypesStay ==
  ASSUME matrix' = matrix
  PROVE  /\ Settings' = Settings /\ Places' = Places /\ Indexes' = Indexes
         /\ CellType' = CellType /\ RunType' = RunType /\ DocType' = DocType
         /\ CallType' = CallType
BY DEF Settings, Places, Indexes, CellType, RunType, DocType, CallType

LEMMA GoFacts ==
  ASSUME calls \in [Calls -> CallType], NEW k \in Calls, NEW pc, Go(k, pc)
  PROVE  /\ \A j \in Calls \ {k} : calls'[j] = calls[j]
         /\ calls'[k].pc = pc /\ calls'[k].seen = calls[k].seen
         /\ calls'[k].cell = calls[k].cell /\ calls'[k].needed = calls[k].needed
         /\ calls'[k].todo = calls[k].todo /\ calls'[k].doc = calls[k].doc
         /\ calls'[k].run = calls[k].run /\ calls'[k].runStatus = calls[k].runStatus
         /\ pc \in PC => calls' \in [Calls -> CallType]
<1>1. calls[k] \in CallType OBVIOUS
<1>2. calls' = [calls EXCEPT ![k] = [calls[k] EXCEPT !.pc = pc]] BY DEF Go
<1>3. calls'[k] = [calls[k] EXCEPT !.pc = pc] /\ \A j \in Calls \ {k} : calls'[j] = calls[j]
  BY <1>2
<1>4. pc \in PC => [calls[k] EXCEPT !.pc = pc] \in CallType BY <1>1 DEF CallType
<1>5. pc \in PC => calls' \in [Calls -> CallType] BY <1>2, <1>4
<1> QED BY <1>1, <1>3, <1>5 DEF CallType

LEMMA AnswerFacts ==
  ASSUME calls \in [Calls -> CallType], NEW k \in Calls, Answer(k)
  PROVE  /\ \A j \in Calls \ {k} : calls'[j] = calls[j]
         /\ calls'[k].pc = "idle"
         /\ calls' \in [Calls -> CallType]
BY DEF Answer, CallType, IdleCall, PC, RunStatus

LEMMA ScanFacts ==
  ASSUME calls \in [Calls -> CallType], NEW k \in Calls, NEW seen \in [Places -> CellType],
         NEW c \in Nat, ScanFrom(k, seen, c), cells \in [Places -> CellType]
  PROVE  /\ \A j \in Calls \ {k} : calls'[j] = calls[j]
         /\ calls'[k].seen = seen /\ calls'[k].run = None /\ calls'[k].runStatus = "none"
         /\ calls' \in [Calls -> CallType]
         /\ \/ /\ calls'[k].pc = "finalize"
               /\ \A d \in Places : d > c => Failed(seen[d]) \/ Done(seen[d])
            \/ /\ calls'[k].pc = IF seen[calls'[k].cell].config THEN "load" ELSE "config"
               /\ calls'[k].cell \in Places /\ calls'[k].cell > c
               /\ ~Failed(seen[calls'[k].cell]) /\ ~Done(seen[calls'[k].cell])
               /\ \A d \in Places : d > c /\ d < calls'[k].cell => Failed(seen[d]) \/ Done(seen[d])
<1> DEFINE open == {d \in Places : d > c /\ ~Failed(seen[d]) /\ ~Done(seen[d])}
           over == [IdleCall EXCEPT !.pc = "finalize", !.seen = seen]
           first == Min(open)
           next == [IdleCall EXCEPT !.pc = IF seen[first].config THEN "load" ELSE "config",
                                    !.seen = seen, !.cell = first]
<1>1. Cells = Places BY DEF Cells
<1>2. calls' = [calls EXCEPT ![k] = IF open = {} THEN over ELSE next]
  BY <1>1 DEF ScanFrom
<1>3. open # {} => first \in open /\ \A d \in open : first <= d
  BY PlacesNat, Least
<1>4. /\ over.pc = "finalize" /\ over.seen = seen /\ over.run = None /\ over.runStatus = "none"
      /\ over \in CallType
  BY DEF IdleCall, CallType, PC, RunStatus
<1>5. /\ next.pc = IF seen[first].config THEN "load" ELSE "config"
      /\ next.seen = seen /\ next.run = None /\ next.runStatus = "none" /\ next.cell = first
  BY DEF IdleCall
<1>6. open # {} => next \in CallType
  <2>1. open # {} => first \in Nat BY <1>3, PlacesNat
  <2> HIDE DEF first, open
  <2> QED BY <2>1 DEF IdleCall, CallType, PC, RunStatus, Handling
<1> HIDE DEF over, next
<1>7. CASE open = {}
  <2>1. calls'[k] = over /\ \A j \in Calls \ {k} : calls'[j] = calls[j] BY <1>2, <1>7
  <2>2. calls' \in [Calls -> CallType] BY <1>2, <1>4, <1>7
  <2> QED BY <1>4, <1>7, <2>1, <2>2
<1>8. CASE open # {}
  <2>1. calls'[k] = next /\ \A j \in Calls \ {k} : calls'[j] = calls[j] BY <1>2, <1>8
  <2>2. calls' \in [Calls -> CallType] BY <1>2, <1>6, <1>8
  <2>3. first \in Places /\ first > c /\ ~Failed(seen[first]) /\ ~Done(seen[first])
    BY <1>3, <1>8
  <2>4. \A d \in Places : d > c /\ d < first => Failed(seen[d]) \/ Done(seen[d])
    <3> SUFFICES ASSUME NEW d \in Places, d > c, d < first, d \in open PROVE FALSE
      OBVIOUS
    <3>1. first <= d /\ first \in Nat /\ d \in Nat BY <1>3, <1>8, <2>3, PlacesNat
    <3> HIDE DEF first, open
    <3> QED BY <3>1
  <2> HIDE DEF first, open
  <2> QED BY <1>5, <2>1, <2>2, <2>3, <2>4
<1> QED BY <1>7, <1>8
----------------------------------------------------------------------------
(* Types and references.                                                   *)

Typed == TypeOK /\ References

LEMMA RefersKept ==
  ASSUME Typed, matrix' = matrix, DOMAIN runs \subseteq DOMAIN runs', NEW j \in Calls,
         calls'[j] = calls[j]
  PROVE  CallRefers(j)'
BY TypesStay DEF Typed, References, CallRefers, Rows, Row, Failed, Done

LEMMA GoRefers ==
  ASSUME Typed, matrix' = matrix, DOMAIN runs \subseteq DOMAIN runs', NEW k \in Calls,
         NEW pc \in PC, Go(k, pc), calls[k].pc \in Handling,
         pc = "dispatch" => calls[k].doc \in Docs,
         pc \in Launching => calls[k].run \in DOMAIN runs',
         pc = "refresh" => Row(k).run # None
  PROVE  calls' \in [Calls -> CallType] /\ \A j \in Calls : CallRefers(j)'
<1>1. calls \in [Calls -> CallType] BY DEF Typed, TypeOK
<1>2. \A j \in Calls \ {k} : CallRefers(j)' BY <1>1, GoFacts, RefersKept
<1>3. CallRefers(k)'
  BY <1>1, GoFacts, TypesStay DEF Typed, References, CallRefers, Rows, Row, Failed, Done
<1> QED BY <1>1, <1>2, <1>3, GoFacts

LEMMA AnswerRefers ==
  ASSUME Typed, matrix' = matrix, DOMAIN runs \subseteq DOMAIN runs', NEW k \in Calls, Answer(k)
  PROVE  calls' \in [Calls -> CallType] /\ \A j \in Calls : CallRefers(j)'
<1>1. calls \in [Calls -> CallType] BY DEF Typed, TypeOK
<1>2. \A j \in Calls \ {k} : CallRefers(j)' BY <1>1, AnswerFacts, RefersKept
<1>3. CallRefers(k)' BY <1>1, AnswerFacts DEF CallRefers, Handling, Launching
<1> QED BY <1>1, <1>2, <1>3, AnswerFacts

LEMMA ScanRefers ==
  ASSUME Typed, matrix' = matrix, UNCHANGED runs, NEW k \in Calls, NEW seen, Rows(seen),
         NEW c \in Nat, ScanFrom(k, seen, c)
  PROVE  calls' \in [Calls -> CallType] /\ \A j \in Calls : CallRefers(j)'
<1>1. calls \in [Calls -> CallType] /\ cells \in [Places -> CellType] BY DEF Typed, TypeOK
<1>2. \A j \in Calls \ {k} : CallRefers(j)' BY <1>1, ScanFacts, RefersKept DEF Rows
<1>3. calls'[k].pc \in {"finalize", "load", "config"} BY <1>1, ScanFacts DEF Rows
<1>4. CallRefers(k)'
  BY <1>1, <1>3, ScanFacts, TypesStay
  DEF CallRefers, Rows, Row, Failed, Done, Handling, Launching
<1> QED BY <1>1, <1>2, <1>4, ScanFacts DEF Rows

LEMMA CellsStay ==
  ASSUME Typed, matrix' = matrix, UNCHANGED <<status, cells, docs, runs>>
  PROVE  /\ status' \in {"created"} \cup Settled /\ cells' \in [Places -> CellType]'
         /\ runs' \in Seq(RunType)' /\ docs' \in [Docs -> DocType]'
         /\ Rows(cells)'
BY TypesStay DEF Typed, TypeOK, References, Rows

LEMMA CellSet ==
  ASSUME Typed, matrix' = matrix, NEW c \in Places, NEW row \in CellType,
         row.run \in DOMAIN runs \cup {None}, cells' = [cells EXCEPT ![c] = row],
         UNCHANGED <<runs, docs>>, status' \in {"created"} \cup Settled
  PROVE  /\ cells' \in [Places -> CellType]' /\ Rows(cells)'
         /\ runs' \in Seq(RunType)' /\ docs' \in [Docs -> DocType]'
BY TypesStay DEF Typed, TypeOK, References, Rows

(* The rows a call may write.                                              *)
LEMMA FlagRow ==
  ASSUME NEW row \in CellType
  PROVE  /\ [row EXCEPT !["config"] = TRUE] \in CellType
         /\ [row EXCEPT !["config"] = TRUE].run = row.run
         /\ [row EXCEPT !["dispatched"] = TRUE] \in CellType
         /\ [row EXCEPT !["dispatched"] = TRUE].run = row.run
         /\ [row EXCEPT !.ready = TRUE, !.indexErr = FALSE] \in CellType
         /\ [row EXCEPT !.ready = TRUE, !.indexErr = FALSE].run = row.run
<1>1. /\ [row EXCEPT !["config"] = TRUE] \in CellType
      /\ [row EXCEPT !["config"] = TRUE].run = row.run
  BY DEF CellType
<1>2. /\ [row EXCEPT !["dispatched"] = TRUE] \in CellType
      /\ [row EXCEPT !["dispatched"] = TRUE].run = row.run
  BY DEF CellType
<1>3. /\ [row EXCEPT !.ready = TRUE, !.indexErr = FALSE] \in CellType
      /\ [row EXCEPT !.ready = TRUE, !.indexErr = FALSE].run = row.run
  BY DEF CellType
<1> QED BY <1>1, <1>2, <1>3

LEMMA StatusRow ==
  ASSUME NEW row \in CellType, NEW s \in RunStatus
  PROVE  /\ [row EXCEPT !["runStatus"] = s] \in CellType
         /\ [row EXCEPT !["runStatus"] = s].run = row.run
BY DEF CellType

LEMMA LinkRow ==
  ASSUME NEW row \in CellType, NEW r \in Nat
  PROVE  LinkedRow(row, r) \in CellType /\ LinkedRow(row, r).run = r
BY DEF CellType, LinkedRow

LEMMA FailRow ==
  ASSUME NEW row \in CellType, NEW pc
  PROVE  FailedRow(row, pc) \in CellType /\ FailedRow(row, pc).run = row.run
BY DEF CellType, FailedRow

LEMMA RunSet ==
  ASSUME runs \in Seq(RunType), NEW r \in DOMAIN runs, NEW row \in RunType,
         runs' = [runs EXCEPT ![r] = row]
  PROVE  /\ runs' \in Seq(RunType) /\ DOMAIN runs' = DOMAIN runs
         /\ \A s \in DOMAIN runs : runs'[s] = IF s = r THEN row ELSE runs[s]
<1>1. runs' \in [1..Len(runs) -> RunType] BY ElementOfSeq
<1>2. Len(runs) \in Nat BY LenProperties
<1>3. runs' \in Seq(RunType) BY <1>1, <1>2, SeqDef
<1> QED BY <1>3

(* Steps that only move a call.                                            *)
LEMMA CallSteps ==
  ASSUME Typed, matrix' = matrix, NEW k \in Calls,
         BeginAdvance(k) \/ GetExperiment(k) \/ GetCells(k) \/ LoadConfig(k) \/ ReadLink(k)
         \/ CallDies(k)
  PROVE  Typed'
<1>0. /\ calls \in [Calls -> CallType] /\ Rows(cells) /\ CallRefers(k)
      /\ 0 \in Nat /\ Cells = Places
  BY DEF Typed, TypeOK, References, Cells
<1>1. ASSUME BeginAdvance(k) \/ GetExperiment(k)
      PROVE  calls' \in [Calls -> CallType] /\ \A j \in Calls : CallRefers(j)'
  <2>1. runs' = runs BY <1>1 DEF BeginAdvance, GetExperiment
  <2>2. CASE Answer(k) BY <2>1, <2>2, AnswerRefers
  <2>3. ASSUME NEW pc \in {"get", "rows"}, Go(k, pc)
        PROVE  calls' \in [Calls -> CallType] /\ \A j \in Calls : CallRefers(j)'
    <3>1. \A j \in Calls \ {k} : CallRefers(j)' BY <1>0, <2>1, <2>3, GoFacts, RefersKept
    <3>2. CallRefers(k)' BY <1>0, <2>3, GoFacts DEF CallRefers, Handling, Launching
    <3> QED BY <1>0, <2>3, <3>1, <3>2, GoFacts DEF PC
  <2> QED BY <1>1, <2>2, <2>3 DEF BeginAdvance, GetExperiment
<1>2. ASSUME GetCells(k)
      PROVE  calls' \in [Calls -> CallType] /\ \A j \in Calls : CallRefers(j)'
  BY <1>0, <1>2, ScanRefers DEF GetCells
<1>3. ASSUME LoadConfig(k)
      PROVE  calls' \in [Calls -> CallType] /\ \A j \in Calls : CallRefers(j)'
  <2>1. /\ runs' = runs /\ calls[k].pc = "load"
        /\ \E pc \in {"plan", "create", "fail_index"} : Go(k, pc)
           \/ (Go(k, "refresh") /\ Row(k).run # None)
    BY <1>3 DEF LoadConfig, At
  <2> QED BY <2>1, GoRefers DEF PC, Handling, Launching
<1>4. ASSUME ReadLink(k)
      PROVE  calls' \in [Calls -> CallType] /\ \A j \in Calls : CallRefers(j)'
  <2>1. /\ runs' = runs /\ calls[k].pc = "link" /\ calls[k].run \in DOMAIN runs
        /\ Go(k, "write_link") \/ Go(k, "outcome") \/ Answer(k)
    BY <1>0, <1>4 DEF ReadLink, At, CallRefers, Launching
  <2> QED BY <2>1, GoRefers, AnswerRefers DEF PC, Handling, Launching
<1>5. ASSUME CallDies(k)
      PROVE  calls' \in [Calls -> CallType] /\ \A j \in Calls : CallRefers(j)'
  BY <1>5, AnswerRefers DEF CallDies
<1>6. UNCHANGED <<status, cells, docs, runs>>
  BY DEF BeginAdvance, GetExperiment, GetCells, LoadConfig, ReadLink, CallDies
<1>7. calls' \in [Calls -> CallType] /\ \A j \in Calls : CallRefers(j)'
  BY <1>1, <1>2, <1>3, <1>4, <1>5
<1> QED BY <1>6, <1>7, CellsStay, TypesStay DEF Typed, TypeOK, References

(* A call that changes some fields of its own and moves to pc.             *)
LEMMA CallSet ==
  ASSUME Typed, matrix' = matrix, DOMAIN runs \subseteq DOMAIN runs', NEW k \in Calls,
         NEW new \in CallType, calls' = [calls EXCEPT ![k] = new],
         calls[k].pc \in Handling, new.seen = calls[k].seen, new.cell = calls[k].cell,
         new.pc \in Handling, new.pc # "refresh",
         new.pc = "dispatch" => new.doc \in Docs,
         new.pc \in Launching => new.run \in DOMAIN runs'
  PROVE  calls' \in [Calls -> CallType] /\ \A j \in Calls : CallRefers(j)'
<1>1. calls \in [Calls -> CallType] BY DEF Typed, TypeOK
<1>2. calls'[k] = new /\ calls' \in [Calls -> CallType] BY <1>1
<1>3. \A j \in Calls \ {k} : CallRefers(j)' BY <1>1, RefersKept
<1>4. CallRefers(k)'
  BY <1>2, TypesStay DEF Typed, References, CallRefers, Rows, Row, Failed, Done
<1> QED BY <1>2, <1>3, <1>4

LEMMA PlanStep ==
  ASSUME Typed, matrix' = matrix, NEW k \in Calls, Plan(k) \/ Refresh(k)
  PROVE  Typed'
<1> DEFINE i == Needs(calls[k].cell)
           planned == [calls[k] EXCEPT !.needed = ReindexNeeded(i), !.todo = Docs,
                                       !.pc = IF ReindexNeeded(i) THEN "reprocess" ELSE "mark"]
           read == [calls[k] EXCEPT !.pc = "outcome", !.runStatus = runs[Row(k).run].status]
<1>0. calls[k] \in CallType /\ CallRefers(k) /\ calls \in [Calls -> CallType]
  BY DEF Typed, TypeOK, References
<1>1. UNCHANGED <<status, cells, docs, runs>> BY DEF Plan, Refresh
<1>2. ASSUME calls' = [calls EXCEPT ![k] = planned], calls[k].pc = "plan"
      PROVE  calls' \in [Calls -> CallType] /\ \A j \in Calls : CallRefers(j)'
  <2>0. ReindexNeeded(i) \in BOOLEAN BY DEF ReindexNeeded
  <2>1. /\ planned \in CallType /\ planned.seen = calls[k].seen /\ planned.cell = calls[k].cell
        /\ planned.pc \in {"reprocess", "mark"}
    BY <1>0, <2>0 DEF CallType, PC, Handling
  <2> HIDE DEF planned
  <2> QED BY <1>1, <1>2, <2>1, CallSet DEF Handling, Launching
<1>3. ASSUME calls' = [calls EXCEPT ![k] = read], calls[k].pc = "refresh"
      PROVE  calls' \in [Calls -> CallType] /\ \A j \in Calls : CallRefers(j)'
  <2>1. Row(k).run \in DOMAIN runs
    BY <1>0, <1>3 DEF CallRefers, Handling, Rows, Row
  <2>2. runs[Row(k).run] \in RunType BY <2>1 DEF Typed, TypeOK
  <2>3. /\ read \in CallType /\ read.seen = calls[k].seen /\ read.cell = calls[k].cell
        /\ read.pc = "outcome"
    BY <1>0, <2>2 DEF CallType, PC, Handling, RunType
  <2> HIDE DEF read
  <2> QED BY <1>1, <1>3, <2>3, CallSet DEF Handling, Launching
<1>4. ASSUME NEW pc \in {"fail_index", "ready", "fail_run"}, Go(k, pc),
             calls[k].pc \in {"plan", "refresh"}
      PROVE  calls' \in [Calls -> CallType] /\ \A j \in Calls : CallRefers(j)'
  BY <1>1, <1>4, GoRefers DEF PC, Handling, Launching
<1>5. CASE Answer(k)
  BY <1>1, <1>5, AnswerRefers, CellsStay, TypesStay DEF Typed, TypeOK, References
<1>6. \/ calls' = [calls EXCEPT ![k] = planned] /\ calls[k].pc = "plan"
      \/ calls' = [calls EXCEPT ![k] = read] /\ calls[k].pc = "refresh"
      \/ /\ calls[k].pc \in {"plan", "refresh"}
         /\ \E pc \in {"fail_index", "ready", "fail_run"} : Go(k, pc)
      \/ Answer(k)
  BY DEF Plan, Refresh, At
<1> HIDE DEF planned, read
<1> QED
  BY <1>1, <1>2, <1>3, <1>4, <1>5, <1>6, CellsStay, TypesStay DEF Typed, TypeOK, References

LEMMA DocSteps ==
  ASSUME Typed, matrix' = matrix,
         \/ \E k \in Calls : DispatchDocument(k) \/ \E d \in Docs : Reprocess(k, d)
         \/ \E d \in Docs : IndexDocument(d)
  PROVE  Typed'
<1>0. /\ docs \in [Docs -> DocType] /\ calls \in [Calls -> CallType]
      /\ \A k \in Calls : CallRefers(k)
      /\ \A c \in Places : Needs(c) \in Indexes
  <2>1. \A c \in Places : Needs(c) \in Indexes
    BY DEF Typed, TypeOK, Needs, CellType, Indexes
  <2> QED BY <2>1 DEF Typed, TypeOK, References
<1>1. UNCHANGED <<status, cells, runs>> BY DEF DispatchDocument, Reprocess, IndexDocument
<1>2. ASSUME NEW k \in Calls, NEW d \in Docs, Reprocess(k, d)
      PROVE  /\ docs' \in [Docs -> DocType]
             /\ calls' \in [Calls -> CallType] /\ \A j \in Calls : CallRefers(j)'
  <2> DEFINE new == [calls[k] EXCEPT !.pc = "dispatch", !.doc = d, !.todo = calls[k].todo \ {d}]
             row == [docs[d] EXCEPT !.latest = Needs(calls[k].cell), !.state = "pending"]
  <2>1. calls[k].pc = "reprocess" /\ calls[k] \in CallType BY <1>0, <1>2 DEF Reprocess, At
  <2>2. CASE Go(k, "fail_index") /\ UNCHANGED docs
    BY <1>0, <1>1, <2>1, <2>2, GoRefers DEF PC, Handling, Launching
  <2>3. CASE docs' = [docs EXCEPT ![d] = row] /\ calls' = [calls EXCEPT ![k] = new]
    <3>1. /\ new \in CallType /\ new.seen = calls[k].seen /\ new.cell = calls[k].cell
          /\ new.pc = "dispatch" /\ new.doc \in Docs
      BY <2>1 DEF CallType, PC, Handling
    <3>2. calls[k].cell \in Places BY <1>0, <2>1 DEF CallRefers, Handling
    <3>3. row \in DocType BY <1>0, <3>2 DEF DocType
    <3> HIDE DEF new, row
    <3>4. docs' \in [Docs -> DocType] BY <1>0, <2>3, <3>3
    <3>5. calls' = [calls EXCEPT ![k] = new] /\ DOMAIN runs \subseteq DOMAIN runs'
      BY <1>1, <2>3
    <3> QED BY <2>1, <3>1, <3>4, <3>5, CallSet DEF Handling, Launching
  <2> QED BY <1>2, <2>2, <2>3 DEF Reprocess
<1>3. ASSUME NEW k \in Calls, DispatchDocument(k)
      PROVE  /\ docs' \in [Docs -> DocType]
             /\ calls' \in [Calls -> CallType] /\ \A j \in Calls : CallRefers(j)'
  <2>1. /\ calls[k].pc = "dispatch"
        /\ \E pc \in {"mark", "reprocess", "fail_index"} : Go(k, pc)
    BY <1>3 DEF DispatchDocument, At
  <2>2. calls[k].doc \in Docs BY <1>0, <2>1 DEF CallRefers
  <2>3. docs' = docs \/ docs' = [docs EXCEPT ![calls[k].doc].state = "queued"]
    BY <1>3 DEF DispatchDocument
  <2>4. docs' \in [Docs -> DocType] BY <1>0, <2>2, <2>3 DEF DocType
  <2> QED BY <1>1, <2>1, <2>4, GoRefers DEF PC, Handling, Launching
<1>4. ASSUME NEW d \in Docs, IndexDocument(d)
      PROVE  /\ docs' \in [Docs -> DocType]
             /\ calls' \in [Calls -> CallType] /\ \A j \in Calls : CallRefers(j)'
  <2>1. \/ docs' = [docs EXCEPT ![d] = [docs[d] EXCEPT !.active = docs[d].latest,
                                                       !.state = "ready"]]
        \/ docs' = [docs EXCEPT ![d] = [docs[d] EXCEPT !.state = "failed"]]
    BY <1>4 DEF IndexDocument
  <2>2. docs' \in [Docs -> DocType] BY <1>0, <2>1 DEF DocType
  <2>3. calls' = calls BY <1>4 DEF IndexDocument
  <2> QED BY <1>0, <1>1, <2>2, <2>3, RefersKept
<1>5. /\ docs' \in [Docs -> DocType]
      /\ calls' \in [Calls -> CallType] /\ \A j \in Calls : CallRefers(j)'
  BY <1>2, <1>3, <1>4
<1> QED BY <1>1, <1>5, TypesStay DEF Typed, TypeOK, References, Rows

(* Steps that write the cell.                                              *)
LEMMA CellSteps ==
  ASSUME Typed, matrix' = matrix, NEW k \in Calls,
         CreateConfig(k) \/ MarkIndexDispatched(k) \/ SetReady(k) \/ WriteLink(k)
         \/ SetOutcome(k) \/ SetFailure(k)
  PROVE  Typed'
<1> DEFINE c == calls[k].cell
<1>0. /\ calls[k] \in CallType /\ CallRefers(k) /\ calls[k].pc \in Handling
      /\ c \in Places /\ c \in Nat /\ cells[c] \in CellType /\ Rows(calls[k].seen)
      /\ cells[c].run \in DOMAIN runs \cup {None}
  <2>1. calls[k] \in CallType /\ CallRefers(k) /\ calls[k].pc \in Handling
    BY DEF Typed, TypeOK, References, Handling, Launching, CreateConfig, MarkIndexDispatched,
           SetReady, WriteLink, SetOutcome, SetFailure, At
  <2> QED BY <2>1, PlacesNat DEF Typed, TypeOK, References, CallRefers, Rows
<1>1. UNCHANGED <<runs, docs, status>>
  BY DEF CreateConfig, MarkIndexDispatched, SetReady, WriteLink, SetOutcome, SetFailure
<1>2. ASSUME NEW row \in CellType, row.run \in DOMAIN runs \cup {None},
             cells' = [cells EXCEPT ![c] = row]
      PROVE  cells' \in [Places -> CellType]' /\ Rows(cells)'
  BY <1>0, <1>1, <1>2, CellSet DEF Typed, TypeOK
<1>3. ASSUME cells' = cells PROVE cells' \in [Places -> CellType]' /\ Rows(cells)'
  BY <1>1, <1>3, TypesStay DEF Typed, TypeOK, References, Rows
<1>4. ASSUME CreateConfig(k) \/ MarkIndexDispatched(k) \/ SetReady(k)
      PROVE  cells' \in [Places -> CellType]' /\ Rows(cells)'
  <2>1. \E row \in {[cells[c] EXCEPT !["config"] = TRUE], [cells[c] EXCEPT !["dispatched"] = TRUE],
                    [cells[c] EXCEPT !.ready = TRUE, !.indexErr = FALSE]} :
           cells' = [cells EXCEPT ![c] = row]
    BY <1>4 DEF CreateConfig, MarkIndexDispatched, SetReady, SetCell
  <2> HIDE DEF c
  <2> QED BY <1>0, <1>2, <2>1, FlagRow
<1>5. ASSUME WriteLink(k) PROVE cells' \in [Places -> CellType]' /\ Rows(cells)'
  <2>1. calls[k].run \in DOMAIN runs /\ calls[k].run \in Nat
    BY <1>0, <1>5 DEF WriteLink, At, CallRefers, Launching, Typed, TypeOK
  <2>2. cells' = [cells EXCEPT ![c] = LinkedRow(cells[c], calls[k].run)] \/ cells' = cells
    BY <1>5 DEF WriteLink, OrDropped
  <2> HIDE DEF c
  <2> QED BY <1>0, <1>2, <1>3, <2>1, <2>2, LinkRow
<1>6. ASSUME SetOutcome(k) PROVE cells' \in [Places -> CellType]' /\ Rows(cells)'
  <2>1. \/ cells' = [cells EXCEPT ![c] = [cells[c] EXCEPT !["runStatus"] = calls[k].runStatus]]
        \/ cells' = cells
    BY <1>6 DEF SetOutcome, OrDropped, SetCell
  <2>2. calls[k].runStatus \in RunStatus BY <1>0 DEF CallType
  <2> HIDE DEF c
  <2> QED BY <1>0, <1>2, <1>3, <2>1, <2>2, StatusRow
<1>7. ASSUME SetFailure(k) PROVE cells' \in [Places -> CellType]' /\ Rows(cells)'
  <2>1. cells' = [cells EXCEPT ![c] = FailedRow(cells[c], calls[k].pc)] \/ cells' = cells
    BY <1>7 DEF SetFailure, OrDropped
  <2> HIDE DEF c
  <2> QED BY <1>0, <1>2, <1>3, <2>1, FailRow
<1>8. cells' \in [Places -> CellType]' /\ Rows(cells)' BY <1>4, <1>5, <1>6, <1>7
<1>9. calls' \in [Calls -> CallType] /\ \A j \in Calls : CallRefers(j)'
  <2>1. CASE Answer(k) BY <1>1, <2>1, AnswerRefers
  <2>2. CASE ScanFrom(k, calls[k].seen, c) BY <1>0, <1>1, <2>2, ScanRefers
  <2>3. ASSUME NEW pc \in {"ready", "create", "outcome", "fail_run"}, Go(k, pc)
        PROVE  calls' \in [Calls -> CallType] /\ \A j \in Calls : CallRefers(j)'
    BY <1>0, <1>1, <2>3, GoRefers DEF PC, Handling, Launching
  <2>4. CASE Go(k, "refresh") /\ Row(k).run # None
    BY <1>0, <1>1, <2>4, GoRefers DEF PC, Handling, Launching
  <2>5. \/ Answer(k) \/ ScanFrom(k, calls[k].seen, c)
        \/ \E pc \in {"ready", "create", "outcome", "fail_run"} : Go(k, pc)
        \/ Go(k, "refresh") /\ Row(k).run # None
    BY DEF CreateConfig, MarkIndexDispatched, SetReady, WriteLink, SetOutcome, SetFailure
  <2> QED BY <2>1, <2>2, <2>3, <2>4, <2>5
<1> QED BY <1>1, <1>8, <1>9, TypesStay DEF Typed, TypeOK, References

(* Steps that write the runs, and the last step of a sweep.                *)
LEMMA RunSteps ==
  ASSUME Typed, matrix' = matrix, NEW k \in Calls,
         CreateRun(k) \/ MarkRunning(k) \/ DispatchRun(k)
  PROVE  Typed'
<1> DEFINE c == calls[k].cell
           r == calls[k].run
           made == [cell |-> c, status |-> "created", executing |-> FALSE,
                    pinned |-> [d \in Docs |-> docs[d].active]]
           linked == [calls[k] EXCEPT !.pc = "mark_run", !.run = Len(runs) + 1]
           sent(s) == [calls[k] EXCEPT !.pc = "link", !.runStatus = s]
           marked == [runs[r] EXCEPT !.status = "running"]
           started == [runs[r] EXCEPT !.executing = TRUE]
           refused == [runs[r] EXCEPT !.status = "dispatch_failed"]
<1>0. /\ calls[k] \in CallType /\ CallRefers(k) /\ calls[k].pc \in Handling /\ c \in Places
      /\ runs \in Seq(RunType) /\ Len(runs) \in Nat /\ DOMAIN runs = 1..Len(runs)
      /\ docs \in [Docs -> DocType]
  <2>1. calls[k].pc \in Handling
    BY DEF CreateRun, MarkRunning, DispatchRun, At, Handling, Launching
  <2> QED BY <2>1, LenProperties DEF Typed, TypeOK, References, CallRefers
<1>1. UNCHANGED <<status, cells, docs>> BY DEF CreateRun, MarkRunning, DispatchRun
<1>2. ASSUME runs' \in Seq(RunType), DOMAIN runs \subseteq DOMAIN runs',
             calls' \in [Calls -> CallType] /\ \A j \in Calls : CallRefers(j)'
      PROVE  Typed'
  BY <1>1, <1>2, TypesStay DEF Typed, TypeOK, References, Rows
<1>3. ASSUME NEW pc \in Handling \ {"dispatch", "refresh"}, Go(k, pc), runs' \in Seq(RunType),
             DOMAIN runs \subseteq DOMAIN runs', pc \in Launching => r \in DOMAIN runs
      PROVE  Typed'
  <2>1. calls' \in [Calls -> CallType] /\ \A j \in Calls : CallRefers(j)'
    BY <1>0, <1>3, GoRefers DEF PC
  <2> QED BY <1>2, <1>3, <2>1
<1>4. CASE CreateRun(k)
  <2>1. made \in RunType /\ linked \in CallType
    <3>1. [d \in Docs |-> docs[d].active] \in [Docs -> Indexes] BY <1>0 DEF DocType
    <3>2. made \in RunType BY <1>0, <3>1 DEF RunType, RunStatus
    <3>3. "mark_run" \in PC /\ Len(runs) + 1 \in Nat
      BY <1>0 DEF PC, Handling, Launching
    <3>4. linked \in CallType BY <1>0, <3>3 DEF CallType
    <3> QED BY <3>2, <3>4
  <2>2. /\ linked.pc = "mark_run" /\ linked.run = Len(runs) + 1
        /\ linked.seen = calls[k].seen /\ linked.cell = calls[k].cell
    BY <1>0 DEF CallType
  <2>3. \/ runs' = Append(runs, made) /\ calls' = [calls EXCEPT ![k] = linked]
        \/ Go(k, "fail_run") /\ UNCHANGED runs
    BY <1>4 DEF CreateRun
  <2> HIDE DEF made, linked
  <2>4. CASE runs' = Append(runs, made) /\ calls' = [calls EXCEPT ![k] = linked]
    <3>1. /\ runs' \in Seq(RunType) /\ DOMAIN runs \subseteq DOMAIN runs'
          /\ Len(runs) + 1 \in DOMAIN runs'
      <4>1. runs' \in Seq(RunType) /\ Len(runs') = Len(runs) + 1
        BY <1>0, <2>1, <2>4, AppendProperties
      <4>2. DOMAIN runs' = 1..Len(runs) + 1 BY <4>1, LenProperties
      <4> QED BY <1>0, <4>1, <4>2
    <3>2. calls' \in [Calls -> CallType] /\ \A j \in Calls : CallRefers(j)'
      BY <1>0, <2>1, <2>2, <2>4, <3>1, CallSet DEF Handling, Launching
    <3> QED BY <1>2, <3>1, <3>2
  <2> QED BY <1>0, <1>3, <2>3, <2>4 DEF Handling, Launching
<1>5. CASE MarkRunning(k)
  <2>1. r \in DOMAIN runs /\ runs[r] \in RunType
    BY <1>0, <1>5 DEF MarkRunning, At, CallRefers, Launching
  <2>2. marked \in RunType BY <2>1 DEF RunType, RunStatus
  <2>3. \/ runs' = [runs EXCEPT ![r] = marked] /\ Go(k, "dispatch_run")
        \/ Go(k, "fail_run") /\ UNCHANGED runs
    BY <1>5 DEF MarkRunning
  <2> HIDE DEF marked, r
  <2>4. runs' \in Seq(RunType) /\ DOMAIN runs' = DOMAIN runs
    BY <1>0, <2>1, <2>2, <2>3, RunSet
  <2> QED BY <1>3, <2>1, <2>3, <2>4 DEF Handling, Launching
<1>6. CASE DispatchRun(k)
  <2>1. calls[k].pc = "dispatch_run" /\ r \in DOMAIN runs /\ runs[r] \in RunType
    BY <1>0, <1>6 DEF DispatchRun, At, CallRefers, Launching
  <2>2. started \in RunType /\ refused \in RunType BY <2>1 DEF RunType, RunStatus
  <2>3. \A s \in {"running", "dispatch_failed"} :
          /\ sent(s) \in CallType /\ sent(s).pc = "link" /\ sent(s).run = r
          /\ sent(s).seen = calls[k].seen /\ sent(s).cell = calls[k].cell
    BY <1>0 DEF CallType, PC, Handling, Launching, RunStatus
  <2>4. /\ runs' = [runs EXCEPT ![r] = started] \/ runs' = [runs EXCEPT ![r] = refused]
        /\ \/ \E s \in {"running", "dispatch_failed"} : calls' = [calls EXCEPT ![k] = sent(s)]
           \/ Go(k, "fail_run")
    BY <1>6 DEF DispatchRun
  <2> HIDE DEF started, refused, sent, r
  <2>5. runs' \in Seq(RunType) /\ DOMAIN runs' = DOMAIN runs
    BY <1>0, <2>1, <2>2, <2>4, RunSet
  <2>6. ASSUME NEW s \in {"running", "dispatch_failed"}, calls' = [calls EXCEPT ![k] = sent(s)]
        PROVE  calls' \in [Calls -> CallType] /\ \A j \in Calls : CallRefers(j)'
    BY <1>0, <2>1, <2>3, <2>5, <2>6, CallSet DEF Handling, Launching
  <2> QED BY <1>2, <1>3, <2>4, <2>5, <2>6 DEF Handling, Launching
<1> QED BY <1>4, <1>5, <1>6

LEMMA StoreSteps ==
  ASSUME Typed, matrix' = matrix, NEW r \in DOMAIN runs, StoreCase(r) \/ StoreLastCase(r)
  PROVE  /\ Typed' /\ DOMAIN runs' = DOMAIN runs
         /\ UNCHANGED <<status, cells, docs, calls, trouble>>
         /\ \A s \in DOMAIN runs : runs'[s].cell = runs[s].cell /\ runs'[s].pinned = runs[s].pinned
<1>0. runs \in Seq(RunType) /\ runs[r] \in RunType BY DEF Typed, TypeOK
<1>1. /\ UNCHANGED <<status, cells, docs, calls, trouble>>
      /\ \/ runs' = [runs EXCEPT ![r] = [runs[r] EXCEPT !.status = "partial"]]
         \/ \E s \in {"completed", "partial"} :
              runs' = [runs EXCEPT ![r] = [runs[r] EXCEPT !.status = s, !.executing = FALSE]]
  BY DEF StoreCase, StoreLastCase
<1>2. PICK row \in RunType : /\ runs' = [runs EXCEPT ![r] = row]
                             /\ row.cell = runs[r].cell /\ row.pinned = runs[r].pinned
  <2>1. [runs[r] EXCEPT !.status = "partial"] \in RunType BY <1>0 DEF RunType, RunStatus
  <2>2. \A s \in {"completed", "partial"} :
          [runs[r] EXCEPT !.status = s, !.executing = FALSE] \in RunType
    BY <1>0 DEF RunType, RunStatus
  <2>3. /\ [runs[r] EXCEPT !.status = "partial"].cell = runs[r].cell
        /\ [runs[r] EXCEPT !.status = "partial"].pinned = runs[r].pinned
    BY <1>0 DEF RunType
  <2>4. \A s \in {"completed", "partial"} :
          /\ [runs[r] EXCEPT !.status = s, !.executing = FALSE].cell = runs[r].cell
          /\ [runs[r] EXCEPT !.status = s, !.executing = FALSE].pinned = runs[r].pinned
    BY <1>0 DEF RunType
  <2>5. CASE runs' = [runs EXCEPT ![r] = [runs[r] EXCEPT !.status = "partial"]]
    BY <2>1, <2>3, <2>5
  <2>6. ASSUME NEW s \in {"completed", "partial"},
               runs' = [runs EXCEPT ![r] = [runs[r] EXCEPT !.status = s, !.executing = FALSE]]
        PROVE  \E row \in RunType : /\ runs' = [runs EXCEPT ![r] = row]
                                    /\ row.cell = runs[r].cell /\ row.pinned = runs[r].pinned
    BY <2>2, <2>4, <2>6
  <2> QED BY <1>1, <2>5, <2>6
<1>3. /\ runs' \in Seq(RunType) /\ DOMAIN runs' = DOMAIN runs
      /\ \A s \in DOMAIN runs : runs'[s] = IF s = r THEN row ELSE runs[s]
  BY <1>0, <1>2, RunSet
<1>4. \A j \in Calls : CallRefers(j)' BY <1>1, <1>3, RefersKept DEF Typed, References
<1>5. Typed' BY <1>1, <1>3, <1>4, TypesStay DEF Typed, TypeOK, References, Rows
<1> QED BY <1>1, <1>2, <1>3, <1>5

LEMMA AggregateType ==
  ASSUME NEW seen
  PROVE  Aggregate(seen) \in {"created", "partial", "failed", "completed"}
BY DEF Aggregate

LEMMA FinalizeStep ==
  ASSUME Typed, matrix' = matrix, NEW k \in Calls, Finalize(k)
  PROVE  Typed'
<1>1. /\ UNCHANGED <<cells, docs, runs>> /\ Answer(k)
      /\ status' \in {"created", "partial", "failed", "completed"}
  BY AggregateType DEF Finalize
<1>2. calls' \in [Calls -> CallType] /\ \A j \in Calls : CallRefers(j)' BY <1>1, AnswerRefers
<1> QED BY <1>1, <1>2, TypesStay DEF Typed, TypeOK, References, Rows, Settled

LEMMA TypedStep == Typed /\ [Next]_vars => Typed'
<1> SUFFICES ASSUME Typed, [Next]_vars PROVE Typed'
  OBVIOUS
<1>0. matrix' = matrix BY MatrixStays
<1>1. CASE UNCHANGED vars
  <2>1. \A j \in Calls : CallRefers(j)' BY <1>0, <1>1, RefersKept DEF vars, Typed, References
  <2> QED BY <1>0, <1>1, <2>1, TypesStay DEF vars, Typed, TypeOK, References, Rows
<1>2. ASSUME NEW k \in Calls, BeginAdvance(k) \/ Work(k) \/ CallDies(k) PROVE Typed'
  BY <1>0, <1>2, CallSteps, PlanStep, DocSteps, CellSteps, RunSteps, FinalizeStep DEF Work
<1>3. ASSUME NEW d \in Docs, IndexDocument(d) PROVE Typed'
  BY <1>0, <1>3, DocSteps
<1>4. ASSUME NEW r \in DOMAIN runs, StoreCase(r) \/ StoreLastCase(r) PROVE Typed'
  BY <1>0, <1>4, StoreSteps
<1> QED BY <1>1, <1>2, <1>3, <1>4 DEF Next

LEMMA InitTyped == Init => Typed
<1> SUFFICES ASSUME Init PROVE Typed
  OBVIOUS
<1>1. /\ cells = [c \in Places |-> NewCell(Settings[c])] /\ status = "created" /\ runs = <<>>
      /\ docs = [d \in Docs |-> [active |-> IndexOf(Base), latest |-> IndexOf(Base),
                                 state |-> "ready"]]
      /\ calls = [k \in Calls |-> IdleCall]
  BY DEF Init, Places, Settings
<1>2. \A c \in Places : NewCell(Settings[c]) \in CellType /\ NewCell(Settings[c]).run = None
  BY DEF NewCell, CellType, RunStatus
<1>3. cells \in [Places -> CellType] /\ \A c \in Places : cells[c].run = None
  BY <1>1, <1>2
<1>4. docs \in [Docs -> DocType] BY <1>1 DEF DocType, Indexes
<1>5. /\ IdleCall \in CallType /\ \A k \in Calls : calls[k].pc = "idle"
  BY <1>1 DEF IdleCall, CallType, PC, RunStatus
<1>6. \A k \in Calls : CallRefers(k) BY <1>5 DEF CallRefers, Handling, Launching
<1> QED BY <1>1, <1>3, <1>4, <1>5, <1>6 DEF Typed, TypeOK, References, Rows
----------------------------------------------------------------------------
(* What holds while no call ran beside another.                            *)

Past == Handling \cup {"finalize"}
Opening == {"plan", "reprocess", "dispatch", "mark", "ready", "create"} \cup Launching
Reading == {"config", "load", "plan", "reprocess", "dispatch", "mark", "refresh"}
Built == {"create", "outcome"} \cup Launching

(* One call is in flight, and past its look at the status it works on a    *)
(* sweep that is not settled.                                              *)
OneCall == \A j, k \in Calls : calls[j].pc # "idle" /\ calls[k].pc # "idle" => j = k
Unsettled == \A k \in Calls : calls[k].pc \notin {"idle", "get"} => status \notin Settled

(* A cell is dispatched, then ready, then linked.                          *)
InOrder(row) == (row.run # None => row.ready) /\ (row.ready => row.dispatched)
Ordered == \A c \in Places : InOrder(cells[c])

(* What the call read is still so, but for what it wrote to its cell.      *)
Fresh(k) ==
  /\ calls[k].pc \in Past =>
       \A d \in Places : /\ InOrder(calls[k].seen[d])
                         /\ Failed(calls[k].seen[d]) \/ Done(calls[k].seen[d]) =>
                              cells[d] = calls[k].seen[d]
  /\ calls[k].pc \in Handling =>
       /\ \A d \in Places : d > calls[k].cell => cells[d] = calls[k].seen[d]
       /\ ~Failed(cells[calls[k].cell])
  /\ calls[k].pc \in Reading => cells[calls[k].cell] = Row(k)
  /\ calls[k].pc \in Opening => Row(k).run = None /\ cells[calls[k].cell].run = None
  /\ calls[k].pc \in Reading \cup Opening \cup {"outcome", "fail_index"} =>
       ~Done(cells[calls[k].cell])
  /\ calls[k].pc \in Built \cup {"ready"} => cells[calls[k].cell].dispatched
  /\ calls[k].pc \in Built => cells[calls[k].cell].ready

Quiet == OneCall /\ Unsettled /\ Ordered /\ \A k \in Calls : Fresh(k)
AloneInv == Alone => Quiet

(* No cell loses its run.                                                  *)
Launched(k, r) == /\ calls[k].pc \in Launching \cup {"fail_run"}
                  /\ calls[k].cell = runs[r].cell /\ calls[k].run = r
Kept(r) == \/ cells[runs[r].cell].run = r \/ cells[runs[r].cell].runErr
           \/ \E k \in Calls : Launched(k, r)
RunsKept == trouble \subseteq {"misread"} => /\ \A r \in DOMAIN runs : Kept(r)
                                             /\ OneRunPerCell

(* What a settled sweep holds.                                             *)
Passed(row) == Done(row) \/ Failed(row) \/ row.run = None
Counting(k) ==
  /\ calls[k].pc \in Handling =>
       \A d \in Places : d < calls[k].cell => Passed(calls[k].seen[d])
  /\ calls[k].pc = "finalize" => \A d \in Places : Passed(calls[k].seen[d])
  /\ calls[k].pc \in {"fail_index", "fail_run"} =>
       Row(k).run = None \/ calls[k].runStatus = "dispatch_failed"
WholeInv ==
  trouble \cap {"overlap", "misread"} = {} =>
    /\ \A k \in Calls : Counting(k)
    /\ status = "completed" => \A c \in Places : Done(cells[c]) /\ ~Failed(cells[c])

(* The run a cell is linked to was launched for it, and showed a result    *)
(* before the cell's status said so.                                       *)
Shows(s) == s \in {"completed", "partial", "dispatch_failed"}
Shown(r) == Shows(runs[r].status)
LinkedCell(c) ==
  cells[c].run # None => /\ runs[cells[c].run].cell = c
                         /\ Done(cells[c]) => Shown(cells[c].run)
LinkedCall(k) ==
  /\ calls[k].pc \in Past =>
       \A d \in Places : calls[k].seen[d].run # None => cells[d].run = calls[k].seen[d].run
  /\ calls[k].pc \in Launching => runs[calls[k].run].cell = calls[k].cell
  /\ calls[k].pc = "mark_run" =>
       runs[calls[k].run].status = "created" /\ ~runs[calls[k].run].executing
  /\ calls[k].pc \in {"link", "write_link"} /\ calls[k].runStatus \in Settled =>
       Shown(calls[k].run)
  /\ (/\ calls[k].pc = "outcome" /\ calls[k].runStatus \in Settled
      /\ cells[calls[k].cell].run # None) => Shown(cells[calls[k].cell].run)
LinkedSweep ==
  /\ status = "completed" => \A c \in Places : cells[c].run # None
  /\ status \in {"partial", "failed"} => \E c \in Places : Failed(cells[c])
LinkedInv ==
  Alone => /\ \A c \in Places : LinkedCell(c)
           /\ \A k \in Calls : LinkedCall(k)
           /\ LinkedSweep

(* A cell whose run was refused has failed, or the call that launched or   *)
(* read the run is about to store that it has.                             *)
Refused(r) == runs[r].status = "dispatch_failed"
Refusing(k, c) == /\ calls[k].pc \in {"outcome", "fail_run"} /\ calls[k].cell = c
                  /\ calls[k].runStatus = "dispatch_failed"
RefusedCell(c) ==
  cells[c].run # None /\ Refused(cells[c].run) =>
    Failed(cells[c]) \/ \E k \in Calls : Refusing(k, c)
RefusedCall(k) ==
  calls[k].pc \in Launching /\ Refused(calls[k].run) =>
    calls[k].pc \in {"link", "write_link"} /\ calls[k].runStatus = "dispatch_failed"
RefusedInv ==
  trouble \cap {"overlap", "crash", "dropped"} = {} =>
    (\A c \in Places : RefusedCell(c)) /\ (\A k \in Calls : RefusedCall(k))

(* Documents and the cells that wait for them, while no cell has failed.   *)
Moving(d) == docs[d].state \in {"pending", "queued"}
MovesTo(i) == \A d \in Docs : Moving(d) => docs[d].latest = i
SettledOn(i) == MovesTo(i) /\ \A d \in Docs : docs[d].active = i
Before(c) == \A b \in Places : b < c => Done(cells[b])

CellServed(c) ==
  /\ cells[c].dispatched \/ cells[c].ready => Before(c)
  /\ ~Done(cells[c]) /\ Before(c) =>
       \A d \in Docs : Moving(d) => docs[d].latest \in {docs[d].active, Needs(c)}
  /\ ~Done(cells[c]) /\ cells[c].dispatched => MovesTo(Needs(c))
  /\ ~Done(cells[c]) /\ cells[c].ready => SettledOn(Needs(c))

CallServed(k) ==
  LET i == Needs(calls[k].cell) IN
  /\ calls[k].pc \in Handling => Before(calls[k].cell)
  /\ calls[k].pc \in {"reprocess", "dispatch", "mark"} => ~Row(k).dispatched
  /\ calls[k].pc \in {"reprocess", "dispatch"} => calls[k].needed
  /\ calls[k].pc \in {"reprocess", "dispatch"} \/ (calls[k].pc = "mark" /\ calls[k].needed) =>
       \A d \in Docs \ calls[k].todo : docs[d].latest = i
  /\ calls[k].pc = "dispatch" => calls[k].doc \notin calls[k].todo
  /\ calls[k].pc = "mark" /\ calls[k].needed => calls[k].todo = {}
  /\ (calls[k].pc = "mark" /\ ~calls[k].needed) \/ calls[k].pc = "ready" => SettledOn(i)

Pinned == \A r \in DOMAIN runs : \A d \in Docs : runs[r].pinned[d] = Needs(runs[r].cell)
Served == (\A c \in Places : CellServed(c)) /\ (\A k \in Calls : CallServed(k)) /\ Pinned
NoneFailed == \A c \in Places : ~Failed(cells[c])
ServedInv == trouble \cap {"overlap", "dropped"} = {} /\ NoneFailed => Served
----------------------------------------------------------------------------
(* What the statements write.                                              *)

Others(c) == \A d \in Places : d # c => cells'[d] = cells[d]

LEMMA Writes ==
  ASSUME Typed, NEW k \in Calls,
         CreateConfig(k) \/ MarkIndexDispatched(k) \/ SetReady(k) \/ WriteLink(k)
         \/ SetOutcome(k) \/ SetFailure(k)
  PROVE  LET c == calls[k].cell  old == cells[c]  new == cells'[c] IN
         /\ calls[k].pc \in Handling /\ c \in Places /\ Others(c)
         /\ \/ /\ UNCHANGED cells /\ "dropped" \in trouble'
               /\ calls[k].pc \in {"write_link", "outcome", "fail_index", "fail_run"}
            \/ /\ calls[k].pc = "config" /\ new.dispatched = old.dispatched
               /\ new.ready = old.ready /\ new.run = old.run /\ new.runStatus = old.runStatus
               /\ new.indexErr = old.indexErr /\ new.runErr = old.runErr
            \/ /\ calls[k].pc = "mark" /\ new.dispatched
               /\ new.ready = old.ready /\ new.run = old.run /\ new.runStatus = old.runStatus
               /\ new.indexErr = old.indexErr /\ new.runErr = old.runErr
            \/ /\ calls[k].pc = "ready" /\ new.dispatched = old.dispatched
               /\ new.ready /\ new.run = old.run /\ new.runStatus = old.runStatus
               /\ ~new.indexErr /\ new.runErr = old.runErr
            \/ /\ calls[k].pc = "write_link" /\ new.dispatched = old.dispatched
               /\ new.ready = old.ready /\ new.run = calls[k].run
               /\ new.runStatus = old.runStatus
               /\ new.indexErr = old.indexErr /\ ~new.runErr
            \/ /\ calls[k].pc = "outcome" /\ new.dispatched = old.dispatched
               /\ new.ready = old.ready /\ new.run = old.run
               /\ new.runStatus = calls[k].runStatus
               /\ new.indexErr = old.indexErr /\ new.runErr = old.runErr
            \/ /\ calls[k].pc \in {"fail_index", "fail_run"} /\ new.dispatched = old.dispatched
               /\ new.ready = old.ready /\ new.run = old.run
               /\ new.runStatus = old.runStatus /\ Failed(new)
               /\ calls[k].pc = "fail_run" => new.runErr
               /\ old.runErr => new.runErr
         /\ new.setting = old.setting
<1> DEFINE c == calls[k].cell
<1>0. /\ calls[k].pc \in Handling /\ c \in Places /\ cells \in [Places -> CellType]
      /\ cells[c] \in CellType
  <2>1. calls[k] \in CallType /\ CallRefers(k) /\ calls[k].pc \in Handling
    BY DEF Typed, TypeOK, References, Handling, Launching, CreateConfig, MarkIndexDispatched,
           SetReady, WriteLink, SetOutcome, SetFailure, At
  <2> QED BY <2>1 DEF Typed, TypeOK, References, CallRefers
<1>1. ASSUME NEW row, cells' = [cells EXCEPT ![c] = row]
      PROVE  Others(c) /\ cells'[c] = row
  BY <1>0, <1>1 DEF Others
<1>2. ASSUME CreateConfig(k)
      PROVE  /\ calls[k].pc = "config"
             /\ cells' = [cells EXCEPT ![c] = [cells[c] EXCEPT !["config"] = TRUE]]
  BY <1>2 DEF CreateConfig, SetCell, At
<1>3. ASSUME MarkIndexDispatched(k)
      PROVE  /\ calls[k].pc = "mark"
             /\ cells' = [cells EXCEPT ![c] = [cells[c] EXCEPT !["dispatched"] = TRUE]]
  BY <1>3 DEF MarkIndexDispatched, SetCell, At
<1>4. ASSUME SetReady(k)
      PROVE  /\ calls[k].pc = "ready"
             /\ cells' = [cells EXCEPT ![c] = [cells[c] EXCEPT !.ready = TRUE, !.indexErr = FALSE]]
  BY <1>4 DEF SetReady, At
<1>5. ASSUME WriteLink(k)
      PROVE  /\ calls[k].pc = "write_link"
             /\ \/ UNCHANGED cells /\ "dropped" \in trouble'
                \/ cells' = [cells EXCEPT ![c] = LinkedRow(cells[c], calls[k].run)]
  BY <1>5 DEF WriteLink, At, OrDropped, Suffer
<1>6. ASSUME SetOutcome(k)
      PROVE  /\ calls[k].pc = "outcome"
             /\ \/ UNCHANGED cells /\ "dropped" \in trouble'
                \/ cells' = [cells EXCEPT ![c] =
                               [cells[c] EXCEPT !["runStatus"] = calls[k].runStatus]]
  BY <1>6 DEF SetOutcome, At, OrDropped, Suffer, SetCell
<1>7. ASSUME SetFailure(k)
      PROVE  /\ calls[k].pc \in {"fail_index", "fail_run"}
             /\ \/ UNCHANGED cells /\ "dropped" \in trouble'
                \/ cells' = [cells EXCEPT ![c] = FailedRow(cells[c], calls[k].pc)]
  BY <1>7 DEF SetFailure, OrDropped, Suffer
<1> HIDE DEF c
<1>8. CASE CreateConfig(k)
  <2> DEFINE row == [cells[c] EXCEPT !["config"] = TRUE]
  <2>1. Others(c) /\ cells'[c] = row BY <1>1, <1>2, <1>8
  <2>2. /\ row.dispatched = cells[c].dispatched /\ row.ready = cells[c].ready
        /\ row.run = cells[c].run /\ row.runStatus = cells[c].runStatus
        /\ row.indexErr = cells[c].indexErr /\ row.runErr = cells[c].runErr
        /\ row.setting = cells[c].setting
    BY <1>0 DEF CellType
  <2> HIDE DEF row
  <2> QED BY <1>0, <1>2, <1>8, <2>1, <2>2 DEF c
<1>9. CASE MarkIndexDispatched(k)
  <2> DEFINE row == [cells[c] EXCEPT !["dispatched"] = TRUE]
  <2>1. Others(c) /\ cells'[c] = row BY <1>1, <1>3, <1>9
  <2>2. /\ row.dispatched /\ row.ready = cells[c].ready
        /\ row.run = cells[c].run /\ row.runStatus = cells[c].runStatus
        /\ row.indexErr = cells[c].indexErr /\ row.runErr = cells[c].runErr
        /\ row.setting = cells[c].setting
    BY <1>0 DEF CellType
  <2> HIDE DEF row
  <2> QED BY <1>0, <1>3, <1>9, <2>1, <2>2 DEF c
<1>10. CASE SetReady(k)
  <2> DEFINE row == [cells[c] EXCEPT !.ready = TRUE, !.indexErr = FALSE]
  <2>1. Others(c) /\ cells'[c] = row BY <1>1, <1>4, <1>10
  <2>2. /\ row.dispatched = cells[c].dispatched /\ row.ready
        /\ row.run = cells[c].run /\ row.runStatus = cells[c].runStatus
        /\ ~row.indexErr /\ row.runErr = cells[c].runErr
        /\ row.setting = cells[c].setting
    BY <1>0 DEF CellType
  <2> HIDE DEF row
  <2> QED BY <1>0, <1>4, <1>10, <2>1, <2>2 DEF c
<1>11. CASE WriteLink(k)
  <2>1. CASE UNCHANGED cells /\ "dropped" \in trouble'
    BY <1>0, <1>5, <1>11, <2>1 DEF c, Others
  <2>2. CASE cells' = [cells EXCEPT ![c] = LinkedRow(cells[c], calls[k].run)]
    BY <1>0, <1>1, <1>5, <1>11, <2>2 DEF CellType, c, LinkedRow
  <2> QED BY <1>5, <1>11, <2>1, <2>2
<1>12. CASE SetOutcome(k)
  <2>1. CASE UNCHANGED cells /\ "dropped" \in trouble'
    BY <1>0, <1>6, <1>12, <2>1 DEF c, Others
  <2>2. CASE cells' = [cells EXCEPT ![c] = [cells[c] EXCEPT !["runStatus"] = calls[k].runStatus]]
    BY <1>0, <1>1, <1>6, <1>12, <2>2 DEF CellType, c
  <2> QED BY <1>6, <1>12, <2>1, <2>2
<1>13. CASE SetFailure(k)
  <2>1. CASE UNCHANGED cells /\ "dropped" \in trouble'
    BY <1>0, <1>7, <1>13, <2>1 DEF c, Others
  <2>2. CASE cells' = [cells EXCEPT ![c] = FailedRow(cells[c], calls[k].pc)]
    BY <1>0, <1>1, <1>7, <1>13, <2>2 DEF CellType, c, FailedRow, Failed
  <2> QED BY <1>7, <1>13, <2>1, <2>2
<1> QED BY <1>8, <1>9, <1>10, <1>11, <1>12, <1>13
----------------------------------------------------------------------------
(* The invariant of calls that never run beside each other.                *)

LEMMA QuietIdle ==
  ASSUME Typed, Typed', matrix' = matrix, Quiet, NEW k \in Calls, calls[k].pc # "idle",
         \A j \in Calls \ {k} : calls'[j] = calls[j],
         calls'[k].pc \in {"idle", "get"} \/ status' \notin Settled,
         Ordered', Fresh(k)'
  PROVE  Quiet'
<1>1. \A j \in Calls \ {k} : calls'[j].pc = "idle" BY DEF Quiet, OneCall
<1>2. \A j \in Calls \ {k} : Fresh(j)'
  BY <1>1 DEF Fresh, Past, Handling, Launching, Reading, Opening, Built
<1> QED BY <1>1, <1>2 DEF Quiet, OneCall, Unsettled

LEMMA QuietMove ==
  ASSUME Typed, Typed', matrix' = matrix, Quiet, NEW k \in Calls, calls[k].pc \in Handling,
         NEW c, c = calls[k].cell, UNCHANGED status,
         \A j \in Calls \ {k} : calls'[j] = calls[j],
         \/ calls'[k].pc = "idle"
         \/ /\ calls'[k].pc \in Handling
            /\ calls'[k].seen = calls[k].seen /\ calls'[k].cell = c
            /\ ~Failed(cells'[c])
            /\ calls'[k].pc \in Reading => cells'[c] = Row(k)
            /\ calls'[k].pc \in Opening => Row(k).run = None /\ cells'[c].run = None
            /\ calls'[k].pc \in Reading \cup Opening \cup {"outcome", "fail_index"} =>
                 ~Done(cells'[c])
            /\ calls'[k].pc \in Built \cup {"ready"} => cells'[c].dispatched
            /\ calls'[k].pc \in Built => cells'[c].ready,
         Others(c), InOrder(cells'[c])
  PROVE  Quiet'
<1>0. /\ c \in Places /\ Rows(calls[k].seen) /\ ~Failed(Row(k)) /\ ~Done(Row(k))
      /\ Places' = Places
  BY TypesStay DEF Typed, References, CallRefers
<1>1. Ordered' BY <1>0 DEF Ordered, Others, Quiet
<1>2. calls[k].pc # "idle" /\ status' \notin Settled
  BY DEF Handling, Launching, Quiet, Unsettled
<1>3. Fresh(k)'
  <2>1. CASE calls'[k].pc = "idle"
    BY <2>1 DEF Fresh, Past, Handling, Launching, Reading, Opening, Built
  <2>2. CASE calls'[k].pc \in Handling
    <3>1. calls'[k].pc # "idle" BY <2>2 DEF Handling, Launching
    <3>2. calls'[k].seen = calls[k].seen /\ calls'[k].cell = c BY <3>1
    <3>3. ASSUME NEW d \in Places
          PROVE  /\ InOrder(calls[k].seen[d])
                 /\ Failed(calls[k].seen[d]) \/ Done(calls[k].seen[d]) =>
                      cells'[d] = calls[k].seen[d]
                 /\ d > c => cells'[d] = calls[k].seen[d]
      <4>1. calls[k].pc \in Past BY DEF Past
      <4>2. c \in Nat /\ d \in Nat BY <1>0, PlacesNat
      <4>3. d > c => d # c BY <4>2
      <4>4. d # c => cells'[d] = cells[d] BY DEF Others
      <4>5. d = c => ~Failed(calls[k].seen[d]) /\ ~Done(calls[k].seen[d]) BY <1>0 DEF Row
      <4> QED BY <4>1, <4>3, <4>4, <4>5 DEF Quiet, Fresh
    <3>4. Row(k)' = Row(k) BY <3>2 DEF Row
    <3> QED BY <1>0, <3>1, <3>2, <3>3, <3>4 DEF Fresh, InOrder, Failed, Done
  <2> QED BY <2>1, <2>2
<1> QED BY <1>1, <1>2, <1>3, QuietIdle

LEMMA QuietScan ==
  ASSUME Typed, Typed', matrix' = matrix, Quiet, NEW k \in Calls,
         calls[k].pc \notin {"idle", "get"}, UNCHANGED status, Ordered',
         NEW seen \in [Places -> CellType], NEW c \in Nat, ScanFrom(k, seen, c),
         \A d \in Places : InOrder(seen[d]),
         \A d \in Places : d > c => cells'[d] = seen[d],
         \A d \in Places : Failed(seen[d]) \/ Done(seen[d]) => cells'[d] = seen[d]
  PROVE  Quiet'
<1>0. /\ calls \in [Calls -> CallType] /\ cells \in [Places -> CellType] /\ Places' = Places
  BY TypesStay DEF Typed, TypeOK
<1>1. calls'[k].seen = seen /\ \A j \in Calls \ {k} : calls'[j] = calls[j]
  BY <1>0, ScanFacts
<1>2. calls'[k].pc = "finalize" \/
      (/\ calls'[k].pc \in {"load", "config"} /\ calls'[k].cell \in Places
       /\ calls'[k].cell > c /\ ~Failed(seen[calls'[k].cell]) /\ ~Done(seen[calls'[k].cell]))
  BY <1>0, ScanFacts
<1>3. CASE calls'[k].pc = "finalize"
  <2>1. Fresh(k)'
    BY <1>0, <1>1, <1>3
    DEF Fresh, Past, Handling, Launching, Reading, Opening, Built, InOrder, Failed, Done
  <2> QED BY <1>1, <2>1, QuietIdle DEF Quiet, Unsettled
<1>4. CASE calls'[k].pc \in {"load", "config"}
  <2> DEFINE b == calls'[k].cell
  <2>1. b \in Places /\ b > c /\ ~Failed(seen[b]) /\ ~Done(seen[b]) BY <1>2, <1>4
  <2>2. cells'[b] = seen[b] /\ Row(k)' = seen[b] BY <1>1, <2>1 DEF Row
  <2>3. \A d \in Places : d > b => cells'[d] = seen[d]
    <3> SUFFICES ASSUME NEW d \in Places, d > b PROVE d > c
      OBVIOUS
    <3>1. d \in Nat /\ b \in Nat BY <2>1, PlacesNat
    <3> HIDE DEF b
    <3> QED BY <2>1, <3>1
  <2>4. calls'[k].cell = b OBVIOUS
  <2> HIDE DEF b
  <2>5. Fresh(k)'
    BY <1>0, <1>1, <1>4, <2>1, <2>2, <2>3, <2>4
    DEF Fresh, Past, Handling, Launching, Reading, Opening, Built, InOrder, Failed, Done
  <2> QED BY <1>1, <2>5, QuietIdle DEF Quiet, Unsettled
<1> QED BY <1>2, <1>3, <1>4

LEMMA InOrderRow ==
  ASSUME Typed, Quiet, NEW k \in Calls, calls[k].pc \in Handling
  PROVE  /\ calls[k].cell \in Places /\ InOrder(cells[calls[k].cell]) /\ Fresh(k)
         /\ calls[k].pc # "idle"
BY DEF Typed, References, CallRefers, Quiet, Ordered, Handling, Launching

(* A call that moves on without writing to the cells.                      *)
LEMMA QuietGo ==
  ASSUME Typed, Typed', matrix' = matrix, Quiet, NEW k \in Calls, calls[k].pc \in Handling,
         UNCHANGED <<status, cells>>,
         \A j \in Calls \ {k} : calls'[j] = calls[j],
         \/ calls'[k].pc = "idle"
         \/ /\ calls'[k].pc \in Handling
            /\ calls'[k].seen = calls[k].seen /\ calls'[k].cell = calls[k].cell
            /\ \/ calls[k].pc = "load" /\ calls'[k].pc \in {"plan", "fail_index", "refresh"}
               \/ calls[k].pc = "load" /\ calls'[k].pc = "create"
                  /\ Row(k).dispatched /\ Row(k).ready /\ Row(k).run = None
               \/ calls[k].pc = "plan" /\ calls'[k].pc = "ready" /\ Row(k).dispatched
               \/ calls[k].pc \in {"plan", "reprocess", "dispatch"}
                  /\ calls'[k].pc \in {"fail_index", "reprocess", "dispatch", "mark"}
               \/ calls[k].pc \in {"create"} \cup Launching
                  /\ calls'[k].pc \in Launching \cup {"outcome", "fail_run"}
               \/ calls[k].pc = "refresh" /\ calls'[k].pc = "fail_run"
               \/ calls[k].pc = "refresh" /\ calls'[k].pc = "outcome" /\ Row(k).run # None
            /\ calls[k].pc = "load" /\ calls'[k].pc = "plan" => Row(k).run = None
  PROVE  Quiet'
<1> DEFINE c == calls[k].cell
<1>0. /\ c \in Places /\ InOrder(cells[c]) /\ Fresh(k) /\ Others(c) /\ ~Done(Row(k))
      /\ cells' = cells
  BY InOrderRow DEF Others, Typed, References, CallRefers
<1>1. CASE calls'[k].pc = "idle" BY <1>0, <1>1, QuietMove
<1>2. CASE calls'[k].pc \in Handling
  <2>0. calls'[k].pc # "idle" BY <1>2 DEF Handling, Launching
  <2>1. ~Failed(cells'[c]) BY <1>0 DEF Fresh
  <2>2. calls'[k].pc \in Reading => cells'[c] = Row(k)
    BY <1>0, <2>0 DEF Fresh, Reading, Launching
  <2>3. calls'[k].pc \in Opening => Row(k).run = None /\ cells'[c].run = None
    BY <1>0, <2>0 DEF Fresh, Reading, Opening, Launching
  <2>4. calls'[k].pc \in Reading \cup Opening \cup {"outcome", "fail_index"} => ~Done(cells'[c])
    BY <1>0, <2>0 DEF Fresh, Reading, Opening, Launching
  <2>5. /\ calls'[k].pc \in Built \cup {"ready"} => cells'[c].dispatched
        /\ calls'[k].pc \in Built => cells'[c].ready
    BY <1>0, <2>0 DEF Fresh, Reading, Opening, Built, Launching, InOrder
  <2>6. calls'[k].seen = calls[k].seen /\ calls'[k].cell = c BY <2>0
  <2> HIDE DEF c
  <2> QED BY <1>0, <1>2, <2>1, <2>2, <2>3, <2>4, <2>5, <2>6, QuietMove DEF c
<1> QED BY <1>1, <1>2

LEMMA QuietCallSteps ==
  ASSUME Typed, Typed', matrix' = matrix, Quiet, NEW k \in Calls,
         \/ LoadConfig(k) \/ Plan(k) \/ (\E d \in Docs : Reprocess(k, d)) \/ DispatchDocument(k)
         \/ CreateRun(k) \/ MarkRunning(k) \/ DispatchRun(k) \/ ReadLink(k) \/ Refresh(k)
  PROVE  Quiet'
<1>0. /\ calls \in [Calls -> CallType] /\ UNCHANGED <<status, cells>> /\ calls[k] \in CallType
      /\ calls[k].pc \in Handling
  BY DEF Typed, TypeOK, LoadConfig, Plan, Reprocess, DispatchDocument, CreateRun, MarkRunning,
         DispatchRun, ReadLink, Refresh, At, Handling, Launching
<1>1. Fresh(k) /\ calls[k].cell \in Places /\ CallRefers(k)
  BY <1>0, InOrderRow DEF Typed, References
<1>a. ASSUME Answer(k) PROVE Quiet'
  BY <1>0, <1>a, AnswerFacts, QuietGo
<1>2. ASSUME NEW pc \in Handling, Go(k, pc),
             \/ calls[k].pc = "load" /\ pc \in {"plan", "fail_index", "refresh"}
             \/ calls[k].pc = "load" /\ pc = "create"
                /\ Row(k).dispatched /\ Row(k).ready /\ Row(k).run = None
             \/ calls[k].pc = "plan" /\ pc = "ready" /\ Row(k).dispatched
             \/ calls[k].pc \in {"plan", "reprocess", "dispatch"}
                /\ pc \in {"fail_index", "reprocess", "dispatch", "mark"}
             \/ calls[k].pc \in {"create"} \cup Launching
                /\ pc \in Launching \cup {"outcome", "fail_run"}
             \/ calls[k].pc = "refresh" /\ pc = "fail_run",
             calls[k].pc = "load" /\ pc = "plan" => Row(k).run = None
      PROVE  Quiet'
  BY <1>0, <1>2, GoFacts, QuietGo
<1>3. ASSUME NEW new, calls' = [calls EXCEPT ![k] = new], new.pc \in Handling,
             new.seen = calls[k].seen, new.cell = calls[k].cell,
             \/ calls[k].pc = "plan" /\ new.pc \in {"reprocess", "mark"}
             \/ calls[k].pc = "reprocess" /\ new.pc = "dispatch"
             \/ calls[k].pc \in {"create"} \cup Launching
                /\ new.pc \in Launching \cup {"outcome", "fail_run"}
             \/ calls[k].pc = "refresh" /\ new.pc = "outcome" /\ Row(k).run # None
      PROVE  Quiet'
  <2>1. calls'[k] = new /\ \A j \in Calls \ {k} : calls'[j] = calls[j] BY <1>0, <1>3
  <2>2. /\ calls'[k].pc \in Handling
        /\ calls'[k].seen = calls[k].seen /\ calls'[k].cell = calls[k].cell
        /\ \/ calls[k].pc = "plan" /\ calls'[k].pc \in {"reprocess", "mark"}
           \/ calls[k].pc = "reprocess" /\ calls'[k].pc = "dispatch"
           \/ calls[k].pc \in {"create"} \cup Launching
              /\ calls'[k].pc \in Launching \cup {"outcome", "fail_run"}
           \/ calls[k].pc = "refresh" /\ calls'[k].pc = "outcome" /\ Row(k).run # None
        /\ ~(calls[k].pc = "load" /\ calls'[k].pc = "plan")
    BY <1>3, <2>1 DEF Launching
  <2> QED BY <1>0, <2>1, <2>2, QuietGo
<1>4. CASE LoadConfig(k)
  <2>1. calls[k].pc = "load" BY <1>4 DEF LoadConfig, At
  <2>2. ~Row(k).dispatched \/ ~Row(k).ready => Row(k).run = None
    <3>1. InOrder(Row(k)) BY <1>0, <1>1 DEF Fresh, Past, Row
    <3> QED BY <3>1 DEF InOrder
  <2>3. \/ Go(k, "fail_index")
        \/ Go(k, "plan") /\ Row(k).run = None
        \/ Go(k, "create") /\ Row(k).dispatched /\ Row(k).ready /\ Row(k).run = None
        \/ Go(k, "refresh")
    BY <1>4, <2>2 DEF LoadConfig
  <2> QED BY <1>2, <2>1, <2>3 DEF Handling
<1>5. CASE Plan(k)
  <2> DEFINE i == Needs(calls[k].cell)
             planned == [calls[k] EXCEPT !.needed = ReindexNeeded(i), !.todo = Docs,
                                         !.pc = IF ReindexNeeded(i) THEN "reprocess" ELSE "mark"]
  <2>1. calls[k].pc = "plan" BY <1>5 DEF Plan, At
  <2>2. /\ planned.seen = calls[k].seen /\ planned.cell = calls[k].cell
        /\ planned.pc \in {"reprocess", "mark"}
    BY <1>0 DEF CallType
  <2>3. \/ Go(k, "fail_index") \/ Answer(k) \/ (Go(k, "ready") /\ Row(k).dispatched)
        \/ calls' = [calls EXCEPT ![k] = planned]
    BY <1>5 DEF Plan
  <2> HIDE DEF planned
  <2> QED BY <1>a, <1>2, <1>3, <2>1, <2>2, <2>3 DEF Handling
<1>6. ASSUME NEW d \in Docs, Reprocess(k, d) PROVE Quiet'
  <2> DEFINE new == [calls[k] EXCEPT !.pc = "dispatch", !.doc = d, !.todo = calls[k].todo \ {d}]
  <2>1. calls[k].pc = "reprocess" BY <1>6 DEF Reprocess, At
  <2>2. new.seen = calls[k].seen /\ new.cell = calls[k].cell /\ new.pc = "dispatch"
    BY <1>0 DEF CallType
  <2>3. Go(k, "fail_index") \/ calls' = [calls EXCEPT ![k] = new] BY <1>6 DEF Reprocess
  <2> HIDE DEF new
  <2> QED BY <1>2, <1>3, <2>1, <2>2, <2>3 DEF Handling
<1>7. CASE DispatchDocument(k)
  <2>1. calls[k].pc = "dispatch" /\ \E pc \in {"mark", "reprocess", "fail_index"} : Go(k, pc)
    BY <1>7 DEF DispatchDocument, At
  <2> QED BY <1>2, <2>1 DEF Handling
<1>8. CASE CreateRun(k)
  <2> DEFINE new == [calls[k] EXCEPT !.pc = "mark_run", !.run = Len(runs) + 1]
  <2>1. calls[k].pc = "create" BY <1>8 DEF CreateRun, At
  <2>2. new.seen = calls[k].seen /\ new.cell = calls[k].cell /\ new.pc = "mark_run"
    BY <1>0 DEF CallType
  <2>3. Go(k, "fail_run") \/ calls' = [calls EXCEPT ![k] = new] BY <1>8 DEF CreateRun
  <2> HIDE DEF new
  <2> QED BY <1>2, <1>3, <2>1, <2>2, <2>3 DEF Handling, Launching
<1>9. CASE MarkRunning(k)
  <2>1. calls[k].pc = "mark_run" /\ \E pc \in {"dispatch_run", "fail_run"} : Go(k, pc)
    BY <1>9 DEF MarkRunning, At
  <2> QED BY <1>2, <2>1 DEF Handling, Launching
<1>10. CASE DispatchRun(k)
  <2> DEFINE new(s) == [calls[k] EXCEPT !.pc = "link", !.runStatus = s]
  <2>1. calls[k].pc = "dispatch_run" BY <1>10 DEF DispatchRun, At
  <2>2. \A s : new(s).seen = calls[k].seen /\ new(s).cell = calls[k].cell /\ new(s).pc = "link"
    BY <1>0 DEF CallType
  <2>3. Go(k, "fail_run") \/ \E s : calls' = [calls EXCEPT ![k] = new(s)] BY <1>10 DEF DispatchRun
  <2> HIDE DEF new
  <2> QED BY <1>2, <1>3, <2>1, <2>2, <2>3 DEF Handling, Launching
<1>11. CASE ReadLink(k)
  <2>1. calls[k].pc = "link" /\ (Answer(k) \/ \E pc \in {"write_link", "outcome"} : Go(k, pc))
    BY <1>11 DEF ReadLink, At
  <2> QED BY <1>a, <1>2, <2>1 DEF Handling, Launching
<1>12. CASE Refresh(k)
  <2> DEFINE new == [calls[k] EXCEPT !.pc = "outcome", !.runStatus = runs[Row(k).run].status]
  <2>1. calls[k].pc = "refresh" /\ Row(k).run # None BY <1>1, <1>12 DEF Refresh, At, CallRefers
  <2>2. new.seen = calls[k].seen /\ new.cell = calls[k].cell /\ new.pc = "outcome"
    BY <1>0 DEF CallType
  <2>3. Go(k, "fail_run") \/ calls' = [calls EXCEPT ![k] = new] BY <1>12 DEF Refresh
  <2> HIDE DEF new
  <2> QED BY <1>2, <1>3, <2>1, <2>2, <2>3 DEF Handling
<1> QED BY <1>4, <1>5, <1>6, <1>7, <1>8, <1>9, <1>10, <1>11, <1>12

LEMMA QuietWriteSteps ==
  ASSUME Typed, Typed', matrix' = matrix, Quiet, NEW k \in Calls,
         CreateConfig(k) \/ MarkIndexDispatched(k) \/ SetReady(k) \/ WriteLink(k)
         \/ SetOutcome(k) \/ SetFailure(k)
  PROVE  Quiet'
<1> DEFINE c == calls[k].cell
<1>0. /\ calls \in [Calls -> CallType] /\ UNCHANGED status
      /\ calls[k].pc \in Handling /\ c \in Places /\ Others(c)
  BY Writes DEF Typed, TypeOK, CreateConfig, MarkIndexDispatched, SetReady, WriteLink,
     SetOutcome, SetFailure
<1>1. Fresh(k) /\ CallRefers(k) /\ InOrder(cells[c]) /\ c \in Nat /\ calls[k].pc \in Past
  BY <1>0, InOrderRow, PlacesNat DEF Typed, References, Past
<1>2. InOrder(cells'[c])
  <2>1. calls[k].pc = "mark" => cells[c].run = None
    BY <1>1 DEF Fresh, Opening
  <2>2. calls[k].pc = "ready" => cells[c].dispatched BY <1>1 DEF Fresh
  <2>3. calls[k].pc = "write_link" => cells[c].ready BY <1>1 DEF Fresh, Built, Launching
  <2> QED BY <1>1, <2>1, <2>2, <2>3, Writes DEF InOrder
<1>a. ASSUME Answer(k) PROVE Quiet'
  BY <1>0, <1>2, <1>a, AnswerFacts, QuietMove
<1>3. CASE CreateConfig(k) BY <1>3, <1>a DEF CreateConfig
<1>4. CASE MarkIndexDispatched(k)
  <2>1. calls[k].pc = "mark" BY <1>4 DEF MarkIndexDispatched, At
  <2>2. /\ ~Failed(cells'[c]) /\ ~Done(cells'[c]) /\ cells'[c].dispatched
        /\ cells'[c].run = None /\ Row(k).run = None
    BY <1>1, <2>1, <1>4, Writes DEF Fresh, Opening, Reading, Handling, Failed, Done
  <2>3. CASE Go(k, "ready")
    <3>1. calls'[k].pc = "ready" /\ calls'[k].seen = calls[k].seen /\ calls'[k].cell = c
          /\ \A j \in Calls \ {k} : calls'[j] = calls[j]
      BY <1>0, <2>3, GoFacts
    <3> HIDE DEF c
    <3> QED BY <1>0, <1>2, <2>2, <3>1, QuietMove DEF c, Handling, Reading, Built, Launching
  <2> QED BY <1>4, <1>a, <2>3 DEF MarkIndexDispatched
<1>5. CASE SetReady(k)
  <2>1. calls[k].pc = "ready" BY <1>5 DEF SetReady, At
  <2>2. /\ ~Failed(cells'[c]) /\ ~Done(cells'[c]) /\ cells'[c].dispatched /\ cells'[c].ready
        /\ cells'[c].run = None /\ Row(k).run = None
    BY <1>1, <2>1, <1>5, Writes DEF Fresh, Opening, Built, Handling, Failed, Done
  <2>3. CASE Go(k, "create")
    <3>1. calls'[k].pc = "create" /\ calls'[k].seen = calls[k].seen /\ calls'[k].cell = c
          /\ \A j \in Calls \ {k} : calls'[j] = calls[j]
      BY <1>0, <2>3, GoFacts
    <3> HIDE DEF c
    <3> QED BY <1>0, <1>2, <2>2, <3>1, QuietMove DEF c, Handling, Reading, Built, Launching
  <2> QED BY <1>5, <1>a, <2>2, <2>3 DEF SetReady
<1>6. CASE WriteLink(k)
  <2>1. calls[k].pc = "write_link" BY <1>6 DEF WriteLink, At
  <2>2. /\ ~Failed(cells'[c]) /\ ~Done(cells'[c]) /\ cells'[c].dispatched /\ cells'[c].ready
    BY <1>1, <2>1, <1>6, Writes DEF Fresh, Opening, Built, Launching, Handling, Failed, Done
  <2>3. calls'[k].pc = "outcome" /\ calls'[k].seen = calls[k].seen /\ calls'[k].cell = c
        /\ \A j \in Calls \ {k} : calls'[j] = calls[j]
    BY <1>0, <1>6, GoFacts DEF WriteLink
  <2> HIDE DEF c
  <2> QED
    BY <1>0, <1>2, <2>2, <2>3, QuietMove DEF c, Handling, Reading, Opening, Built, Launching
<1>7. CASE SetOutcome(k)
  <2>1. calls[k].pc = "outcome" BY <1>7 DEF SetOutcome, At
  <2>2. ~Failed(cells'[c])
    BY <1>1, <2>1, <1>7, Writes DEF Fresh, Handling, Failed
  <2>3. CASE Go(k, "fail_run")
    <3>1. calls'[k].pc = "fail_run" /\ calls'[k].seen = calls[k].seen /\ calls'[k].cell = c
          /\ \A j \in Calls \ {k} : calls'[j] = calls[j]
      BY <1>0, <2>3, GoFacts
    <3> HIDE DEF c
    <3> QED
      BY <1>0, <1>2, <2>2, <3>1, QuietMove DEF c, Handling, Reading, Opening, Built, Launching
  <2> QED BY <1>7, <1>a, <2>3 DEF SetOutcome
<1>8. CASE SetFailure(k)
  <2>1. CASE ScanFrom(k, calls[k].seen, c)
    <3>1. Rows(calls[k].seen) BY <1>1 DEF CallRefers, Past
    <3>2. \A d \in Places : d > c => cells'[d] = calls[k].seen[d]
      <4> SUFFICES ASSUME NEW d \in Places, d > c PROVE cells'[d] = calls[k].seen[d]
        OBVIOUS
      <4>1. d # c BY <1>1, PlacesNat
      <4> QED BY <1>0, <1>1, <4>1 DEF Fresh, Others
    <3>3. \A d \in Places : Failed(calls[k].seen[d]) \/ Done(calls[k].seen[d]) =>
                              cells'[d] = calls[k].seen[d]
      <4> SUFFICES ASSUME NEW d \in Places,
                          Failed(calls[k].seen[d]) \/ Done(calls[k].seen[d])
                   PROVE  cells'[d] = calls[k].seen[d]
        OBVIOUS
      <4>1. d # c BY <1>0, <1>1 DEF CallRefers, Row
      <4> QED BY <1>0, <1>1, <4>1 DEF Fresh, Others
    <3>4. Ordered'
      BY <1>0, <1>2, TypesStay DEF Quiet, Ordered, Others
    <3>5. \A d \in Places : InOrder(calls[k].seen[d]) BY <1>1 DEF Fresh
    <3>6. calls[k].pc \notin {"idle", "get"} BY <1>0 DEF Handling, Launching
    <3> HIDE DEF c
    <3> QED BY <1>0, <1>1, <2>1, <3>1, <3>2, <3>3, <3>4, <3>5, <3>6, QuietScan DEF Rows
  <2> QED BY <1>8, <1>a, <2>1 DEF SetFailure
<1> QED BY <1>3, <1>4, <1>5, <1>6, <1>7, <1>8

LEMMA AloneStep == Typed /\ Typed' /\ [Next]_vars /\ Alone' /\ AloneInv => Quiet /\ Quiet'
<1> SUFFICES ASSUME Typed, Typed', [Next]_vars, Alone', AloneInv PROVE Quiet /\ Quiet'
  OBVIOUS
<1>0. matrix' = matrix BY MatrixStays
<1>1. Alone
  BY DEF Alone, Next, Work, BeginAdvance, GetExperiment, GetCells, CreateConfig, LoadConfig, Plan,
         Reprocess, DispatchDocument, MarkIndexDispatched, SetReady, CreateRun, MarkRunning,
         DispatchRun, ReadLink, WriteLink, SetOutcome, Refresh, SetFailure, Finalize, CallDies,
         IndexDocument, StoreCase, StoreLastCase, vars, Suffer, OrDropped
<1>2. Quiet /\ calls \in [Calls -> CallType] BY <1>1 DEF AloneInv, Typed, TypeOK
<1>3. ASSUME UNCHANGED <<status, cells, calls>> PROVE Quiet'
  BY <1>0, <1>2, <1>3, TypesStay
  DEF Quiet, OneCall, Unsettled, Ordered, Fresh, InOrder, Failed, Done, Row
<1>4. ASSUME NEW k \in Calls, BeginAdvance(k) PROVE Quiet'
  <2>1. /\ UNCHANGED <<status, cells>> /\ calls'[k].pc = "get"
        /\ \A j \in Calls \ {k} : calls'[j] = calls[j] /\ calls[j].pc = "idle"
    BY <1>2, <1>4, GoFacts DEF BeginAdvance, Suffer, Alone
  <2>2. \A j \in Calls : Fresh(j)'
    BY <2>1 DEF Fresh, Past, Handling, Launching, Reading, Opening, Built
  <2>3. Ordered' BY <1>0, <1>2, <2>1, TypesStay DEF Quiet, Ordered
  <2> QED BY <2>1, <2>2, <2>3 DEF Quiet, OneCall, Unsettled
<1>5. ASSUME NEW k \in Calls,
             GetExperiment(k) \/ GetCells(k) \/ Finalize(k) \/ CallDies(k)
      PROVE  Quiet'
  <2>1. calls[k].pc # "idle" /\ UNCHANGED cells
    BY <1>5 DEF GetExperiment, GetCells, Finalize, CallDies, At
  <2>2. Ordered' BY <1>0, <1>2, <2>1, TypesStay DEF Quiet, Ordered
  <2>3. CASE Answer(k)
    <3>1. calls'[k].pc = "idle" /\ \A j \in Calls \ {k} : calls'[j] = calls[j]
      BY <1>2, <2>3, AnswerFacts
    <3>2. Fresh(k)' BY <3>1 DEF Fresh, Past, Handling, Launching, Reading, Opening, Built
    <3> QED BY <1>0, <1>2, <2>1, <2>2, <3>1, <3>2, QuietIdle
  <2>4. CASE Go(k, "rows") /\ status' = status /\ status \notin Settled
    <3>1. calls'[k].pc = "rows" /\ \A j \in Calls \ {k} : calls'[j] = calls[j]
      BY <1>2, <2>4, GoFacts
    <3>2. Fresh(k)' BY <3>1 DEF Fresh, Past, Handling, Launching, Reading, Opening, Built
    <3> QED BY <1>0, <1>2, <2>1, <2>2, <2>4, <3>1, <3>2, QuietIdle
  <2>5. CASE GetCells(k)
    <3>1. /\ ScanFrom(k, cells, 0) /\ calls[k].pc \notin {"idle", "get"} /\ status' = status
          /\ cells \in [Places -> CellType] /\ \A d \in Places : InOrder(cells[d])
      BY <1>2, <2>5 DEF GetCells, At, Typed, TypeOK, Quiet, Ordered
    <3> QED BY <1>0, <1>2, <2>1, <2>2, <3>1, QuietScan
  <2> QED BY <1>5, <2>3, <2>4, <2>5 DEF GetExperiment, Finalize, CallDies, Over
<1>6. ASSUME NEW k \in Calls, BeginAdvance(k) \/ Work(k) \/ CallDies(k) PROVE Quiet'
  BY <1>0, <1>2, <1>4, <1>5, <1>6, QuietCallSteps, QuietWriteSteps DEF Work
<1>7. ASSUME NEW d \in Docs, IndexDocument(d) PROVE Quiet'
  BY <1>3, <1>7 DEF IndexDocument
<1>8. ASSUME NEW r \in DOMAIN runs, StoreCase(r) \/ StoreLastCase(r) PROVE Quiet'
  BY <1>3, <1>8 DEF StoreCase, StoreLastCase
<1>9. CASE UNCHANGED vars BY <1>2, <1>3, <1>9 DEF vars
<1> QED BY <1>2, <1>6, <1>7, <1>8, <1>9 DEF Next

LEMMA CellWriters ==
  ASSUME [Next]_vars,
         ~ \E k \in Calls : CreateConfig(k) \/ MarkIndexDispatched(k) \/ SetReady(k)
                            \/ WriteLink(k) \/ SetOutcome(k) \/ SetFailure(k)
  PROVE  UNCHANGED cells
BY DEF Next, Work, BeginAdvance, GetExperiment, GetCells, LoadConfig, Plan,
       Reprocess, DispatchDocument, CreateRun, MarkRunning,
       DispatchRun, ReadLink, Refresh, Finalize, CallDies,
       IndexDocument, StoreCase, StoreLastCase, vars

LEMMA RowsGrow ==
  ASSUME Typed, Quiet, [Next]_vars
  PROVE  \A c \in Places : /\ cells[c].run # None => cells'[c].run = cells[c].run
                           /\ cells[c].runErr => cells'[c].runErr
                           /\ Failed(cells[c]) => Failed(cells'[c])
<1>1. ASSUME NEW k \in Calls,
             CreateConfig(k) \/ MarkIndexDispatched(k) \/ SetReady(k)
             \/ WriteLink(k) \/ SetOutcome(k) \/ SetFailure(k),
             NEW c \in Places
      PROVE  /\ cells[c].run # None => cells'[c].run = cells[c].run
             /\ cells[c].runErr => cells'[c].runErr
             /\ Failed(cells[c]) => Failed(cells'[c])
  <2>1. CASE c # calls[k].cell BY <1>1, <2>1, Writes DEF Others
  <2>2. CASE c = calls[k].cell
    <3>1. /\ calls[k].pc \in Handling /\ ~Failed(cells[c])
          /\ calls[k].pc = "write_link" => cells[c].run = None
      BY <1>1, <2>2, Writes DEF Quiet, Fresh, Opening, Launching
    <3> QED BY <1>1, <2>2, <3>1, Writes DEF Failed
  <2> QED BY <2>1, <2>2
<1>2. CASE UNCHANGED cells BY <1>2
<1> QED BY <1>1, <1>2, CellWriters

LEMMA SettledStays ==
  ASSUME Typed, Quiet, [Next]_vars, status \in Settled
  PROVE  UNCHANGED <<status, cells>>
<1>1. \A k \in Calls : calls[k].pc \in {"idle", "get"} BY DEF Quiet, Unsettled
<1>2. ASSUME NEW k \in Calls, Work(k), ~GetExperiment(k) PROVE FALSE
  BY <1>1, <1>2
  DEF Work, GetCells, CreateConfig, LoadConfig, Plan, Reprocess, DispatchDocument,
      MarkIndexDispatched, SetReady, CreateRun, MarkRunning, DispatchRun, ReadLink, WriteLink,
      SetOutcome, Refresh, SetFailure, Finalize, At
<1> QED BY <1>2 DEF Next, BeginAdvance, GetExperiment, CallDies, IndexDocument, StoreCase,
                    StoreLastCase, vars

LEMMA InitQuiet == Init => Quiet
<1> SUFFICES ASSUME Init PROVE Quiet
  OBVIOUS
<1>1. /\ cells = [c \in Places |-> NewCell(Settings[c])] /\ status = "created"
      /\ \A k \in Calls : calls[k].pc = "idle"
  BY DEF Init, Places, Settings, IdleCall
<1>2. \A c \in Places : cells[c].run = None /\ ~cells[c].ready BY <1>1 DEF NewCell
<1>3. \A k \in Calls : Fresh(k)
  BY <1>1 DEF Fresh, Past, Handling, Launching, Reading, Opening, Built
<1> QED BY <1>1, <1>2, <1>3 DEF Quiet, OneCall, Unsettled, Ordered, InOrder

(* The types of the variables, for every number of documents and of calls, *)
(* and whatever goes wrong.                                                *)
THEOREM TypeCorrect == Spec => []TypeOK
<1>1. Typed => TypeOK BY DEF Typed
<1> QED BY <1>1, InitTyped, TypedStep, PTL DEF Spec

LEMMA QuietAlways == Spec => [](Typed /\ AloneInv)
<1>1. Init => Typed /\ AloneInv BY InitTyped, InitQuiet DEF AloneInv
<1>2. Typed /\ AloneInv /\ [Next]_vars => (Typed /\ AloneInv)'
  BY TypedStep, AloneStep DEF AloneInv
<1> QED BY <1>1, <1>2, PTL DEF Spec

(* What Advance stored stays: while no call runs beside another, a call    *)
(* that dies between two statements and one whose update is lost leave     *)
(* every linked run linked and a settled sweep as it is (advance.go).      *)
THEOREM NothingIsUndone == Spec => NothingUndone
<1> DEFINE A == Alone' => /\ \A c \in Cells : cells[c].run # None => cells'[c].run = cells[c].run
                          /\ status \in Settled => UNCHANGED <<status, cells>>
<1>1. Typed /\ AloneInv /\ [Next]_vars => [A]_vars
  <2> SUFFICES ASSUME Typed, AloneInv, [Next]_vars, Alone' PROVE A
    OBVIOUS
  <2>1. Quiet BY TypedStep, AloneStep
  <2>2. Cells = Places BY DEF Cells, Typed, TypeOK
  <2> QED BY <2>1, <2>2, RowsGrow, SettledStays
<1>2. (Typed /\ AloneInv) /\ [Next]_vars => [A]_vars BY <1>1
<1>3. NothingUndone <=> [][A]_vars BY DEF NothingUndone
<1> HIDE DEF A
<1> QED BY <1>2, <1>3, QuietAlways, PTL DEF Spec
----------------------------------------------------------------------------
(* One run for a cell.                                                     *)

LEMMA TroubleGrows == [Next]_vars => trouble \subseteq trouble'
<1> DEFINE Grows == trouble \subseteq trouble'
<1>1. ASSUME NEW kind, Suffer(kind) PROVE Grows BY <1>1 DEF Suffer
<1>2. ASSUME UNCHANGED trouble PROVE Grows BY <1>2
<1>3. ASSUME NEW update, OrDropped(update) PROVE Grows BY <1>1, <1>2, <1>3 DEF OrDropped
<1> HIDE DEF Grows
<1>4. ASSUME NEW k \in Calls, BeginAdvance(k) \/ CallDies(k) PROVE Grows
  BY <1>1, <1>2, <1>4 DEF BeginAdvance, CallDies
<1>5. ASSUME NEW k \in Calls, WriteLink(k) \/ SetOutcome(k) \/ SetFailure(k) PROVE Grows
  BY <1>2, <1>3, <1>5 DEF WriteLink, SetOutcome, SetFailure
<1>6. ASSUME NEW k \in Calls, LoadConfig(k) \/ Refresh(k) PROVE Grows
  BY <1>1, <1>2, <1>6 DEF LoadConfig, Refresh
<1>7. ASSUME NEW k \in Calls,
             \/ GetExperiment(k) \/ GetCells(k) \/ CreateConfig(k) \/ Plan(k)
             \/ \E d \in Docs : Reprocess(k, d)
      PROVE  Grows
  BY <1>2, <1>7 DEF GetExperiment, GetCells, CreateConfig, Plan, Reprocess
<1>8. ASSUME NEW k \in Calls,
             \/ DispatchDocument(k) \/ MarkIndexDispatched(k) \/ SetReady(k) \/ CreateRun(k)
             \/ MarkRunning(k) \/ DispatchRun(k) \/ ReadLink(k) \/ Finalize(k)
      PROVE  Grows
  BY <1>2, <1>8 DEF DispatchDocument, MarkIndexDispatched, SetReady, CreateRun, MarkRunning,
                    DispatchRun, ReadLink, Finalize
<1>9. ASSUME \/ \E d \in Docs : IndexDocument(d)
             \/ \E r \in DOMAIN runs : StoreCase(r) \/ StoreLastCase(r)
      PROVE  Grows
  BY <1>2, <1>9 DEF IndexDocument, StoreCase, StoreLastCase
<1>10. ASSUME Next PROVE Grows
  BY <1>4, <1>5, <1>6, <1>7, <1>8, <1>9, <1>10 DEF Next, Work
<1>11. ASSUME UNCHANGED vars PROVE Grows BY <1>2, <1>11 DEF vars
<1> QED BY <1>10, <1>11 DEF Grows

(* What CreateRun adds.                                                    *)
Adds(k) ==
  /\ calls[k].pc = "create" /\ UNCHANGED <<cells, docs>>
  /\ DOMAIN runs' = DOMAIN runs \cup {Len(runs) + 1} /\ Len(runs) + 1 \notin DOMAIN runs
  /\ \A r \in DOMAIN runs : runs'[r] = runs[r]
  /\ runs'[Len(runs) + 1].cell = calls[k].cell
  /\ runs'[Len(runs) + 1].pinned = [d \in Docs |-> docs[d].active]
  /\ runs'[Len(runs) + 1].status = "created" /\ ~runs'[Len(runs) + 1].executing
  /\ calls'[k].pc = "mark_run" /\ calls'[k].cell = calls[k].cell
  /\ calls'[k].run = Len(runs) + 1
  /\ \A j \in Calls \ {k} : calls'[j] = calls[j]
RunsStay == /\ DOMAIN runs' = DOMAIN runs
            /\ \A r \in DOMAIN runs : /\ runs'[r].cell = runs[r].cell
                                      /\ runs'[r].pinned = runs[r].pinned

LEMMA RunsGrow == Typed /\ [Next]_vars => RunsStay \/ \E k \in Calls : CreateRun(k) /\ Adds(k)
<1> SUFFICES ASSUME Typed, [Next]_vars PROVE RunsStay \/ \E k \in Calls : CreateRun(k) /\ Adds(k)
  OBVIOUS
<1>0. /\ runs \in Seq(RunType) /\ calls \in [Calls -> CallType] /\ Len(runs) \in Nat
      /\ DOMAIN runs = 1..Len(runs)
  BY LenProperties DEF Typed, TypeOK
<1>1. CASE UNCHANGED runs BY <1>1 DEF RunsStay
<1>2. ASSUME NEW r \in DOMAIN runs, StoreCase(r) \/ StoreLastCase(r) PROVE RunsStay
  BY <1>2, MatrixStays, StoreSteps DEF RunsStay
<1>3. ASSUME NEW r \in DOMAIN runs, NEW new, runs' = [runs EXCEPT ![r] = new],
             new.cell = runs[r].cell, new.pinned = runs[r].pinned
      PROVE  RunsStay
  BY <1>0, <1>3 DEF RunsStay
<1>4. ASSUME NEW k \in Calls, MarkRunning(k) \/ DispatchRun(k) PROVE RunsStay
  <2> DEFINE r == calls[k].run
             s(x) == [runs[r] EXCEPT !.status = x]
             e == [runs[r] EXCEPT !.executing = TRUE]
  <2>1. r \in DOMAIN runs
    BY <1>4 DEF MarkRunning, DispatchRun, At, Typed, References, CallRefers, Launching
  <2>2. runs[r] \in RunType BY <1>0, <2>1
  <2>3. /\ \A x : s(x).cell = runs[r].cell /\ s(x).pinned = runs[r].pinned
        /\ e.cell = runs[r].cell /\ e.pinned = runs[r].pinned
    BY <2>2 DEF RunType
  <2>4. \/ runs' = [runs EXCEPT ![r] = s("running")]
        \/ runs' = [runs EXCEPT ![r] = s("dispatch_failed")]
        \/ runs' = [runs EXCEPT ![r] = e]
        \/ UNCHANGED runs
    BY <1>4 DEF MarkRunning, DispatchRun
  <2> HIDE DEF r, s, e
  <2>5. CASE \/ runs' = [runs EXCEPT ![r] = s("running")]
             \/ runs' = [runs EXCEPT ![r] = s("dispatch_failed")]
    BY <1>3, <2>1, <2>3, <2>5
  <2>6. CASE runs' = [runs EXCEPT ![r] = e] BY <1>3, <2>1, <2>3, <2>6
  <2>7. CASE UNCHANGED runs BY <2>7 DEF RunsStay
  <2> QED BY <2>4, <2>5, <2>6, <2>7
<1>5. ASSUME NEW k \in Calls, CreateRun(k), ~UNCHANGED runs PROVE Adds(k)
  <2> DEFINE made == [cell |-> calls[k].cell, status |-> "created", executing |-> FALSE,
                      pinned |-> [d \in Docs |-> docs[d].active]]
             new == [calls[k] EXCEPT !.pc = "mark_run", !.run = Len(runs) + 1]
  <2>1. /\ runs' = Append(runs, made) /\ calls' = [calls EXCEPT ![k] = new]
        /\ calls[k].pc = "create" /\ UNCHANGED <<cells, docs>>
    BY <1>5 DEF CreateRun, At
  <2>2. /\ made.cell = calls[k].cell /\ made.pinned = [d \in Docs |-> docs[d].active]
        /\ made.status = "created" /\ ~made.executing
        /\ new.pc = "mark_run" /\ new.cell = calls[k].cell /\ new.run = Len(runs) + 1
    BY <1>0 DEF CallType
  <2> HIDE DEF made, new
  <2>3. /\ Len(runs') = Len(runs) + 1 /\ \A r \in 1..Len(runs) : runs'[r] = runs[r]
        /\ runs'[Len(runs) + 1] = made /\ DOMAIN runs' = 1..(Len(runs) + 1)
    BY <1>0, <2>1
  <2>4. calls'[k] = new /\ \A j \in Calls \ {k} : calls'[j] = calls[j] BY <1>0, <2>1
  <2> QED BY <1>0, <2>1, <2>2, <2>3, <2>4 DEF Adds
<1> QED
  BY <1>1, <1>2, <1>4, <1>5
  DEF Next, Work, BeginAdvance, GetExperiment, GetCells, CreateConfig, LoadConfig, Plan,
       Reprocess, DispatchDocument, MarkIndexDispatched, SetReady, ReadLink, WriteLink,
       SetOutcome, Refresh, SetFailure, Finalize, CallDies, IndexDocument, vars

LEMMA KeptStep ==
  ASSUME Typed, Quiet, [Next]_vars, trouble' \subseteq {"misread"},
         NEW r \in DOMAIN runs, runs'[r].cell = runs[r].cell, Kept(r)
  PROVE  Kept(r)'
<1> DEFINE c == runs[r].cell
<1>0. /\ c \in Places /\ calls \in [Calls -> CallType] /\ r # None /\ r \in Nat
      /\ cells \in [Places -> CellType] /\ runs[r] \in RunType
  <2>1. runs \in Seq(RunType) /\ DOMAIN runs = 1..Len(runs) /\ Len(runs) \in Nat
    BY LenProperties DEF Typed, TypeOK
  <2>2. r \in Nat /\ r # None BY <2>1, ExperimentAssumption
  <2>3. runs[r] \in RunType BY <2>1
  <2>4. runs[r].cell \in Places BY <2>3 DEF RunType
  <2> QED BY <2>2, <2>3, <2>4 DEF Typed, TypeOK
<1>1. CASE cells[c].run = r
  <2>1. cells'[c].run = r BY <1>0, <1>1, RowsGrow
  <2> QED BY <2>1 DEF Kept
<1>2. CASE cells[c].runErr
  <2>1. cells'[c].runErr BY <1>0, <1>2, RowsGrow
  <2> QED BY <2>1 DEF Kept
<1>3. ASSUME NEW k \in Calls, Launched(k, r) PROVE Kept(r)'
  <2>1. /\ calls[k].pc \in Launching \cup {"fail_run"} /\ calls[k].cell = c /\ calls[k].run = r
        /\ calls[k] \in CallType /\ Fresh(k)
    BY <1>0, <1>3 DEF Launched, Quiet
  <2>2. CASE calls'[k] = calls[k] BY <2>1, <2>2 DEF Kept, Launched
  <2>3. ASSUME NEW pc \in Launching \cup {"fail_run"}, Go(k, pc) PROVE Kept(r)'
    BY <1>0, <2>1, <2>3, GoFacts DEF Kept, Launched
  <2>4. CASE MarkRunning(k) BY <2>3, <2>4 DEF MarkRunning, Launching
  <2>5. CASE DispatchRun(k)
    <3> DEFINE new(s) == [calls[k] EXCEPT !.pc = "link", !.runStatus = s]
    <3>1. \A s : new(s).pc = "link" /\ new(s).cell = c /\ new(s).run = r
      BY <2>1 DEF CallType
    <3>2. Go(k, "fail_run") \/ \E s : calls' = [calls EXCEPT ![k] = new(s)]
      BY <2>5 DEF DispatchRun
    <3> HIDE DEF new, c
    <3>3. ASSUME NEW s, calls' = [calls EXCEPT ![k] = new(s)] PROVE Kept(r)'
      <4>1. calls'[k] = new(s) BY <1>0, <3>3
      <4> QED BY <3>1, <4>1 DEF Kept, Launched, Launching, c
    <3> QED BY <2>3, <3>2, <3>3
  <2>6. CASE ReadLink(k)
    <3>1. cells[calls[k].cell].run = None
      BY <2>1, <2>6 DEF ReadLink, At, Fresh, Opening, Launching
    <3>2. Go(k, "write_link") BY <2>6, <3>1 DEF ReadLink, LinkConflict
    <3> QED BY <2>3, <3>2 DEF Launching
  <2>7. CASE WriteLink(k)
    <3>1. cells'[c].run = r
      BY <2>1, <2>7, Writes DEF WriteLink, At
    <3> QED BY <3>1 DEF Kept
  <2>8. CASE SetFailure(k)
    <3>1. calls[k].pc = "fail_run" BY <2>1, <2>8 DEF SetFailure, Launching
    <3>2. "dropped" \notin trouble' OBVIOUS
    <3>3. cells'[c].runErr BY <2>1, <2>8, <3>1, <3>2, Writes
    <3> QED BY <3>3 DEF Kept
  <2>9. \/ calls'[k] = calls[k] \/ MarkRunning(k) \/ DispatchRun(k) \/ ReadLink(k)
        \/ WriteLink(k) \/ SetFailure(k)
    <3>1. ASSUME NEW j \in Calls, j # k, BeginAdvance(j) \/ Work(j) \/ CallDies(j) PROVE FALSE
      <4>1. calls[k].pc # "idle" BY <2>1 DEF Launching
      <4>2. calls[j].pc = "idle" BY <3>1, <4>1 DEF Quiet, OneCall
      <4>3. BeginAdvance(j)
        BY <3>1, <4>2
        DEF Work, GetExperiment, GetCells, CreateConfig, LoadConfig, Plan, Reprocess,
            DispatchDocument, MarkIndexDispatched, SetReady, CreateRun, MarkRunning, DispatchRun,
            ReadLink, WriteLink, SetOutcome, Refresh, SetFailure, Finalize, CallDies, At
      <4> QED BY <3>1, <4>1, <4>3 DEF BeginAdvance, Suffer
    <3>2. ~CallDies(k) BY DEF CallDies, Suffer
    <3>3. BeginAdvance(k) \/ Work(k) => MarkRunning(k) \/ DispatchRun(k) \/ ReadLink(k)
                                        \/ WriteLink(k) \/ SetFailure(k)
      BY <2>1
      DEF Work, BeginAdvance, GetExperiment, GetCells, CreateConfig, LoadConfig, Plan, Reprocess,
          DispatchDocument, MarkIndexDispatched, SetReady, CreateRun, SetOutcome, Refresh,
          Finalize, At, Launching
    <3> QED BY <3>1, <3>2, <3>3 DEF Next, vars, IndexDocument, StoreCase, StoreLastCase
  <2> QED BY <2>2, <2>4, <2>5, <2>6, <2>7, <2>8, <2>9
<1> QED BY <1>1, <1>2, <1>3 DEF Kept

LEMMA RunsStep == Typed /\ Typed' /\ AloneInv /\ RunsKept /\ [Next]_vars => RunsKept'
<1> SUFFICES ASSUME Typed, Typed', AloneInv, RunsKept, [Next]_vars, trouble' \subseteq {"misread"}
             PROVE  (\A r \in DOMAIN runs' : Kept(r)') /\ OneRunPerCell'
  BY DEF RunsKept
<1>1. Quiet BY AloneStep DEF Alone
<1>2. (\A r \in DOMAIN runs : Kept(r)) /\ trouble \subseteq {"misread"} /\ OneRunPerCell
  BY TroubleGrows DEF RunsKept
<1>3. \A r \in DOMAIN runs : runs'[r].cell = runs[r].cell
  BY RunsGrow DEF RunsStay, Adds
<1>4. \A r \in DOMAIN runs : Kept(r)' BY <1>1, <1>2, <1>3, KeptStep
<1>5. CASE RunsStay BY <1>2, <1>4, <1>5 DEF RunsStay, OneRunPerCell
<1>6. ASSUME NEW k \in Calls, CreateRun(k), Adds(k)
      PROVE  (\A r \in DOMAIN runs' : Kept(r)') /\ OneRunPerCell'
  <2> DEFINE c == calls[k].cell
  <2>0. PICK n : n = Len(runs) + 1 OBVIOUS
  <2>1. Kept(n)' BY <1>6, <2>0 DEF Adds, Kept, Launched, Launching
  <2>2. cells[c].run = None /\ ~cells[c].runErr
    BY <1>1, <1>6 DEF Adds, Quiet, Fresh, Opening, Handling, Failed
  <2>3. \A r \in DOMAIN runs : r # None
    <3>1. runs \in Seq(RunType) /\ DOMAIN runs = 1..Len(runs) /\ Len(runs) \in Nat
      BY LenProperties DEF Typed, TypeOK
    <3>2. \A r \in DOMAIN runs : r \in Nat BY <3>1
    <3> QED BY <3>2, ExperimentAssumption
  <2>4. ASSUME NEW r \in DOMAIN runs, runs[r].cell = c PROVE FALSE
    <3>1. PICK j \in Calls : Launched(j, r) BY <1>2, <2>2, <2>3, <2>4 DEF Kept
    <3>2. j = k BY <1>1, <1>6, <3>1 DEF Launched, Quiet, OneCall, Adds, Launching
    <3> QED BY <1>6, <3>1, <3>2 DEF Launched, Adds, Launching
  <2>5. OneRunPerCell'
    BY <1>2, <1>6, <2>4 DEF Adds, OneRunPerCell
  <2> QED BY <1>4, <1>6, <2>0, <2>1, <2>5 DEF Adds
<1> QED BY <1>5, <1>6, RunsGrow

(* Retries never duplicate runs: with one call at a time, no call that     *)
(* died and no lost update, setEvalRun and setFailure leave every run      *)
(* that LaunchRun created with its cell, and no cell gets a second one.    *)
THEOREM OneRunPerCellAlways == Spec => []OneRunPerCell
<1>1. Init => RunsKept BY DEF Init, RunsKept, OneRunPerCell
<1>2. Typed /\ AloneInv /\ (Typed /\ AloneInv)' /\ RunsKept /\ [Next]_vars => RunsKept'
  BY RunsStep
<1>3. RunsKept => OneRunPerCell BY DEF RunsKept, OneRunPerCell
<1> QED BY <1>1, <1>2, <1>3, QuietAlways, PTL DEF Spec

LEMMA OtherCall ==
  ASSUME calls \in [Calls -> CallType], NEW j \in Calls, NEW k \in Calls, j # k,
         BeginAdvance(j) \/ Work(j) \/ CallDies(j)
  PROVE  calls'[k] = calls[k]
<1>2. \A pc : Go(j, pc) => calls'[k] = calls[k] BY DEF Go
<1>3. Answer(j) => calls'[k] = calls[k] BY DEF Answer
<1>4. \A seen, c : ScanFrom(j, seen, c) => calls'[k] = calls[k] BY DEF ScanFrom
<1>5. CASE BeginAdvance(j) BY <1>2, <1>5 DEF BeginAdvance
<1>6. CASE CallDies(j) BY <1>3, <1>6 DEF CallDies
<1>7. CASE Plan(j) BY <1>2, <1>3, <1>7 DEF Plan
<1>8. CASE DispatchRun(j) \/ CreateRun(j) \/ Refresh(j)
  BY <1>2, <1>8 DEF DispatchRun, CreateRun, Refresh
<1>9. CASE \E d \in Docs : Reprocess(j, d) BY <1>2, <1>9 DEF Reprocess
<1>10. CASE Work(j)
  BY <1>2, <1>3, <1>4, <1>7, <1>8, <1>9, <1>10
  DEF Work, GetExperiment, GetCells, CreateConfig, LoadConfig, DispatchDocument,
      MarkIndexDispatched, SetReady, MarkRunning, ReadLink, WriteLink, SetOutcome, SetFailure,
      Finalize
<1> QED BY <1>5, <1>6, <1>10
----------------------------------------------------------------------------
(* What a settled sweep holds.                                             *)

(* A call that moves within a cell of which the counted ones are behind it. *)
LEMMA CountingMove ==
  ASSUME NEW k \in Calls, Counting(k), calls[k].pc \in Handling, Places' = Places,
         \/ calls'[k].pc \in {"idle", "get", "rows"}
         \/ /\ calls'[k].pc \in Handling
            /\ calls'[k].seen = calls[k].seen /\ calls'[k].cell = calls[k].cell
            /\ calls'[k].pc \in {"fail_index", "fail_run"} =>
                 Row(k).run = None \/ calls'[k].runStatus = "dispatch_failed"
  PROVE  Counting(k)'
<1>1. CASE calls'[k].pc \in {"idle", "get", "rows"}
  BY <1>1 DEF Counting, Handling, Launching
<1>2. CASE calls'[k].pc \in Handling
  <2>1. /\ calls'[k].pc # "finalize" /\ calls'[k].pc \notin {"idle", "get", "rows"}
    BY <1>2 DEF Handling, Launching
  <2>2. calls'[k].seen = calls[k].seen /\ calls'[k].cell = calls[k].cell BY <2>1
  <2> QED BY <2>1, <2>2, <1>2 DEF Counting, Passed, Done, Failed, Row
<1> QED BY <1>1, <1>2

LEMMA CountingScan ==
  ASSUME Typed, NEW k \in Calls, Places' = Places,
         NEW seen \in [Places -> CellType], NEW c \in Nat, ScanFrom(k, seen, c),
         \A d \in Places : d <= c => Passed(seen[d])
  PROVE  Counting(k)'
<1>0. calls \in [Calls -> CallType] /\ cells \in [Places -> CellType] BY DEF Typed, TypeOK
<1>1. calls'[k].seen = seen BY <1>0, ScanFacts
<1>2. CASE /\ calls'[k].pc = "finalize"
           /\ \A d \in Places : d > c => Failed(seen[d]) \/ Done(seen[d])
  <2>1. \A d \in Places : Passed(seen[d])
    <3> SUFFICES ASSUME NEW d \in Places PROVE Passed(seen[d])
      OBVIOUS
    <3>1. d \in Nat BY PlacesNat
    <3>2. d <= c \/ d > c BY <3>1
    <3> QED BY <1>2, <3>2 DEF Passed
  <2> QED BY <1>1, <1>2, <2>1 DEF Counting, Handling, Launching, Passed, Done, Failed
<1>3. CASE /\ calls'[k].pc \in {"load", "config"} /\ calls'[k].cell \in Places
           /\ \A d \in Places : d > c /\ d < calls'[k].cell => Failed(seen[d]) \/ Done(seen[d])
  <2>1. \A d \in Places : d < calls'[k].cell => Passed(seen[d])
    <3> SUFFICES ASSUME NEW d \in Places, d < calls'[k].cell PROVE Passed(seen[d])
      OBVIOUS
    <3>1. d \in Nat BY PlacesNat
    <3>2. d <= c \/ d > c BY <3>1
    <3> QED BY <1>3, <3>2 DEF Passed
  <2> QED BY <1>1, <1>3, <2>1 DEF Counting, Passed, Done, Failed
<1> QED BY <1>0, <1>2, <1>3, ScanFacts

LEMMA CountingStep ==
  ASSUME Typed, Typed', Quiet, Quiet', [Next]_vars, trouble' \cap {"overlap", "misread"} = {},
         NEW k \in Calls, Counting(k)
  PROVE  Counting(k)'
<1>0. /\ Places' = Places /\ calls \in [Calls -> CallType] /\ cells \in [Places -> CellType]
      /\ Fresh(k) /\ CallRefers(k) /\ calls[k] \in CallType
  BY MatrixStays, TypesStay DEF Typed, TypeOK, Quiet, References
<1>1. CASE calls'[k] = calls[k]
  BY <1>0, <1>1 DEF Counting, Passed, Done, Failed, Row
<1>2. ASSUME calls'[k].pc \in {"idle", "get", "rows"} PROVE Counting(k)'
  BY <1>2 DEF Counting, Handling, Launching
<1>a. ASSUME Answer(k) PROVE Counting(k)' BY <1>0, <1>2, <1>a, AnswerFacts
<1>3. ASSUME NEW pc \in Handling, Go(k, pc), calls[k].pc \in Handling,
             pc \in {"fail_index", "fail_run"} =>
               Row(k).run = None \/ calls[k].runStatus = "dispatch_failed"
      PROVE  Counting(k)'
  <2>1. /\ calls'[k].pc = pc /\ calls'[k].seen = calls[k].seen /\ calls'[k].cell = calls[k].cell
        /\ calls'[k].runStatus = calls[k].runStatus
    BY <1>0, <1>3, GoFacts
  <2> QED BY <1>0, <1>3, <2>1, CountingMove
<1>4. ASSUME NEW new, calls' = [calls EXCEPT ![k] = new], calls[k].pc \in Handling,
             new.pc \in Handling \ {"fail_index", "fail_run"},
             new.seen = calls[k].seen, new.cell = calls[k].cell
      PROVE  Counting(k)'
  <2>1. calls'[k] = new BY <1>0, <1>4
  <2>2. calls'[k].pc \in Handling \ {"fail_index", "fail_run"} BY <1>4, <2>1
  <2>3. calls'[k].seen = calls[k].seen /\ calls'[k].cell = calls[k].cell BY <1>4, <2>1
  <2> QED BY <1>0, <1>4, <2>2, <2>3, CountingMove
<1>5. calls[k].pc \in Opening => Row(k).run = None BY <1>0 DEF Fresh
<1>6. CASE BeginAdvance(k) \/ GetExperiment(k)
  BY <1>0, <1>2, <1>6, GoFacts, AnswerFacts DEF BeginAdvance, GetExperiment
<1>7. CASE GetCells(k)
  <2>1. \A d \in Places : ~(d <= 0) BY DEF Places
  <2> QED BY <1>0, <1>7, <2>1, CountingScan DEF GetCells
<1>8. CASE CreateConfig(k) \/ Finalize(k) \/ CallDies(k)
  BY <1>8, <1>a DEF CreateConfig, Finalize, CallDies
<1>9. CASE LoadConfig(k)
  <2>1. calls[k].pc = "load" /\ \E pc \in {"plan", "create", "refresh"} : Go(k, pc)
    BY <1>9 DEF LoadConfig, At, Suffer
  <2> QED BY <1>3, <2>1 DEF Handling
<1>10. CASE Plan(k)
  <2> DEFINE i == Needs(calls[k].cell)
             planned == [calls[k] EXCEPT !.needed = ReindexNeeded(i), !.todo = Docs,
                                         !.pc = IF ReindexNeeded(i) THEN "reprocess" ELSE "mark"]
  <2>1. calls[k].pc = "plan" BY <1>10 DEF Plan, At
  <2>2. /\ planned.seen = calls[k].seen /\ planned.cell = calls[k].cell
        /\ planned.pc \in {"reprocess", "mark"}
    BY <1>0 DEF CallType
  <2>3. \/ Go(k, "fail_index") \/ Answer(k) \/ Go(k, "ready")
        \/ calls' = [calls EXCEPT ![k] = planned]
    BY <1>10 DEF Plan
  <2> HIDE DEF planned
  <2> QED BY <1>a, <1>3, <1>4, <1>5, <2>1, <2>2, <2>3 DEF Handling, Opening
<1>11. ASSUME NEW d \in Docs, Reprocess(k, d) PROVE Counting(k)'
  <2> DEFINE new == [calls[k] EXCEPT !.pc = "dispatch", !.doc = d, !.todo = calls[k].todo \ {d}]
  <2>1. calls[k].pc = "reprocess" BY <1>11 DEF Reprocess, At
  <2>2. new.seen = calls[k].seen /\ new.cell = calls[k].cell /\ new.pc = "dispatch"
    BY <1>0 DEF CallType
  <2>3. Go(k, "fail_index") \/ calls' = [calls EXCEPT ![k] = new] BY <1>11 DEF Reprocess
  <2> HIDE DEF new
  <2> QED BY <1>3, <1>4, <1>5, <2>1, <2>2, <2>3 DEF Handling, Opening
<1>12. CASE DispatchDocument(k) \/ MarkRunning(k)
  <2>1. /\ calls[k].pc \in {"dispatch", "mark_run"}
        /\ \E pc \in {"mark", "reprocess", "fail_index", "dispatch_run", "fail_run"} : Go(k, pc)
    BY <1>12 DEF DispatchDocument, MarkRunning, At
  <2> QED BY <1>3, <1>5, <2>1 DEF Handling, Opening, Launching
<1>13. CASE MarkIndexDispatched(k) \/ SetReady(k)
  <2>1. /\ calls[k].pc \in {"mark", "ready"}
        /\ Answer(k) \/ \E pc \in {"ready", "create", "refresh"} : Go(k, pc)
    BY <1>13 DEF MarkIndexDispatched, SetReady, At
  <2> QED BY <1>a, <1>3, <2>1 DEF Handling
<1>14. CASE CreateRun(k)
  <2> DEFINE new == [calls[k] EXCEPT !.pc = "mark_run", !.run = Len(runs) + 1]
  <2>1. calls[k].pc = "create" BY <1>14 DEF CreateRun, At
  <2>2. new.seen = calls[k].seen /\ new.cell = calls[k].cell /\ new.pc = "mark_run"
    BY <1>0 DEF CallType
  <2>3. Go(k, "fail_run") \/ calls' = [calls EXCEPT ![k] = new] BY <1>14 DEF CreateRun
  <2> HIDE DEF new
  <2> QED BY <1>3, <1>4, <1>5, <2>1, <2>2, <2>3 DEF Handling, Opening, Launching
<1>15. CASE DispatchRun(k)
  <2> DEFINE new(s) == [calls[k] EXCEPT !.pc = "link", !.runStatus = s]
  <2>1. calls[k].pc = "dispatch_run" BY <1>15 DEF DispatchRun, At
  <2>2. \A s : new(s).seen = calls[k].seen /\ new(s).cell = calls[k].cell /\ new(s).pc = "link"
    BY <1>0 DEF CallType
  <2>3. Go(k, "fail_run") \/ \E s : calls' = [calls EXCEPT ![k] = new(s)] BY <1>15 DEF DispatchRun
  <2> HIDE DEF new
  <2> QED BY <1>3, <1>4, <1>5, <2>1, <2>2, <2>3 DEF Handling, Opening, Launching
<1>16. CASE ReadLink(k) \/ WriteLink(k)
  <2>1. /\ calls[k].pc \in Launching
        /\ Answer(k) \/ \E pc \in {"write_link", "outcome"} : Go(k, pc)
    BY <1>16 DEF ReadLink, WriteLink, At, Launching
  <2> QED BY <1>a, <1>3, <2>1 DEF Handling, Launching
<1>17. CASE SetOutcome(k)
  <2>1. /\ calls[k].pc = "outcome"
        /\ Answer(k) \/ (Go(k, "fail_run") /\ calls[k].runStatus = "dispatch_failed")
    BY <1>17 DEF SetOutcome, At
  <2> QED BY <1>a, <1>3, <2>1 DEF Handling
<1>18. CASE Refresh(k)
  <2> DEFINE new == [calls[k] EXCEPT !.pc = "outcome", !.runStatus = runs[Row(k).run].status]
  <2>1. calls[k].pc = "refresh" /\ calls' = [calls EXCEPT ![k] = new]
    BY <1>18 DEF Refresh, At, Suffer
  <2>2. new.seen = calls[k].seen /\ new.cell = calls[k].cell /\ new.pc = "outcome"
    BY <1>0 DEF CallType
  <2> HIDE DEF new
  <2> QED BY <1>4, <2>1, <2>2 DEF Handling
<1>19. CASE SetFailure(k)
  <2> DEFINE c == calls[k].cell
             seen == calls[k].seen
  <2>1. CASE ScanFrom(k, seen, c) /\ ~(Row(k).run # None /\ calls[k].runStatus = "dispatch_failed")
    <3>1. /\ seen \in [Places -> CellType] /\ c \in Places /\ c \in Nat /\ Passed(seen[c])
          /\ calls[k].pc \in Handling
      BY <1>0, <1>19, <2>1, PlacesNat
      DEF SetFailure, Counting, CallRefers, Rows, Passed, Row, Handling
    <3>2. \A d \in Places : d <= c => Passed(seen[d])
      <4> SUFFICES ASSUME NEW d \in Places, d <= c PROVE Passed(seen[d])
        OBVIOUS
      <4>1. d < c \/ d = c BY <3>1, PlacesNat
      <4> QED BY <3>1, <4>1 DEF Counting
    <3> HIDE DEF c, seen
    <3> QED BY <1>0, <2>1, <3>1, <3>2, CountingScan
  <2> QED BY <1>19, <1>a, <2>1 DEF SetFailure
<1>20. ASSUME NEW j \in Calls, j # k, BeginAdvance(j) \/ Work(j) \/ CallDies(j)
       PROVE  calls'[k] = calls[k]
  BY <1>0, <1>20, OtherCall
<1>21. BeginAdvance(k) \/ Work(k) \/ CallDies(k) => Counting(k)'
  BY <1>6, <1>7, <1>8, <1>9, <1>10, <1>11, <1>12, <1>13, <1>14, <1>15, <1>16, <1>17, <1>18, <1>19
  DEF Work
<1>22. \/ calls'[k] = calls[k] \/ BeginAdvance(k) \/ Work(k) \/ CallDies(k)
  BY <1>20 DEF Next, vars, IndexDocument, StoreCase, StoreLastCase
<1> QED BY <1>1, <1>21, <1>22

(* The setting of a cell is the one the matrix gave it.                    *)
Given == (\A c \in Places : cells[c].setting = Settings[c])
         /\ \E q \in Requests : Accepted(q) /\ matrix = q.matrix

LEMMA GivenStays == Typed /\ Given /\ [Next]_vars => Given'
<1> SUFFICES ASSUME Typed, Given, [Next]_vars PROVE Given'
  OBVIOUS
<1>0. matrix' = matrix /\ Places' = Places /\ Settings' = Settings
  BY MatrixStays, TypesStay
<1>1. ASSUME NEW k \in Calls,
             CreateConfig(k) \/ MarkIndexDispatched(k) \/ SetReady(k)
             \/ WriteLink(k) \/ SetOutcome(k) \/ SetFailure(k),
             NEW c \in Places
      PROVE  cells'[c].setting = cells[c].setting
  BY <1>1, Writes DEF Others
<1>2. \A c \in Places : cells'[c].setting = cells[c].setting
  BY <1>1, CellWriters
<1> QED BY <1>0, <1>2 DEF Given

LEMMA InitGiven == Init => Given
<1> SUFFICES ASSUME Init PROVE Given
  OBVIOUS
<1>1. cells = [c \in Places |-> NewCell(Settings[c])] BY DEF Init, Places, Settings
<1>2. \A c \in Places : NewCell(Settings[c]).setting = Settings[c] BY DEF NewCell
<1>3. \A c \in Places : cells[c].setting = Settings[c] BY <1>1, <1>2
<1> QED BY <1>3 DEF Init, Given

(* What finalize finds in the cells it read.                               *)
LEMMA FinalizeFinds ==
  ASSUME Typed, Quiet, NEW k \in Calls, Finalize(k)
  PROVE  /\ UNCHANGED cells /\ calls[k].pc = "finalize"
         /\ status' = "completed" =>
              \A c \in Places : calls[k].seen[c].run # None /\ ~Failed(calls[k].seen[c])
         /\ status' \in {"partial", "failed"} => \E c \in Places : Failed(cells[c])
<1> DEFINE seen == calls[k].seen
           failed == {c \in Places : Failed(seen[c])}
           linked == {c \in Places \ failed : seen[c].run # None}
<1>1. /\ calls[k].pc = "finalize" /\ UNCHANGED cells /\ status' = Aggregate(seen)
      /\ Cells = Places /\ Fresh(k)
  BY DEF Finalize, At, Typed, TypeOK, Cells, Quiet
<1>2. \A c \in Places : Failed(seen[c]) => cells[c] = seen[c] BY <1>1 DEF Fresh, Past
<1>3. status' = CASE failed # {} /\ linked # {} -> "partial"
                  [] failed # {} /\ linked = {} -> "failed"
                  [] failed = {} /\ linked = Places -> "completed"
                  [] OTHER -> "created"
  BY <1>1 DEF Aggregate
<1>4. /\ status' = "completed" => failed = {} /\ linked = Places
      /\ status' \in {"partial", "failed"} => failed # {}
  <2> HIDE DEF failed, linked
  <2> QED BY <1>3
<1>5. status' = "completed" => \A c \in Places : seen[c].run # None /\ ~Failed(seen[c])
  BY <1>4
<1>6. ASSUME status' \in {"partial", "failed"} PROVE \E c \in Places : Failed(cells[c])
  <2>1. PICK c \in Places : Failed(seen[c]) BY <1>4, <1>6
  <2>2. cells[c] = seen[c] BY <1>2, <2>1
  <2> HIDE DEF seen
  <2> QED BY <2>1, <2>2
<1> QED BY <1>1, <1>5, <1>6

(* What the cells of a completed sweep hold.                               *)
Whole == status = "completed" => \A c \in Places : Done(cells[c]) /\ ~Failed(cells[c])

(* Only finalize settles a sweep.                                          *)
LEMMA OnlyFinalize == [Next]_vars => status' = status \/ \E k \in Calls : Finalize(k)
BY DEF Next, Work, BeginAdvance, GetExperiment, GetCells, CreateConfig, LoadConfig, Plan,
       Reprocess, DispatchDocument, MarkIndexDispatched, SetReady, CreateRun, MarkRunning,
       DispatchRun, ReadLink, WriteLink, SetOutcome, Refresh, SetFailure, CallDies,
       IndexDocument, StoreCase, StoreLastCase, vars

LEMMA WholeStep == Typed /\ Typed' /\ AloneInv /\ WholeInv /\ [Next]_vars => WholeInv'
<1> SUFFICES ASSUME Typed, Typed', AloneInv, WholeInv, [Next]_vars,
                    trouble' \cap {"overlap", "misread"} = {}
             PROVE  (\A k \in Calls : Counting(k)') /\ Whole'
  BY DEF WholeInv, Whole
<1>1. Quiet /\ Quiet' BY AloneStep DEF Alone
<1>2. (\A k \in Calls : Counting(k)) /\ Whole BY TroubleGrows DEF WholeInv, Whole
<1>3. \A k \in Calls : Counting(k)' BY <1>1, <1>2, CountingStep
<1>4. Places' = Places BY MatrixStays, TypesStay
<1>5. ASSUME NEW k \in Calls, Finalize(k) PROVE Whole'
  <2>1. UNCHANGED cells /\ calls[k].pc = "finalize" BY <1>1, <1>5, FinalizeFinds
  <2>2. ASSUME status' = "completed", NEW c \in Places
        PROVE  Done(cells[c]) /\ ~Failed(cells[c])
    <3> DEFINE row == calls[k].seen[c]
    <3>1. row.run # None /\ ~Failed(row) BY <1>1, <1>5, <2>2, FinalizeFinds
    <3>2. Done(row) BY <1>2, <2>1, <3>1 DEF Counting, Passed
    <3>3. cells[c] = row BY <1>1, <2>1, <3>2 DEF Quiet, Fresh, Past
    <3> HIDE DEF row
    <3> QED BY <3>1, <3>2, <3>3
  <2> QED BY <1>4, <2>1, <2>2 DEF Whole, Done, Failed
<1>6. CASE status' = status
  <2>1. CASE status \in Settled
    <3>1. UNCHANGED <<status, cells>> BY <1>1, <2>1, SettledStays
    <3> QED BY <1>2, <1>3, <1>4, <3>1 DEF Whole, Done, Failed
  <2>2. CASE status \notin Settled BY <1>3, <1>6, <2>2 DEF Whole, Settled
  <2> QED BY <2>1, <2>2
<1> QED BY <1>3, <1>5, <1>6, OnlyFinalize

LEMMA InitWhole == Init => WholeInv
<1> SUFFICES ASSUME Init PROVE WholeInv
  OBVIOUS
<1>1. status = "created" /\ \A k \in Calls : calls[k].pc = "idle" BY DEF Init, IdleCall
<1> QED BY <1>1 DEF WholeInv, Counting, Handling, Launching

(* ------------------- The run a cell is linked to ----------------------- *)

(* While one call is in flight, it takes the step, or an evaluation or the *)
(* indexing does, or nothing of its own changes.                           *)
LEMMA OneWorks ==
  ASSUME Quiet, Alone', [Next]_vars, NEW k \in Calls, calls[k].pc # "idle"
  PROVE  \/ (Work(k) \/ CallDies(k))
         \/ UNCHANGED <<status, cells, calls>>
<1>1. ASSUME NEW j \in Calls, j # k, BeginAdvance(j) \/ Work(j) \/ CallDies(j) PROVE FALSE
  <2>1. calls[j].pc = "idle" BY <1>1 DEF Quiet, OneCall
  <2>2. BeginAdvance(j)
    BY <1>1, <2>1
    DEF Work, GetExperiment, GetCells, CreateConfig, LoadConfig, Plan, Reprocess,
        DispatchDocument, MarkIndexDispatched, SetReady, CreateRun, MarkRunning, DispatchRun,
        ReadLink, WriteLink, SetOutcome, Refresh, SetFailure, Finalize, CallDies, At
  <2> QED BY <1>1, <2>2 DEF BeginAdvance, Suffer, Alone
<1>2. ~BeginAdvance(k) BY DEF BeginAdvance, At
<1> QED BY <1>1, <1>2 DEF Next, vars, IndexDocument, StoreCase, StoreLastCase

(* How a run's row changes.                                                *)
Moved(r) ==
  \/ runs'[r].status = runs[r].status /\ runs'[r].executing = runs[r].executing
  \/ runs[r].executing /\ runs'[r].status \in {"partial", "completed"}
  \/ \E k \in Calls : /\ calls[k].run = r /\ MarkRunning(k)
                      /\ runs'[r].status = "running"
  \/ \E k \in Calls : /\ calls[k].run = r /\ DispatchRun(k)
                      /\ runs'[r].status \in {runs[r].status, "dispatch_failed"}

LEMMA RunMoves == Typed /\ [Next]_vars => \A r \in DOMAIN runs : Moved(r)
<1> SUFFICES ASSUME Typed, [Next]_vars, NEW r \in DOMAIN runs PROVE Moved(r)
  OBVIOUS
<1>0. runs \in Seq(RunType) /\ runs[r] \in RunType BY DEF Typed, TypeOK
<1>1. CASE runs'[r] = runs[r] BY <1>1 DEF Moved
<1>2. ASSUME NEW s \in DOMAIN runs, StoreCase(s) \/ StoreLastCase(s) PROVE Moved(r)
  <2> DEFINE one == [runs[s] EXCEPT !.status = "partial"]
             last(x) == [runs[s] EXCEPT !.status = x, !.executing = FALSE]
  <2>1. runs[s] \in RunType /\ runs[s].executing BY <1>0, <1>2 DEF StoreCase, StoreLastCase
  <2>2. one.status = "partial" /\ \A x : last(x).status = x BY <2>1 DEF RunType
  <2>3. \/ runs' = [runs EXCEPT ![s] = one]
        \/ \E x \in {"completed", "partial"} : runs' = [runs EXCEPT ![s] = last(x)]
    BY <1>2 DEF StoreCase, StoreLastCase
  <2> HIDE DEF one, last
  <2>4. CASE s = r
    <3>1. runs'[r].status \in {"partial", "completed"} BY <1>0, <2>2, <2>3, <2>4
    <3> QED BY <2>1, <2>4, <3>1 DEF Moved
  <2>5. CASE s # r BY <1>0, <1>1, <2>3, <2>5
  <2> QED BY <2>4, <2>5
<1>3. ASSUME NEW k \in Calls, MarkRunning(k) PROVE Moved(r)
  <2> DEFINE new == [runs[calls[k].run] EXCEPT !.status = "running"]
  <2>1. UNCHANGED runs \/ runs' = [runs EXCEPT ![calls[k].run] = new] BY <1>3 DEF MarkRunning
  <2>2. CASE calls[k].run = r /\ ~UNCHANGED runs
    <3>1. new.status = "running" BY <1>0, <2>2 DEF RunType
    <3> HIDE DEF new
    <3>2. runs'[r] = new BY <1>0, <2>1, <2>2
    <3> QED BY <1>3, <2>2, <3>1, <3>2 DEF Moved
  <2> HIDE DEF new
  <2> QED BY <1>0, <1>1, <2>1, <2>2
<1>4. ASSUME NEW k \in Calls, DispatchRun(k) PROVE Moved(r)
  <2> DEFINE sent == [runs[calls[k].run] EXCEPT !.executing = TRUE]
             refused == [runs[calls[k].run] EXCEPT !.status = "dispatch_failed"]
  <2>1. runs' = [runs EXCEPT ![calls[k].run] = sent] \/ runs' = [runs EXCEPT ![calls[k].run] = refused]
    BY <1>4 DEF DispatchRun
  <2>2. CASE calls[k].run = r
    <3>1. sent.status = runs[r].status /\ refused.status = "dispatch_failed"
      BY <1>0, <2>2 DEF RunType
    <3> HIDE DEF sent, refused
    <3>2. runs'[r].status \in {runs[r].status, "dispatch_failed"} BY <1>0, <2>1, <2>2, <3>1
    <3> QED BY <1>4, <2>2, <3>2 DEF Moved
  <2> HIDE DEF sent, refused
  <2> QED BY <1>0, <1>1, <2>1, <2>2
<1>5. ASSUME NEW k \in Calls, CreateRun(k) PROVE Moved(r)
  <2>1. UNCHANGED runs \/ \E row : runs' = Append(runs, row) BY <1>5 DEF CreateRun
  <2>2. Len(runs) \in Nat /\ DOMAIN runs = 1..Len(runs) BY <1>0, LenProperties
  <2>3. runs'[r] = runs[r] BY <1>0, <2>1, <2>2
  <2> QED BY <1>1, <2>3
<1>6. CASE UNCHANGED runs BY <1>1, <1>6
<1> QED
  BY <1>2, <1>3, <1>4, <1>5, <1>6
  DEF Next, Work, BeginAdvance, GetExperiment, GetCells, CreateConfig, LoadConfig, Plan,
      Reprocess, DispatchDocument, MarkIndexDispatched, SetReady, ReadLink, WriteLink,
      SetOutcome, Refresh, SetFailure, Finalize, CallDies, IndexDocument, vars

(* A run that has shown a result goes on showing one.                      *)
LEMMA ShownStays ==
  ASSUME Typed, [Next]_vars, \A k \in Calls : LinkedCall(k), NEW r \in DOMAIN runs, Shown(r)
  PROVE  Shown(r)'
<1>1. \A k \in Calls : MarkRunning(k) => calls[k].run # r
  BY DEF MarkRunning, At, LinkedCall, Shown, Shows
<1>2. runs'[r].status = runs[r].status \/ Shows(runs'[r].status)
  BY <1>1, RunMoves DEF Moved, Shows
<1> QED BY <1>2 DEF Shown

(* What a call knows of the runs it read and of the one it launched.       *)
LEMMA LinkedStay ==
  ASSUME Typed, Typed', Quiet, [Next]_vars, NEW k \in Calls, LinkedCall(k),
         calls[k].pc \in Past, calls'[k].seen = calls[k].seen
  PROVE  \A d \in Places : calls'[k].seen[d].run # None => cells'[d].run = calls'[k].seen[d].run
BY RowsGrow DEF LinkedCall

LEMMA LinkedGo ==
  ASSUME Typed, Typed', Quiet, [Next]_vars, NEW k \in Calls, LinkedCall(k),
         \/ calls'[k].pc \notin Past
         \/ /\ calls'[k].pc \notin Launching \cup {"outcome"}
            /\ calls[k].pc \in Past /\ calls'[k].seen = calls[k].seen
  PROVE  LinkedCall(k)'
<1>0. Places' = Places BY MatrixStays, TypesStay
<1>1. CASE calls'[k].pc \notin Past
  BY <1>1 DEF LinkedCall, Past, Handling, Launching
<1>2. CASE /\ calls'[k].pc \notin Launching \cup {"outcome"}
           /\ calls[k].pc \in Past /\ calls'[k].seen = calls[k].seen
  BY <1>0, <1>2, LinkedStay DEF LinkedCall, Launching
<1> QED BY <1>1, <1>2

(* A call that launches a run: the run stays as the call knows it.         *)
LEMMA LinkedLaunch ==
  ASSUME Typed, Typed', Quiet, [Next]_vars, NEW k \in Calls, \A j \in Calls : LinkedCall(j),
         calls[k].pc \in Launching,
         calls'[k].pc \in Launching \ {"mark_run"},
         calls'[k].seen = calls[k].seen, calls'[k].cell = calls[k].cell,
         calls'[k].run = calls[k].run,
         calls'[k].pc \in {"link", "write_link"} /\ calls'[k].runStatus \in Settled =>
           \/ calls[k].pc \in {"link", "write_link"} /\ calls[k].runStatus \in Settled
           \/ runs'[calls[k].run].status = "dispatch_failed"
  PROVE  LinkedCall(k)'
<1>0. Places' = Places /\ calls[k].run \in DOMAIN runs /\ calls[k].pc \in Past
  BY MatrixStays, TypesStay DEF Typed, References, CallRefers, Past, Handling
<1>1. runs'[calls[k].run].cell = runs[calls[k].run].cell
  BY <1>0, RunsGrow DEF RunsStay, Adds
<1>2. Shown(calls[k].run) => Shown(calls[k].run)' BY <1>0, ShownStays
<1>3. calls'[k].pc \in {"link", "write_link"} /\ calls'[k].runStatus \in Settled =>
        Shows(runs'[calls[k].run].status)
  BY <1>2 DEF LinkedCall, Shown, Shows
<1>4. \A d \in Places : calls'[k].seen[d].run # None => cells'[d].run = calls'[k].seen[d].run
  BY <1>0, LinkedStay
<1> QED BY <1>0, <1>1, <1>3, <1>4 DEF LinkedCall, Shown, Launching

LEMMA LinkedOutcome ==
  ASSUME NEW k \in Calls, Places' = Places, calls'[k].pc = "outcome",
         \A d \in Places : calls'[k].seen[d].run # None => cells'[d].run = calls'[k].seen[d].run,
         NEW c, c = calls'[k].cell,
         calls'[k].runStatus \in Settled /\ cells'[c].run # None => Shows(runs'[cells'[c].run].status)
  PROVE  LinkedCall(k)'
BY DEF LinkedCall, Shown, Launching

LEMMA LinkedScan ==
  ASSUME Typed, NEW k \in Calls, Places' = Places, NEW seen \in [Places -> CellType],
         NEW c \in Nat, ScanFrom(k, seen, c),
         \A d \in Places : seen[d].run # None => cells'[d].run = seen[d].run
  PROVE  LinkedCall(k)'
<1>0. calls \in [Calls -> CallType] /\ cells \in [Places -> CellType] BY DEF Typed, TypeOK
<1>1. calls'[k].seen = seen /\ calls'[k].pc \in {"finalize", "load", "config"}
  BY <1>0, ScanFacts
<1> QED BY <1>1 DEF LinkedCall, Launching

LEMMA LinkedCallStep ==
  ASSUME Typed, Typed', Quiet, Quiet', Alone', [Next]_vars,
         \A j \in Calls : LinkedCall(j), NEW k \in Calls
  PROVE  LinkedCall(k)'
<1>0. /\ Places' = Places /\ calls \in [Calls -> CallType] /\ cells \in [Places -> CellType]
      /\ Fresh(k) /\ CallRefers(k) /\ calls[k] \in CallType /\ LinkedCall(k)
      /\ runs \in Seq(RunType)
  BY MatrixStays, TypesStay DEF Typed, TypeOK, Quiet, References
<1>1. ASSUME calls'[k].pc \notin Past PROVE LinkedCall(k)' BY <1>0, <1>1, LinkedGo
<1>a. ASSUME Answer(k) PROVE LinkedCall(k)'
  BY <1>0, <1>1, <1>a, AnswerFacts DEF Past, Handling, Launching
<1>2. ASSUME NEW pc \in Handling \ (Launching \cup {"outcome"}), Go(k, pc),
             calls[k].pc \in Handling
      PROVE  LinkedCall(k)'
  <2>1. calls'[k].pc = pc /\ calls'[k].seen = calls[k].seen BY <1>0, <1>2, GoFacts
  <2> QED BY <1>0, <1>2, <2>1, LinkedGo DEF Past
<1>3. ASSUME NEW new, calls' = [calls EXCEPT ![k] = new], calls[k].pc \in Handling,
             new.pc \in Handling \ (Launching \cup {"outcome"}), new.seen = calls[k].seen
      PROVE  LinkedCall(k)'
  <2>1. calls'[k] = new BY <1>0, <1>3
  <2>2. calls'[k].pc = new.pc /\ calls'[k].seen = calls[k].seen BY <1>3, <2>1
  <2> QED BY <1>0, <1>3, <2>2, LinkedGo DEF Past
<1>4. ASSUME NEW pc \in Launching \ {"mark_run"}, Go(k, pc), calls[k].pc \in Launching,
             pc \in {"link", "write_link"} => calls[k].pc \in {"link", "write_link"}
      PROVE  LinkedCall(k)'
  <2>1. /\ calls'[k].pc = pc /\ calls'[k].seen = calls[k].seen /\ calls'[k].cell = calls[k].cell
        /\ calls'[k].run = calls[k].run /\ calls'[k].runStatus = calls[k].runStatus
    BY <1>0, <1>4, GoFacts
  <2> QED BY <1>4, <2>1, LinkedLaunch
<1>5. CASE BeginAdvance(k) \/ GetExperiment(k)
  BY <1>0, <1>1, <1>a, <1>5, GoFacts DEF BeginAdvance, GetExperiment, Past, Handling, Launching
<1>6. CASE GetCells(k)
  <2>1. ScanFrom(k, cells, 0) /\ UNCHANGED cells BY <1>6 DEF GetCells
  <2> QED BY <1>0, <2>1, LinkedScan
<1>7. CASE CreateConfig(k) \/ Finalize(k) \/ CallDies(k)
  BY <1>7, <1>a DEF CreateConfig, Finalize, CallDies
<1>8. CASE LoadConfig(k) \/ DispatchDocument(k) \/ MarkIndexDispatched(k) \/ SetReady(k)
  <2>1. /\ calls[k].pc \in {"load", "dispatch", "mark", "ready"}
        /\ \/ Answer(k)
           \/ \E pc \in {"plan", "create", "refresh", "fail_index", "mark", "reprocess", "ready"} :
                Go(k, pc)
    BY <1>8 DEF LoadConfig, DispatchDocument, MarkIndexDispatched, SetReady, At
  <2> QED BY <1>a, <1>2, <2>1 DEF Handling, Launching
<1>9. CASE Plan(k)
  <2> DEFINE i == Needs(calls[k].cell)
             planned == [calls[k] EXCEPT !.needed = ReindexNeeded(i), !.todo = Docs,
                                         !.pc = IF ReindexNeeded(i) THEN "reprocess" ELSE "mark"]
  <2>1. calls[k].pc = "plan" BY <1>9 DEF Plan, At
  <2>2. planned.seen = calls[k].seen /\ planned.pc \in {"reprocess", "mark"}
    BY <1>0 DEF CallType
  <2>3. \/ Go(k, "fail_index") \/ Answer(k) \/ Go(k, "ready")
        \/ calls' = [calls EXCEPT ![k] = planned]
    BY <1>9 DEF Plan
  <2> HIDE DEF planned
  <2> QED BY <1>a, <1>2, <1>3, <2>1, <2>2, <2>3 DEF Handling, Launching
<1>10. ASSUME NEW d \in Docs, Reprocess(k, d) PROVE LinkedCall(k)'
  <2> DEFINE new == [calls[k] EXCEPT !.pc = "dispatch", !.doc = d, !.todo = calls[k].todo \ {d}]
  <2>1. calls[k].pc = "reprocess" BY <1>10 DEF Reprocess, At
  <2>2. new.seen = calls[k].seen /\ new.pc = "dispatch" BY <1>0 DEF CallType
  <2>3. Go(k, "fail_index") \/ calls' = [calls EXCEPT ![k] = new] BY <1>10 DEF Reprocess
  <2> HIDE DEF new
  <2> QED BY <1>2, <1>3, <2>1, <2>2, <2>3 DEF Handling, Launching
<1>11. CASE CreateRun(k)
  <2>1. calls[k].pc = "create" BY <1>11 DEF CreateRun, At
  <2>2. CASE Go(k, "fail_run") BY <1>2, <2>1, <2>2 DEF Handling, Launching
  <2>3. CASE ~Go(k, "fail_run")
    <3> DEFINE made == [cell |-> calls[k].cell, status |-> "created", executing |-> FALSE,
                        pinned |-> [d \in Docs |-> docs[d].active]]
               new == [calls[k] EXCEPT !.pc = "mark_run", !.run = Len(runs) + 1]
    <3>1. runs' = Append(runs, made) /\ calls' = [calls EXCEPT ![k] = new]
      BY <1>11, <2>3 DEF CreateRun
    <3>2. /\ made.cell = calls[k].cell /\ made.status = "created" /\ ~made.executing
          /\ new.pc = "mark_run" /\ new.run = Len(runs) + 1
          /\ new.seen = calls[k].seen /\ new.cell = calls[k].cell
      BY <1>0 DEF CallType
    <3> HIDE DEF made, new
    <3>3. calls'[k] = new /\ runs'[Len(runs) + 1] = made BY <1>0, <3>1
    <3>4. \A d \in Places : calls'[k].seen[d].run # None =>
                              cells'[d].run = calls'[k].seen[d].run
      BY <1>0, <2>1, <3>2, <3>3, LinkedStay DEF Past, Handling
    <3> QED BY <1>0, <3>2, <3>3, <3>4 DEF LinkedCall
  <2> QED BY <2>2, <2>3
<1>12. CASE MarkRunning(k)
  <2>1. calls[k].pc = "mark_run" /\ \E pc \in {"dispatch_run", "fail_run"} : Go(k, pc)
    BY <1>12 DEF MarkRunning, At
  <2> QED BY <1>2, <1>4, <2>1 DEF Handling, Launching
<1>13. CASE DispatchRun(k)
  <2> DEFINE new(s) == [calls[k] EXCEPT !.pc = "link", !.runStatus = s]
             r == calls[k].run
             refused == [runs[r] EXCEPT !.status = "dispatch_failed"]
  <2>1. calls[k].pc = "dispatch_run" /\ r \in DOMAIN runs /\ runs[r] \in RunType
    BY <1>0, <1>13 DEF DispatchRun, At, CallRefers, Launching
  <2>2. \A s : /\ new(s).seen = calls[k].seen /\ new(s).cell = calls[k].cell
               /\ new(s).pc = "link" /\ new(s).run = calls[k].run /\ new(s).runStatus = s
    BY <1>0 DEF CallType
  <2>3. refused.status = "dispatch_failed" BY <2>1 DEF RunType
  <2>4. \/ Go(k, "fail_run")
        \/ calls' = [calls EXCEPT ![k] = new("running")]
        \/ /\ calls' = [calls EXCEPT ![k] = new("dispatch_failed")]
           /\ runs' = [runs EXCEPT ![r] = refused]
    BY <1>13 DEF DispatchRun
  <2> HIDE DEF new, r, refused
  <2>5. CASE Go(k, "fail_run") BY <1>2, <2>1, <2>5 DEF Handling, Launching
  <2>6. CASE calls' = [calls EXCEPT ![k] = new("running")]
    <3>1. calls'[k] = new("running") BY <1>0, <2>6
    <3>2. /\ calls'[k].pc = "link" /\ calls'[k].runStatus \notin Settled
          /\ calls'[k].seen = calls[k].seen /\ calls'[k].cell = calls[k].cell
          /\ calls'[k].run = calls[k].run
      BY <2>2, <3>1 DEF Settled
    <3> QED BY <2>1, <3>2, LinkedLaunch DEF Launching
  <2>7. CASE /\ calls' = [calls EXCEPT ![k] = new("dispatch_failed")]
             /\ runs' = [runs EXCEPT ![r] = refused]
    <3>1. calls'[k] = new("dispatch_failed") BY <1>0, <2>7
    <3>2. /\ calls'[k].pc = "link" /\ calls'[k].run = calls[k].run
          /\ calls'[k].seen = calls[k].seen /\ calls'[k].cell = calls[k].cell
      BY <2>2, <3>1
    <3>3. runs'[r].status = "dispatch_failed" BY <2>1, <2>3, <2>7
    <3> QED BY <2>1, <3>2, <3>3, LinkedLaunch DEF Launching, r
  <2> QED BY <2>4, <2>5, <2>6, <2>7
<1>14. CASE ReadLink(k)
  <2>1. calls[k].pc = "link" /\ cells[calls[k].cell].run = None
    BY <1>0, <1>14 DEF ReadLink, At, Fresh, Opening, Launching
  <2>2. Go(k, "write_link") BY <1>14, <2>1 DEF ReadLink, LinkConflict
  <2> QED BY <1>4, <2>1, <2>2 DEF Launching
<1>15. CASE WriteLink(k)
  <2> DEFINE c == calls[k].cell
  <2>1. /\ calls[k].pc = "write_link" /\ Go(k, "outcome") /\ runs' = runs
        /\ cells[c].run = None /\ c \in Places
    BY <1>0, <1>15 DEF WriteLink, At, Fresh, Opening, Launching, CallRefers, Handling
  <2>2. /\ calls'[k].pc = "outcome" /\ calls'[k].seen = calls[k].seen
        /\ calls'[k].cell = c /\ calls'[k].runStatus = calls[k].runStatus
    BY <1>0, <2>1, GoFacts
  <2>3. cells'[c].run \in {None, calls[k].run} BY <1>15, <2>1, Writes
  <2>4. \A d \in Places : calls'[k].seen[d].run # None => cells'[d].run = calls'[k].seen[d].run
    BY <1>0, <2>1, <2>2, LinkedStay DEF Past, Handling, Launching
  <2> HIDE DEF c
  <2>5. calls[k].runStatus \in Settled => Shows(runs[calls[k].run].status)
    BY <1>0, <2>1 DEF LinkedCall, Shown
  <2>6. calls'[k].runStatus \in Settled /\ cells'[c].run # None => Shows(runs'[cells'[c].run].status)
    BY <2>1, <2>2, <2>3, <2>5
  <2> QED BY <1>0, <2>2, <2>4, <2>6, LinkedOutcome
<1>16. CASE SetOutcome(k)
  <2>1. calls[k].pc = "outcome" /\ (Answer(k) \/ Go(k, "fail_run"))
    BY <1>16 DEF SetOutcome, At
  <2> QED BY <1>a, <1>2, <2>1 DEF Handling, Launching
<1>17. CASE Refresh(k)
  <2> DEFINE new == [calls[k] EXCEPT !.pc = "outcome", !.runStatus = runs[Row(k).run].status]
             c == calls[k].cell
  <2>1. /\ calls[k].pc = "refresh" /\ UNCHANGED <<runs, cells>> /\ cells[c] = Row(k)
        /\ Row(k).run \in DOMAIN runs
    BY <1>0, <1>17
    DEF Refresh, At, Fresh, Reading, CallRefers, Handling, Rows, Row
  <2>2. /\ new.seen = calls[k].seen /\ new.pc = "outcome" /\ new.cell = c
        /\ new.runStatus = runs[Row(k).run].status
    BY <1>0 DEF CallType
  <2>3. Go(k, "fail_run") \/ calls' = [calls EXCEPT ![k] = new] BY <1>17 DEF Refresh
  <2>4. runs[Row(k).run] \in RunType BY <1>0, <2>1
  <2>5. runs[Row(k).run].status \in RunStatus BY <2>4 DEF RunType
  <2> HIDE DEF new, c
  <2>6. CASE Go(k, "fail_run") BY <1>2, <2>1, <2>6 DEF Handling, Launching
  <2>7. CASE calls' = [calls EXCEPT ![k] = new]
    <3>1. calls'[k] = new BY <1>0, <2>7
    <3>2. \A d \in Places : calls'[k].seen[d].run # None => cells'[d].run = calls'[k].seen[d].run
      BY <1>0, <2>1, <2>2, <3>1, LinkedStay DEF Past, Handling
    <3>3. runs[Row(k).run].status \in Settled => Shows(runs[Row(k).run].status)
      BY <2>5 DEF Shows, Settled, RunStatus
    <3>4. calls'[k].runStatus \in Settled => Shows(runs'[cells'[c].run].status)
      BY <2>1, <2>2, <3>1, <3>3
    <3>5. calls'[k].pc = "outcome" /\ calls'[k].cell = c BY <2>2, <3>1
    <3> QED BY <1>0, <3>2, <3>4, <3>5, LinkedOutcome
  <2> QED BY <2>3, <2>6, <2>7
<1>18. CASE SetFailure(k)
  <2>1. CASE Answer(k) BY <1>a, <2>1
  <2>2. CASE ScanFrom(k, calls[k].seen, calls[k].cell)
    <3> DEFINE seen == calls[k].seen
    <3>1. /\ seen \in [Places -> CellType] /\ calls[k].cell \in Nat /\ calls[k].pc \in Past
      BY <1>0, <1>18, PlacesNat DEF SetFailure, CallRefers, Rows, Handling, Past
    <3>2. \A d \in Places : seen[d].run # None => cells'[d].run = seen[d].run
      BY <1>0, <3>1, RowsGrow DEF LinkedCall
    <3> HIDE DEF seen
    <3> QED BY <1>0, <2>2, <3>1, <3>2, LinkedScan DEF seen
  <2> QED BY <1>18, <2>1, <2>2 DEF SetFailure
<1>19. CASE UNCHANGED <<status, cells, calls>>
  <2>1. CASE calls[k].pc \notin Past BY <1>1, <1>19, <2>1
  <2>2. CASE calls[k].pc \in Past /\ calls[k].pc \notin Launching \cup {"outcome"}
    BY <1>0, <1>19, <2>2, LinkedGo
  <2>3. CASE calls[k].pc \in Launching
    <3> DEFINE r == calls[k].run
    <3>1. r \in DOMAIN runs /\ calls[k].pc # "idle"
      BY <1>0, <2>3 DEF CallRefers, Launching
    <3>2. CASE calls[k].pc # "mark_run" BY <1>19, <2>3, <3>2, LinkedLaunch
    <3>3. CASE calls[k].pc = "mark_run"
      <4>1. /\ runs[r].status = "created" /\ ~runs[r].executing /\ runs[r].cell = calls[k].cell
        BY <1>0, <2>3, <3>3 DEF LinkedCall
      <4>2. ASSUME NEW j \in Calls, MarkRunning(j) \/ DispatchRun(j) PROVE FALSE
        <5>1. /\ calls[j].pc \in {"mark_run", "dispatch_run"} /\ \E pc \in PC : pc # calls[j].pc /\ calls'[j].pc = pc
          <6>1. CASE MarkRunning(j)
            BY <1>0, <6>1, GoFacts DEF MarkRunning, At, PC, Handling, Launching
          <6>2. CASE DispatchRun(j)
            <7> DEFINE new(s) == [calls[j] EXCEPT !.pc = "link", !.runStatus = s]
            <7>1. calls[j] \in CallType /\ calls[j].pc = "dispatch_run"
              BY <1>0, <6>2 DEF DispatchRun, At
            <7>2. \A s : new(s).pc = "link" BY <7>1 DEF CallType
            <7>3. Go(j, "fail_run") \/ \E s : calls' = [calls EXCEPT ![j] = new(s)]
              BY <6>2 DEF DispatchRun
            <7> HIDE DEF new
            <7>4. calls'[j].pc \in {"fail_run", "link"} BY <1>0, <7>2, <7>3, GoFacts
            <7> QED BY <7>1, <7>4 DEF PC, Handling, Launching
          <6> QED BY <4>2, <6>1, <6>2
        <5> QED BY <1>19, <5>1
      <4>3. runs'[r].status = "created" /\ ~runs'[r].executing
        BY <3>1, <4>1, <4>2, RunMoves DEF Moved
      <4>4. runs'[r].cell = calls[k].cell BY <3>1, <4>1, RunsGrow DEF RunsStay, Adds
      <4>5. \A d \in Places : calls'[k].seen[d].run # None =>
                                cells'[d].run = calls'[k].seen[d].run
        BY <1>0, <1>19, <2>3, LinkedStay DEF Past, Handling
      <4> QED BY <1>0, <1>19, <3>3, <4>3, <4>4, <4>5 DEF LinkedCall
    <3> QED BY <3>2, <3>3
  <2>4. CASE calls[k].pc = "outcome"
    <3> DEFINE r == cells[calls[k].cell].run
    <3>1. r \in DOMAIN runs \cup {None}
      BY <1>0, <2>4 DEF Typed, References, Rows, CallRefers, Handling
    <3>2. r # None /\ Shown(r) => Shows(runs'[r].status)
      <4> HIDE DEF r
      <4> QED BY <3>1, ShownStays DEF Shown
    <3>3. \A d \in Places : calls'[k].seen[d].run # None =>
                              cells'[d].run = calls'[k].seen[d].run
      BY <1>0, <1>19, <2>4, LinkedStay DEF Past, Handling
    <3>4. calls'[k] = calls[k] /\ cells' = cells BY <1>19
    <3>5. calls[k].runStatus \in Settled /\ r # None => Shown(r)
      BY <1>0, <2>4 DEF LinkedCall
    <3>6. calls[k].runStatus \in Settled /\ r # None => Shows(runs'[r].status)
      BY <3>2, <3>5 DEF Shown
    <3> QED BY <1>0, <2>4, <3>3, <3>4, <3>6, LinkedOutcome
  <2> QED BY <2>1, <2>2, <2>3, <2>4
<1>20. Work(k) \/ CallDies(k) => LinkedCall(k)'
  BY <1>5, <1>6, <1>7, <1>8, <1>9, <1>10, <1>11, <1>12, <1>13, <1>14, <1>15, <1>16, <1>17, <1>18
  DEF Work
<1>21. CASE calls[k].pc # "idle" BY <1>19, <1>20, <1>21, OneWorks
<1>22. CASE calls[k].pc = "idle"
  <2>1. ASSUME NEW j \in Calls, j # k, BeginAdvance(j) \/ Work(j) \/ CallDies(j)
        PROVE  calls'[k] = calls[k]
    BY <1>0, <2>1, OtherCall
  <2>2. calls'[k] = calls[k] \/ BeginAdvance(k) \/ Work(k) \/ CallDies(k)
    BY <2>1 DEF Next, vars, IndexDocument, StoreCase, StoreLastCase
  <2>3. CASE calls'[k] = calls[k]
    BY <1>1, <1>22, <2>3 DEF Past, Handling, Launching
  <2> QED BY <1>5, <1>20, <2>2, <2>3
<1> QED BY <1>21, <1>22

LEMMA LinkedCellStep ==
  ASSUME Typed, Quiet, [Next]_vars, \A k \in Calls : LinkedCall(k),
         NEW c \in Places, LinkedCell(c)
  PROVE  LinkedCell(c)'
<1>0. /\ cells[c].run \in DOMAIN runs \cup {None}
      /\ \A r \in DOMAIN runs : /\ runs'[r].cell = runs[r].cell
                                /\ Shown(r) => Shows(runs'[r].status)
  BY RunsGrow, ShownStays DEF Typed, References, Rows, RunsStay, Adds, Shown
<1>1. CASE cells'[c].run = cells[c].run /\ (Done(cells'[c]) => Done(cells[c]))
  BY <1>0, <1>1 DEF LinkedCell, Shown
<1>2. ASSUME NEW k \in Calls,
             CreateConfig(k) \/ MarkIndexDispatched(k) \/ SetReady(k)
             \/ WriteLink(k) \/ SetOutcome(k) \/ SetFailure(k)
      PROVE  LinkedCell(c)'
  <2>1. CASE c # calls[k].cell BY <1>1, <1>2, <2>1, Writes DEF Others
  <2>2. CASE c = calls[k].cell
    <3>1. CASE WriteLink(k)
      <4>1. /\ calls[k].pc = "write_link" /\ ~Done(cells[c]) /\ UNCHANGED runs
            /\ runs[calls[k].run].cell = c
        BY <2>2, <3>1 DEF WriteLink, At, Quiet, Fresh, Opening, LinkedCall, Launching
      <4>2. /\ cells'[c].run \in {cells[c].run, calls[k].run}
            /\ cells'[c].runStatus = cells[c].runStatus
        BY <2>2, <3>1, <4>1, Writes
      <4>3. ~Done(cells'[c]) BY <4>1, <4>2 DEF Done
      <4> QED BY <4>1, <4>2, <4>3 DEF LinkedCell
    <3>2. CASE SetOutcome(k)
      <4>1. calls[k].pc = "outcome" /\ UNCHANGED runs BY <3>2 DEF SetOutcome, At
      <4>2. /\ cells'[c].run = cells[c].run
            /\ cells'[c].runStatus \in {cells[c].runStatus, calls[k].runStatus}
        BY <2>2, <3>2, <4>1, Writes
      <4>3. calls[k].runStatus \in Settled /\ cells[c].run # None => Shown(cells[c].run)
        BY <2>2, <4>1 DEF LinkedCall
      <4> QED BY <4>1, <4>2, <4>3 DEF LinkedCell, Done, Shown
    <3>3. CASE CreateConfig(k) \/ MarkIndexDispatched(k) \/ SetReady(k) \/ SetFailure(k)
      <4>1. calls[k].pc \in {"config", "mark", "ready", "fail_index", "fail_run"}
        BY <3>3 DEF CreateConfig, MarkIndexDispatched, SetReady, SetFailure, At
      <4>2. cells'[c].run = cells[c].run /\ cells'[c].runStatus = cells[c].runStatus
        BY <1>2, <2>2, <4>1, Writes
      <4> QED BY <1>1, <4>2 DEF Done
    <3> QED BY <1>2, <3>1, <3>2, <3>3
  <2> QED BY <2>1, <2>2
<1>3. CASE UNCHANGED cells BY <1>1, <1>3
<1> QED BY <1>2, <1>3, CellWriters

LEMMA LinkedStep == Typed /\ Typed' /\ AloneInv /\ LinkedInv /\ [Next]_vars => LinkedInv'
<1> SUFFICES ASSUME Typed, Typed', AloneInv, LinkedInv, [Next]_vars, Alone'
             PROVE  /\ \A c \in Places' : LinkedCell(c)'
                    /\ \A k \in Calls : LinkedCall(k)'
                    /\ LinkedSweep'
  BY DEF LinkedInv
<1>1. Quiet /\ Quiet' /\ Places' = Places BY AloneStep, MatrixStays, TypesStay
<1>2. /\ \A c \in Places : LinkedCell(c)
      /\ \A k \in Calls : LinkedCall(k)
      /\ LinkedSweep
  BY TroubleGrows DEF LinkedInv, Alone
<1>3. \A k \in Calls : LinkedCall(k)' BY <1>1, <1>2, LinkedCallStep
<1>4. \A c \in Places : LinkedCell(c)' BY <1>1, <1>2, LinkedCellStep
<1>5. ASSUME NEW k \in Calls, Finalize(k) PROVE LinkedSweep'
  <2>1. /\ UNCHANGED cells /\ calls[k].pc = "finalize"
        /\ status' = "completed" => \A c \in Places : calls[k].seen[c].run # None
        /\ status' \in {"partial", "failed"} => \E c \in Places : Failed(cells[c])
    BY <1>1, <1>5, FinalizeFinds
  <2>2. \A c \in Places : calls[k].seen[c].run # None => cells[c].run = calls[k].seen[c].run
    BY <1>2, <2>1 DEF LinkedCall, Past
  <2> QED BY <1>1, <2>1, <2>2 DEF LinkedSweep, Failed
<1>6. ASSUME status' = status PROVE LinkedSweep'
  <2>1. CASE status \in Settled
    <3>1. UNCHANGED <<status, cells>> BY <1>1, <2>1, SettledStays
    <3> QED BY <1>1, <1>2, <3>1 DEF LinkedSweep, Failed
  <2>2. CASE status \notin Settled BY <1>6, <2>2 DEF LinkedSweep, Settled
  <2> QED BY <2>1, <2>2
<1> QED BY <1>1, <1>3, <1>4, <1>5, <1>6, OnlyFinalize

LEMMA InitLinked == Init => LinkedInv
<1> SUFFICES ASSUME Init PROVE LinkedInv
  OBVIOUS
<1>1. cells = [c \in Places |-> NewCell(Settings[c])] /\ status = "created"
  BY DEF Init, Places, Settings
<1>2. \A c \in Places : cells[c].run = None BY <1>1 DEF NewCell
<1>3. \A k \in Calls : calls[k].pc = "idle" BY DEF Init, IdleCall
<1> QED BY <1>1, <1>2, <1>3 DEF LinkedInv, LinkedCell, LinkedCall, LinkedSweep, Past, Handling, Launching

(* --------------------------- Refused runs ------------------------------ *)

(* What no cell could show: a refused dispatch of a run.                   *)
LEMMA RefusedNow ==
  ASSUME Typed, [Next]_vars, NEW r \in DOMAIN runs, Refused(r)'
  PROVE  Refused(r) \/ \E k \in Calls : calls[k].run = r /\ DispatchRun(k)
BY RunMoves DEF Moved, Refused

(* The steps of the call that works on a cell.                             *)
LEMMA RefusedCallStep ==
  ASSUME Typed, Quiet, Alone', [Next]_vars, NEW k \in Calls, RefusedCall(k), Fresh(k)
  PROVE  RefusedCall(k)'
<1>0. /\ calls \in [Calls -> CallType] /\ cells \in [Places -> CellType] /\ calls[k] \in CallType
      /\ CallRefers(k) /\ runs \in Seq(RunType)
  BY DEF Typed, TypeOK, References
<1>1. ASSUME calls'[k].pc \notin Launching PROVE RefusedCall(k)' BY <1>1 DEF RefusedCall
<1>2. CASE CreateRun(k)
  <2>1. CASE Go(k, "fail_run") BY <1>0, <1>1, <2>1, GoFacts DEF Launching
  <2>2. CASE ~Go(k, "fail_run")
    <3> DEFINE made == [cell |-> calls[k].cell, status |-> "created", executing |-> FALSE,
                        pinned |-> [d \in Docs |-> docs[d].active]]
               new == [calls[k] EXCEPT !.pc = "mark_run", !.run = Len(runs) + 1]
    <3>1. runs' = Append(runs, made) /\ calls' = [calls EXCEPT ![k] = new]
      BY <1>2, <2>2 DEF CreateRun
    <3>2. made.status = "created" /\ new.run = Len(runs) + 1 BY <1>0 DEF CallType
    <3> HIDE DEF made, new
    <3>3. calls'[k] = new /\ runs'[Len(runs) + 1] = made BY <1>0, <3>1
    <3> QED BY <3>2, <3>3 DEF RefusedCall, Refused
  <2> QED BY <2>1, <2>2
<1>3. CASE MarkRunning(k)
  <2> DEFINE new == [runs[calls[k].run] EXCEPT !.status = "running"]
             r == calls[k].run
  <2>1. CASE Go(k, "fail_run") BY <1>0, <1>1, <2>1, GoFacts DEF Launching
  <2>2. CASE ~Go(k, "fail_run")
    <3>1. /\ runs' = [runs EXCEPT ![r] = new] /\ Go(k, "dispatch_run")
          /\ r \in DOMAIN runs /\ runs[r] \in RunType
      BY <1>0, <1>3, <2>2 DEF MarkRunning, At, CallRefers, Launching
    <3>2. new.status = "running" BY <3>1 DEF RunType
    <3> HIDE DEF new
    <3>3. calls'[k].run = r /\ runs'[r].status = "running" BY <1>0, <3>1, <3>2, GoFacts
    <3> QED BY <3>3 DEF RefusedCall, Refused
  <2> QED BY <2>1, <2>2
<1>4. CASE DispatchRun(k)
  <2> DEFINE new(s) == [calls[k] EXCEPT !.pc = "link", !.runStatus = s]
             r == calls[k].run
             sent == [runs[r] EXCEPT !.executing = TRUE]
  <2>1. calls[k].pc = "dispatch_run" /\ r \in DOMAIN runs /\ runs[r] \in RunType
    BY <1>0, <1>4 DEF DispatchRun, At, CallRefers, Launching
  <2>2. /\ \A s : new(s).pc = "link" /\ new(s).run = calls[k].run /\ new(s).runStatus = s
        /\ sent.status = runs[r].status
    BY <1>0, <2>1 DEF CallType, RunType
  <2>3. \/ Go(k, "fail_run")
        \/ calls' = [calls EXCEPT ![k] = new("running")] /\ runs' = [runs EXCEPT ![r] = sent]
        \/ calls' = [calls EXCEPT ![k] = new("dispatch_failed")]
    BY <1>4 DEF DispatchRun
  <2> HIDE DEF new, sent, r
  <2>4. CASE Go(k, "fail_run") BY <1>0, <1>1, <2>4, GoFacts DEF Launching
  <2>5. CASE calls' = [calls EXCEPT ![k] = new("running")] /\ runs' = [runs EXCEPT ![r] = sent]
    <3>1. calls'[k].run = r /\ runs'[r].status = runs[r].status
      BY <1>0, <2>1, <2>2, <2>5 DEF r
    <3>2. ~Refused(r) BY <2>1 DEF RefusedCall, Launching, r
    <3> QED BY <3>1, <3>2 DEF RefusedCall, Refused
  <2>6. CASE calls' = [calls EXCEPT ![k] = new("dispatch_failed")]
    <3>1. calls'[k] = new("dispatch_failed") BY <1>0, <2>6
    <3> QED BY <2>2, <3>1 DEF RefusedCall
  <2> QED BY <2>3, <2>4, <2>5, <2>6
<1>5. CASE ReadLink(k)
  <2>1. calls[k].pc = "link" /\ cells[calls[k].cell].run = None /\ UNCHANGED runs
    BY <1>5 DEF ReadLink, At, Fresh, Opening, Launching
  <2>2. Go(k, "write_link") BY <1>5, <2>1 DEF ReadLink, LinkConflict
  <2>3. /\ calls'[k].pc = "write_link" /\ calls'[k].run = calls[k].run
        /\ calls'[k].runStatus = calls[k].runStatus
    BY <1>0, <2>2, GoFacts
  <2> QED BY <2>1, <2>3 DEF RefusedCall, Refused, Launching
<1>6. CASE UNCHANGED <<status, cells, calls>>
  <2>1. CASE calls[k].pc \notin Launching BY <1>1, <1>6, <2>1
  <2>2. CASE calls[k].pc \in Launching
    <3>1. calls[k].run \in DOMAIN runs BY <1>0, <2>2 DEF CallRefers
    <3>2. ASSUME NEW j \in Calls, DispatchRun(j), Refused(calls[k].run)'
          PROVE  calls[k].pc \in {"link", "write_link"} /\ calls[k].runStatus = "dispatch_failed"
      <4> DEFINE new(s) == [calls[j] EXCEPT !.pc = "link", !.runStatus = s]
      <4>1. calls[j] \in CallType /\ calls[j].pc = "dispatch_run"
        BY <1>0, <3>2 DEF DispatchRun, At
      <4>2. \A s : new(s).pc = "link" BY <4>1 DEF CallType
      <4>3. Go(j, "fail_run") \/ \E s : calls' = [calls EXCEPT ![j] = new(s)]
        BY <3>2 DEF DispatchRun
      <4> HIDE DEF new
      <4>4. calls'[j].pc \in {"fail_run", "link"} BY <1>0, <4>2, <4>3, GoFacts
      <4> QED BY <1>6, <4>1, <4>4
    <3>3. Refused(calls[k].run)' => Refused(calls[k].run) \/ \E j \in Calls : DispatchRun(j)
      <4> DEFINE r == calls[k].run
      <4>1. r \in DOMAIN runs BY <3>1
      <4> HIDE DEF r
      <4>2. runs'[r].status = "dispatch_failed" =>
              runs[r].status = "dispatch_failed" \/ \E j \in Calls : DispatchRun(j)
        BY <4>1, RefusedNow DEF Refused
      <4> QED BY <1>6, <4>2 DEF Refused, r
    <3> QED BY <1>6, <3>2, <3>3 DEF RefusedCall
  <2> QED BY <2>1, <2>2
<1>7. CASE calls[k].pc # "idle"
  <2>1. ASSUME Work(k), calls[k].pc \notin Launching, ~CreateRun(k)
        PROVE  calls'[k].pc \notin Launching
    <3>1. ASSUME NEW pc \in PC \ Launching, Go(k, pc) PROVE calls'[k].pc \notin Launching
      BY <1>0, <3>1, GoFacts
    <3>2. CASE Answer(k) BY <1>0, <3>2, AnswerFacts DEF Launching
    <3>3. CASE GetExperiment(k) \/ CreateConfig(k) \/ LoadConfig(k) \/ DispatchDocument(k)
               \/ MarkIndexDispatched(k) \/ SetReady(k) \/ SetOutcome(k) \/ Finalize(k)
      BY <3>1, <3>2, <3>3
      DEF GetExperiment, CreateConfig, LoadConfig, DispatchDocument, MarkIndexDispatched,
          SetReady, SetOutcome, Finalize, PC, Handling, Launching
    <3>4. CASE GetCells(k)
      <4>1. ScanFrom(k, cells, 0) BY <3>4 DEF GetCells
      <4>2. calls'[k].pc \in {"finalize", "load", "config"} BY <1>0, <4>1, ScanFacts
      <4> QED BY <4>2 DEF Launching
    <3>5. CASE SetFailure(k)
      <4>1. CASE ScanFrom(k, calls[k].seen, calls[k].cell)
        <5>1. calls[k].seen \in [Places -> CellType] /\ calls[k].cell \in Nat
          BY <1>0, <3>5, PlacesNat DEF SetFailure, CallRefers, Rows, Handling
        <5>2. calls'[k].pc \in {"finalize", "load", "config"} BY <1>0, <4>1, <5>1, ScanFacts
        <5> QED BY <5>2 DEF Launching
      <4> QED BY <3>2, <3>5, <4>1 DEF SetFailure
    <3>6. CASE Plan(k)
      <4> DEFINE i == Needs(calls[k].cell)
                 planned == [calls[k] EXCEPT !.needed = ReindexNeeded(i), !.todo = Docs,
                                             !.pc = IF ReindexNeeded(i) THEN "reprocess" ELSE "mark"]
      <4>1. planned.pc \in {"reprocess", "mark"} BY <1>0 DEF CallType
      <4>2. \/ Go(k, "fail_index") \/ Answer(k) \/ Go(k, "ready")
            \/ calls' = [calls EXCEPT ![k] = planned]
        BY <3>6 DEF Plan
      <4> HIDE DEF planned
      <4>3. CASE calls' = [calls EXCEPT ![k] = planned] BY <1>0, <4>1, <4>3 DEF Launching
      <4> QED BY <3>1, <3>2, <4>2, <4>3 DEF PC, Handling, Launching
    <3>7. CASE \E d \in Docs : Reprocess(k, d)
      <4>1. PICK d \in Docs : Reprocess(k, d) BY <3>7
      <4> DEFINE new == [calls[k] EXCEPT !.pc = "dispatch", !.doc = d, !.todo = calls[k].todo \ {d}]
      <4>2. new.pc = "dispatch" BY <1>0 DEF CallType
      <4>3. Go(k, "fail_index") \/ calls' = [calls EXCEPT ![k] = new] BY <4>1 DEF Reprocess
      <4> HIDE DEF new
      <4>4. CASE calls' = [calls EXCEPT ![k] = new] BY <1>0, <4>2, <4>4 DEF Launching
      <4> QED BY <3>1, <4>3, <4>4 DEF PC, Handling, Launching
    <3>8. CASE Refresh(k)
      <4> DEFINE new == [calls[k] EXCEPT !.pc = "outcome", !.runStatus = runs[Row(k).run].status]
      <4>1. new.pc = "outcome" BY <1>0 DEF CallType
      <4>2. Go(k, "fail_run") \/ calls' = [calls EXCEPT ![k] = new] BY <3>8 DEF Refresh
      <4> HIDE DEF new
      <4>3. CASE calls' = [calls EXCEPT ![k] = new] BY <1>0, <4>1, <4>3 DEF Launching
      <4> QED BY <3>1, <4>2, <4>3 DEF PC, Handling, Launching
    <3>9. ~MarkRunning(k) /\ ~DispatchRun(k) /\ ~ReadLink(k) /\ ~WriteLink(k)
      BY <2>1 DEF MarkRunning, DispatchRun, ReadLink, WriteLink, At, Launching
    <3> QED BY <2>1, <3>3, <3>4, <3>5, <3>6, <3>7, <3>8, <3>9 DEF Work
  <2>2. CASE CallDies(k)
    <3>1. calls'[k].pc = "idle" BY <1>0, <2>2, AnswerFacts DEF CallDies
    <3> QED BY <1>1, <3>1 DEF Launching
  <2>3. CASE WriteLink(k)
    <3>1. calls'[k].pc = "outcome" BY <1>0, <2>3, GoFacts DEF WriteLink
    <3> QED BY <1>1, <3>1 DEF Launching
  <2>4. ASSUME Work(k), calls[k].pc \in Launching
        PROVE  MarkRunning(k) \/ DispatchRun(k) \/ ReadLink(k) \/ WriteLink(k)
    BY <2>4
    DEF Work, GetExperiment, GetCells, CreateConfig, LoadConfig, Plan, Reprocess,
        DispatchDocument, MarkIndexDispatched, SetReady, CreateRun, SetOutcome, Refresh,
        SetFailure, Finalize, At, Launching
  <2> QED BY <1>1, <1>2, <1>3, <1>4, <1>5, <1>6, <1>7, <2>1, <2>2, <2>3, <2>4, OneWorks
<1>8. CASE calls[k].pc = "idle"
  <2>1. ASSUME NEW j \in Calls, j # k, BeginAdvance(j) \/ Work(j) \/ CallDies(j)
        PROVE  calls'[k] = calls[k]
    BY <1>0, <2>1, OtherCall
  <2>2. ASSUME BeginAdvance(k) PROVE calls'[k].pc = "get"
    BY <1>0, <2>2, GoFacts DEF BeginAdvance
  <2>3. ~Work(k) /\ ~CallDies(k)
    BY <1>8
    DEF Work, GetExperiment, GetCells, CreateConfig, LoadConfig, Plan, Reprocess,
        DispatchDocument, MarkIndexDispatched, SetReady, CreateRun, MarkRunning, DispatchRun,
        ReadLink, WriteLink, SetOutcome, Refresh, SetFailure, Finalize, CallDies, At
  <2>4. calls'[k] = calls[k] \/ calls'[k].pc = "get"
    BY <2>1, <2>2, <2>3 DEF Next, vars, IndexDocument, StoreCase, StoreLastCase
  <2> QED BY <1>1, <1>8, <2>4 DEF Launching
<1> QED BY <1>7, <1>8

LEMMA RefusedCellStep ==
  ASSUME Typed, Quiet, Alone', [Next]_vars, trouble' \cap {"overlap", "crash", "dropped"} = {},
         \A k \in Calls : LinkedCall(k) /\ RefusedCall(k),
         NEW c \in Places, LinkedCell(c), RefusedCell(c)
  PROVE  RefusedCell(c)'
<1> SUFFICES ASSUME cells'[c].run # None, runs'[cells'[c].run].status = "dispatch_failed"
             PROVE  Failed(cells'[c]) \/ \E k \in Calls : Refusing(k, c)'
  BY DEF RefusedCell, Refused
<1>0. calls \in [Calls -> CallType] BY DEF Typed, TypeOK
<1>1. CASE cells[c].run = None
  <2>1. PICK k \in Calls : /\ calls[k].cell = c /\ WriteLink(k)
                           /\ calls[k].pc = "write_link" /\ cells'[c].run = calls[k].run
    <3>1. ASSUME NEW k \in Calls,
                 CreateConfig(k) \/ MarkIndexDispatched(k) \/ SetReady(k)
                 \/ WriteLink(k) \/ SetOutcome(k) \/ SetFailure(k)
          PROVE  /\ calls[k].cell = c /\ WriteLink(k)
                 /\ calls[k].pc = "write_link" /\ cells'[c].run = calls[k].run
      <4>1. c = calls[k].cell BY <1>1, <3>1, Writes DEF Others
      <4>2. calls[k].pc = "write_link" /\ cells'[c].run = calls[k].run
        BY <1>1, <3>1, <4>1, Writes
      <4>3. WriteLink(k)
        BY <3>1, <4>2
        DEF CreateConfig, MarkIndexDispatched, SetReady, SetOutcome, SetFailure, At
      <4> QED BY <4>1, <4>2, <4>3
    <3>2. ~UNCHANGED cells BY <1>1
    <3> QED BY <3>1, <3>2, CellWriters
  <2>2. UNCHANGED runs /\ Go(k, "outcome") BY <2>1 DEF WriteLink
  <2>3. calls[k].runStatus = "dispatch_failed"
    BY <2>1, <2>2 DEF RefusedCall, Refused, Launching
  <2>4. Refusing(k, c)' BY <1>0, <2>1, <2>2, <2>3, GoFacts DEF Refusing
  <2> QED BY <2>4
<1>2. CASE cells[c].run # None
  <2> DEFINE r == cells[c].run
  <2>1. cells'[c].run = r /\ r \in DOMAIN runs /\ runs[r].cell = c
    BY <1>2, RowsGrow DEF LinkedCell, Typed, References, Rows
  <2>2. ASSUME NEW k \in Calls, DispatchRun(k) PROVE calls[k].run # r
    BY <1>2, <2>1, <2>2
    DEF DispatchRun, At, LinkedCall, Quiet, Fresh, Opening, Launching
  <2> HIDE DEF r
  <2>3. Refused(r) BY <2>1, <2>2, RefusedNow DEF Refused
  <2>4. CASE Failed(cells[c]) BY <2>4, RowsGrow
  <2>5. ASSUME NEW k \in Calls, Refusing(k, c)
        PROVE  Failed(cells'[c]) \/ Refusing(k, c)'
    <3>1. calls[k].pc \in {"outcome", "fail_run"} /\ calls[k].cell = c
          /\ calls[k].runStatus = "dispatch_failed"
      BY <2>5 DEF Refusing
    <3>2. CASE UNCHANGED <<status, cells, calls>> BY <2>5, <3>2 DEF Refusing
    <3>3. ~CallDies(k) BY DEF CallDies, Suffer
    <3>4. CASE SetOutcome(k)
      <4>1. Go(k, "fail_run") BY <3>1, <3>4 DEF SetOutcome
      <4> QED BY <1>0, <3>1, <4>1, GoFacts DEF Refusing
    <3>5. CASE SetFailure(k)
      <4>1. calls[k].pc = "fail_run" BY <3>1, <3>5 DEF SetFailure
      <4>2. Failed(cells'[c]) BY <3>1, <3>5, <4>1, Writes
      <4> QED BY <4>2
    <3>6. Work(k) => SetOutcome(k) \/ SetFailure(k)
      BY <3>1
      DEF Work, GetExperiment, GetCells, CreateConfig, LoadConfig, Plan, Reprocess,
          DispatchDocument, MarkIndexDispatched, SetReady, CreateRun, MarkRunning, DispatchRun,
          ReadLink, WriteLink, Refresh, Finalize, At
    <3> QED BY <3>1, <3>2, <3>3, <3>4, <3>5, <3>6, OneWorks
  <2> QED BY <1>2, <2>3, <2>4, <2>5 DEF RefusedCell, r
<1> QED BY <1>1, <1>2

LEMMA RefusedStep ==
  Typed /\ Typed' /\ AloneInv /\ LinkedInv /\ RefusedInv /\ [Next]_vars => RefusedInv'
<1> SUFFICES ASSUME Typed, Typed', AloneInv, LinkedInv, RefusedInv, [Next]_vars,
                    trouble' \cap {"overlap", "crash", "dropped"} = {}
             PROVE  /\ \A c \in Places' : RefusedCell(c)'
                    /\ \A k \in Calls : RefusedCall(k)'
  BY DEF RefusedInv
<1>1. Alone' /\ Places' = Places BY MatrixStays, TypesStay DEF Alone
<1>2. Quiet BY <1>1, AloneStep
<1>3. /\ \A c \in Places : LinkedCell(c) /\ RefusedCell(c)
      /\ \A k \in Calls : LinkedCall(k) /\ RefusedCall(k)
  BY TroubleGrows DEF LinkedInv, RefusedInv, Alone
<1>4. \A k \in Calls : RefusedCall(k)' BY <1>1, <1>2, <1>3, RefusedCallStep DEF Quiet
<1>5. \A c \in Places : RefusedCell(c)' BY <1>1, <1>2, <1>3, RefusedCellStep
<1> QED BY <1>1, <1>4, <1>5

LEMMA InitRefused == Init => RefusedInv
<1> SUFFICES ASSUME Init PROVE RefusedInv
  OBVIOUS
<1>1. cells = [c \in Places |-> NewCell(Settings[c])] BY DEF Init, Places, Settings
<1>2. \A c \in Places : cells[c].run = None BY <1>1 DEF NewCell
<1>3. \A k \in Calls : calls[k].pc = "idle" BY DEF Init, IdleCall
<1> QED BY <1>2, <1>3 DEF RefusedInv, RefusedCell, RefusedCall, Launching

(* ------------------------- Recursive functions ------------------------- *)

(* A set that has 0, and with a number the next, has all up to n.          *)
LEMMA Reached ==
  ASSUME NEW n \in Nat, NEW S, 0 \in S, \A i \in 1..n : i - 1 \in S => i \in S
  PROVE  0..n \subseteq S
<1> SUFFICES ASSUME NEW j \in 0..n, j \notin S PROVE FALSE OBVIOUS
<1> DEFINE Missed == {i \in 0..n : i \notin S}
<1>1. PICK x \in Missed : \A y \in Missed : x <= y
  <2>1. Missed \subseteq Nat /\ Missed # {} OBVIOUS
  <2> HIDE DEF Missed
  <2> QED BY <2>1, Least
<1>2. x # 0 /\ x \in 1..n /\ x - 1 \in 0..n OBVIOUS
<1>3. x - 1 \in S
  <2>1. ~(x <= x - 1) BY <1>2
  <2> QED BY <1>1, <1>2, <2>1
<1> QED BY <1>1, <1>2, <1>3

(* f holds what a loop of this step has computed after every turn.         *)
Turns(f, step, a, n) == f[0] = a /\ \A i \in 1..n : f[i] = step[<<f[i - 1], i>>]

LEMMA Recursion ==
  ASSUME NEW A, NEW a \in A, NEW n \in Nat, NEW step \in [A \X (1..n) -> A]
  PROVE  \E f \in [0..n -> A] : Turns(f, step, a, n)
<1> DEFINE Upto(k) == \E f \in [0..k -> A] : Turns(f, step, a, k)
           S == {k \in 0..n : Upto(k)}
<1>1. Upto(0)
  <2> DEFINE f == [k \in 0..0 |-> a]
  <2>1. f \in [0..0 -> A] /\ f[0] = a /\ 1..0 = {} OBVIOUS
  <2> HIDE DEF f
  <2> QED BY <2>1 DEF Turns
<1>2. ASSUME NEW k \in 1..n, Upto(k - 1) PROVE Upto(k)
  <2>1. PICK f \in [0..k - 1 -> A] : Turns(f, step, a, k - 1) BY <1>2
  <2> DEFINE g == [i \in 0..k |-> IF i = k THEN step[<<f[k - 1], k>>] ELSE f[i]]
  <2>2. f[k - 1] \in A OBVIOUS
  <2>3. step[<<f[k - 1], k>>] \in A BY <2>2
  <2>4. \A i \in 0..k : i # k => i \in 0..k - 1 OBVIOUS
  <2>5. g \in [0..k -> A] BY <2>3, <2>4
  <2>6. g[0] = a BY <2>1 DEF Turns
  <2>7. ASSUME NEW i \in 1..k PROVE g[i] = step[<<g[i - 1], i>>]
    <3>1. i - 1 \in 0..k /\ i - 1 # k OBVIOUS
    <3>2. g[i - 1] = f[i - 1] BY <3>1
    <3>3. i # k => i \in 1..k - 1 OBVIOUS
    <3>4. CASE i = k
      <4>1. g[k] = step[<<f[k - 1], k>>] OBVIOUS
      <4> HIDE DEF g
      <4> QED BY <3>2, <3>4, <4>1
    <3>5. CASE i # k
      <4>1. g[i] = f[i] BY <3>5
      <4> HIDE DEF g
      <4> QED BY <2>1, <3>2, <3>3, <3>5, <4>1 DEF Turns
    <3> QED BY <3>4, <3>5
  <2> HIDE DEF g
  <2> QED BY <2>5, <2>6, <2>7 DEF Turns
<1> HIDE DEF Upto
<1>3. 0 \in S BY <1>1
<1>4. \A k \in 1..n : k - 1 \in S => k \in S BY <1>2
<1>5. n \in S
  <2> HIDE DEF S
  <2>1. 0..n \subseteq S BY <1>3, <1>4, Reached
  <2> QED BY <2>1
<1> QED BY <1>5 DEF Upto

(* ------------------------------ Listings ------------------------------- *)

(* s has every element of S once.                                          *)
Lists(s, S) ==
  /\ s \in Seq(S)
  /\ \A i, j \in 1..Len(s) : s[i] = s[j] => i = j
  /\ \A x \in S : \E i \in 1..Len(s) : s[i] = x

LEMMA ListsOnce ==
  ASSUME NEW S, NEW s, Lists(s, S)
  PROVE  /\ Len(s) \in Nat /\ DOMAIN s = 1..Len(s) /\ \A i \in 1..Len(s) : s[i] \in S
         /\ \A x \in S : Cardinality({i \in 1..Len(s) : s[i] = x}) = 1
<1>1. Len(s) \in Nat /\ DOMAIN s = 1..Len(s) /\ \A i \in 1..Len(s) : s[i] \in S
  BY LenProperties, ElementOfSeq DEF Lists
<1>2. ASSUME NEW x \in S PROVE Cardinality({i \in 1..Len(s) : s[i] = x}) = 1
  <2>1. PICK i \in 1..Len(s) : s[i] = x BY DEF Lists
  <2>2. {j \in 1..Len(s) : s[j] = x} = {i} BY <2>1 DEF Lists
  <2> QED BY <2>2, FS_Singleton
<1> QED BY <1>1, <1>2

LEMMA ListsConcat ==
  ASSUME NEW S, NEW s, Lists(s, S), NEW T, NEW t, Lists(t, T), S \cap T = {}
  PROVE  Lists(s \o t, S \cup T)
<1> DEFINE U == S \cup T  u == s \o t
<1>1. /\ Len(s) \in Nat /\ \A i \in 1..Len(s) : s[i] \in S
      /\ Len(t) \in Nat /\ \A i \in 1..Len(t) : t[i] \in T
  BY ListsOnce
<1>2. s \in Seq(U) /\ t \in Seq(U)
  <2>1. S \subseteq U /\ T \subseteq U OBVIOUS
  <2> HIDE DEF U
  <2> QED BY <2>1, SeqMonotonic DEF Lists
<1> HIDE DEF U
<1>3. /\ u \in Seq(U) /\ Len(u) = Len(s) + Len(t)
      /\ \A i \in 1..Len(s) + Len(t) : u[i] = IF i <= Len(s) THEN s[i] ELSE t[i - Len(s)]
  BY <1>2, ConcatProperties
<1> HIDE DEF u
<1>4. /\ \A i \in 1..Len(s) : u[i] = s[i] /\ u[i] \in S
      /\ \A i \in 1..Len(u) : i > Len(s) => i - Len(s) \in 1..Len(t) /\ u[i] = t[i - Len(s)] /\ u[i] \in T
      /\ \A i \in 1..Len(u) : i <= Len(s) => i \in 1..Len(s)
  BY <1>1, <1>3
<1>5. ASSUME NEW i \in 1..Len(u), NEW j \in 1..Len(u), u[i] = u[j] PROVE i = j
  <2>1. CASE i <= Len(s) /\ j <= Len(s) BY <1>4, <1>5, <2>1 DEF Lists
  <2>2. CASE i > Len(s) /\ j > Len(s)
    <3>1. /\ i - Len(s) \in 1..Len(t) /\ j - Len(s) \in 1..Len(t)
          /\ t[i - Len(s)] = t[j - Len(s)]
      BY <1>4, <1>5, <2>2
    <3>2. i - Len(s) = j - Len(s) BY <3>1 DEF Lists
    <3> QED BY <1>1, <1>3, <3>2
  <2>3. CASE i <= Len(s) /\ j > Len(s) BY <1>4, <1>5, <2>3
  <2>4. CASE i > Len(s) /\ j <= Len(s) BY <1>4, <1>5, <2>4
  <2> QED BY <1>1, <1>3, <2>1, <2>2, <2>3, <2>4
<1>6. ASSUME NEW x \in U PROVE \E i \in 1..Len(u) : u[i] = x
  <2>1. CASE x \in S
    <3>1. PICK i \in 1..Len(s) : s[i] = x BY <2>1 DEF Lists
    <3>2. i \in 1..Len(u) BY <1>1, <1>3
    <3> QED BY <1>4, <3>1, <3>2
  <2>2. CASE x \in T
    <3>1. PICK i \in 1..Len(t) : t[i] = x BY <2>2 DEF Lists
    <3>2. Len(s) + i \in 1..Len(u) /\ Len(s) + i > Len(s) /\ (Len(s) + i) - Len(s) = i
      BY <1>1, <1>3
    <3>3. u[Len(s) + i] = x BY <1>4, <3>1, <3>2
    <3> QED BY <3>2, <3>3
  <2> QED BY <2>1, <2>2 DEF U
<1>7. Lists(u, U) BY <1>3, <1>5, <1>6 DEF Lists
<1> QED BY <1>7 DEF u, U

LEMMA ListsImage ==
  ASSUME NEW n \in Nat, NEW S, NEW s \in [1..n -> S],
         \A i, j \in 1..n : s[i] = s[j] => i = j, \A x \in S : \E i \in 1..n : s[i] = x
  PROVE  Lists(s, S)
<1>1. s \in Seq(S) BY SeqDef
<1>2. Len(s) = n BY <1>1, LenProperties
<1> QED BY <1>1, <1>2 DEF Lists

(* Numbers of a finite set, each after the smaller ones.                   *)
LEMMA AscendingLists ==
  ASSUME NEW V, V \subseteq Nat, IsFiniteSet(V)
  PROVE  Lists([i \in 1..Cardinality(V) |->
                  CHOOSE v \in V : Cardinality({w \in V : w < v}) = i - 1], V)
<1> DEFINE n == Cardinality(V)
           Below(x) == {w \in V : w < x}
           r == [x \in V |-> Cardinality(Below(x)) + 1]
           s == [i \in 1..n |-> CHOOSE v \in V : Cardinality(Below(v)) = i - 1]
<1>0. /\ \A x \in V : r[x] = Cardinality(Below(x)) + 1
      /\ \A x, y \in V : y \in Below(x) <=> y < x
      /\ \A x \in V : Below(x) \subseteq V
      /\ r = [x \in V |-> r[x]]
  OBVIOUS
<1>1. n \in Nat BY FS_CardinalityType
<1>2. ASSUME NEW x \in V PROVE IsFiniteSet(Below(x)) /\ Cardinality(Below(x)) \in 0..n - 1
  <2>1. Below(x) \in SUBSET V /\ Below(x) # V OBVIOUS
  <2>2. IsFiniteSet(Below(x)) /\ Cardinality(Below(x)) <= n /\ Cardinality(Below(x)) # n
    BY <2>1, FS_Subset
  <2>3. Cardinality(Below(x)) \in Nat BY <2>2, FS_CardinalityType
  <2> QED BY <1>1, <2>2, <2>3
<1> HIDE DEF Below, r
<1>3. ASSUME NEW x \in V, NEW y \in V, x < y PROVE r[x] < r[y]
  <2>1. Below(x) \in SUBSET Below(y) /\ Below(x) # Below(y)
    <3>1. x \in Nat /\ y \in Nat /\ x \in Below(y) /\ x \notin Below(x) BY <1>0, <1>3
    <3>2. ASSUME NEW z \in Below(x) PROVE z \in Below(y)
      <4>1. z \in V /\ z < x /\ z \in Nat BY <1>0
      <4> QED BY <1>0, <1>3, <3>1, <4>1
    <3> QED BY <3>1, <3>2
  <2>2. Cardinality(Below(x)) <= Cardinality(Below(y)) /\ Cardinality(Below(x)) # Cardinality(Below(y))
    BY <1>2, <2>1, FS_Subset
  <2>3. Cardinality(Below(x)) \in Int /\ Cardinality(Below(y)) \in Int BY <1>1, <1>2
  <2> QED BY <1>0, <2>2, <2>3
<1>4. r \in [V -> 1..n]
  <2>1. \A x \in V : r[x] \in 1..n BY <1>0, <1>1, <1>2
  <2> QED BY <1>0, <2>1
<1>5. \A x, y \in V : r[x] = r[y] => x = y
  <2> SUFFICES ASSUME NEW x \in V, NEW y \in V, r[x] = r[y], x # y PROVE FALSE
    OBVIOUS
  <2>1. r[x] \in Nat /\ r[y] \in Nat BY <1>1, <1>4
  <2>2. x < y \/ y < x OBVIOUS
  <2> QED BY <1>3, <2>1, <2>2
<1>6. \A i \in 1..n : \E x \in V : r[x] = i
  <2>1. r \in Injection(V, 1..n) BY <1>4, <1>5 DEF Injection, IsInjective
  <2>2. IsFiniteSet(1..n) /\ Cardinality(1..n) = n BY <1>1, FS_Interval
  <2>3. r \in Surjection(V, 1..n) BY <2>1, <2>2, FS_Injection
  <2> QED BY <2>3 DEF Surjection
<1>7. ASSUME NEW i \in 1..n PROVE s[i] \in V /\ r[s[i]] = i
  <2>1. PICK x \in V : r[x] = i BY <1>6
  <2>2. Cardinality(Below(x)) = i - 1 BY <1>0, <1>1, <1>2, <2>1
  <2>3. s[i] = CHOOSE v \in V : Cardinality(Below(v)) = i - 1 BY <1>7
  <2>4. s[i] \in V /\ Cardinality(Below(s[i])) = i - 1 BY <2>2, <2>3
  <2> QED BY <1>0, <1>1, <2>4
<1>8. s \in [1..n -> V] BY <1>7
<1>9. Lists(s, V)
  <2> HIDE DEF s, n
  <2>1. \A i, j \in 1..n : s[i] = s[j] => i = j BY <1>7
  <2>2. \A x \in V : \E i \in 1..n : s[i] = x
    <3> SUFFICES ASSUME NEW x \in V PROVE \E i \in 1..n : s[i] = x OBVIOUS
    <3>1. r[x] \in 1..n BY <1>4
    <3>2. s[r[x]] \in V /\ r[s[r[x]]] = r[x] BY <1>7, <3>1
    <3>3. s[r[x]] = x BY <1>5, <3>2
    <3> QED BY <3>1, <3>3
  <2>3. s \in Seq(V) BY <1>1, <1>8, SeqDef
  <2>4. Len(s) = n BY <1>1, <1>8, <2>3, LenProperties
  <2> QED BY <2>1, <2>2, <2>3, <2>4 DEF Lists
<1> QED BY <1>9 DEF Below

(* ------------------------------ Expansion ------------------------------ *)

Dims == ToSet(Dimensions)
Setting == [Dims -> Nat]
With(c, dim, v) == [c EXCEPT ![dim] = v]

LEMMA WithFacts ==
  ASSUME NEW c \in Setting, NEW dim \in Dims, NEW v \in Nat
  PROVE  /\ With(c, dim, v) \in Setting /\ With(c, dim, v)[dim] = v
         /\ \A e \in Dims : e # dim => With(c, dim, v)[e] = c[e]
BY DEF Setting, With

LEMMA WithDiffers ==
  ASSUME NEW c \in Setting, NEW d \in Setting, NEW dim \in Dims, NEW v \in Nat, NEW w \in Nat,
         c[dim] = d[dim], With(c, dim, v) = With(d, dim, w)
  PROVE  c = d /\ v = w
<1>1. v = w /\ \A e \in Dims : c[e] = d[e] BY WithFacts
<1> QED BY <1>1 DEF Setting

LEMMA VariantsLists ==
  ASSUME NEW c \in Setting, NEW dim \in Dims, NEW V, V \subseteq Nat,
         NEW values, Lists(values, V)
  PROVE  Lists(Variants(c, dim, values), {With(c, dim, v) : v \in V})
<1> DEFINE n == Len(values)  S == {With(c, dim, v) : v \in V}
           s == [j \in 1..n |-> With(c, dim, values[j])]
<1>1. n \in Nat /\ DOMAIN values = 1..n /\ \A j \in 1..n : values[j] \in V /\ values[j] \in Nat
  BY ListsOnce
<1>2. Variants(c, dim, values) = s BY <1>1 DEF Variants, With
<1>3. s \in [1..n -> S] BY <1>1
<1>4. ASSUME NEW i \in 1..n, NEW j \in 1..n, s[i] = s[j] PROVE i = j
  <2>1. With(c, dim, values[i]) = With(c, dim, values[j]) BY <1>4
  <2>2. values[i] = values[j] BY <1>1, <2>1, WithDiffers
  <2> QED BY <2>2 DEF Lists
<1>5. ASSUME NEW x \in S PROVE \E i \in 1..n : s[i] = x
  <2>1. PICK v \in V : x = With(c, dim, v) OBVIOUS
  <2>2. PICK i \in 1..n : values[i] = v BY DEF Lists
  <2>3. s[i] = x BY <2>1, <2>2
  <2> QED BY <2>3
<1> HIDE DEF s, S, n
<1>6. Lists(s, S) BY <1>1, <1>3, <1>4, <1>5, ListsImage
<1> QED BY <1>2, <1>6 DEF S

LEMMA VariantsTyped ==
  ASSUME NEW c \in Setting, NEW dim \in Dims, NEW V, V \subseteq Nat,
         NEW values, Lists(values, V)
  PROVE  Variants(c, dim, values) \in Seq(Setting)
<1> DEFINE S == {With(c, dim, v) : v \in V}
<1>1. Lists(Variants(c, dim, values), S) BY VariantsLists
<1>2. S \subseteq Setting BY WithFacts
<1> HIDE DEF S
<1>3. Variants(c, dim, values) \in Seq(S) BY <1>1 DEF Lists
<1> QED BY <1>2, <1>3, SeqMonotonic

(* The loop over the cells chosen so far.                                  *)
Extending(g, combos, dim, values) ==
  /\ g[0] = <<>>
  /\ \A i \in 1..Len(combos) : g[i] = g[i - 1] \o Variants(combos[i], dim, values)
  /\ Extend(combos, dim, values) = g[Len(combos)]

LEMMA ExtendTurns ==
  ASSUME NEW combos \in Seq(Setting), NEW dim \in Dims, NEW V, V \subseteq Nat,
         NEW values, Lists(values, V)
  PROVE  \E g : Extending(g, combos, dim, values)
<1> DEFINE n == Len(combos)
           A == Seq(Setting)
           Line(i) == Variants(combos[i], dim, values)
           step == [p \in A \X (1..n) |-> p[1] \o Line(p[2])]
           Def(f) == f = [i \in 0..n |-> IF i = 0 THEN <<>> ELSE f[i - 1] \o Line(i)]
           g == CHOOSE f : Def(f)
<1>1. n \in Nat /\ \A i \in 1..n : combos[i] \in Setting BY LenProperties, ElementOfSeq
<1>2. \A i \in 1..n : Line(i) \in A BY <1>1, VariantsTyped
<1> HIDE DEF n, Line
<1>3. <<>> \in A /\ \A s, t \in A : s \o t \in A BY EmptySeq, ConcatProperties
<1> HIDE DEF A
<1>4. step \in [A \X (1..n) -> A] BY <1>2, <1>3
<1>5. PICK f \in [0..n -> A] : Turns(f, step, <<>>, n)
  <2> HIDE DEF step
  <2> QED BY <1>1, <1>3, <1>4, Recursion
<1>6. f[0] = <<>> /\ \A i \in 1..n : f[i] = f[i - 1] \o Line(i)
  <2> SUFFICES ASSUME NEW i \in 1..n PROVE f[i] = f[i - 1] \o Line(i)
    BY <1>5 DEF Turns
  <2>1. i - 1 \in 0..n BY <1>1
  <2>2. <<f[i - 1], i>> \in A \X (1..n) BY <2>1
  <2>3. step[<<f[i - 1], i>>] = f[i - 1] \o Line(i) BY <2>2
  <2> QED BY <1>5, <2>3 DEF Turns
<1>7. Def(g)
  <2>1. \A i \in 0..n : i # 0 => i \in 1..n BY <1>1
  <2>2. Def(f) BY <1>6, <2>1
  <2> QED BY <2>2
<1>8. Extend(combos, dim, values) = g[n] BY DEF Extend, n, Line
<1> HIDE DEF g
<1>9. g[0] = <<>> /\ \A i \in 1..n : g[i] = g[i - 1] \o Line(i)
  <2>1. 0 \in 0..n /\ \A i \in 1..n : i \in 0..n /\ i # 0 BY <1>1
  <2> QED BY <1>7, <2>1
<1>10. Extending(g, combos, dim, values) BY <1>8, <1>9 DEF n, Line, Extending
<1> QED BY <1>10

Extended(S, dim, V) == {With(c, dim, v) : c \in S, v \in V}

LEMMA ExtendLists ==
  ASSUME NEW S, S \subseteq Setting, NEW combos, Lists(combos, S), NEW dim \in Dims,
         \A c, d \in S : c[dim] = d[dim], NEW V, V \subseteq Nat, NEW values, Lists(values, V)
  PROVE  Lists(Extend(combos, dim, values), Extended(S, dim, V))
<1> DEFINE n == Len(combos)
           Made(i) == {With(combos[k], dim, v) : k \in 1..i, v \in V}
           New(i) == {With(combos[i], dim, v) : v \in V}
<1>1. n \in Nat /\ \A i \in 1..n : combos[i] \in S /\ combos[i] \in Setting BY ListsOnce
<1>2. combos \in Seq(Setting) BY SeqMonotonic DEF Lists
<1>3. PICK g : Extending(g, combos, dim, values) BY <1>2, ExtendTurns
<1>4. /\ g[0] = <<>> /\ Extend(combos, dim, values) = g[n]
      /\ \A i \in 1..n : g[i] = g[i - 1] \o Variants(combos[i], dim, values)
  BY <1>3 DEF Extending
<1> DEFINE Right(i) == Lists(g[i], Made(i))
           Rights == {i \in 0..n : Right(i)}
<1>5. Right(0)
  <2>1. Made(0) = {} OBVIOUS
  <2>2. Lists(<<>>, {}) BY EmptySeq DEF Lists
  <2> HIDE DEF Made
  <2> QED BY <1>4, <2>1, <2>2
<1>6. ASSUME NEW i \in 1..n, Right(i - 1) PROVE Right(i)
  <2>1. Lists(g[i - 1], Made(i - 1)) BY <1>6
  <2>2. Lists(Variants(combos[i], dim, values), New(i)) BY <1>1, VariantsLists
  <2>3. Made(i - 1) \cap New(i) = {}
    <3> SUFFICES ASSUME NEW k \in 1..i - 1, NEW v \in V, NEW w \in V,
                        With(combos[k], dim, v) = With(combos[i], dim, w)
                 PROVE  FALSE
      OBVIOUS
    <3>1. k \in 1..n /\ k # i BY <1>1
    <3>2. combos[k][dim] = combos[i][dim] BY <1>1, <3>1
    <3>3. combos[k] = combos[i] BY <1>1, <3>1, <3>2, WithDiffers
    <3> QED BY <3>1, <3>3 DEF Lists
  <2>4. Made(i - 1) \cup New(i) = Made(i)
    <3>1. 1..i = (1..i - 1) \cup {i} BY <1>1
    <3> QED BY <3>1
  <2> HIDE DEF Made, New
  <2>5. Lists(g[i - 1] \o Variants(combos[i], dim, values), Made(i - 1) \cup New(i))
    BY <2>1, <2>2, <2>3, ListsConcat
  <2> QED BY <1>4, <2>4, <2>5
<1> HIDE DEF Right
<1>7. Right(n)
  <2>1. 0 \in Rights BY <1>1, <1>5
  <2>2. \A i \in 1..n : i - 1 \in Rights => i \in Rights BY <1>1, <1>6
  <2> HIDE DEF Rights
  <2>3. 0..n \subseteq Rights BY <1>1, <2>1, <2>2, Reached
  <2> QED BY <1>1, <2>3 DEF Rights
<1>8. Made(n) = Extended(S, dim, V)
  <2>1. \A c \in S : \E k \in 1..n : combos[k] = c BY DEF Lists
  <2> QED BY <1>1, <2>1 DEF Extended
<1> HIDE DEF Made
<1> QED BY <1>4, <1>7, <1>8 DEF Right

(* The dimensions are distinct.                                            *)
LEMMA DimensionFacts ==
  /\ Len(Dimensions) = 9 /\ DOMAIN Dimensions = 1..9
  /\ Dims = {Dimensions[d] : d \in 1..9}
  /\ \A d, e \in 1..9 : Dimensions[d] = Dimensions[e] => d = e
<1>1. Len(Dimensions) = 9 /\ DOMAIN Dimensions = 1..9 BY DEF Dimensions
<1>2. ASSUME NEW d \in 1..9, NEW e \in 1..9, Dimensions[d] = Dimensions[e] PROVE d = e
  <2>1. /\ Dimensions[1] = "chunk_size" /\ Dimensions[2] = "chunk_overlap"
        /\ Dimensions[3] = "top_k" /\ Dimensions[4] = "retrieval_mode"
        /\ Dimensions[5] = "prompt_version" /\ Dimensions[6] = "model_profile"
        /\ Dimensions[7] = "rerank_enabled" /\ Dimensions[8] = "reranker_profile"
        /\ Dimensions[9] = "rerank_candidate_limit"
    BY DEF Dimensions
  <2>2. d \in {1, 2, 3, 4, 5, 6, 7, 8, 9} /\ e \in {1, 2, 3, 4, 5, 6, 7, 8, 9} OBVIOUS
  <2> QED BY <1>2, <2>1, <2>2
<1>3. Dims = {Dimensions[d] : d \in 1..9} BY <1>1 DEF Dims, ToSet
<1> QED BY <1>1, <1>2, <1>3

LEMMA ExtendTyped ==
  ASSUME NEW combos \in Seq(Setting), NEW dim \in Dims, NEW V, V \subseteq Nat,
         NEW values, Lists(values, V)
  PROVE  Extend(combos, dim, values) \in Seq(Setting)
<1> DEFINE n == Len(combos)
<1>1. n \in Nat /\ \A i \in 1..n : combos[i] \in Setting BY LenProperties, ElementOfSeq
<1>2. PICK g : Extending(g, combos, dim, values) BY ExtendTurns
<1>3. /\ g[0] = <<>> /\ Extend(combos, dim, values) = g[n]
      /\ \A i \in 1..n : g[i] = g[i - 1] \o Variants(combos[i], dim, values)
  BY <1>2 DEF Extending
<1> HIDE DEF n
<1> DEFINE A == Seq(Setting)
           S == {i \in 0..n : g[i] \in A}
<1>4. /\ <<>> \in A /\ \A s, t \in A : s \o t \in A
      /\ \A i \in 1..n : Variants(combos[i], dim, values) \in A
  BY <1>1, EmptySeq, ConcatProperties, VariantsTyped
<1> HIDE DEF A
<1>5. 0 \in S BY <1>1, <1>3, <1>4
<1>6. ASSUME NEW i \in 1..n, i - 1 \in S PROVE i \in S
  <2>1. g[i - 1] \in A BY <1>6
  <2>2. g[i] \in A BY <1>3, <1>4, <2>1
  <2> QED BY <1>1, <2>2
<1>7. 0..n \subseteq S
  <2> HIDE DEF S
  <2> QED BY <1>1, <1>5, <1>6, Reached
<1>8. n \in 0..n BY <1>1
<1> QED BY <1>3, <1>7, <1>8 DEF A

(* A matrix and what it leaves of the base's settings for a dimension.     *)
Matrix == [Dims -> Seq(Nat)]
ValuesOf(base, m, d) == Values(Dimensions[d], m[Dimensions[d]], base[Dimensions[d]])
SortedOf(base, m, d) == SortedUnique(Dimensions[d], m[Dimensions[d]], base[Dimensions[d]])

LEMMA ValuesFacts ==
  ASSUME NEW base \in Setting, NEW m \in Matrix, NEW d \in 1..9
  PROVE  /\ Dimensions[d] \in Dims /\ base[Dimensions[d]] \in Nat
         /\ ValuesOf(base, m, d) \subseteq Nat /\ Lists(SortedOf(base, m, d), ValuesOf(base, m, d))
<1> DEFINE dim == Dimensions[d]  s == m[dim]
<1>1. dim \in Dims BY DimensionFacts
<1>2. s \in Seq(Nat) /\ base[dim] \in Nat BY <1>1 DEF Matrix, Setting
<1> HIDE DEF dim, s
<1>3. /\ Len(s) \in Nat /\ DOMAIN s = 1..Len(s) /\ \A i \in 1..Len(s) : s[i] \in Nat
      /\ ToSet(s) = {s[i] : i \in 1..Len(s)}
  <2>1. Len(s) \in Nat /\ DOMAIN s = 1..Len(s) BY <1>2, LenProperties
  <2> QED BY <1>2, <2>1, ElementOfSeq DEF ToSet
<1>4. IsFiniteSet(ToSet(s))
  <2> DEFINE n == Len(s)
  <2>0. n \in Int BY <1>3
  <2> HIDE DEF n
  <2>a. IsFiniteSet(1..n) BY <2>0, FS_Interval
  <2>1. IsFiniteSet(1..Len(s)) BY <2>a DEF n
  <2>2. s \in [1..Len(s) -> ToSet(s)] BY <1>2, <1>3, LenProperties
  <2>3. s \in Surjection(1..Len(s), ToSet(s)) BY <1>3, <2>2 DEF Surjection
  <2> QED BY <2>1, <2>3, FS_Surjection
<1>5. ToSet(s) \ {Blank} \subseteq ToSet(s) /\ ToSet(s) \subseteq Nat /\ IsFiniteSet({base[dim]})
  BY <1>3, FS_Singleton
<1> DEFINE V == Values(dim, s, base[dim])
<1>6. IsFiniteSet(V) /\ V \subseteq Nat BY <1>2, <1>4, <1>5, FS_Subset DEF Values
<1> HIDE DEF V
<1>7. Lists(SortedUnique(dim, s, base[dim]), V) BY <1>6, AscendingLists DEF SortedUnique, V
<1> QED BY <1>1, <1>2, <1>6, <1>7 DEF V, dim, s, ValuesOf, SortedOf

(* The settings that have chosen for the first d dimensions.               *)
Chosen(base, m, d) ==
  {s \in Setting : \A e \in 1..9 :
     IF e <= d THEN s[Dimensions[e]] \in ValuesOf(base, m, e)
               ELSE s[Dimensions[e]] = base[Dimensions[e]]}

LEMMA ChosenNext ==
  ASSUME NEW base \in Setting, NEW m \in Matrix, NEW d \in 1..9
  PROVE  Extended(Chosen(base, m, d - 1), Dimensions[d], ValuesOf(base, m, d)) = Chosen(base, m, d)
<1> DEFINE dim == Dimensions[d]
<1>1. /\ dim \in Dims /\ base[dim] \in Nat /\ ValuesOf(base, m, d) \subseteq Nat
      /\ \A e \in 1..9 : Dimensions[e] \in Dims
      /\ \A e \in 1..9 : e # d => Dimensions[e] # dim
  BY ValuesFacts, DimensionFacts
<1> HIDE DEF dim
<1>2. ASSUME NEW c \in Chosen(base, m, d - 1), NEW v \in ValuesOf(base, m, d)
      PROVE  With(c, dim, v) \in Chosen(base, m, d)
  <2> DEFINE s == With(c, dim, v)
  <2>1. c \in Setting /\ v \in Nat BY <1>1 DEF Chosen
  <2>2. s \in Setting /\ s[dim] = v /\ \A e \in Dims : e # dim => s[e] = c[e]
    <3>1. c \in Setting /\ dim \in Dims /\ v \in Nat BY <1>1, <2>1
    <3> QED BY <3>1, WithFacts, SMTT(30)
  <2> HIDE DEF s
  <2>3. ASSUME NEW e \in 1..9
        PROVE  IF e <= d THEN s[Dimensions[e]] \in ValuesOf(base, m, e)
                         ELSE s[Dimensions[e]] = base[Dimensions[e]]
    <3>1. CASE e = d BY <2>2, <3>1 DEF dim
    <3>2. CASE e # d
      <4>1. s[Dimensions[e]] = c[Dimensions[e]] BY <1>1, <2>2, <3>2
      <4>2. e <= d <=> e <= d - 1 BY <3>2
      <4>3. IF e <= d - 1 THEN c[Dimensions[e]] \in ValuesOf(base, m, e)
                          ELSE c[Dimensions[e]] = base[Dimensions[e]]
        BY DEF Chosen
      <4> QED BY <4>1, <4>2, <4>3
    <3> QED BY <3>1, <3>2
  <2> QED BY <2>2, <2>3 DEF Chosen, s
<1>3. ASSUME NEW s \in Chosen(base, m, d)
      PROVE  \E c \in Chosen(base, m, d - 1), v \in ValuesOf(base, m, d) : s = With(c, dim, v)
  <2> DEFINE c == With(s, dim, base[dim])
  <2>1. s \in Setting /\ s[dim] \in ValuesOf(base, m, d) /\ s[dim] \in Nat
    BY <1>1 DEF Chosen, dim
  <2>2. c \in Setting /\ c[dim] = base[dim] /\ \A e \in Dims : e # dim => c[e] = s[e]
    <3>1. s \in Setting /\ dim \in Dims /\ base[dim] \in Nat BY <1>1, <2>1
    <3> QED BY <3>1, WithFacts, SMTT(30)
  <2> HIDE DEF c
  <2>3. ASSUME NEW e \in 1..9
        PROVE  IF e <= d - 1 THEN c[Dimensions[e]] \in ValuesOf(base, m, e)
                             ELSE c[Dimensions[e]] = base[Dimensions[e]]
    <3>1. CASE e = d
      <4>1. ~(e <= d - 1) BY <3>1
      <4> QED BY <2>2, <3>1, <4>1 DEF dim
    <3>2. CASE e # d
      <4>1. c[Dimensions[e]] = s[Dimensions[e]] BY <1>1, <2>2, <3>2
      <4>2. e <= d <=> e <= d - 1 BY <3>2
      <4>3. IF e <= d THEN s[Dimensions[e]] \in ValuesOf(base, m, e)
                      ELSE s[Dimensions[e]] = base[Dimensions[e]]
        BY DEF Chosen
      <4> QED BY <4>1, <4>2, <4>3
    <3> QED BY <3>1, <3>2
  <2>4. c \in Chosen(base, m, d - 1) BY <2>2, <2>3 DEF Chosen
  <2>5. s = With(c, dim, s[dim])
    <3> DEFINE t == With(c, dim, s[dim])
    <3>1. t \in Setting /\ t[dim] = s[dim] /\ \A e \in Dims : e # dim => t[e] = c[e]
      <4>1. c \in Setting /\ dim \in Dims /\ s[dim] \in Nat BY <1>1, <2>1, <2>2
      <4> QED BY <4>1, WithFacts, SMTT(30)
    <3> HIDE DEF t
    <3>2. \A e \in Dims : t[e] = s[e] BY <2>2, <3>1
    <3>3. t = s BY <2>1, <3>1, <3>2 DEF Setting
    <3> QED BY <3>3 DEF t
  <2> QED BY <2>1, <2>4, <2>5
<1> QED BY <1>2, <1>3 DEF dim, Extended

LEMMA ChosenEnds ==
  ASSUME NEW base \in Setting, NEW m \in Matrix
  PROVE  Chosen(base, m, 0) = {base} /\ Chosen(base, m, 9) = Combinations(base, m)
<1>1. \A dim \in Dims : \E e \in 1..9 : dim = Dimensions[e] BY DimensionFacts
<1>2. \A e \in 1..9 : Dimensions[e] \in Dims BY DimensionFacts
<1>3. Chosen(base, m, 0) = {base}
  <2>1. \A e \in 1..9 : ~(e <= 0) OBVIOUS
  <2>2. base \in Chosen(base, m, 0) BY <2>1 DEF Chosen
  <2>3. ASSUME NEW s \in Chosen(base, m, 0) PROVE s = base
    <3>1. s \in Setting /\ \A e \in 1..9 : s[Dimensions[e]] = base[Dimensions[e]]
      BY <2>1 DEF Chosen
    <3>2. \A dim \in Dims : s[dim] = base[dim] BY <1>1, <3>1
    <3> QED BY <3>1, <3>2 DEF Setting
  <2> QED BY <2>2, <2>3
<1>4. Chosen(base, m, 9) = Combinations(base, m)
  <2> DEFINE Of(dim) == Values(dim, m[dim], base[dim])
             All == UNION {Of(dim) : dim \in Dims}
  <2>1. \A dim \in Dims : Of(dim) \subseteq Nat /\ Of(dim) \subseteq All
    <3> SUFFICES ASSUME NEW dim \in Dims PROVE Of(dim) \subseteq Nat OBVIOUS
    <3>1. PICK e \in 1..9 : dim = Dimensions[e] BY <1>1
    <3> QED BY <3>1, ValuesFacts DEF ValuesOf
  <2>2. Combinations(base, m) = {s \in [Dims -> All] : \A dim \in Dims : s[dim] \in Of(dim)}
    BY DEF Combinations, Dims
  <2>3. \A e \in 1..9 : e <= 9 /\ ValuesOf(base, m, e) = Of(Dimensions[e]) BY DEF ValuesOf
  <2> HIDE DEF Of, All
  <2>4. ASSUME NEW s \in Chosen(base, m, 9) PROVE s \in Combinations(base, m)
    <3>1. s \in [Dims -> Nat] /\ \A e \in 1..9 : s[Dimensions[e]] \in Of(Dimensions[e])
      BY <2>3 DEF Chosen, Setting
    <3>2. \A dim \in Dims : s[dim] \in Of(dim) /\ s[dim] \in All BY <1>1, <2>1, <3>1
    <3> QED BY <2>2, <3>1, <3>2
  <2>5. ASSUME NEW s \in Combinations(base, m) PROVE s \in Chosen(base, m, 9)
    <3>1. s \in [Dims -> All] /\ \A dim \in Dims : s[dim] \in Of(dim) /\ s[dim] \in Nat
      BY <2>1, <2>2
    <3>2. s \in Setting BY <3>1 DEF Setting
    <3> QED BY <1>2, <2>3, <3>1, <3>2 DEF Chosen
  <2> QED BY <2>4, <2>5
<1> QED BY <1>3, <1>4

(* The loops over the dimensions, outermost first.                         *)
Expanding(g, base, m) ==
  /\ g[0] = <<base>>
  /\ \A d \in 1..9 : g[d] = Extend(g[d - 1], Dimensions[d], SortedOf(base, m, d))
  /\ Expand(base, m) = g[9]

LEMMA ExpandTurns ==
  ASSUME NEW base \in Setting, NEW m \in Matrix
  PROVE  \E g : Expanding(g, base, m)
<1> DEFINE A == Seq(Setting)
           Line(combos, d) == Extend(combos, Dimensions[d], SortedOf(base, m, d))
           step == [p \in A \X (1..9) |-> Line(p[1], p[2])]
           Def(f) == f = [d \in 0..9 |-> IF d = 0 THEN <<base>> ELSE Line(f[d - 1], d)]
           g == CHOOSE f : Def(f)
<1>1. ASSUME NEW combos \in A, NEW d \in 1..9 PROVE Line(combos, d) \in A
  <2>1. /\ Dimensions[d] \in Dims /\ ValuesOf(base, m, d) \subseteq Nat
        /\ Lists(SortedOf(base, m, d), ValuesOf(base, m, d))
    BY ValuesFacts
  <2> QED BY <2>1, ExtendTyped
<1>2. Expand(base, m) = g[9] BY DimensionFacts DEF Expand, SortedOf
<1> HIDE DEF Line
<1>3. <<base>> \in A OBVIOUS
<1> HIDE DEF A
<1>4. step \in [A \X (1..9) -> A] BY <1>1
<1>5. PICK f \in [0..9 -> A] : Turns(f, step, <<base>>, 9)
  <2> HIDE DEF step
  <2> QED BY <1>3, <1>4, Recursion
<1>6. f[0] = <<base>> /\ \A d \in 1..9 : f[d] = Line(f[d - 1], d)
  <2> SUFFICES ASSUME NEW d \in 1..9 PROVE f[d] = Line(f[d - 1], d)
    BY <1>5 DEF Turns
  <2>1. <<f[d - 1], d>> \in A \X (1..9) OBVIOUS
  <2>2. step[<<f[d - 1], d>>] = Line(f[d - 1], d) BY <2>1
  <2> QED BY <1>5, <2>2 DEF Turns
<1>7. Def(g)
  <2>1. \A d \in 0..9 : d # 0 => d \in 1..9 OBVIOUS
  <2>2. Def(f) BY <1>6, <2>1
  <2> QED BY <2>2
<1> HIDE DEF g
<1>8. g[0] = <<base>> /\ \A d \in 1..9 : g[d] = Line(g[d - 1], d)
  <2>1. 0 \in 0..9 /\ \A d \in 1..9 : d \in 0..9 /\ d # 0 OBVIOUS
  <2> QED BY <1>7, <2>1
<1>9. Expanding(g, base, m) BY <1>2, <1>8 DEF Expanding, Line
<1> QED BY <1>9

(* Expand numbers every choice of one value a dimension, each once.        *)
LEMMA ExpandLists ==
  ASSUME NEW base \in Setting, NEW m \in Matrix
  PROVE  Lists(Expand(base, m), Combinations(base, m))
<1>1. PICK g : Expanding(g, base, m) BY ExpandTurns
<1> DEFINE Right(d) == Lists(g[d], Chosen(base, m, d))
           Rights == {d \in 0..9 : Right(d)}
<1>2. Right(0)
  <2>1. g[0] = <<base>> BY <1>1 DEF Expanding
  <2>2. Lists(<<base>>, {base})
    <3>1. <<base>> \in Seq({base}) /\ <<base>>[1] = base /\ Len(<<base>>) = 1 OBVIOUS
    <3>2. 1 \in 1..1 /\ \A i \in 1..1 : i = 1 OBVIOUS
    <3> QED BY <3>1, <3>2 DEF Lists
  <2> QED BY <2>1, <2>2, ChosenEnds
<1>3. ASSUME NEW d \in 1..9, Right(d - 1) PROVE Right(d)
  <2> DEFINE dim == Dimensions[d]  S == Chosen(base, m, d - 1)  V == ValuesOf(base, m, d)
             values == SortedOf(base, m, d)
  <2>1. dim \in Dims /\ V \subseteq Nat /\ Lists(values, V) BY ValuesFacts
  <2>2. S \subseteq Setting BY DEF Chosen
  <2>3. \A b, c \in S : b[dim] = c[dim]
    <3>1. ~(d <= d - 1) OBVIOUS
    <3>2. \A c \in S : c[dim] = base[dim] BY <3>1 DEF Chosen
    <3> QED BY <3>2
  <2>4. Lists(g[d - 1], S) BY <1>3
  <2>5. Extended(S, dim, V) = Chosen(base, m, d) BY ChosenNext
  <2>6. g[d] = Extend(g[d - 1], dim, values) BY <1>1 DEF Expanding
  <2> HIDE DEF dim, S, V, values
  <2>7. Lists(Extend(g[d - 1], dim, values), Extended(S, dim, V))
    BY <2>1, <2>2, <2>3, <2>4, ExtendLists
  <2> QED BY <2>5, <2>6, <2>7
<1> HIDE DEF Right
<1>4. 9 \in Rights
  <2>1. 0 \in Rights BY <1>2
  <2>2. \A d \in 1..9 : d - 1 \in Rights => d \in Rights BY <1>3
  <2> HIDE DEF Rights
  <2>3. 0..9 \subseteq Rights BY <2>1, <2>2, Reached
  <2> QED BY <2>3
<1>5. Lists(g[9], Chosen(base, m, 9)) BY <1>4 DEF Right
<1> QED BY <1>1, <1>5, ChosenEnds DEF Expanding

(* The expansion of a matrix has every combination once.                   *)
ExpandsOnce(m) ==
  LET settings == Expand(Base, m)  combinations == Combinations(Base, m) IN
  /\ \A c \in 1..Len(settings) : settings[c] \in combinations
  /\ \A s \in combinations : Cardinality({c \in 1..Len(settings) : settings[c] = s}) = 1

(* Whatever lists a request gives, with repetitions or none at all, its    *)
(* cells are every combination of their values, none missing or twice.     *)
THEOREM AlwaysExpandsOnce == \A q \in Requests : ExpandsOnce(q.matrix)
<1> SUFFICES ASSUME NEW q \in Requests PROVE ExpandsOnce(q.matrix) OBVIOUS
<1>1. Base \in Setting /\ q.matrix \in Matrix BY RequestsAssumption DEF Setting, Matrix, Dims
<1>2. Lists(Expand(Base, q.matrix), Combinations(Base, q.matrix)) BY <1>1, ExpandLists
<1> QED BY <1>2, ListsOnce DEF ExpandsOnce

(* What finalize settles on, however often calls died, lost an update or   *)
(* could not read what they needed, as long as they come one after the     *)
(* other: a completed sweep has every combination of its matrix once, and  *)
(* the run each cell is linked to was launched for that cell.  Where every *)
(* read succeeded no cell of it has failed and each run has shown a        *)
(* result, which may be the partial one of a run that goes on executing,   *)
(* or the refusal of its dispatch if a call died or lost an update.  A     *)
(* partial or failed sweep has a failed cell.                              *)
THEOREM SettledAlwaysWhole == Spec => []SettledIsWhole
<1> DEFINE IInv == Typed /\ AloneInv /\ Given /\ WholeInv /\ LinkedInv /\ RefusedInv
<1>1. IInv => SettledIsWhole
  <2> SUFFICES ASSUME Typed, AloneInv, Given, WholeInv, LinkedInv, RefusedInv, Alone
               PROVE  /\ status = "completed" =>
                           /\ \A s \in Combinations(Base, matrix) :
                                Cardinality({c \in Cells : cells[c].setting = s}) = 1
                           /\ \A c \in Cells :
                                /\ cells[c].setting \in Combinations(Base, matrix)
                                /\ cells[c].run \in DOMAIN runs /\ runs[cells[c].run].cell = c
                                /\ "misread" \notin trouble =>
                                     ShowsResult(cells[c].run) /\ ~Failed(cells[c])
                      /\ status \in {"partial", "failed"} => \E c \in Cells : Failed(cells[c])
    BY DEF SettledIsWhole
  <2>1. Cells = Places BY DEF Cells, Typed, TypeOK
  <2>2. ExpandsOnce(matrix) BY AlwaysExpandsOnce DEF Given
  <2>3. \A c \in Places : cells[c].setting \in Combinations(Base, matrix)
    BY <2>2 DEF ExpandsOnce, Places, Settings, Given
  <2>4. \A s \in Combinations(Base, matrix) :
          Cardinality({c \in Places : Settings[c] = s}) = 1
    BY <2>2 DEF ExpandsOnce, Places, Settings
  <2>5. \A s : {c \in Places : cells[c].setting = s} = {c \in Places : Settings[c] = s}
    BY DEF Given
  <2>6. ASSUME status = "completed", NEW c \in Places
        PROVE  cells[c].run \in DOMAIN runs /\ runs[cells[c].run].cell = c
    BY <2>6 DEF LinkedInv, LinkedSweep, LinkedCell, Typed, References, Rows
  <2>7. ASSUME status = "completed", NEW c \in Places, "misread" \notin trouble
        PROVE  ShowsResult(cells[c].run) /\ ~Failed(cells[c])
    <3>1. Done(cells[c]) /\ ~Failed(cells[c]) /\ cells[c].run # None
      BY <2>7 DEF WholeInv, LinkedInv, LinkedSweep, Alone
    <3>2. Shown(cells[c].run) BY <3>1 DEF LinkedInv, LinkedCell
    <3>3. ASSUME Refused(cells[c].run), trouble \cap {"crash", "dropped"} = {} PROVE FALSE
      <4>1. PICK k \in Calls : Refusing(k, c)
        BY <3>1, <3>3 DEF RefusedInv, RefusedCell, Alone
      <4>2. Unsettled BY DEF AloneInv, Quiet
      <4> QED BY <2>7, <4>1, <4>2 DEF Unsettled, Refusing, Settled
    <3> QED BY <3>1, <3>2, <3>3 DEF ShowsResult, Shown, Shows, Refused
  <2>8. status \in {"partial", "failed"} => \E c \in Places : Failed(cells[c])
    BY DEF LinkedInv, LinkedSweep
  <2> QED BY <2>1, <2>3, <2>4, <2>5, <2>6, <2>7, <2>8
<1>2. Init => IInv
  BY InitTyped, InitQuiet, InitGiven, InitWhole, InitLinked, InitRefused DEF AloneInv
<1>3. IInv /\ [Next]_vars => IInv'
  <2> SUFFICES ASSUME IInv, [Next]_vars PROVE IInv'
    OBVIOUS
  <2>1. Typed' BY TypedStep
  <2>2. AloneInv' BY <2>1, AloneStep DEF AloneInv
  <2>3. Given' BY GivenStays
  <2>4. WholeInv' BY <2>1, WholeStep
  <2>5. LinkedInv' BY <2>1, LinkedStep
  <2>6. RefusedInv' BY <2>1, RefusedStep
  <2> QED BY <2>1, <2>2, <2>3, <2>4, <2>5, <2>6
<1> HIDE DEF IInv
<1> QED BY <1>1, <1>2, <1>3, PTL DEF Spec
----------------------------------------------------------------------------
(* Runs and the index their cell asks for.                                 *)

LEMMA NeedsStay == Typed /\ [Next]_vars => \A c \in Places : Needs(c)' = Needs(c)
<1> SUFFICES ASSUME Typed, [Next]_vars, NEW c \in Places PROVE cells'[c].setting = cells[c].setting
  BY DEF Needs
<1>1. ASSUME NEW k \in Calls,
             CreateConfig(k) \/ MarkIndexDispatched(k) \/ SetReady(k)
             \/ WriteLink(k) \/ SetOutcome(k) \/ SetFailure(k)
      PROVE  cells'[c].setting = cells[c].setting
  BY <1>1, Writes DEF Others
<1> QED BY <1>1, CellWriters

(* Cells that change nothing a document or another cell waits for.         *)
LEMMA CellsServedSame ==
  ASSUME Places' = Places, UNCHANGED docs, NEW c \in Places, CellServed(c), Needs(c)' = Needs(c),
         \A b \in Places : /\ cells'[b].dispatched = cells[b].dispatched
                           /\ cells'[b].ready = cells[b].ready
                           /\ cells'[b].runStatus = cells[b].runStatus
  PROVE  CellServed(c)'
<1>1. Before(c)' <=> Before(c) BY DEF Before, Done
<1>2. \A d \in Docs : Moving(d)' <=> Moving(d) BY DEF Moving
<1>3. MovesTo(Needs(c))' <=> MovesTo(Needs(c)) BY <1>2 DEF MovesTo
<1>4. SettledOn(Needs(c))' <=> SettledOn(Needs(c)) BY <1>3 DEF SettledOn
<1> QED BY <1>1, <1>2, <1>3, <1>4 DEF CellServed, Done

(* A call that reprocesses documents does so for the one cell whose turn   *)
(* it is.                                                                  *)
LEMMA DocsServed ==
  ASSUME Places' = Places, UNCHANGED cells, NEW c \in Places, Before(c), ~Done(cells[c]),
         ~cells[c].dispatched, ~cells[c].ready,
         \A b \in Places : CellServed(b) /\ Needs(b)' = Needs(b),
         \A d \in Docs : Moving(d)' => docs'[d].latest \in {docs'[d].active, Needs(c)}
  PROVE  \A b \in Places : CellServed(b)'
<1> SUFFICES ASSUME NEW b \in Places PROVE CellServed(b)'
  OBVIOUS
<1>0. b \in Nat /\ c \in Nat BY PlacesNat
<1>1. Before(b)' <=> Before(b) BY DEF Before, Done
<1>2. CASE b < c
  <2>1. Done(cells[b]) BY <1>2 DEF Before
  <2> QED BY <1>1, <2>1 DEF CellServed, Done
<1>3. CASE c < b
  <2>1. ~Before(b) BY <1>3 DEF Before
  <2> QED BY <1>1, <2>1 DEF CellServed
<1>4. CASE b = c BY <1>1, <1>4 DEF CellServed
<1> QED BY <1>0, <1>2, <1>3, <1>4

(* document_reindex ends for a document.                                   *)
LEMMA IndexServed ==
  ASSUME Typed, Places' = Places, UNCHANGED <<cells, calls>>, NEW e \in Docs, IndexDocument(e),
         \A b \in Places : Needs(b)' = Needs(b)
  PROVE  /\ \A b \in Places : CellServed(b) => CellServed(b)'
         /\ \A k \in Calls : CallServed(k) /\ (calls[k].pc \in Handling => calls[k].cell \in Places)
                             => CallServed(k)'
<1>0. docs \in [Docs -> DocType] BY DEF Typed, TypeOK
<1>1. \/ docs' = [docs EXCEPT ![e] = [docs[e] EXCEPT !.active = docs[e].latest, !.state = "ready"]]
      \/ docs' = [docs EXCEPT ![e] = [docs[e] EXCEPT !.state = "failed"]]
  BY DEF IndexDocument
<1>2. /\ \A d \in Docs : d # e => docs'[d] = docs[d]
      /\ docs'[e].latest = docs[e].latest /\ docs'[e].state \in {"ready", "failed"}
      /\ docs'[e].active \in {docs[e].active, docs[e].latest}
  <2>0. docs[e] \in DocType BY <1>0
  <2>1. CASE docs' = [docs EXCEPT ![e] = [docs[e] EXCEPT !.active = docs[e].latest,
                                                         !.state = "ready"]]
    <3> DEFINE new == [docs[e] EXCEPT !.active = docs[e].latest, !.state = "ready"]
    <3>1. new.active = docs[e].latest /\ new.state = "ready" /\ new.latest = docs[e].latest
      BY <2>0 DEF DocType
    <3>2. docs' = [docs EXCEPT ![e] = new] BY <2>1
    <3> HIDE DEF new
    <3> QED BY <1>0, <3>1, <3>2
  <2>2. CASE docs' = [docs EXCEPT ![e] = [docs[e] EXCEPT !.state = "failed"]]
    <3> DEFINE new == [docs[e] EXCEPT !.state = "failed"]
    <3>1. new.active = docs[e].active /\ new.state = "failed" /\ new.latest = docs[e].latest
      BY <2>0 DEF DocType
    <3>2. docs' = [docs EXCEPT ![e] = new] BY <2>2
    <3> HIDE DEF new
    <3> QED BY <1>0, <3>1, <3>2
  <2> QED BY <1>1, <2>1, <2>2
<1>3. Moving(e) BY DEF IndexDocument, Moving
<1>4. /\ ~Moving(e)' /\ \A d \in Docs : Moving(d)' => Moving(d) /\ docs'[d] = docs[d]
      /\ \A d \in Docs : docs'[d].latest = docs[d].latest
  BY <1>2 DEF Moving
<1>5. ASSUME NEW i, MovesTo(i) PROVE \A d \in Docs : Moving(d)' => docs'[d].latest = i
  BY <1>4, <1>5 DEF MovesTo
<1>6. ASSUME NEW i, SettledOn(i) PROVE \A d \in Docs : docs'[d].active = i
  BY <1>2, <1>3, <1>6 DEF SettledOn, MovesTo
<1>7. ASSUME NEW b \in Places, CellServed(b) PROVE CellServed(b)'
  <2>1. Needs(b)' = Needs(b) /\ cells' = cells /\ (Before(b)' <=> Before(b))
    BY DEF Before, Done
  <2>2. MovesTo(Needs(b)) => MovesTo(Needs(b))' BY <1>5, <2>1 DEF MovesTo
  <2>3. SettledOn(Needs(b)) => SettledOn(Needs(b))' BY <1>6, <2>1, <2>2 DEF SettledOn
  <2> QED BY <1>4, <1>7, <2>1, <2>2, <2>3 DEF CellServed, Done
<1>8. ASSUME NEW k \in Calls, CallServed(k), calls[k].pc \in Handling => calls[k].cell \in Places
      PROVE  CallServed(k)'
  <2> DEFINE c == calls[k].cell
  <2>1. calls' = calls /\ Row(k)' = Row(k) BY DEF Row
  <2>2. CASE calls[k].pc \notin Handling
    BY <2>1, <2>2 DEF CallServed, Handling
  <2>3. CASE calls[k].pc \in Handling
    <3>0. c \in Places BY <1>8, <2>3
    <3>1. Needs(c)' = Needs(c) /\ (Before(c) => Before(c)') BY <3>0 DEF Before, Done
    <3>2. SettledOn(Needs(c)) => SettledOn(Needs(c))'
      BY <1>5, <1>6, <3>1 DEF SettledOn, MovesTo
    <3> QED BY <1>4, <1>8, <2>1, <3>1, <3>2 DEF CallServed
  <2> QED BY <2>2, <2>3
<1> QED BY <1>7, <1>8

Waiting == {"reprocess", "dispatch", "mark", "ready"}

(* Steps after which the call waits for no document.                       *)
LEMMA Moves ==
  ASSUME Typed, NEW k \in Calls,
         \/ BeginAdvance(k) \/ GetExperiment(k) \/ CreateConfig(k) \/ LoadConfig(k)
         \/ SetReady(k) \/ CreateRun(k)
         \/ MarkRunning(k) \/ DispatchRun(k) \/ ReadLink(k) \/ WriteLink(k) \/ SetOutcome(k)
         \/ Refresh(k) \/ Finalize(k) \/ CallDies(k)
  PROVE  \/ calls'[k].pc \notin Handling
         \/ /\ calls[k].pc \in Handling /\ calls'[k].pc \in Handling \ Waiting
            /\ calls'[k].cell = calls[k].cell
<1>0. calls \in [Calls -> CallType] /\ calls[k] \in CallType BY DEF Typed, TypeOK
<1>1. ASSUME Answer(k) PROVE calls'[k].pc \notin Handling
  BY <1>0, <1>1, AnswerFacts DEF Handling, Launching
<1>2. ASSUME NEW pc, Go(k, pc) PROVE calls'[k].pc = pc /\ calls'[k].cell = calls[k].cell
  BY <1>0, <1>2, GoFacts
<1>3. ASSUME NEW new, calls' = [calls EXCEPT ![k] = new] PROVE calls'[k] = new
  BY <1>0, <1>3
<1>4. CASE BeginAdvance(k) \/ GetExperiment(k)
  BY <1>1, <1>2, <1>4 DEF BeginAdvance, GetExperiment, Handling, Launching
<1>5. CASE CreateConfig(k) \/ Finalize(k) \/ CallDies(k)
  BY <1>1, <1>5 DEF CreateConfig, Finalize, CallDies
<1>6. CASE LoadConfig(k) \/ SetReady(k)
  <2>1. /\ calls[k].pc \in Handling
        /\ Answer(k) \/ \E pc \in {"plan", "create", "refresh", "fail_index"} : Go(k, pc)
    BY <1>6 DEF LoadConfig, SetReady, At, Handling
  <2> QED BY <1>1, <1>2, <2>1 DEF Handling, Waiting, Launching
<1>7. CASE MarkRunning(k) \/ ReadLink(k) \/ WriteLink(k) \/ SetOutcome(k)
  <2>1. /\ calls[k].pc \in Handling
        /\ Answer(k) \/ \E pc \in {"dispatch_run", "fail_run", "write_link", "outcome"} : Go(k, pc)
    BY <1>7 DEF MarkRunning, ReadLink, WriteLink, SetOutcome, At, Handling, Launching
  <2> QED BY <1>1, <1>2, <2>1 DEF Handling, Waiting, Launching
<1>8. CASE CreateRun(k)
  <2> DEFINE new == [calls[k] EXCEPT !.pc = "mark_run", !.run = Len(runs) + 1]
  <2>1. calls[k].pc = "create" /\ (Go(k, "fail_run") \/ calls' = [calls EXCEPT ![k] = new])
    BY <1>8 DEF CreateRun, At
  <2>2. new.cell = calls[k].cell /\ new.pc = "mark_run" BY <1>0 DEF CallType
  <2> HIDE DEF new
  <2> QED BY <1>2, <1>3, <2>1, <2>2 DEF Handling, Waiting, Launching
<1>9. CASE DispatchRun(k)
  <2> DEFINE new(s) == [calls[k] EXCEPT !.pc = "link", !.runStatus = s]
  <2>1. /\ calls[k].pc = "dispatch_run"
        /\ Go(k, "fail_run") \/ calls' = [calls EXCEPT ![k] = new("running")]
           \/ calls' = [calls EXCEPT ![k] = new("dispatch_failed")]
    BY <1>9 DEF DispatchRun, At
  <2>2. \A s : new(s).cell = calls[k].cell /\ new(s).pc = "link" BY <1>0 DEF CallType
  <2> HIDE DEF new
  <2> QED BY <1>2, <1>3, <2>1, <2>2 DEF Handling, Waiting, Launching
<1>10. CASE Refresh(k)
  <2> DEFINE new == [calls[k] EXCEPT !.pc = "outcome", !.runStatus = runs[Row(k).run].status]
  <2>1. calls[k].pc = "refresh" /\ (Go(k, "fail_run") \/ calls' = [calls EXCEPT ![k] = new])
    BY <1>10 DEF Refresh, At
  <2>2. new.cell = calls[k].cell /\ new.pc = "outcome" BY <1>0 DEF CallType
  <2> HIDE DEF new
  <2> QED BY <1>2, <1>3, <2>1, <2>2 DEF Handling, Waiting, Launching
<1> QED BY <1>4, <1>5, <1>6, <1>7, <1>8, <1>9, <1>10

LEMMA PlainServed ==
  ASSUME Places' = Places, NEW k \in Calls, CallServed(k),
         \/ calls'[k].pc \notin Handling
         \/ /\ calls[k].pc \in Handling /\ calls'[k].pc \in Handling \ Waiting
            /\ calls'[k].cell = calls[k].cell,
         \A b \in Places : b < calls[k].cell /\ Done(cells[b]) => Done(cells'[b])
  PROVE  CallServed(k)'
BY DEF CallServed, Before, Handling, Waiting, Launching, Done

LEMMA OthersServed ==
  ASSUME Typed, Quiet, NEW k \in Calls,
         (BeginAdvance(k) /\ "overlap" \notin trouble') \/ Work(k) \/ CallDies(k)
  PROVE  \A j \in Calls \ {k} : calls'[j].pc = "idle" /\ CallServed(j)'
<1>0. calls \in [Calls -> CallType] BY DEF Typed, TypeOK
<1>1. \A j \in Calls \ {k} : calls'[j] = calls[j] BY <1>0, OtherCall
<1>2. \A j \in Calls \ {k} : calls[j].pc = "idle"
  <2>1. CASE BeginAdvance(k) /\ "overlap" \notin trouble'
    BY <2>1 DEF BeginAdvance, Suffer
  <2>2. CASE Work(k) \/ CallDies(k)
    <3>1. calls[k].pc # "idle"
      BY <2>2
      DEF Work, GetExperiment, GetCells, CreateConfig, LoadConfig, Plan, Reprocess,
          DispatchDocument, MarkIndexDispatched, SetReady, CreateRun, MarkRunning, DispatchRun,
          ReadLink, WriteLink, SetOutcome, Refresh, SetFailure, Finalize, CallDies, At
    <3> QED BY <3>1 DEF Quiet, OneCall
  <2> QED BY <2>1, <2>2
<1> QED BY <1>1, <1>2 DEF CallServed, Handling, Launching

LEMMA PinnedStays ==
  ASSUME Typed, Pinned, RunsStay, \A c \in Places : Needs(c)' = Needs(c)
  PROVE  Pinned'
<1>1. \A r \in DOMAIN runs : runs[r].cell \in Places
  <2>1. \A r \in DOMAIN runs : runs[r] \in RunType BY DEF Typed, TypeOK
  <2> QED BY <2>1 DEF RunType
<1>2. ASSUME NEW r \in DOMAIN runs', NEW d \in Docs
      PROVE  runs'[r].pinned[d] = Needs(runs[r].cell)' /\ runs'[r].cell = runs[r].cell
  BY <1>1, <1>2 DEF Pinned, RunsStay
<1>3. \A r \in DOMAIN runs' : \A d \in Docs :
        runs'[r].pinned[d] = IndexOf(cells'[runs'[r].cell].setting)
  BY <1>2 DEF Needs
<1> QED BY <1>3 DEF Pinned, Needs

(* The steps of a call, one lemma for those that touch the same state.     *)
LEMMA ServedCalls ==
  ASSUME Typed, Quiet, Served, NEW k \in Calls, Places' = Places,
         \A c \in Places : Needs(c)' = Needs(c),
         \/ BeginAdvance(k) \/ GetExperiment(k) \/ CreateConfig(k) \/ LoadConfig(k)
         \/ MarkRunning(k) \/ DispatchRun(k) \/ ReadLink(k) \/ WriteLink(k)
         \/ CreateRun(k) \/ Refresh(k) \/ Finalize(k) \/ CallDies(k)
  PROVE  (\A c \in Places : CellServed(c)') /\ CallServed(k)'
<1>1. UNCHANGED docs
  BY DEF BeginAdvance, GetExperiment, CreateConfig, LoadConfig, MarkRunning, DispatchRun,
         ReadLink, WriteLink, CreateRun, Refresh, Finalize, CallDies
<1>2. \A b \in Places : /\ cells'[b].dispatched = cells[b].dispatched
                        /\ cells'[b].ready = cells[b].ready
                        /\ cells'[b].runStatus = cells[b].runStatus
  <2>1. CASE CreateConfig(k) \/ WriteLink(k)
    <3>1. calls[k].pc \in {"config", "write_link"}
      BY <2>1 DEF CreateConfig, WriteLink, At
    <3> QED BY <2>1, <3>1, Writes DEF Others
  <2>2. CASE ~(CreateConfig(k) \/ WriteLink(k))
    BY <2>2 DEF BeginAdvance, GetExperiment, LoadConfig, MarkRunning, DispatchRun, ReadLink,
                CreateRun, Refresh, Finalize, CallDies
  <2> QED BY <2>1, <2>2
<1>3. \A c \in Places : CellServed(c)' BY <1>1, <1>2, CellsServedSame DEF Served
<1>4. CallServed(k)' BY <1>2, Moves, PlainServed DEF Served, Done
<1> QED BY <1>3, <1>4

LEMMA ServedRead ==
  ASSUME Typed, Quiet, Served, NEW k \in Calls, Places' = Places,
         \A c \in Places : Needs(c)' = Needs(c), NoneFailed, GetCells(k)
  PROVE  (\A c \in Places : CellServed(c)') /\ CallServed(k)'
<1>0. /\ calls \in [Calls -> CallType] /\ cells \in [Places -> CellType]
      /\ UNCHANGED <<docs, cells>> /\ ScanFrom(k, cells, 0)
  BY DEF Typed, TypeOK, GetCells
<1>1. \A c \in Places : CellServed(c)' BY <1>0, CellsServedSame DEF Served
<1>2. CASE calls'[k].pc = "finalize"
  BY <1>1, <1>2 DEF CallServed, Handling, Launching
<1>3. CASE calls'[k].pc \in {"load", "config"}
  <2>1. \A d \in Places : d > 0 /\ d < calls'[k].cell => Failed(cells[d]) \/ Done(cells[d])
    BY <1>0, <1>3, ScanFacts
  <2>2. \A d \in Places : d > 0 BY DEF Places
  <2>3. Before(calls[k].cell)' BY <1>0, <2>1, <2>2 DEF NoneFailed, Before, Done
  <2> QED BY <1>1, <1>3, <2>3 DEF CallServed
<1> QED BY <1>0, <1>1, <1>2, <1>3, ScanFacts

LEMMA ServedPlan ==
  ASSUME Typed, Quiet, Served, NEW k \in Calls, Places' = Places,
         \A c \in Places : Needs(c)' = Needs(c), Plan(k)
  PROVE  (\A c \in Places : CellServed(c)') /\ CallServed(k)'
<1>a. PICK c, i : c = calls[k].cell /\ i = Needs(c) OBVIOUS
<1> DEFINE planned == [calls[k] EXCEPT !.needed = ReindexNeeded(i), !.todo = Docs,
                                       !.pc = IF ReindexNeeded(i) THEN "reprocess" ELSE "mark"]
<1>0. /\ calls \in [Calls -> CallType] /\ UNCHANGED <<docs, cells>> /\ calls[k].pc = "plan"
      /\ calls[k] \in CallType /\ CallServed(k)
  BY DEF Typed, TypeOK, Plan, At, Served
<1>1. \A b \in Places : CellServed(b)' BY <1>0, CellsServedSame DEF Served
<1>2. /\ c \in Places /\ Before(c) /\ cells[c] = Row(k) /\ ~Done(cells[c]) /\ CellServed(c)
  BY <1>0, <1>a DEF CallServed, Quiet, Fresh, Reading, Handling, Typed, References, CallRefers,
                    Served
<1>3. Needs(c)' = i /\ Before(c)' BY <1>0, <1>a, <1>2 DEF Before, Done
<1>4. CASE Answer(k)
  BY <1>0, <1>1, <1>4, AnswerFacts, PlainServed DEF Handling, Launching
<1>5. CASE Go(k, "fail_index")
  <2>1. calls'[k].pc = "fail_index" /\ calls'[k].cell = calls[k].cell BY <1>0, <1>5, GoFacts
  <2> QED BY <1>0, <1>1, <2>1, PlainServed DEF Handling, Waiting
<1>6. CASE Row(k).dispatched /\ ~ReindexNeeded(i) /\ Go(k, "ready")
  <2>1. SettledOn(i) BY <1>2, <1>a, <1>6 DEF CellServed, SettledOn, ReindexNeeded
  <2>2. calls'[k].pc = "ready" /\ calls'[k].cell = c BY <1>0, <1>a, <1>6, GoFacts
  <2>3. SettledOn(i)' BY <1>0, <2>1 DEF SettledOn, MovesTo, Moving
  <2>4. SettledOn(Needs(calls[k].cell))' /\ Before(calls[k].cell)'
    BY <1>3, <2>2, <2>3 DEF Needs, Before, SettledOn, MovesTo
  <2> QED BY <1>1, <2>2, <2>4 DEF CallServed
<1>7. CASE ~Row(k).dispatched /\ calls' = [calls EXCEPT ![k] = planned]
  <2>1. /\ planned.seen = calls[k].seen /\ planned.cell = c /\ planned.todo = Docs
        /\ planned.pc = (IF ReindexNeeded(i) THEN "reprocess" ELSE "mark")
        /\ planned.needed = ReindexNeeded(i)
    BY <1>0, <1>a DEF CallType
  <2> HIDE DEF planned
  <2>2. calls'[k] = planned BY <1>0, <1>7
  <2>3. ~ReindexNeeded(i) => SettledOn(i)
    <3>1. \A d \in Docs : Moving(d) => docs[d].latest \in {docs[d].active, i}
      BY <1>2, <1>a DEF CellServed
    <3> QED BY <3>1 DEF ReindexNeeded, SettledOn, MovesTo
  <2>4. ~ReindexNeeded(i) => \A d \in Docs : /\ docs'[d].active = i
                                             /\ Moving(d)' => docs'[d].latest = i
    BY <1>0, <2>3 DEF SettledOn, MovesTo, Moving
  <2>5. Before(calls[k].cell)' /\ Row(k)' = Row(k) /\ Needs(calls[k].cell)' = i
    <3>1. calls'[k].cell = c /\ calls'[k].seen = calls[k].seen BY <2>1, <2>2
    <3>2. Row(k)' = Row(k) BY <1>a, <3>1 DEF Row
    <3>3. Before(calls[k].cell)' BY <1>3, <3>1 DEF Before
    <3>4. Needs(calls[k].cell)' = i BY <1>3, <3>1 DEF Needs
    <3> QED BY <3>2, <3>3, <3>4
  <2>6. calls'[k].pc = "mark" /\ ~calls'[k].needed => SettledOn(Needs(calls[k].cell))'
    BY <2>1, <2>2, <2>4, <2>5 DEF SettledOn, MovesTo
  <2>7. calls'[k].pc \in {"reprocess", "mark"} /\ calls'[k].todo = Docs
        /\ (calls'[k].pc = "reprocess" => calls'[k].needed)
        /\ (calls'[k].pc = "mark" => ~calls'[k].needed)
    BY <2>1, <2>2
  <2> QED BY <1>1, <1>7, <2>5, <2>6, <2>7 DEF CallServed
<1>8. \/ Answer(k) \/ Go(k, "fail_index")
      \/ Row(k).dispatched /\ ~ReindexNeeded(i) /\ Go(k, "ready")
      \/ ~Row(k).dispatched /\ calls' = [calls EXCEPT ![k] = planned]
  BY <1>a DEF Plan
<1> HIDE DEF planned
<1> QED BY <1>1, <1>4, <1>5, <1>6, <1>7, <1>8

LEMMA ServedReindex ==
  ASSUME Typed, Quiet, Served, NEW k \in Calls, Places' = Places,
         \A c \in Places : Needs(c)' = Needs(c),
         DispatchDocument(k) \/ \E d \in Docs : Reprocess(k, d)
  PROVE  (\A c \in Places : CellServed(c)') /\ CallServed(k)'
<1>a. PICK c, i : c = calls[k].cell /\ i = Needs(c) OBVIOUS
<1>0. /\ calls \in [Calls -> CallType] /\ UNCHANGED cells
      /\ calls[k].pc \in {"reprocess", "dispatch"}
      /\ calls[k] \in CallType /\ CallServed(k) /\ docs \in [Docs -> DocType]
  BY DEF Typed, TypeOK, DispatchDocument, Reprocess, At, Served
<1>1. /\ c \in Places /\ Before(c) /\ cells[c] = Row(k) /\ ~Done(cells[c]) /\ CellServed(c)
      /\ ~cells[c].dispatched /\ ~cells[c].ready /\ calls[k].needed
      /\ \A d \in Docs \ calls[k].todo : docs[d].latest = i
  BY <1>0, <1>a DEF CallServed, Quiet, Fresh, Reading, Handling, Typed, References, CallRefers,
                    Served, Ordered, InOrder
<1>2. Needs(c)' = i BY <1>a, <1>1
<1>3. \A d \in Docs : Moving(d) => docs[d].latest \in {docs[d].active, i}
  BY <1>a, <1>1 DEF CellServed
<1>4. ASSUME \A d \in Docs : Moving(d)' => docs'[d].latest \in {docs'[d].active, i}
      PROVE  \A b \in Places : CellServed(b)'
  BY <1>0, <1>a, <1>1, <1>4, DocsServed DEF Served
<1>5. ASSUME Go(k, "fail_index") PROVE CallServed(k)'
  <2>1. calls'[k].pc = "fail_index" /\ calls'[k].cell = calls[k].cell BY <1>0, <1>5, GoFacts
  <2> QED BY <1>0, <2>1, PlainServed DEF Handling, Waiting
<1>6. ASSUME calls'[k].pc \in {"reprocess", "dispatch", "mark"},
             calls'[k].cell = c, calls'[k].seen = calls[k].seen, calls'[k].needed,
             \A d \in Docs \ calls'[k].todo : docs'[d].latest = i,
             calls'[k].pc = "dispatch" => calls'[k].doc \notin calls'[k].todo,
             calls'[k].pc = "mark" => calls'[k].todo = {}
      PROVE  CallServed(k)'
  <2>1. Row(k)' = Row(k) /\ ~Row(k).dispatched BY <1>0, <1>a, <1>1, <1>6 DEF Row
  <2>2. Before(calls[k].cell)' BY <1>0, <1>1, <1>6 DEF Before, Done
  <2>3. Needs(calls[k].cell)' = i BY <1>2, <1>6 DEF Needs
  <2> QED BY <1>6, <2>1, <2>2, <2>3 DEF CallServed
<1>7. ASSUME NEW d \in Docs, Reprocess(k, d)
      PROVE  (\A b \in Places : CellServed(b)') /\ CallServed(k)'
  <2> DEFINE new == [calls[k] EXCEPT !.pc = "dispatch", !.doc = d, !.todo = calls[k].todo \ {d}]
             row == [docs[d] EXCEPT !.latest = i, !.state = "pending"]
  <2>1. CASE Go(k, "fail_index") /\ UNCHANGED docs
    <3>1. \A e \in Docs : Moving(e)' => docs'[e].latest \in {docs'[e].active, i}
      BY <1>3, <2>1 DEF Moving
    <3> QED BY <1>4, <1>5, <2>1, <3>1
  <2>2. CASE docs' = [docs EXCEPT ![d] = row] /\ calls' = [calls EXCEPT ![k] = new]
    <3>1. /\ new.pc = "dispatch" /\ new.cell = c /\ new.seen = calls[k].seen
          /\ new.todo = calls[k].todo \ {d} /\ new.doc = d /\ new.needed = calls[k].needed
          /\ row.latest = i /\ row.active = docs[d].active
      BY <1>0, <1>a DEF CallType, DocType
    <3> HIDE DEF new, row
    <3>2. /\ calls'[k] = new /\ docs'[d] = row /\ \A e \in Docs : e # d => docs'[e] = docs[e]
      BY <1>0, <2>2
    <3>3. \A e \in Docs : Moving(e)' => docs'[e].latest \in {docs'[e].active, i}
      BY <1>3, <3>1, <3>2 DEF Moving
    <3>4. /\ \A e \in Docs \ calls'[k].todo : docs'[e].latest = i
      BY <1>1, <3>1, <3>2
    <3>5. CallServed(k)' BY <1>1, <1>6, <3>1, <3>2, <3>4
    <3> QED BY <1>4, <3>3, <3>5
  <2>3. (Go(k, "fail_index") /\ UNCHANGED docs)
        \/ (docs' = [docs EXCEPT ![d] = row] /\ calls' = [calls EXCEPT ![k] = new])
    BY <1>7, <1>a DEF Reprocess
  <2> QED BY <2>1, <2>2, <2>3
<1>8. ASSUME DispatchDocument(k)
      PROVE  (\A b \in Places : CellServed(b)') /\ CallServed(k)'
  <2> DEFINE e == calls[k].doc
             row == [docs[e] EXCEPT !.state = "queued"]
  <2>1. calls[k].pc = "dispatch" BY <1>8 DEF DispatchDocument, At
  <2>2. e \in Docs /\ e \notin calls[k].todo /\ docs[e].latest = i
    BY <1>0, <1>1, <2>1 DEF CallServed, Typed, References, CallRefers
  <2>3. row.latest = docs[e].latest /\ row.active = docs[e].active BY <1>0, <2>2 DEF DocType
  <2>4. /\ docs' = [docs EXCEPT ![e] = row] \/ UNCHANGED docs
        /\ Go(k, "fail_index") \/ Go(k, IF calls[k].todo = {} THEN "mark" ELSE "reprocess")
    BY <1>8 DEF DispatchDocument
  <2> HIDE DEF row, e
  <2>5. \A d \in Docs : /\ docs'[d].latest = docs[d].latest /\ docs'[d].active = docs[d].active
                        /\ d # e => docs'[d] = docs[d]
    BY <1>0, <2>2, <2>3, <2>4
  <2>6. \A d \in Docs : Moving(d)' => docs'[d].latest \in {docs'[d].active, i}
    BY <1>3, <2>2, <2>5 DEF Moving
  <2>7. CASE Go(k, IF calls[k].todo = {} THEN "mark" ELSE "reprocess")
    <3>1. /\ calls'[k].pc = (IF calls[k].todo = {} THEN "mark" ELSE "reprocess")
          /\ calls'[k].cell = c /\ calls'[k].seen = calls[k].seen
          /\ calls'[k].needed = calls[k].needed /\ calls'[k].todo = calls[k].todo
      BY <1>0, <1>a, <2>7, GoFacts
    <3>2. calls'[k].pc \in {"reprocess", "mark"} /\ (calls'[k].pc = "mark" => calls'[k].todo = {})
      BY <3>1
    <3>3. \A d \in Docs \ calls'[k].todo : docs'[d].latest = i BY <1>1, <2>5, <3>1
    <3> QED BY <1>1, <1>4, <1>6, <2>6, <3>1, <3>2, <3>3
  <2> QED BY <1>4, <1>5, <2>4, <2>6, <2>7
<1> QED BY <1>7, <1>8

LEMMA ServedMark ==
  ASSUME Typed, Quiet, Served, NEW k \in Calls, Places' = Places,
         \A c \in Places : Needs(c)' = Needs(c), MarkIndexDispatched(k)
  PROVE  (\A c \in Places : CellServed(c)') /\ CallServed(k)'
<1>a. PICK c, i : c = calls[k].cell /\ i = Needs(c) OBVIOUS
<1>0. /\ calls \in [Calls -> CallType] /\ UNCHANGED docs /\ calls[k].pc = "mark"
      /\ CallServed(k)
  BY DEF Typed, TypeOK, MarkIndexDispatched, At, Served
<1>1. /\ c \in Places /\ Before(c) /\ ~Done(cells[c]) /\ CellServed(c)
      /\ Needs(c)' = i
  BY <1>0, <1>a DEF CallServed, Quiet, Fresh, Reading, Handling, Typed, References, CallRefers,
                    Served
<1>2. MovesTo(i) /\ (~calls[k].needed => SettledOn(i))
  BY <1>0, <1>a DEF CallServed, MovesTo, SettledOn
<1>3. /\ \A b \in Places : b # c => cells'[b] = cells[b]
      /\ cells'[c].ready = cells[c].ready /\ cells'[c].runStatus = cells[c].runStatus
  BY <1>0, <1>a, Writes DEF Others
<1>4. \A b \in Places : Before(b)' <=> Before(b) BY <1>3 DEF Before, Done
<1>5. \A d \in Docs : Moving(d)' <=> Moving(d) BY <1>0 DEF Moving
<1>6. \A j : (MovesTo(j) <=> \A d \in Docs : Moving(d)' => docs'[d].latest = j)
             /\ (SettledOn(j) <=> MovesTo(j) /\ \A d \in Docs : docs'[d].active = j)
  BY <1>0, <1>5 DEF MovesTo, SettledOn
<1>7. ASSUME NEW b \in Places PROVE CellServed(b)'
  <2>0. Needs(b)' = Needs(b) /\ CellServed(b) BY DEF Served
  <2>1. /\ MovesTo(Needs(b))' <=> MovesTo(Needs(b))
        /\ SettledOn(Needs(b))' <=> SettledOn(Needs(b))
    BY <1>6, <2>0 DEF MovesTo, SettledOn
  <2>2. CASE b # c BY <1>0, <1>3, <1>4, <1>5, <2>0, <2>1, <2>2 DEF CellServed, Done
  <2>3. CASE b = c
    BY <1>0, <1>a, <1>1, <1>2, <1>3, <1>4, <1>5, <2>0, <2>1, <2>3 DEF CellServed, Done
  <2> QED BY <2>2, <2>3
<1>8. CASE Answer(k) BY <1>7, <1>8, <1>0, AnswerFacts DEF CallServed, Handling, Launching
<1>9. CASE ~calls[k].needed /\ Go(k, "ready")
  <2>1. calls'[k].pc = "ready" /\ calls'[k].cell = c BY <1>0, <1>a, <1>9, GoFacts
  <2>2. Needs(calls[k].cell)' = i BY <1>1, <2>1 DEF Needs
  <2>3. Before(calls[k].cell)' BY <1>1, <1>4, <2>1 DEF Before
  <2>4. SettledOn(Needs(calls[k].cell))' BY <1>2, <1>6, <1>9, <2>2 DEF SettledOn, MovesTo
  <2> QED BY <1>7, <2>1, <2>3, <2>4 DEF CallServed
<1> QED BY <1>8, <1>9 DEF MarkIndexDispatched

LEMMA ServedReady ==
  ASSUME Typed, Quiet, Served, NEW k \in Calls, Places' = Places,
         \A c \in Places : Needs(c)' = Needs(c), SetReady(k)
  PROVE  (\A c \in Places : CellServed(c)') /\ CallServed(k)'
<1>a. PICK c, i : c = calls[k].cell /\ i = Needs(c) OBVIOUS
<1>0. UNCHANGED docs /\ calls[k].pc = "ready" /\ CallServed(k)
  BY DEF SetReady, At, Served
<1>1. /\ c \in Places /\ Before(c) /\ ~Done(cells[c]) /\ CellServed(c) /\ SettledOn(i)
  BY <1>0, <1>a DEF CallServed, Quiet, Fresh, Opening, Handling, Typed, References, CallRefers,
                    Served
<1>3. /\ \A b \in Places : b # c => cells'[b] = cells[b]
      /\ cells'[c].dispatched = cells[c].dispatched
      /\ cells'[c].runStatus = cells[c].runStatus
  BY <1>0, <1>a, Writes DEF Others
<1>4. \A b \in Places : Before(b)' <=> Before(b) BY <1>3 DEF Before, Done
<1>5. \A d \in Docs : Moving(d)' <=> Moving(d) BY <1>0 DEF Moving
<1>7. ASSUME NEW b \in Places PROVE CellServed(b)'
  <2>0. Needs(b)' = Needs(b) /\ CellServed(b) BY DEF Served
  <2>1. /\ MovesTo(Needs(b))' <=> MovesTo(Needs(b))
        /\ SettledOn(Needs(b))' <=> SettledOn(Needs(b))
    BY <1>0, <1>5, <2>0 DEF MovesTo, SettledOn
  <2>2. CASE b # c BY <1>0, <1>3, <1>4, <1>5, <2>0, <2>1, <2>2 DEF CellServed, Done
  <2>3. CASE b = c
    BY <1>0, <1>a, <1>1, <1>3, <1>4, <1>5, <2>0, <2>1, <2>3 DEF CellServed, Done
  <2> QED BY <2>2, <2>3
<1>8. CallServed(k)'
  <2>1. \A b \in Places : Done(cells[b]) => Done(cells'[b]) BY <1>3 DEF Done
  <2> QED BY <1>0, <2>1, Moves, PlainServed
<1> QED BY <1>7, <1>8

LEMMA ServedOutcome ==
  ASSUME Typed, Quiet, Served, NEW k \in Calls, Places' = Places,
         \A c \in Places : Needs(c)' = Needs(c), SetOutcome(k)
  PROVE  (\A c \in Places : CellServed(c)') /\ CallServed(k)'
<1>a. PICK c, i : c = calls[k].cell /\ i = Needs(c) OBVIOUS
<1>0. UNCHANGED docs /\ calls[k].pc = "outcome" /\ CallServed(k)
  BY DEF SetOutcome, At, Served
<1>1. /\ c \in Places /\ Before(c) /\ ~Done(cells[c]) /\ CellServed(c) /\ cells[c].ready
  BY <1>0, <1>a DEF CallServed, Quiet, Fresh, Built, Handling, Typed, References, CallRefers,
                    Served
<1>2. SettledOn(i) BY <1>a, <1>1 DEF CellServed
<1>3. /\ \A b \in Places : b # c => cells'[b] = cells[b]
      /\ cells'[c].dispatched = cells[c].dispatched /\ cells'[c].ready = cells[c].ready
  BY <1>0, <1>a, Writes DEF Others
<1>4. \A b \in Places : Done(cells[b]) => Done(cells'[b]) BY <1>1, <1>3
<1>5. /\ \A b \in Places : Before(b) => Before(b)'
      /\ \A d \in Docs : Moving(d)' <=> Moving(d)
  BY <1>0, <1>4 DEF Moving, Before, Done
<1>6. ASSUME NEW b \in Places, ~Before(b), Before(b)' PROVE MovesTo(i) /\ SettledOn(i)
  BY <1>2 DEF SettledOn
<1>7. ASSUME NEW b \in Places PROVE CellServed(b)'
  <2>0. Needs(b)' = Needs(b) /\ CellServed(b) BY DEF Served
  <2>1. /\ MovesTo(Needs(b))' <=> MovesTo(Needs(b))
        /\ SettledOn(Needs(b))' <=> SettledOn(Needs(b))
    BY <1>0, <1>5, <2>0 DEF MovesTo, SettledOn
  <2>2. \A d \in Docs : Moving(d) => docs[d].latest \in {docs[d].active, Needs(b)}
    BY <1>2 DEF SettledOn, MovesTo
  <2>3. ~Done(cells'[b]) => ~Done(cells[b]) BY <1>4
  <2>4. /\ cells'[b].dispatched = cells[b].dispatched /\ cells'[b].ready = cells[b].ready
    BY <1>3
  <2> QED BY <1>0, <1>5, <2>0, <2>1, <2>2, <2>3, <2>4 DEF CellServed, Done
<1>8. CallServed(k)' BY <1>0, <1>4, Moves, PlainServed
<1> QED BY <1>7, <1>8

LEMMA PinnedGrows ==
  ASSUME Typed, Quiet, Served, NEW k \in Calls, Adds(k), \A c \in Places : Needs(c)' = Needs(c)
  PROVE  Pinned'
<1> DEFINE c == calls[k].cell
<1>1. /\ c \in Places /\ CellServed(c) /\ ~Done(cells[c]) /\ cells[c].ready
  BY DEF Adds, Served, Quiet, Fresh, Opening, Built, Handling, Typed, References, CallRefers
<1>2. \A d \in Docs : docs[d].active = Needs(c) BY <1>1 DEF CellServed, SettledOn
<1>3. \A r \in DOMAIN runs : runs[r].cell \in Places
  <2>1. \A r \in DOMAIN runs : runs[r] \in RunType BY DEF Typed, TypeOK
  <2> QED BY <2>1 DEF RunType
<1>4. /\ DOMAIN runs' = DOMAIN runs \cup {Len(runs) + 1} /\ cells' = cells
      /\ \A r \in DOMAIN runs : runs'[r] = runs[r]
      /\ runs'[Len(runs) + 1].cell = c
      /\ runs'[Len(runs) + 1].pinned = [d \in Docs |-> docs[d].active]
  BY DEF Adds
<1> HIDE DEF c
<1>5. ASSUME NEW r \in DOMAIN runs', NEW d \in Docs
      PROVE  runs'[r].pinned[d] = IndexOf(cells'[runs'[r].cell].setting)
  <2>1. CASE r \in DOMAIN runs BY <1>4, <2>1 DEF Served, Pinned, Needs
  <2>2. CASE r = Len(runs) + 1 BY <1>2, <1>4, <2>2 DEF Needs
  <2> QED BY <1>4, <2>1, <2>2
<1> QED BY <1>5 DEF Pinned, Needs

LEMMA ServedStep == Typed /\ Typed' /\ AloneInv /\ ServedInv /\ [Next]_vars => ServedInv'
<1> SUFFICES ASSUME Typed, Typed', AloneInv, ServedInv, [Next]_vars,
                    trouble' \cap {"overlap", "dropped"} = {}, NoneFailed'
             PROVE  Served'
  BY DEF ServedInv
<1>0. Places' = Places /\ \A c \in Places : Needs(c)' = Needs(c)
  BY MatrixStays, TypesStay, NeedsStay
<1>1. Quiet BY AloneStep DEF Alone
<1>2. NoneFailed BY <1>0, <1>1, RowsGrow DEF NoneFailed
<1>3. Served BY <1>2, TroubleGrows DEF ServedInv
<1>4. Pinned'
  BY <1>0, <1>1, <1>3, RunsGrow, PinnedStays, PinnedGrows DEF Served
<1>5. ASSUME NEW k \in Calls, SetFailure(k) PROVE FALSE
  <2>1. calls[k].pc \in {"fail_index", "fail_run"} BY <1>5 DEF SetFailure
  <2>2. Failed(cells'[calls[k].cell]) /\ calls[k].cell \in Places BY <1>5, <2>1, Writes
  <2> QED BY <1>0, <2>2 DEF NoneFailed, Failed
<1>6. ASSUME NEW k \in Calls, BeginAdvance(k) \/ Work(k) \/ CallDies(k)
      PROVE  (\A c \in Places : CellServed(c)') /\ \A j \in Calls : CallServed(j)'
  <2>1. (\A c \in Places : CellServed(c)') /\ CallServed(k)'
    BY <1>0, <1>1, <1>2, <1>3, <1>5, <1>6, ServedCalls, ServedRead, ServedPlan, ServedReindex,
       ServedMark, ServedReady, ServedOutcome
    DEF Work
  <2>2. \A j \in Calls \ {k} : CallServed(j)' BY <1>1, <1>6, OthersServed
  <2> QED BY <2>1, <2>2
<1>7. ASSUME NEW d \in Docs, IndexDocument(d)
      PROVE  (\A c \in Places : CellServed(c)') /\ \A j \in Calls : CallServed(j)'
  BY <1>0, <1>3, <1>7, IndexServed DEF IndexDocument, Served, Typed, References, CallRefers
<1>8. ASSUME UNCHANGED <<cells, docs, calls>>
      PROVE  (\A c \in Places : CellServed(c)') /\ \A j \in Calls : CallServed(j)'
  <2>1. \A c \in Places : CellServed(c)' BY <1>0, <1>3, <1>8, CellsServedSame DEF Served
  <2>2. \A j \in Calls : CallServed(j)'
    BY <1>0, <1>3, <1>8
    DEF Served, CallServed, SettledOn, MovesTo, Moving, Before, Done, Row, Needs
  <2> QED BY <2>1, <2>2
<1>9. ASSUME NEW r \in DOMAIN runs, StoreCase(r) \/ StoreLastCase(r)
      PROVE  UNCHANGED <<cells, docs, calls>>
  BY <1>9 DEF StoreCase, StoreLastCase
<1>10. (\A c \in Places : CellServed(c)') /\ \A j \in Calls : CallServed(j)'
  BY <1>6, <1>7, <1>8, <1>9 DEF Next, vars
<1> QED BY <1>0, <1>4, <1>10 DEF Served

LEMMA InitServed == Init => ServedInv
<1> SUFFICES ASSUME Init PROVE Served
  BY DEF ServedInv
<1>1. /\ cells = [c \in Places |-> NewCell(Settings[c])] /\ runs = <<>>
      /\ docs = [d \in Docs |-> [active |-> IndexOf(Base), latest |-> IndexOf(Base),
                                 state |-> "ready"]]
      /\ \A k \in Calls : calls[k].pc = "idle"
  BY DEF Init, Places, Settings, IdleCall
<1>2. \A d \in Docs : ~Moving(d) BY <1>1 DEF Moving
<1>3. \A c \in Places : ~cells[c].dispatched /\ ~cells[c].ready BY <1>1 DEF NewCell
<1>4. \A c \in Places : CellServed(c) BY <1>2, <1>3 DEF CellServed
<1>5. \A k \in Calls : CallServed(k) BY <1>1 DEF CallServed, Handling, Launching
<1>6. Pinned BY <1>1 DEF Pinned
<1> QED BY <1>4, <1>5, <1>6 DEF Served

(* A failed reindex blocks evaluation: while no failure is lost and no     *)
(* call runs beside another, LaunchRun pins the indexes its cell asks for, *)
(* whatever DispatchIndex, document_reindex and calls that died left       *)
(* behind, unless a cell of the sweep has failed.                          *)
THEOREM RunsAlwaysUseTheirIndex == Spec => []RunsUseTheirIndex
<1>1. Typed /\ ServedInv => RunsUseTheirIndex
  <2> SUFFICES ASSUME Typed, ServedInv, trouble \cap {"overlap", "dropped"} = {},
                      \A c \in Cells : ~Failed(cells[c])
               PROVE  \A r \in DOMAIN runs : \A d \in Docs :
                        runs[r].pinned[d] = Needs(runs[r].cell)
    BY DEF RunsUseTheirIndex
  <2>1. Cells = Places BY DEF Cells, Typed, TypeOK
  <2> QED BY <2>1 DEF ServedInv, Served, NoneFailed, Pinned
<1>2. Typed /\ AloneInv /\ (Typed /\ AloneInv)' /\ ServedInv /\ [Next]_vars => ServedInv'
  BY ServedStep
<1> QED BY <1>1, <1>2, InitServed, QuietAlways, PTL DEF Spec
----------------------------------------------------------------------------
(* The sweep that its DAG drives.                                          *)

(* Every step of the task, of the page and of the workers is a step of     *)
(* Experiment, or changes nothing of it (rag_parameter_sweep.py): what the *)
(* theorems above say holds of a sweep however its DAG drives it.          *)
THEOREM DagDrivesTheSweep == SweepSpec => Spec
<1>1. SweepInit => Init BY DEF SweepInit
<1>2. [SweepNext]_sweepVars => [Next]_vars
  <2> SUFFICES ASSUME [SweepNext]_sweepVars PROVE Next \/ UNCHANGED vars
    OBVIOUS
  <2>1. CASE Post \/ Step \/ StepDies
    BY <2>1, SweepDagAssumption DEF Post, Step, StepDies, Next
  <2>2. CASE \E k \in Calls : Page(k) BY <2>2 DEF Page, Next
  <2>3. CASE \E d \in Docs : Index(d) BY <2>3 DEF Index, Next
  <2>4. CASE \E r \in 1..MaxRuns : EvaluateCase(r) \/ Evaluate(r)
    BY <2>4 DEF EvaluateCase, Evaluate, Next
  <2>5. CASE UNCHANGED sweepVars BY <2>5 DEF sweepVars, vars
  <2> QED BY <2>1, <2>2, <2>3, <2>4, <2>5 DEF SweepNext
<1> QED BY <1>1, <1>2, PTL DEF SweepSpec, Spec
=============================================================================
