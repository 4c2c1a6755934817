------------------------------ MODULE Datasets ------------------------------
(***************************************************************************)
(* Golden evaluation datasets: a dataset is a name with numbered versions, *)
(* each a full set of cases that name the documents expected as evidence.  *)
(* CreateDataset writes version 1, NewVersion the next one, each in one    *)
(* transaction; while a transaction holds its connection every reference   *)
(* is looked up on ANOTHER connection of the same bounded pool.            *)
(***************************************************************************)
EXTENDS Integers, Sequences, FiniteSets, SequencesExt

CONSTANTS Names,        \* dataset names (and, once created, datasets)
          Documents, Keys,
          Requests,     \* HTTP requests, one transaction each
          MaxConns,     \* connections of the pool
          Edits         \* what a request may ask: [dataset, creates, cases],
                        \* a case being [key, evidence (a sequence), graded]

ASSUME ConnsAssumption == MaxConns \in Nat \ {0}
ASSUME EditsAssumption ==
  Edits \subseteq [dataset : Names, creates : BOOLEAN,
                   cases : Seq([key : Keys, evidence : Seq(Documents),
                                graded : SUBSET Documents])]

VARIABLES live,         \* documents that are not deleted
          latest,       \* eval_datasets.latest_version, 0 without a row
          rows,         \* committed eval_cases
          edit,         \* what each request asks
          tx            \* where each request stands, with its own rows

vars == <<live, latest, rows, edit, tx>>

-----------------------------------------------------------------------------
(* A row of eval_cases; "of" stands for the question, the reference answer *)
(* and the notes, which tell the requests apart.                           *)
RowOf(r, v, case) ==
  [dataset |-> edit[r].dataset, version |-> v, key |-> case.key,
   evidence |-> ToSet(case.evidence), graded |-> case.graded, of |-> r]

NoTx == [at |-> "sent", case |-> 1, ref |-> 1, version |-> 0, rows |-> {},
         base |-> {}, told |-> 0]

Init ==
  /\ live = Documents
  /\ latest = [n \in Names |-> 0]
  /\ rows = {}
  /\ edit \in [Requests -> Edits]
  /\ tx = [r \in Requests |-> NoTx]

Over(r) == tx[r].at \in {"done", "rejected", "gone"}

(* The transactions that own the dataset's row: they inserted it or hold   *)
(* its FOR UPDATE lock.                                                    *)
Owners(n) ==
  {r \in Requests : /\ edit[r].dataset = n
                    /\ tx[r].at \in {"checking", "storing", "committing"}}

InUse ==
  {r \in Requests : tx[r].at \in {"open", "checking", "storing", "committing"}}
(* Mutant: an error return keeps its connection.                           *)
ConnectionFreeLeaking ==
  Cardinality({r \in Requests : tx[r].at \in {"open", "checking", "storing",
                                 "committing", "rejected"}}) < MaxConns
ConnectionFree == Cardinality(InUse) < MaxConns

Case(r) == edit[r].cases[tx[r].case]
Ref(r) == Case(r).evidence[tx[r].ref]
Repeats(r) == \E j \in 1..(tx[r].ref - 1) : Case(r).evidence[j] = Ref(r)

Set(r, new) == tx' = [tx EXCEPT ![r] = new]
MoveTo(r, at) == Set(r, [tx[r] EXCEPT !.at = at])
(* Every error return rolls the transaction back and frees the connection. *)
Reject(r) == Set(r, [NoTx EXCEPT !.at = "rejected"])

-----------------------------------------------------------------------------
(* Repeated case keys are refused before a connection is taken.            *)
KeysRepeat(cases) ==
  \E i, j \in DOMAIN cases : i # j /\ cases[i].key = cases[j].key

Begin(r) ==
  /\ tx[r].at = "sent"
  /\ IF KeysRepeat(edit[r].cases) THEN Reject(r)
     ELSE /\ ConnectionFree
          /\ Set(r, [tx[r] EXCEPT !.at = "open", !.base = live])
  /\ UNCHANGED <<live, latest, rows, edit>>

(* insertCases refuses an empty version, then starts with the first case.  *)
StartCases(r, v) ==
  IF edit[r].cases = <<>> THEN Reject(r)
  ELSE Set(r, [tx[r] EXCEPT !.at = "checking", !.version = v])

(* The unique index makes an insert wait for another's uncommitted name.   *)
InsertDataset(r) ==
  /\ tx[r].at = "open"
  /\ edit[r].creates
  /\ Owners(edit[r].dataset) = {}
  /\ IF latest[edit[r].dataset] # 0 THEN Reject(r) ELSE StartCases(r, 1)
  /\ UNCHANGED <<live, latest, rows, edit>>

(* The row lock of NewVersion: a dataset that no transaction has committed *)
(* is not found; otherwise one edit of a dataset runs at a time.           *)
(* Mutant: the select does not lock.                                       *)
LockFreeAlways(n) == TRUE
LockFree(n) == Owners(n) = {}
(* Mutant: the edit stores into the version it read.                       *)
NextVersionInPlace(n) == latest[n]
NextVersion(n) == latest[n] + 1

LockDataset(r) ==
  /\ tx[r].at = "open"
  /\ ~edit[r].creates
  /\ LET n == edit[r].dataset IN
       \/ latest[n] = 0 /\ Reject(r)
       \/ latest[n] # 0 /\ LockFree(n) /\ StartCases(r, NextVersion(n))
  /\ UNCHANGED <<live, latest, rows, edit>>

-----------------------------------------------------------------------------
(* resolveEvidence: a case without evidence, a repeated document or one    *)
(* that is not live ends the request. The look-up needs a free connection  *)
(* while the transaction keeps its own.                                    *)
DocumentExists(d) == d \in live

Resolve(r) ==
  /\ tx[r].at = "checking"
  /\ IF Case(r).evidence = <<>> \/ Repeats(r) THEN Reject(r)
     ELSE /\ ConnectionFree
          /\ IF ~DocumentExists(Ref(r)) THEN Reject(r)
             ELSE IF tx[r].ref = Len(Case(r).evidence) THEN MoveTo(r, "storing")
             ELSE Set(r, [tx[r] EXCEPT !.ref = @ + 1])
  /\ UNCHANGED <<live, latest, rows, edit>>

(* Grades may only name the case's evidence; a key already in the version  *)
(* stores no row, which is an error too.                                   *)
GradesFit(case) == case.graded \subseteq ToSet(case.evidence)
KeyTaken(r) ==
  \E row \in rows \union tx[r].rows :
     /\ row.dataset = edit[r].dataset
     /\ row.version = tx[r].version
     /\ row.key = Case(r).key

InsertCase(r) ==
  /\ tx[r].at = "storing"
  /\ IF ~GradesFit(Case(r)) \/ KeyTaken(r) THEN Reject(r)
     ELSE LET last == tx[r].case = Len(edit[r].cases) IN
          Set(r, [tx[r] EXCEPT
                    !.rows = @ \union {RowOf(r, tx[r].version, Case(r))},
                    !.at = IF last THEN "committing" ELSE "checking",
                    !.case = IF last THEN @ ELSE @ + 1,
                    !.ref = 1])
  /\ UNCHANGED <<live, latest, rows, edit>>

(* CreateDataset replies with the row it inserted; NewVersion reads the    *)
(* dataset again, on a connection of its own.                              *)
Commit(r) ==
  /\ tx[r].at = "committing"
  /\ rows' = rows \union tx[r].rows
  /\ latest' = [latest EXCEPT ![edit[r].dataset] = tx[r].version]
  /\ Set(r, [tx[r] EXCEPT !.rows = {},
                          !.at = IF edit[r].creates THEN "done" ELSE "reading",
                          !.told = IF edit[r].creates THEN 1 ELSE 0])
  /\ UNCHANGED <<live, edit>>

GetDataset(r) ==
  /\ tx[r].at = "reading"
  /\ ConnectionFree
  /\ Set(r, [tx[r] EXCEPT !.at = "done", !.told = latest[edit[r].dataset]])
  /\ UNCHANGED <<live, latest, rows, edit>>

(* The client disconnects, or the process dies: what is not committed is   *)
(* rolled back. The requests have no deadline, so nothing else ends a wait.*)
GiveUp(r) ==
  /\ ~Over(r)
  /\ IF tx[r].at = "reading" THEN MoveTo(r, "gone")
     ELSE Set(r, [NoTx EXCEPT !.at = "gone"])
  /\ UNCHANGED <<live, latest, rows, edit>>

DeleteDocument(d) ==
  /\ d \in live
  /\ ConnectionFree
  /\ live' = live \ {d}
  /\ UNCHANGED <<latest, rows, edit, tx>>

Serve(r) ==
  \/ Begin(r) \/ InsertDataset(r) \/ LockDataset(r)
  \/ Resolve(r) \/ InsertCase(r) \/ Commit(r) \/ GetDataset(r)

Next ==
  \/ \E r \in Requests : Serve(r) \/ GiveUp(r)
  \/ \E d \in Documents : DeleteDocument(d)

Spec == Init /\ [][Next]_vars
(* A served request goes on whenever its next step is possible.            *)
FairSpec == Spec /\ \A r \in Requests : WF_vars(Serve(r))

-----------------------------------------------------------------------------
(* GetVersion: the cases of one version.                                   *)
CasesOf(n, v) == {row \in rows : row.dataset = n /\ row.version = v}

(* Every connection belongs to a transaction that waits for one more, or   *)
(* for a row whose owner waits: the pool is shared, so nothing else of the *)
(* API runs either, until a client gives up.                               *)
WaitsForConnection(r) ==
  tx[r].at = "checking" /\ Case(r).evidence # <<>> /\ ~Repeats(r)
WaitsForRow(r) == tx[r].at = "open" /\ Owners(edit[r].dataset) # {}
Exhausted ==
  /\ Cardinality(InUse) = MaxConns
  /\ \A r \in InUse : WaitsForConnection(r) \/ WaitsForRow(r)

(* A version that exists is exactly the payload of one request, whole and  *)
(* not empty, each with evidence that was live when its transaction began  *)
(* and with grades for that evidence only; no case is stored beyond the    *)
(* latest version, two versions never share a request, and no reply names  *)
(* a version older than the one the request stored. It holds while edits   *)
(* of one dataset overlap, because NewVersion locks the row it reads.      *)
VersionsWhole ==
  /\ \A n \in Names : \A v \in 1..latest[n] : \E r \in Requests :
       /\ CasesOf(n, v) # {}
       /\ CasesOf(n, v) = {RowOf(r, v, c) : c \in ToSet(edit[r].cases)}
       /\ \A row \in CasesOf(n, v) : /\ row.evidence \subseteq tx[r].base
                                     /\ row.graded \subseteq row.evidence
  /\ \A row \in rows : row.version \in 1..latest[row.dataset]
  /\ \A x, y \in rows : x.of = y.of => x.version = y.version
  /\ \A r \in Requests : tx[r].at = "done" => tx[r].told >= tx[r].version

(* What a run or a reader has pinned stays: no step changes the cases of a *)
(* version that exists, and version numbers of a dataset only grow.        *)
HistoryKept ==
  [][\A n \in Names : /\ latest'[n] >= latest[n]
                      /\ \A v \in 1..latest[n] : CasesOf(n, v)' = CasesOf(n, v)
    ]_vars

(* Every edit is answered in the end, unless edits that hold all the       *)
(* connections wait for each other and no client gives up.                 *)
EditsEnd == <>[]((\A r \in Requests : Over(r)) \/ Exhausted)

=============================================================================
