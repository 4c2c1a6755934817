--------------------------- MODULE DatasetsProofs ---------------------------
(***************************************************************************)
(* What holds of Datasets for every set of names, documents, requests and  *)
(* edits, and any number of connections.                                   *)
(***************************************************************************)
EXTENDS Datasets, FiniteSetTheorems, TLAPS

----------------------------------------------------------------------------
(* Type correctness.                                                       *)

RowType == [dataset : Names, version : Nat, key : Keys, evidence : SUBSET Documents,
            graded : SUBSET Documents, of : Requests]
TxType == [at : {"sent", "open", "checking", "storing", "committing", "reading", "done",
                 "rejected", "gone"},
           case : Nat, ref : Nat, version : Nat, rows : SUBSET RowType,
           base : SUBSET Documents, told : Nat]

TypeOK ==
  /\ live \subseteq Documents
  /\ latest \in [Names -> Nat]
  /\ rows \subseteq RowType
  /\ edit \in [Requests -> Edits]
  /\ tx \in [Requests -> TxType]

----------------------------------------------------------------------------
(* The inductive invariant.                                                *)

Owning == {"checking", "storing", "committing"}
Saved == {"reading", "done", "gone"}
Latest(r) == latest[edit[r].dataset]
AllRows(r, v) == {RowOf(r, v, c) : c \in ToSet(edit[r].cases)}

(* A transaction that owns its dataset's row writes the next version, has  *)
(* the rows of the cases before the one it is at, and has seen live every  *)
(* document they name.                                                     *)
RowsOwned(r) ==
  /\ tx[r].at \in {"sent", "open"} => tx[r].case = 1 /\ tx[r].ref = 1
  /\ tx[r].at \notin Owning => tx[r].rows = {}
  /\ tx[r].at \in Owning => /\ tx[r].version = Latest(r) + 1
                            /\ edit[r].creates => tx[r].version = 1
  /\ tx[r].at \in {"checking", "storing"} =>
       /\ tx[r].case \in 1..Len(edit[r].cases)
       /\ tx[r].rows = {RowOf(r, tx[r].version, edit[r].cases[i]) : i \in 1..(tx[r].case - 1)}
  /\ tx[r].at = "committing" => /\ edit[r].cases # <<>>
                                /\ tx[r].rows = AllRows(r, tx[r].version)

EvidenceSeen(r) ==
  /\ tx[r].at \in {"open"} \cup Owning => live \subseteq tx[r].base
  /\ \A row \in tx[r].rows : row.evidence \subseteq tx[r].base /\ row.graded \subseteq row.evidence
  /\ tx[r].at = "checking" => \A j \in 1..(tx[r].ref - 1) : Case(r).evidence[j] \in tx[r].base
  /\ tx[r].at = "storing" => ToSet(Case(r).evidence) \subseteq tx[r].base

Told(r) ==
  /\ tx[r].at \in {"reading", "done"} => tx[r].version <= Latest(r)
  /\ tx[r].at = "done" => tx[r].told >= tx[r].version

OneOwner ==
  \A q, r \in Requests :
    /\ tx[q].at \in Owning /\ tx[r].at \in Owning
    /\ edit[q].dataset = edit[r].dataset
    => q = r

(* A version that exists is that of a request which has committed.         *)
StoredBy(r, n, v) ==
  /\ tx[r].at \in Saved
  /\ CasesOf(n, v) # {}
  /\ CasesOf(n, v) = AllRows(r, v)
  /\ \A row \in CasesOf(n, v) : row.evidence \subseteq tx[r].base /\ row.graded \subseteq row.evidence

VersionsStored ==
  /\ \A n \in Names : \A v \in 1..latest[n] : \E r \in Requests : StoredBy(r, n, v)
  /\ \A row \in rows : row.version \in 1..latest[row.dataset]
  /\ \A row \in rows : tx[row.of].at \in Saved /\ row.version = tx[row.of].version

IInv ==
  /\ TypeOK
  /\ \A r \in Requests : RowsOwned(r) /\ EvidenceSeen(r) /\ Told(r)
  /\ OneOwner
  /\ VersionsStored
----------------------------------------------------------------------------
(* Steps.                                                                  *)

LEMMA EditTyped ==
  ASSUME TypeOK, NEW r \in Requests
  PROVE  /\ edit[r].dataset \in Names /\ edit[r].creates \in BOOLEAN
         /\ edit[r].cases \in Seq([key : Keys, evidence : Seq(Documents), graded : SUBSET Documents])
         /\ Latest(r) \in Nat
<1>1. edit[r] \in Edits BY DEF TypeOK
<1> QED BY <1>1, EditsAssumption DEF TypeOK, Latest

LEMMA CaseTyped ==
  ASSUME TypeOK, NEW r \in Requests, NEW i \in 1..Len(edit[r].cases), NEW v \in Nat
  PROVE  /\ edit[r].cases[i].key \in Keys
         /\ edit[r].cases[i].evidence \in Seq(Documents)
         /\ edit[r].cases[i].graded \in SUBSET Documents
         /\ ToSet(edit[r].cases[i].evidence) \subseteq Documents
         /\ RowOf(r, v, edit[r].cases[i]) \in RowType
<1>1. edit[r].cases[i] \in [key : Keys, evidence : Seq(Documents), graded : SUBSET Documents]
  <2>1. ASSUME NEW S, NEW s \in Seq(S), NEW j \in 1..Len(s) PROVE s[j] \in S BY <2>1
  <2> QED BY <2>1, EditTyped
<1>2. ToSet(edit[r].cases[i].evidence) \subseteq Documents BY <1>1 DEF ToSet
<1> QED BY <1>1, <1>2, EditTyped DEF RowOf, RowType

LEMMA NoTxTyped == NoTx \in TxType /\ NoTx.rows = {} /\ NoTx.at = "sent" /\ NoTx.version = 0
BY DEF NoTx, TxType

(* A request that is turned away, or gives up, has nothing.                *)
LEMMA OutOfIt ==
  ASSUME TypeOK, NEW r \in Requests, NEW at \in {"rejected", "gone"},
         Set(r, [NoTx EXCEPT !.at = at])
  PROVE  /\ tx' \in [Requests -> TxType]
         /\ tx'[r].at = at /\ tx'[r].rows = {}
BY NoTxTyped DEF TypeOK, Set, TxType

LEMMA BeginStarts ==
  ASSUME TypeOK, NEW r \in Requests, Begin(r)
  PROVE  /\ tx' \in [Requests -> TxType] /\ tx[r].at = "sent"
         /\ \A q \in Requests : q # r => tx'[q] = tx[q]
         /\ \/ tx'[r].at = "rejected" /\ tx'[r].rows = {}
            \/ /\ tx'[r].at = "open" /\ tx'[r].rows = tx[r].rows /\ tx'[r].base = live
               /\ tx'[r].case = tx[r].case /\ tx'[r].ref = tx[r].ref
<1>0. tx[r] \in TxType /\ live \subseteq Documents BY DEF TypeOK
<1>1. CASE Reject(r)
  BY <1>1, OutOfIt DEF Begin, Reject, Set, TypeOK
<1>2. CASE Set(r, [tx[r] EXCEPT !.at = "open", !.base = live])
  BY <1>0, <1>2 DEF Begin, Set, TypeOK, TxType
<1> QED BY <1>1, <1>2 DEF Begin

LEMMA CasesStart ==
  ASSUME TypeOK, NEW r \in Requests, NEW v \in Nat, StartCases(r, v), tx[r].at = "open"
  PROVE  /\ tx' \in [Requests -> TxType]
         /\ \A q \in Requests : q # r => tx'[q] = tx[q]
         /\ \/ tx'[r].at = "rejected" /\ tx'[r].rows = {}
            \/ /\ edit[r].cases # <<>>
               /\ tx'[r] = [tx[r] EXCEPT !.at = "checking", !.version = v]
               /\ tx'[r].at = "checking" /\ tx'[r].version = v
<1>0. tx[r] \in TxType BY DEF TypeOK
<1>1. CASE Reject(r)
  BY <1>1, OutOfIt DEF Reject, Set, TypeOK
<1>2. CASE edit[r].cases # <<>> /\ Set(r, [tx[r] EXCEPT !.at = "checking", !.version = v])
  BY <1>0, <1>2 DEF Set, TypeOK, TxType
<1> QED BY <1>1, <1>2 DEF StartCases

(* The transaction becomes the owner of a row that nobody owns.            *)
LEMMA OwnerStarts ==
  ASSUME TypeOK, NEW r \in Requests, InsertDataset(r) \/ LockDataset(r)
  PROVE  /\ tx' \in [Requests -> TxType] /\ tx[r].at = "open"
         /\ \A q \in Requests : q # r => tx'[q] = tx[q]
         /\ \/ tx'[r].at = "rejected" /\ tx'[r].rows = {}
            \/ /\ edit[r].cases # <<>> /\ Owners(edit[r].dataset) = {}
               /\ tx'[r] = [tx[r] EXCEPT !.at = "checking", !.version = Latest(r) + 1]
               /\ tx'[r].at = "checking" /\ tx'[r].version = Latest(r) + 1
               /\ edit[r].creates => Latest(r) = 0
<1>0. Latest(r) \in Nat /\ Latest(r) + 1 \in Nat BY EditTyped
<1>1. CASE Reject(r)
  BY <1>1, OutOfIt DEF InsertDataset, LockDataset, Reject, Set, TypeOK
<1>2. CASE InsertDataset(r) /\ ~Reject(r)
  <2>1. StartCases(r, Latest(r) + 1) /\ Latest(r) = 0
    BY <1>2 DEF InsertDataset, Latest
  <2>2. tx[r].at = "open" /\ Owners(edit[r].dataset) = {} BY <1>2 DEF InsertDataset
  <2>3. edit[r].cases # <<>> BY <1>2, <2>1 DEF StartCases
  <2> QED BY <1>0, <2>1, <2>2, <2>3, CasesStart
<1>3. CASE LockDataset(r) /\ ~Reject(r)
  <2>1. StartCases(r, Latest(r) + 1) /\ Owners(edit[r].dataset) = {} /\ ~edit[r].creates
    BY <1>3 DEF LockDataset, Latest, LockFree, NextVersion
  <2>2. tx[r].at = "open" BY <1>3 DEF LockDataset
  <2>3. edit[r].cases # <<>> BY <1>3, <2>1 DEF StartCases
  <2> QED BY <1>0, <2>1, <2>2, <2>3, CasesStart
<1> QED BY <1>1, <1>2, <1>3

LEMMA ResolveGoes ==
  ASSUME TypeOK, NEW r \in Requests, Resolve(r)
  PROVE  /\ tx' \in [Requests -> TxType] /\ tx[r].at = "checking"
         /\ \A q \in Requests : q # r => tx'[q] = tx[q]
         /\ \/ tx'[r].at = "rejected" /\ tx'[r].rows = {}
            \/ /\ tx'[r].version = tx[r].version /\ tx'[r].rows = tx[r].rows
               /\ tx'[r].case = tx[r].case /\ tx'[r].base = tx[r].base
               /\ Ref(r) \in live
               /\ \/ tx'[r].at = "storing" /\ tx[r].ref = Len(Case(r).evidence)
                  \/ tx'[r].at = "checking" /\ tx'[r].ref = tx[r].ref + 1
<1>0. tx[r] \in TxType BY DEF TypeOK
<1>1. CASE Reject(r)
  BY <1>1, OutOfIt DEF Resolve, Reject, Set, TypeOK
<1>2. CASE Ref(r) \in live /\ tx[r].ref = Len(Case(r).evidence) /\ MoveTo(r, "storing")
  BY <1>0, <1>2 DEF Resolve, MoveTo, Set, TypeOK, TxType
<1>3. CASE Ref(r) \in live /\ Set(r, [tx[r] EXCEPT !.ref = tx[r].ref + 1])
  <2>1. tx[r].ref + 1 \in Nat BY <1>0 DEF TxType
  <2>2. tx[r].at = "checking" BY DEF Resolve
  <2>3. [tx[r] EXCEPT !.ref = tx[r].ref + 1] \in TxType BY <1>0, <2>1 DEF TxType
  <2>4. tx' = [tx EXCEPT ![r] = [tx[r] EXCEPT !.ref = tx[r].ref + 1]] BY <1>3 DEF Set
  <2> QED BY <1>0, <1>3, <2>2, <2>3, <2>4 DEF TypeOK, TxType
<1> QED BY <1>1, <1>2, <1>3 DEF Resolve, DocumentExists

LEMMA InsertGoes ==
  ASSUME TypeOK, NEW r \in Requests, RowsOwned(r), InsertCase(r)
  PROVE  /\ tx' \in [Requests -> TxType] /\ tx[r].at = "storing"
         /\ \A q \in Requests : q # r => tx'[q] = tx[q]
         /\ \/ tx'[r].at = "rejected" /\ tx'[r].rows = {}
            \/ /\ tx'[r].version = tx[r].version /\ tx'[r].base = tx[r].base
               /\ tx'[r].rows = tx[r].rows \cup {RowOf(r, tx[r].version, Case(r))}
               /\ Case(r).graded \subseteq ToSet(Case(r).evidence)
               /\ tx'[r].ref = 1
               /\ \/ /\ tx'[r].at = "committing" /\ tx[r].case = Len(edit[r].cases)
                  \/ /\ tx'[r].at = "checking" /\ tx[r].case # Len(edit[r].cases)
                     /\ tx'[r].case = tx[r].case + 1
<1>0. tx[r] \in TxType BY DEF TypeOK
<1>1. CASE Reject(r)
  BY <1>1, OutOfIt DEF InsertCase, Reject, Set, TypeOK
<1>2. CASE ~Reject(r)
  <2> DEFINE more == tx[r].rows \cup {RowOf(r, tx[r].version, Case(r))}
             last == tx[r].case = Len(edit[r].cases)
  <2>1. tx[r].at = "storing" BY DEF InsertCase
  <2>2. RowOf(r, tx[r].version, Case(r)) \in RowType
    BY <1>0, <2>1, CaseTyped DEF RowsOwned, Case, TxType
  <2>3. more \in SUBSET RowType BY <1>0, <2>2 DEF TxType
  <2>4. /\ Set(r, [tx[r] EXCEPT !.rows = more, !.at = IF last THEN "committing" ELSE "checking",
                                !.case = IF last THEN tx[r].case ELSE tx[r].case + 1, !.ref = 1])
        /\ Case(r).graded \subseteq ToSet(Case(r).evidence)
    BY <1>2 DEF InsertCase, GradesFit
  <2> HIDE DEF more
  <2>5. CASE last
    BY <1>0, <2>1, <2>3, <2>4, <2>5 DEF Set, TypeOK, TxType, more
  <2>6. CASE ~last
    <3> DEFINE new == [tx[r] EXCEPT !.rows = more, !.at = "checking",
                                    !.case = tx[r].case + 1, !.ref = 1]
    <3>1. tx[r].case + 1 \in Nat BY <1>0 DEF TxType
    <3>2. new \in TxType BY <1>0, <2>3, <3>1 DEF TxType
    <3>3. /\ new.version = tx[r].version /\ new.base = tx[r].base /\ new.rows = more
          /\ new.ref = 1 /\ new.at = "checking" /\ new.case = tx[r].case + 1
      BY <1>0 DEF TxType
    <3>4. tx' = [tx EXCEPT ![r] = new] BY <2>4, <2>6 DEF Set
    <3> HIDE DEF new
    <3> QED BY <2>1, <2>4, <2>6, <3>2, <3>3, <3>4 DEF TypeOK, more
  <2> QED BY <2>5, <2>6
<1> QED BY <1>1, <1>2

LEMMA CommitGoes ==
  ASSUME TypeOK, NEW r \in Requests, Commit(r)
  PROVE  /\ tx' \in [Requests -> TxType] /\ tx[r].at = "committing"
         /\ \A q \in Requests : q # r => tx'[q] = tx[q]
         /\ tx'[r].rows = {} /\ tx'[r].version = tx[r].version /\ tx'[r].base = tx[r].base
         /\ \/ tx'[r].at = "done" /\ edit[r].creates /\ tx'[r].told = 1
            \/ tx'[r].at = "reading"
<1>0. tx[r] \in TxType BY DEF TypeOK
<1>1. CASE edit[r].creates
  BY <1>0, <1>1 DEF Commit, Set, TypeOK, TxType
<1>2. CASE ~edit[r].creates
  BY <1>0, <1>2 DEF Commit, Set, TypeOK, TxType
<1> QED BY <1>1, <1>2

LEMMA GetGoes ==
  ASSUME TypeOK, NEW r \in Requests, GetDataset(r)
  PROVE  /\ tx' \in [Requests -> TxType] /\ tx[r].at = "reading"
         /\ \A q \in Requests : q # r => tx'[q] = tx[q]
         /\ tx'[r].at = "done" /\ tx'[r].told = Latest(r)
         /\ tx'[r].version = tx[r].version /\ tx'[r].base = tx[r].base
         /\ tx'[r].rows = tx[r].rows
<1>0. tx[r] \in TxType /\ Latest(r) \in Nat BY EditTyped DEF TypeOK
<1> QED BY <1>0 DEF GetDataset, Set, TypeOK, TxType, Latest

LEMMA GiveUpGoes ==
  ASSUME TypeOK, NEW r \in Requests, GiveUp(r)
  PROVE  /\ tx' \in [Requests -> TxType] /\ tx[r].at \notin {"done", "rejected", "gone"}
         /\ \A q \in Requests : q # r => tx'[q] = tx[q]
         /\ tx'[r].at = "gone"
         /\ \/ tx'[r].rows = {} /\ tx[r].at # "reading"
            \/ /\ tx[r].at = "reading" /\ tx'[r].rows = tx[r].rows
               /\ tx'[r].version = tx[r].version /\ tx'[r].base = tx[r].base
<1>0. tx[r] \in TxType BY DEF TypeOK
<1>1. CASE tx[r].at = "reading" /\ MoveTo(r, "gone")
  BY <1>0, <1>1 DEF GiveUp, Over, MoveTo, Set, TypeOK, TxType
<1>2. CASE tx[r].at # "reading" /\ Set(r, [NoTx EXCEPT !.at = "gone"])
  BY <1>0, <1>2, OutOfIt DEF GiveUp, Over, Set, TypeOK
<1> QED BY <1>1, <1>2 DEF GiveUp

Uncommitted(r) ==
  \/ Begin(r) \/ InsertDataset(r) \/ LockDataset(r) \/ Resolve(r) \/ InsertCase(r)
  \/ GetDataset(r) \/ GiveUp(r)

LEMMA Frames ==
  /\ \A r \in Requests : Uncommitted(r) => UNCHANGED <<live, latest, rows, edit>>
  /\ \A r \in Requests : Commit(r) => UNCHANGED <<live, edit>>
  /\ \A d \in Documents : DeleteDocument(d) =>
       live' \subseteq live /\ UNCHANGED <<latest, rows, edit, tx>>
  /\ Next => \/ \E r \in Requests : Uncommitted(r) \/ Commit(r)
             \/ \E d \in Documents : DeleteDocument(d)
<1>1. \A r \in Requests : Uncommitted(r) => UNCHANGED <<live, latest, rows, edit>>
  BY DEF Uncommitted, Begin, InsertDataset, LockDataset, Resolve, InsertCase, GetDataset, GiveUp
<1>2. \A r \in Requests : Commit(r) => UNCHANGED <<live, edit>> BY DEF Commit
<1>3. \A d \in Documents : DeleteDocument(d) =>
        live' \subseteq live /\ UNCHANGED <<latest, rows, edit, tx>>
  BY DEF DeleteDocument
<1>4. Next => \/ \E r \in Requests : Uncommitted(r) \/ Commit(r)
              \/ \E d \in Documents : DeleteDocument(d)
  BY DEF Next, Serve, Uncommitted
<1> QED BY <1>1, <1>2, <1>3, <1>4

(* A step of a request moves that request only.                            *)
LEMMA OthersStand ==
  ASSUME IInv, NEW r \in Requests, Uncommitted(r) \/ Commit(r), NEW q \in Requests, q # r
  PROVE  tx'[q] = tx[q]
<1>0. TypeOK /\ RowsOwned(r) BY DEF IInv
<1>1. CASE Begin(r) BY <1>0, <1>1, BeginStarts
<1>2. CASE InsertDataset(r) \/ LockDataset(r) BY <1>0, <1>2, OwnerStarts
<1>3. CASE Resolve(r) BY <1>0, <1>3, ResolveGoes
<1>4. CASE InsertCase(r) BY <1>0, <1>4, InsertGoes
<1>5. CASE Commit(r) BY <1>0, <1>5, CommitGoes
<1>6. CASE GetDataset(r) BY <1>0, <1>6, GetGoes
<1>7. CASE GiveUp(r) BY <1>0, <1>7, GiveUpGoes
<1> QED BY <1>1, <1>2, <1>3, <1>4, <1>5, <1>6, <1>7 DEF Uncommitted

LEMMA TypeStep == IInv /\ Next => TypeOK'
<1> SUFFICES ASSUME IInv, Next PROVE TypeOK' OBVIOUS
<1>0. TypeOK /\ \A r \in Requests : RowsOwned(r) BY DEF IInv
<1>1. ASSUME NEW r \in Requests, Uncommitted(r) PROVE TypeOK'
  <2>1. tx' \in [Requests -> TxType]
    BY <1>0, <1>1, BeginStarts, OwnerStarts, ResolveGoes, InsertGoes, GetGoes, GiveUpGoes
    DEF Uncommitted
  <2> QED BY <1>0, <1>1, <2>1, Frames DEF TypeOK
<1>2. ASSUME NEW r \in Requests, Commit(r) PROVE TypeOK'
  <2>1. tx[r] \in TxType BY <1>0 DEF TypeOK
  <2>2. latest' \in [Names -> Nat] /\ rows' \subseteq RowType
    BY <1>0, <1>2, <2>1 DEF Commit, TypeOK, TxType
  <2> QED BY <1>0, <1>2, <2>2, Frames, CommitGoes DEF TypeOK
<1>3. ASSUME NEW d \in Documents, DeleteDocument(d) PROVE TypeOK'
  BY <1>0, <1>3, Frames DEF TypeOK
<1> QED BY <1>1, <1>2, <1>3, Frames
----------------------------------------------------------------------------
(* What one request keeps of its own.                                      *)

Own(r) == RowsOwned(r) /\ EvidenceSeen(r) /\ Told(r)

LEMMA OthersKeep ==
  ASSUME IInv, NEW q \in Requests, tx'[q] = tx[q], UNCHANGED edit, live' \subseteq live,
         latest'[edit[q].dataset] \in Nat, latest'[edit[q].dataset] >= latest[edit[q].dataset],
         tx[q].at \in Owning => latest'[edit[q].dataset] = latest[edit[q].dataset]
  PROVE  Own(q)'
<1>0. Own(q) /\ tx[q] \in TxType /\ Latest(q) \in Nat BY EditTyped DEF IInv, Own, TypeOK
<1>1. RowsOwned(q)' BY <1>0 DEF Own, RowsOwned, RowOf, AllRows, Latest
<1>2. EvidenceSeen(q)' BY <1>0 DEF Own, EvidenceSeen, Case
<1>3. tx[q].version \in Nat BY <1>0 DEF TxType
<1>4. Told(q)' BY <1>0, <1>3 DEF Own, Told, Latest
<1> QED BY <1>1, <1>2, <1>4 DEF Own

LEMMA NothingOwned ==
  ASSUME NEW r \in Requests, tx'[r].at \in {"rejected", "gone"}, tx'[r].rows = {}
  PROVE  Own(r)'
BY DEF Own, RowsOwned, EvidenceSeen, Told, Owning

LEMMA OwnStep ==
  ASSUME IInv, NEW r \in Requests, Uncommitted(r)
  PROVE  Own(r)'
<1>0. /\ TypeOK /\ RowsOwned(r) /\ EvidenceSeen(r) /\ Told(r) /\ tx[r] \in TxType
      /\ UNCHANGED <<live, latest, rows, edit>>
  BY Frames DEF IInv, TypeOK
<1>t. /\ tx[r].case \in Nat /\ tx[r].ref \in Nat /\ tx[r].version \in Nat
      /\ Latest(r) \in Nat /\ Len(edit[r].cases) \in Nat
  BY <1>0, EditTyped DEF TxType
<1>1. CASE Begin(r)
  <2>1. CASE /\ tx'[r].at = "open" /\ tx'[r].rows = tx[r].rows /\ tx'[r].base = live
             /\ tx'[r].case = tx[r].case /\ tx'[r].ref = tx[r].ref
    <3>1. tx'[r].rows = {} /\ tx'[r].case = 1 /\ tx'[r].ref = 1
      BY <1>0, <1>1, <2>1, BeginStarts DEF RowsOwned, Owning
    <3> QED BY <1>0, <2>1, <3>1 DEF Own, RowsOwned, EvidenceSeen, Told, Owning
  <2> QED BY <1>0, <1>1, <2>1, BeginStarts, NothingOwned
<1>2. CASE InsertDataset(r) \/ LockDataset(r)
  <2>1. CASE /\ edit[r].cases # <<>>
             /\ tx'[r] = [tx[r] EXCEPT !.at = "checking", !.version = Latest(r) + 1]
             /\ tx'[r].at = "checking" /\ tx'[r].version = Latest(r) + 1
             /\ edit[r].creates => Latest(r) = 0
    <3>1. tx[r].at = "open" /\ tx[r].rows = {} /\ live \subseteq tx[r].base
      BY <1>0, <1>2, OwnerStarts DEF RowsOwned, EvidenceSeen, Owning
    <3>2. /\ tx'[r].case = 1 /\ tx'[r].ref = 1
          /\ tx'[r].base = tx[r].base /\ tx'[r].rows = {}
      BY <1>0, <2>1, <3>1 DEF TxType, RowsOwned
    <3>3. 1 \in 1..Len(edit[r].cases)
      <4>1. Len(edit[r].cases) # 0 BY <1>0, <2>1, EditTyped
      <4> QED BY <1>t, <4>1
    <3>4. RowsOwned(r)' BY <1>0, <1>t, <2>1, <3>2, <3>3 DEF RowsOwned, Owning, Latest
    <3>5. EvidenceSeen(r)' BY <1>0, <2>1, <3>1, <3>2 DEF EvidenceSeen
    <3>6. Told(r)' BY <2>1 DEF Told
    <3> QED BY <3>4, <3>5, <3>6 DEF Own
  <2> QED BY <1>0, <1>2, <2>1, OwnerStarts, NothingOwned
<1>3. CASE Resolve(r)
  <2>1. CASE tx'[r].at = "rejected" /\ tx'[r].rows = {} BY <2>1, NothingOwned
  <2>2. CASE /\ tx'[r].version = tx[r].version /\ tx'[r].rows = tx[r].rows
             /\ tx'[r].case = tx[r].case /\ tx'[r].base = tx[r].base
             /\ Ref(r) \in live
             /\ \/ tx'[r].at = "storing" /\ tx[r].ref = Len(Case(r).evidence)
                \/ tx'[r].at = "checking" /\ tx'[r].ref = tx[r].ref + 1
    <3>1. tx[r].at = "checking" BY <1>0, <1>3, ResolveGoes
    <3>2. tx[r].case \in 1..Len(edit[r].cases) /\ Case(r)' = Case(r)
      BY <1>0, <2>2, <3>1 DEF RowsOwned, Case
    <3>3. Case(r).evidence \in Seq(Documents)
      BY <1>0, <1>t, <3>2, CaseTyped DEF Case
    <3>4. RowsOwned(r)'
      BY <1>0, <2>2, <3>1 DEF RowsOwned, Owning, Latest, RowOf
    <3>5. \A j \in 1..tx[r].ref : Case(r).evidence[j] \in tx[r].base
      BY <1>0, <1>t, <2>2, <3>1 DEF EvidenceSeen, Ref, Owning
    <3>6. tx[r].ref = Len(Case(r).evidence) => ToSet(Case(r).evidence) \subseteq tx[r].base
      BY <3>3, <3>5 DEF ToSet
    <3>7. (tx[r].ref + 1) - 1 = tx[r].ref BY <1>t
    <3>8. EvidenceSeen(r)'
      <4>1. /\ live \subseteq tx[r].base
            /\ \A row \in tx[r].rows :
                 row.evidence \subseteq tx[r].base /\ row.graded \subseteq row.evidence
        BY <1>0, <3>1 DEF EvidenceSeen, Owning
      <4>2. ASSUME tx'[r].at = "checking" PROVE tx'[r].ref - 1 = tx[r].ref
        <5>1. tx'[r].ref = tx[r].ref + 1 BY <2>2, <4>2
        <5> QED BY <3>7, <5>1
      <4>3. tx'[r].at = "checking" =>
              \A j \in 1..(tx'[r].ref - 1) : Case(r)'.evidence[j] \in tx'[r].base
        BY <2>2, <3>2, <3>5, <4>2
      <4>4. tx'[r].at = "storing" => ToSet(Case(r)'.evidence) \subseteq tx'[r].base
        BY <2>2, <3>2, <3>6
      <4> QED BY <1>0, <2>2, <4>1, <4>3, <4>4 DEF EvidenceSeen
    <3>9. Told(r)' BY <2>2 DEF Told
    <3> QED BY <3>4, <3>8, <3>9 DEF Own
  <2> QED BY <1>0, <1>3, <2>1, <2>2, ResolveGoes
<1>4. CASE InsertCase(r)
  <2>1. CASE tx'[r].at = "rejected" /\ tx'[r].rows = {} BY <2>1, NothingOwned
  <2>2. CASE /\ tx'[r].version = tx[r].version /\ tx'[r].base = tx[r].base
             /\ tx'[r].rows = tx[r].rows \cup {RowOf(r, tx[r].version, Case(r))}
             /\ Case(r).graded \subseteq ToSet(Case(r).evidence)
             /\ tx'[r].ref = 1
             /\ \/ /\ tx'[r].at = "committing" /\ tx[r].case = Len(edit[r].cases)
                \/ /\ tx'[r].at = "checking" /\ tx[r].case # Len(edit[r].cases)
                   /\ tx'[r].case = tx[r].case + 1
    <3> DEFINE R(i) == RowOf(r, tx[r].version, edit[r].cases[i])
               n == tx[r].case
    <3>1. tx[r].at = "storing" BY <1>0, <1>4, InsertGoes
    <3>2. n \in 1..Len(edit[r].cases) /\ tx[r].rows = {R(i) : i \in 1..(n - 1)}
      BY <1>0, <3>1 DEF RowsOwned
    <3>3. tx'[r].rows = {R(i) : i \in 1..n}
      <4>1. 1..n = 1..(n - 1) \cup {n} BY <1>t, <3>2
      <4>2. Case(r) = edit[r].cases[n] BY DEF Case
      <4> HIDE DEF R
      <4>3. {R(i) : i \in 1..n} = {R(i) : i \in 1..(n - 1)} \cup {R(n)} BY <4>1
      <4> USE DEF R
      <4> QED BY <2>2, <3>2, <4>2, <4>3
    <3>5. RowsOwned(r)'
      <4>1. CASE tx'[r].at = "committing" /\ n = Len(edit[r].cases)
        <5>1. edit[r].cases # <<>> BY <1>t, <3>2
        <5>2. DOMAIN edit[r].cases = 1..n BY <1>0, <4>1, EditTyped
        <5>3. AllRows(r, tx[r].version) = {R(i) : i \in 1..n}
          BY <5>2 DEF AllRows, ToSet
        <5>4. AllRows(r, tx[r].version)' = AllRows(r, tx[r].version)
          BY <1>0, <2>2 DEF AllRows, RowOf
        <5> QED BY <1>0, <2>2, <3>1, <3>3, <4>1, <5>1, <5>3, <5>4 DEF RowsOwned, Owning, Latest
      <4>2. CASE /\ tx'[r].at = "checking" /\ n # Len(edit[r].cases) /\ tx'[r].case = n + 1
        <5>1. n + 1 \in 1..Len(edit[r].cases) /\ (n + 1) - 1 = n BY <1>t, <3>2, <4>2
        <5>2. tx'[r].rows = {RowOf(r, tx[r].version, edit[r].cases[i])' : i \in 1..n}
          BY <1>0, <2>2, <3>3 DEF RowOf
        <5> QED BY <1>0, <2>2, <3>1, <4>2, <5>1, <5>2 DEF RowsOwned, Owning, Latest
      <4> QED BY <2>2, <4>1, <4>2
    <3>6. EvidenceSeen(r)'
      <4>1. LET new == RowOf(r, tx[r].version, Case(r)) IN
              new.evidence \subseteq tx[r].base /\ new.graded \subseteq new.evidence
        BY <1>0, <2>2, <3>1 DEF EvidenceSeen, RowOf
      <4>2. live \subseteq tx[r].base BY <1>0, <3>1 DEF EvidenceSeen, Owning
      <4>3. \A row \in tx'[r].rows :
              row.evidence \subseteq tx[r].base /\ row.graded \subseteq row.evidence
        BY <1>0, <2>2, <4>1 DEF EvidenceSeen
      <4> QED BY <1>0, <2>2, <4>2, <4>3 DEF EvidenceSeen
    <3>7. Told(r)' BY <2>2 DEF Told
    <3> QED BY <3>5, <3>6, <3>7 DEF Own
  <2> QED BY <1>0, <1>4, <2>1, <2>2, InsertGoes
<1>5. CASE GetDataset(r)
  <2>1. /\ tx[r].at = "reading" /\ tx'[r].at = "done" /\ tx'[r].told = Latest(r)
        /\ tx'[r].version = tx[r].version /\ tx'[r].rows = tx[r].rows
    BY <1>0, <1>5, GetGoes
  <2>2. tx[r].rows = {} /\ tx[r].version <= Latest(r)
    BY <1>0, <2>1 DEF RowsOwned, Told, Owning
  <2> QED BY <1>0, <1>t, <2>1, <2>2 DEF Own, RowsOwned, EvidenceSeen, Told, Owning, Latest
<1>6. CASE GiveUp(r)
  <2>1. tx'[r].at = "gone" /\ tx'[r].rows = {}
    BY <1>0, <1>6, GiveUpGoes DEF RowsOwned, Owning
  <2> QED BY <2>1, NothingOwned
<1> QED BY <1>1, <1>2, <1>3, <1>4, <1>5, <1>6 DEF Uncommitted

LEMMA OwnCommit ==
  ASSUME IInv, NEW r \in Requests, Commit(r)
  PROVE  Own(r)'
<1>0. /\ TypeOK /\ RowsOwned(r) /\ tx[r] \in TxType /\ edit' = edit
  BY Frames DEF IInv, TypeOK
<1>1. tx[r].version \in Nat /\ edit[r].dataset \in Names /\ Latest(r) \in Nat
  BY <1>0, EditTyped DEF TxType
<1>2. latest'[edit[r].dataset] = tx[r].version BY <1>0, <1>1 DEF Commit, TypeOK
<1>3. tx'[r].rows = {} /\ tx'[r].version = tx[r].version /\ tx'[r].at \in {"done", "reading"}
  BY <1>0, CommitGoes
<1>4. tx'[r].at = "done" => tx'[r].told = 1 /\ tx[r].version = 1
  BY <1>0, CommitGoes DEF RowsOwned, Owning
<1> QED BY <1>0, <1>1, <1>2, <1>3, <1>4 DEF Own, RowsOwned, EvidenceSeen, Told, Owning, Latest

(* A step of one request leaves the others theirs.                         *)
LEMMA OwnAll ==
  ASSUME IInv, Next, NEW q \in Requests
  PROVE  Own(q)'
<1>0. TypeOK /\ tx[q] \in TxType /\ edit[q].dataset \in Names /\ Latest(q) \in Nat
  BY EditTyped DEF IInv, TypeOK
<1>1. ASSUME NEW r \in Requests, Uncommitted(r) PROVE Own(q)'
  <2>1. UNCHANGED <<live, latest, rows, edit>> BY <1>1, Frames
  <2>2. q # r => tx'[q] = tx[q]
    BY <1>1, OthersStand
  <2> QED BY <1>0, <1>1, <2>1, <2>2, OwnStep, OthersKeep DEF Latest
<1>2. ASSUME NEW r \in Requests, Commit(r), q # r PROVE Own(q)'
  <2>1. tx[r].at = "committing" /\ tx'[q] = tx[q] /\ UNCHANGED <<live, edit>>
    BY <1>0, <1>2, CommitGoes, Frames
  <2>2. /\ tx[r].version = Latest(r) + 1 /\ Latest(r) \in Nat
        /\ edit[r].dataset \in Names
    BY <1>0, <2>1, EditTyped DEF IInv, RowsOwned, Owning
  <2>3. latest' = [latest EXCEPT ![edit[r].dataset] = Latest(r) + 1]
    BY <1>2, <2>2 DEF Commit
  <2>4. /\ latest'[edit[q].dataset] \in Nat
        /\ latest'[edit[q].dataset] >= latest[edit[q].dataset]
        /\ edit[q].dataset # edit[r].dataset => latest'[edit[q].dataset] = latest[edit[q].dataset]
    BY <1>0, <2>2, <2>3 DEF TypeOK, Latest
  <2>5. tx[q].at \in Owning => edit[q].dataset # edit[r].dataset
    BY <1>2, <2>1 DEF IInv, OneOwner, Owning
  <2> QED BY <2>1, <2>4, <2>5, OthersKeep
<1>3. ASSUME NEW d \in Documents, DeleteDocument(d) PROVE Own(q)'
  <2>1. live' \subseteq live /\ UNCHANGED <<latest, rows, edit, tx>> BY <1>3, Frames
  <2> QED BY <1>0, <2>1, OthersKeep DEF Latest
<1> QED BY <1>1, <1>2, <1>3, OwnCommit, Frames
----------------------------------------------------------------------------
(* What requests keep together.                                            *)

LEMMA OwnerStep ==
  ASSUME IInv, Next
  PROVE  OneOwner'
<1>0. TypeOK BY DEF IInv
<1>1. ASSUME NEW r \in Requests, Uncommitted(r) \/ Commit(r) PROVE OneOwner'
  <2>1. edit' = edit BY <1>1, Frames
  <2>2. \A q \in Requests : q # r => tx'[q] = tx[q] BY <1>1, OthersStand
  <2>3. tx'[r].at \in Owning => tx[r].at \in Owning \/ Owners(edit[r].dataset) = {}
    <3>0. RowsOwned(r) BY DEF IInv
    <3>1. CASE Begin(r) BY <1>0, <3>1, BeginStarts DEF Owning
    <3>2. CASE InsertDataset(r) \/ LockDataset(r) BY <1>0, <3>2, OwnerStarts DEF Owning
    <3>3. CASE Resolve(r) BY <1>0, <3>3, ResolveGoes DEF Owning
    <3>4. CASE InsertCase(r) BY <1>0, <3>0, <3>4, InsertGoes DEF Owning
    <3>5. CASE Commit(r) BY <1>0, <3>5, CommitGoes DEF Owning
    <3>6. CASE GetDataset(r) BY <1>0, <3>6, GetGoes DEF Owning
    <3>7. CASE GiveUp(r) BY <1>0, <3>7, GiveUpGoes DEF Owning
    <3> QED BY <1>1, <3>1, <3>2, <3>3, <3>4, <3>5, <3>6, <3>7 DEF Uncommitted
  <2>4. \A q \in Requests : Owners(edit[r].dataset) = {} =>
          ~(tx[q].at \in Owning /\ edit[q].dataset = edit[r].dataset)
    BY DEF Owners, Owning
  <2>5. ASSUME NEW q \in Requests, q # r, tx'[q].at \in Owning, tx'[r].at \in Owning,
               edit[q].dataset = edit[r].dataset
        PROVE  FALSE
    BY <2>2, <2>3, <2>4, <2>5 DEF IInv, OneOwner
  <2> QED BY <2>1, <2>2, <2>5 DEF IInv, OneOwner
<1>2. ASSUME NEW d \in Documents, DeleteDocument(d) PROVE OneOwner'
  BY <1>2, Frames DEF IInv, OneOwner
<1> QED BY <1>1, <1>2, Frames

(* What has committed stays.                                               *)
LEMMA SavedStays ==
  ASSUME IInv, Next, NEW q \in Requests, tx[q].at \in Saved
  PROVE  tx'[q].at \in Saved /\ tx'[q].version = tx[q].version /\ tx'[q].base = tx[q].base
<1>0. TypeOK BY DEF IInv
<1>1. ASSUME NEW r \in Requests, Uncommitted(r) \/ Commit(r)
      PROVE  tx'[q].at \in Saved /\ tx'[q].version = tx[q].version /\ tx'[q].base = tx[q].base
  <2>1. CASE q = r
    <3>0. RowsOwned(r) BY DEF IInv
    <3>1. ~Begin(r) BY <1>0, <2>1, BeginStarts DEF Saved
    <3>2. ~(InsertDataset(r) \/ LockDataset(r)) BY <1>0, <2>1, OwnerStarts DEF Saved
    <3>3. ~Resolve(r) BY <1>0, <2>1, ResolveGoes DEF Saved
    <3>4. ~InsertCase(r) BY <1>0, <2>1, <3>0, InsertGoes DEF Saved
    <3>5. ~Commit(r) BY <1>0, <2>1, CommitGoes DEF Saved
    <3>6. CASE GetDataset(r) BY <1>0, <2>1, <3>6, GetGoes DEF Saved
    <3>7. CASE GiveUp(r) BY <1>0, <2>1, <3>7, GiveUpGoes DEF Saved
    <3> QED BY <1>1, <3>1, <3>2, <3>3, <3>4, <3>5, <3>6, <3>7 DEF Uncommitted
  <2>2. CASE q # r BY <1>1, <2>2, OthersStand
  <2> QED BY <2>1, <2>2
<1> QED BY <1>1, Frames

(* A commit adds the next version and leaves the others.                   *)
LEMMA CommitAdds ==
  ASSUME IInv, NEW r \in Requests, Commit(r), NEW m, m = edit[r].dataset,
         NEW w, w = tx[r].version
  PROVE  /\ m \in Names /\ w = latest[m] + 1
         /\ latest' = [latest EXCEPT ![m] = w] /\ latest'[m] = w
         /\ rows' = rows \cup AllRows(r, w) /\ tx[r].rows = AllRows(r, w)
         /\ edit[r].cases # <<>>
         /\ \A row \in AllRows(r, w) : row.dataset = m /\ row.version = w /\ row.of = r
         /\ \A n \in Names : \A v \in 1..latest[n] : CasesOf(n, v)' = CasesOf(n, v)
         /\ CasesOf(m, w)' = AllRows(r, w)
<1>0. TypeOK /\ RowsOwned(r) /\ tx[r].at = "committing" /\ m \in Names
      /\ latest[m] \in Nat
  BY EditTyped DEF IInv, TypeOK, Commit, Latest
<1>1. w = latest[m] + 1 /\ tx[r].rows = AllRows(r, w) /\ edit[r].cases # <<>>
  BY <1>0 DEF RowsOwned, Owning, Latest
<1>2. latest' = [latest EXCEPT ![m] = w] /\ rows' = rows \cup AllRows(r, w)
  BY <1>1 DEF Commit
<1>3. latest'[m] = w BY <1>0, <1>2 DEF TypeOK
<1>4. \A row \in AllRows(r, w) : row.dataset = m /\ row.version = w /\ row.of = r
  BY DEF AllRows, RowOf
<1>5. ASSUME NEW n \in Names, NEW v \in 1..latest[n] PROVE CasesOf(n, v)' = CasesOf(n, v)
  <2>1. \A row \in AllRows(r, w) : ~(row.dataset = n /\ row.version = v)
    BY <1>0, <1>1, <1>4, <1>5
  <2> QED BY <1>2, <2>1 DEF CasesOf
<1>6. CasesOf(m, w)' = AllRows(r, w)
  <2>1. \A row \in rows : ~(row.dataset = m /\ row.version = w)
    BY <1>0, <1>1 DEF IInv, VersionsStored
  <2> QED BY <1>2, <1>4, <2>1 DEF CasesOf
<1> QED BY <1>0, <1>1, <1>2, <1>3, <1>4, <1>5, <1>6

LEMMA StoredStays ==
  ASSUME IInv, Next, NEW r \in Requests, NEW n, NEW v, StoredBy(r, n, v),
         CasesOf(n, v)' = CasesOf(n, v)
  PROVE  StoredBy(r, n, v)'
<1>1. /\ tx'[r].at \in Saved /\ tx'[r].base = tx[r].base
  BY SavedStays DEF StoredBy
<1>2. edit' = edit BY Frames
<1>3. AllRows(r, v)' = AllRows(r, v) BY <1>2 DEF AllRows, RowOf
<1> QED BY <1>1, <1>3 DEF StoredBy

LEMMA VersionsStep ==
  ASSUME IInv, Next
  PROVE  VersionsStored'
<1>0. TypeOK /\ VersionsStored BY DEF IInv
<1>s. ASSUME NEW row \in rows
      PROVE  tx'[row.of].at \in Saved /\ row.version = tx'[row.of].version
  <2>1. row.of \in Requests BY <1>0 DEF TypeOK, RowType
  <2> QED BY <1>0, <2>1, SavedStays DEF VersionsStored
<1>1. CASE UNCHANGED <<rows, latest>>
  <2>1. ASSUME NEW n \in Names, NEW v \in 1..latest[n]
        PROVE  \E r \in Requests : StoredBy(r, n, v)'
    <3>1. PICK r \in Requests : StoredBy(r, n, v) BY <1>0, <2>1 DEF VersionsStored
    <3>2. CasesOf(n, v)' = CasesOf(n, v) BY <1>1 DEF CasesOf
    <3> QED BY <3>1, <3>2, StoredStays
  <2> QED BY <1>0, <1>1, <1>s, <2>1 DEF VersionsStored
<1>2. ASSUME NEW r \in Requests, Commit(r) PROVE VersionsStored'
  <2>0. PICK m, w : m = edit[r].dataset /\ w = tx[r].version OBVIOUS
  <2>1. /\ m \in Names /\ w = latest[m] + 1
        /\ latest' = [latest EXCEPT ![m] = w] /\ latest'[m] = w
        /\ rows' = rows \cup AllRows(r, w) /\ tx[r].rows = AllRows(r, w)
        /\ edit[r].cases # <<>>
        /\ \A row \in AllRows(r, w) : row.dataset = m /\ row.version = w /\ row.of = r
        /\ \A n \in Names : \A v \in 1..latest[n] : CasesOf(n, v)' = CasesOf(n, v)
        /\ CasesOf(m, w)' = AllRows(r, w)
    BY <1>2, <2>0, CommitAdds
  <2>t. latest[m] \in Nat /\ latest \in [Names -> Nat] BY <1>0, <2>1 DEF TypeOK
  <2>2. /\ tx'[r].at \in Saved /\ tx'[r].version = w /\ tx'[r].base = tx[r].base
        /\ edit' = edit
    BY <1>0, <1>2, <2>0, CommitGoes, Frames DEF Saved
  <2>3. StoredBy(r, m, w)'
    <3>1. AllRows(r, w)' = AllRows(r, w) BY <2>2 DEF AllRows, RowOf
    <3>2. \A row \in AllRows(r, w) :
            row.evidence \subseteq tx[r].base /\ row.graded \subseteq row.evidence
      BY <2>1 DEF IInv, EvidenceSeen
    <3>3. AllRows(r, w) # {}
      <4>1. 1 \in DOMAIN edit[r].cases BY <1>0, <2>1, EditTyped
      <4> QED BY <4>1 DEF AllRows, ToSet
    <3> QED BY <2>1, <2>2, <3>1, <3>2, <3>3 DEF StoredBy
  <2>4. ASSUME NEW n \in Names, NEW v \in 1..latest'[n]
        PROVE  \E q \in Requests : StoredBy(q, n, v)'
    <3>1. CASE v \in 1..latest[n]
      <4>1. PICK q \in Requests : StoredBy(q, n, v) BY <1>0, <3>1 DEF VersionsStored
      <4>2. CasesOf(n, v)' = CasesOf(n, v) BY <2>1, <3>1
      <4> QED BY <4>1, <4>2, StoredStays
    <3>2. CASE v \notin 1..latest[n]
      <4>1. n = m /\ v = w BY <2>1, <2>t, <2>4, <3>2
      <4> QED BY <2>3, <4>1
    <3> QED BY <3>1, <3>2
  <2>5. ASSUME NEW row \in rows' PROVE row.version \in 1..latest'[row.dataset]
    <3>1. CASE row \in rows
      <4>1. row.version \in 1..latest[row.dataset] /\ row.dataset \in Names
        BY <1>0, <3>1 DEF VersionsStored, TypeOK, RowType
      <4> QED BY <2>1, <2>t, <4>1
    <3>2. CASE row \in AllRows(r, w) BY <2>1, <2>t, <3>2
    <3> QED BY <2>1, <2>5, <3>1, <3>2
  <2>6. ASSUME NEW row \in rows'
        PROVE  tx'[row.of].at \in Saved /\ row.version = tx'[row.of].version
    BY <1>s, <2>1, <2>2, <2>6
  <2> QED BY <2>4, <2>5, <2>6 DEF VersionsStored
<1> QED BY <1>1, <1>2, Frames
----------------------------------------------------------------------------
LEMMA InvInit == Init => IInv
<1> SUFFICES ASSUME Init PROVE IInv OBVIOUS
<1>1. \A r \in Requests : tx[r] = NoTx BY DEF Init
<1>2. TypeOK
  <2>1. tx \in [Requests -> TxType] BY NoTxTyped DEF Init
  <2> QED BY <2>1 DEF Init, TypeOK
<1>3. \A r \in Requests : RowsOwned(r) /\ EvidenceSeen(r) /\ Told(r)
  BY <1>1 DEF NoTx, RowsOwned, EvidenceSeen, Told, Owning
<1>4. OneOwner BY <1>1 DEF NoTx, OneOwner, Owning
<1>5. VersionsStored
  <2>1. \A n \in Names : latest[n] = 0 BY DEF Init
  <2>2. rows = {} BY DEF Init
  <2> QED BY <2>1, <2>2 DEF VersionsStored
<1> QED BY <1>2, <1>3, <1>4, <1>5 DEF IInv

LEMMA InvStep == IInv /\ [Next]_vars => IInv'
<1> SUFFICES ASSUME IInv, [Next]_vars PROVE IInv' OBVIOUS
<1>1. CASE Next
  <2>1. \A r \in Requests : (RowsOwned(r) /\ EvidenceSeen(r) /\ Told(r))'
    BY <1>1, OwnAll DEF Own
  <2> QED BY <1>1, <2>1, TypeStep, OwnerStep, VersionsStep DEF IInv
<1>2. CASE UNCHANGED vars
  <2> USE <1>2 DEF vars
  <2>1. TypeOK' BY DEF IInv, TypeOK
  <2>2. ASSUME NEW r \in Requests PROVE (RowsOwned(r) /\ EvidenceSeen(r) /\ Told(r))'
    <3>1. RowsOwned(r) /\ EvidenceSeen(r) /\ Told(r) BY DEF IInv
    <3> QED BY <3>1 DEF RowsOwned, EvidenceSeen, Told, Latest, AllRows, RowOf, Case
  <2>3. OneOwner' BY DEF IInv, OneOwner
  <2>4. VersionsStored'
    BY DEF IInv, VersionsStored, StoredBy, CasesOf, AllRows, RowOf
  <2> QED BY <2>1, <2>2, <2>3, <2>4 DEF IInv
<1> QED BY <1>1, <1>2

(* Whatever edits overlap, whoever gives up and whatever is deleted, a     *)
(* version is the whole payload of one request with evidence that was live *)
(* (evaldata/store.go: CreateDataset, NewVersion, insertCases).            *)
THEOREM VersionsAlwaysWhole == Spec => []VersionsWhole
<1>1. IInv => VersionsWhole
  <2> SUFFICES ASSUME IInv PROVE VersionsWhole OBVIOUS
  <2>1. ASSUME NEW n \in Names, NEW v \in 1..latest[n]
        PROVE  \E r \in Requests :
                 /\ CasesOf(n, v) # {}
                 /\ CasesOf(n, v) = {RowOf(r, v, c) : c \in ToSet(edit[r].cases)}
                 /\ \A row \in CasesOf(n, v) : /\ row.evidence \subseteq tx[r].base
                                               /\ row.graded \subseteq row.evidence
    <3>1. PICK r \in Requests : StoredBy(r, n, v) BY <2>1 DEF IInv, VersionsStored
    <3> QED BY <3>1 DEF StoredBy, AllRows
  <2>2. \A row \in rows : row.version \in 1..latest[row.dataset]
    BY DEF IInv, VersionsStored
  <2>3. \A x, y \in rows : x.of = y.of => x.version = y.version
    BY DEF IInv, VersionsStored
  <2>4. \A r \in Requests : tx[r].at = "done" => tx[r].told >= tx[r].version
    BY DEF IInv, Told
  <2> QED BY <2>1, <2>2, <2>3, <2>4 DEF VersionsWhole
<1> QED BY <1>1, InvInit, InvStep, PTL DEF Spec

(* What a run has pinned stays: a step changes no version that exists, and *)
(* takes no version number back (evaldata/store.go: NewVersion).           *)
THEOREM HistoryAlwaysKept == Spec => HistoryKept
<1> DEFINE Kept == \A n \in Names : /\ latest'[n] >= latest[n]
                                    /\ \A v \in 1..latest[n] : CasesOf(n, v)' = CasesOf(n, v)
<1>1. IInv /\ [Next]_vars => [Kept]_vars
  <2> SUFFICES ASSUME IInv, Next PROVE Kept OBVIOUS
  <2>0. latest \in [Names -> Nat] BY DEF IInv, TypeOK
  <2>1. CASE UNCHANGED <<rows, latest>> BY <2>0, <2>1 DEF CasesOf
  <2>2. ASSUME NEW r \in Requests, Commit(r) PROVE Kept
    <3>1. PICK m, w : m = edit[r].dataset /\ w = tx[r].version OBVIOUS
    <3>2. /\ m \in Names /\ w = latest[m] + 1 /\ latest' = [latest EXCEPT ![m] = w]
          /\ \A n \in Names : \A v \in 1..latest[n] : CasesOf(n, v)' = CasesOf(n, v)
      BY <2>2, <3>1, CommitAdds
    <3> QED BY <2>0, <3>2
  <2> QED BY <2>1, <2>2, Frames
<1> HIDE DEF Kept
<1>2. Spec => [][Kept]_vars BY <1>1, InvInit, InvStep, PTL DEF Spec
<1> QED BY <1>2 DEF Kept, HistoryKept
----------------------------------------------------------------------------
(* The pool.                                                               *)

Holding == {"open", "checking", "storing", "committing"}

(* Connections are counted against the limit by Begin only, and every look-up *)
(* that takes one more gives it back within its step.                      *)
PoolKept == IsFiniteSet(InUse) /\ Cardinality(InUse) <= MaxConns

LEMMA HeldFewer ==
  ASSUME PoolKept, InUse' \subseteq InUse
  PROVE  PoolKept'
BY ConnsAssumption, FS_Subset, FS_CardinalityType DEF PoolKept

LEMMA PoolStep == IInv /\ PoolKept /\ [Next]_vars => PoolKept'
<1> SUFFICES ASSUME IInv, PoolKept, [Next]_vars PROVE PoolKept' OBVIOUS
<1>0. TypeOK BY DEF IInv
<1>1. ASSUME NEW r \in Requests, Begin(r) PROVE PoolKept'
  <2>1. /\ tx[r].at = "sent" /\ \A q \in Requests : q # r => tx'[q] = tx[q]
        /\ tx'[r].at \in {"rejected", "open"}
    BY <1>0, <1>1, BeginStarts
  <2>2. CASE tx'[r].at = "rejected"
    <3>1. InUse' \subseteq InUse BY <2>1, <2>2 DEF InUse
    <3> QED BY <3>1, HeldFewer
  <2>3. CASE tx'[r].at = "open"
    <3>1. ~Reject(r)
      <4>1. Reject(r) => tx'[r].at = "rejected" BY <1>0, OutOfIt DEF Reject
      <4> QED BY <2>3, <4>1
    <3>2. Cardinality(InUse) < MaxConns BY <1>1, <3>1 DEF Begin, ConnectionFree
    <3>3. InUse' = InUse \cup {r} /\ r \notin InUse BY <2>1, <2>3 DEF InUse
    <3>4. IsFiniteSet(InUse) /\ Cardinality(InUse) \in Nat
      BY FS_CardinalityType DEF PoolKept
    <3>5. IsFiniteSet(InUse \cup {r}) /\ Cardinality(InUse \cup {r}) = Cardinality(InUse) + 1
      BY <3>3, <3>4, FS_AddElement
    <3> QED BY <3>2, <3>3, <3>4, <3>5, ConnsAssumption DEF PoolKept
  <2> QED BY <2>1, <2>2, <2>3
<1>2. ASSUME NEW r \in Requests,
             tx[r].at \in Holding \/ tx'[r].at \notin Holding,
             \A q \in Requests : q # r => tx'[q] = tx[q]
      PROVE  PoolKept'
  <2>1. InUse' \subseteq InUse BY <1>2 DEF InUse, Holding
  <2> QED BY <2>1, HeldFewer
<1>3. ASSUME NEW r \in Requests, InsertDataset(r) \/ LockDataset(r) PROVE PoolKept'
  BY <1>0, <1>2, <1>3, OwnerStarts DEF Holding
<1>4. ASSUME NEW r \in Requests, Resolve(r) PROVE PoolKept'
  BY <1>0, <1>2, <1>4, ResolveGoes DEF Holding
<1>5. ASSUME NEW r \in Requests, InsertCase(r) PROVE PoolKept'
  BY <1>0, <1>2, <1>5, InsertGoes DEF Holding, IInv
<1>6. ASSUME NEW r \in Requests, Commit(r) PROVE PoolKept'
  BY <1>0, <1>2, <1>6, CommitGoes DEF Holding
<1>7. ASSUME NEW r \in Requests, GetDataset(r) PROVE PoolKept'
  BY <1>0, <1>2, <1>7, GetGoes DEF Holding
<1>8. ASSUME NEW r \in Requests, GiveUp(r) PROVE PoolKept'
  BY <1>0, <1>2, <1>8, GiveUpGoes DEF Holding
<1>9. ASSUME UNCHANGED tx PROVE PoolKept'
  <2>1. InUse' = InUse BY <1>9 DEF InUse
  <2> QED BY <2>1, HeldFewer
<1> QED
  BY <1>1, <1>3, <1>4, <1>5, <1>6, <1>7, <1>8, <1>9 DEF Next, Serve, DeleteDocument, vars

LEMMA InitPool == Init => PoolKept
<1> SUFFICES ASSUME Init PROVE PoolKept OBVIOUS
<1>1. InUse = {} BY DEF Init, InUse, NoTx
<1> QED BY <1>1, FS_EmptySet, ConnsAssumption DEF PoolKept

(* What the next step of a request waits for.                              *)
CanGoOn(r) ==
  \/ tx[r].at = "sent" /\ (KeysRepeat(edit[r].cases) \/ ConnectionFree)
  \/ tx[r].at = "open" /\ ((Latest(r) = 0 /\ ~edit[r].creates) \/ Owners(edit[r].dataset) = {})
  \/ tx[r].at = "checking" /\ (WaitsForConnection(r) => ConnectionFree)
  \/ tx[r].at \in {"storing", "committing"}
  \/ tx[r].at = "reading" /\ ConnectionFree

(* Where that step takes it.                                               *)
Refused == [NoTx EXCEPT !.at = "rejected"]
AfterLook(r) ==
  IF tx[r].ref = Len(Case(r).evidence) THEN [tx[r] EXCEPT !.at = "storing"]
  ELSE [tx[r] EXCEPT !.ref = tx[r].ref + 1]
AfterInsert(r) ==
  LET last == tx[r].case = Len(edit[r].cases) IN
  [tx[r] EXCEPT !.rows = @ \union {RowOf(r, tx[r].version, Case(r))},
                !.at = IF last THEN "committing" ELSE "checking",
                !.case = IF last THEN @ ELSE @ + 1,
                !.ref = 1]
After(r) ==
  CASE tx[r].at = "sent" ->
         IF KeysRepeat(edit[r].cases) THEN Refused ELSE [tx[r] EXCEPT !.at = "open", !.base = live]
    [] tx[r].at = "open" ->
         IF (IF edit[r].creates THEN Latest(r) # 0 ELSE Latest(r) = 0) \/ edit[r].cases = <<>>
         THEN Refused
         ELSE [tx[r] EXCEPT !.at = "checking", !.version = Latest(r) + 1]
    [] tx[r].at = "checking" ->
         IF WaitsForConnection(r) /\ DocumentExists(Ref(r)) THEN AfterLook(r) ELSE Refused
    [] tx[r].at = "storing" ->
         IF GradesFit(Case(r)) /\ ~KeyTaken(r) THEN AfterInsert(r) ELSE Refused
    [] tx[r].at = "committing" ->
         [tx[r] EXCEPT !.rows = {}, !.at = IF edit[r].creates THEN "done" ELSE "reading",
                       !.told = IF edit[r].creates THEN 1 ELSE 0]
    [] tx[r].at = "reading" -> [tx[r] EXCEPT !.at = "done", !.told = Latest(r)]

(* A request that can go on has a step to take: the one that leads there.  *)
LEMMA StepExists ==
  ASSUME TypeOK, NEW r \in Requests, CanGoOn(r), UNCHANGED <<live, edit>>,
         tx' = [tx EXCEPT ![r] = After(r)],
         rows' = IF tx[r].at = "committing" THEN rows \cup tx[r].rows ELSE rows,
         latest' = IF tx[r].at = "committing"
                   THEN [latest EXCEPT ![edit[r].dataset] = tx[r].version] ELSE latest
  PROVE  Serve(r)
<1>1. CASE tx[r].at = "sent"
  <2>1. Begin(r) BY <1>1 DEF CanGoOn, After, Refused, Begin, Reject, Set
  <2> QED BY <2>1 DEF Serve
<1>2. CASE tx[r].at = "open"
  <2>0. Latest(r) \in Nat /\ edit[r].creates \in BOOLEAN BY EditTyped
  <2>1. CASE edit[r].creates
    <3>1. Owners(edit[r].dataset) = {} BY <1>2, <2>1 DEF CanGoOn
    <3>2. CASE Latest(r) = 0
      <4>0. Latest(r) + 1 = 1 BY <3>2
      <4>1. StartCases(r, 1)
        BY <1>2, <2>0, <2>1, <3>2, <4>0 DEF After, Refused, StartCases, Reject, Set
      <4> QED BY <1>2, <2>1, <3>1, <3>2, <4>1 DEF InsertDataset, Serve, Latest
    <3>3. CASE Latest(r) # 0
      <4>1. Reject(r) BY <1>2, <2>0, <2>1, <3>3 DEF After, Refused, Reject, Set
      <4> QED BY <1>2, <2>1, <3>1, <3>3, <4>1 DEF InsertDataset, Serve, Latest
    <3> QED BY <3>2, <3>3
  <2>2. CASE ~edit[r].creates
    <3>1. CASE Latest(r) = 0
      <4>1. Reject(r) BY <1>2, <2>0, <2>2, <3>1 DEF After, Refused, Reject, Set
      <4> QED BY <1>2, <2>2, <3>1, <4>1 DEF LockDataset, Serve, Latest
    <3>2. CASE Latest(r) # 0
      <4>1. StartCases(r, NextVersion(edit[r].dataset))
        BY <1>2, <2>0, <2>2, <3>2 DEF After, Refused, StartCases, Reject, Set, NextVersion, Latest
      <4>2. LockFree(edit[r].dataset) BY <1>2, <3>2 DEF CanGoOn, LockFree
      <4> QED BY <1>2, <2>2, <3>2, <4>1, <4>2 DEF LockDataset, Serve, Latest
    <3> QED BY <3>1, <3>2
  <2> QED BY <2>1, <2>2
<1>3. CASE tx[r].at = "checking"
  <2>1. Resolve(r)
    BY <1>3 DEF CanGoOn, After, AfterLook, Refused, Resolve, Reject, MoveTo, Set,
                WaitsForConnection, DocumentExists
  <2> QED BY <2>1 DEF Serve
<1>4. CASE tx[r].at = "storing"
  <2>1. InsertCase(r)
    BY <1>4 DEF After, AfterInsert, Refused, InsertCase, Reject, Set
  <2> QED BY <2>1 DEF Serve
<1>5. CASE tx[r].at = "committing"
  <2>1. Commit(r) BY <1>5 DEF After, Commit, Set
  <2> QED BY <2>1 DEF Serve
<1>6. CASE tx[r].at = "reading"
  <2>1. GetDataset(r) BY <1>6 DEF CanGoOn, After, GetDataset, Set, Latest
  <2> QED BY <2>1 DEF Serve
<1> QED BY <1>1, <1>2, <1>3, <1>4, <1>5, <1>6 DEF CanGoOn

(* Some request can go on.                                                 *)
NotStuck == (\A r \in Requests : Over(r)) \/ Exhausted \/ \E r \in Requests : CanGoOn(r)

LEMMA PoolMoves == IInv /\ PoolKept => NotStuck
<1> SUFFICES ASSUME IInv, PoolKept, \A r \in Requests : ~CanGoOn(r), ~Exhausted
             PROVE  \A r \in Requests : Over(r)
  BY DEF NotStuck
<1>0. TypeOK BY DEF IInv
<1>1. \A r \in Requests : tx[r].at \notin {"storing", "committing"} BY DEF CanGoOn
<1>2. \A r \in InUse : WaitsForConnection(r) \/ WaitsForRow(r)
  <2> TAKE r \in InUse
  <2>1. r \in Requests /\ tx[r].at \in {"open", "checking"} BY <1>1 DEF InUse
  <2> QED BY <2>1 DEF CanGoOn, WaitsForRow
<1>3. ConnectionFree
  <2>1. Cardinality(InUse) # MaxConns BY <1>2 DEF Exhausted
  <2> QED BY <2>1, FS_CardinalityType, ConnsAssumption DEF PoolKept, ConnectionFree
<1>4. \A r \in Requests : tx[r].at \notin {"sent", "checking", "reading"}
  BY <1>3 DEF CanGoOn
<1>5. \A n \in Names : Owners(n) = {} BY <1>1, <1>4 DEF Owners
<1>6. \A r \in Requests : tx[r].at # "open" BY <1>0, <1>5, EditTyped DEF CanGoOn
<1> QED BY <1>0, <1>1, <1>4, <1>6 DEF TypeOK, TxType, Over

(* The safety half of EditsEnd, for a pool of any size: while an edit is   *)
(* not over, one of them has a step to take (StepExists), unless           *)
(* transactions that wait for one more connection, or for the row of one   *)
(* that does, hold them all (evaldata/store.go: resolveEvidence).          *)
THEOREM NeverStuck == Spec => []NotStuck
<1> QED BY InvInit, InvStep, InitPool, PoolStep, PoolMoves, PTL DEF Spec
=============================================================================
