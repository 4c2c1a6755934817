-------------------------- MODULE RegressionProofs --------------------------
(***************************************************************************)
(* What holds of Regression for every set of runs, cases and start         *)
(* requests, any number of retries and any persisted policy, whatever the  *)
(* metrics are: the verdict a check shows is that of the run it names, and *)
(* a pass compared like with like.                                         *)
(***************************************************************************)
EXTENDS Regression, FiniteSetTheorems, TLAPS

----------------------------------------------------------------------------
(* The types, and what a run in the hands of the API or of the task is.    *)

Verdict == {"regression", "not_evaluable", "passed"}

StartType ==
  [pc : {"idle", "baseline", "mark", "dispatch", "refused", "running", "done"},
   run : Runs \cup {None}, err : BOOLEAN]

TaskType ==
  [state : {"idle", "running"}, try : Nat,
   pc : {"start", "starting", "poll", "compare", "finish"},
   request : Requests \cup {None}, run : Runs \cup {None}, verdict : Verdict \cup {"none"}]

CheckType ==
  [enabled : BOOLEAN, status : {"not_run", "failed", "running"} \cup Verdict,
   run : Runs \cup {None}, verdict : Verdict \cup {"none"}]

TypeOK ==
  /\ status \in [Runs -> RunStatus]
  /\ stored \in [Runs -> [Cases -> CaseResult \cup {"none"}]]
  /\ pinned \in [Runs -> Corpora] /\ baseline \in Baselines
  /\ check \in CheckType
  /\ comparisons \in [Runs -> Verdict \cup {"none"}]
  /\ starts \in [Requests -> StartType]
  /\ task \in TaskType
  /\ lost \in Nat

(* A request past CreateRun has a run, whatever becomes of its answer.     *)
Created(start) ==
  \/ start.pc \in {"mark", "dispatch", "refused", "running"}
  \/ start.pc = "done" /\ ~start.err

HasRun(t) == t.pc \in {"poll", "compare", "finish"}

References ==
  /\ \A q \in Requests : Created(starts[q]) => starts[q].run \in Runs
  /\ HasRun(task) => task.run \in Runs
  /\ task.state = "idle" => task = NoTask
  /\ task.pc = "finish" => task.verdict \in Verdict

(* Only a check that is enabled, on a completed baseline, creates a run,   *)
(* and nothing is compared that was not created.                           *)
Eligible == check.enabled /\ baseline.status = "completed"

RunsCreated ==
  /\ \A r \in Runs : status[r] = "none" => comparisons[r] = "none"
  /\ \A q \in Requests : starts[q].run \in Runs =>
       Eligible /\ status[starts[q].run] # "none" /\ comparisons[starts[q].run] = "none"
  /\ task.run \in Runs =>
       /\ Eligible /\ status[task.run] # "none"
       /\ task.pc # "finish" => comparisons[task.run] = "none"
  /\ task.pc = "compare" => status[task.run] \in Terminal

(* A run is in the hands of one start request, or of the task.             *)
OneHolder ==
  /\ \A p, q \in Requests : p # q /\ starts[p].run \in Runs => starts[p].run # starts[q].run
  /\ \A q \in Requests : starts[q].run \in Runs => starts[q].run # task.run

(* What a pass rests on.                                                   *)
Earned(r) ==
  /\ comparisons[r] = "passed" /\ pinned[r] = baseline.corpus
  /\ status[r] \in Terminal /\ With(stored[r], "completed") # {}

Passing ==
  /\ task.pc = "finish" => comparisons[task.run] = task.verdict
  /\ task.pc = "finish" /\ task.verdict = "passed" => Earned(task.run)
  /\ check.status = "passed" => Eligible /\ \E r \in Runs : Earned(r)

(* While no answer is lost the row follows the one attempt there is: the   *)
(* task waits for the only request in flight, and a run whose start was    *)
(* answered, or which is being polled, is the row's and has no verdict.    *)
Answered(start) == start.pc = "done" /\ ~start.err

RowFollows ==
  lost = 0 =>
    /\ \A q \in Requests : starts[q].pc # "idle" => task.pc = "starting" /\ task.request = q
    /\ \A q \in Requests : Answered(starts[q]) => check.run = starts[q].run
    /\ \A q \in Requests : Answered(starts[q]) => check.verdict = "none"
    /\ HasRun(task) => check.run = task.run /\ check.verdict = "none"
    /\ VerdictOfLastRun

IInv == TypeOK /\ References /\ RunsCreated /\ OneHolder /\ Passing /\ RowFollows
----------------------------------------------------------------------------
(* The verdict of a comparison, whatever the metrics are.                  *)

LEMMA LeastPlace ==
  ASSUME NEW S, S \subseteq 1..5, S # {}
  PROVE  \E i \in S : \A j \in S : i <= j
<1>1. CASE 1 \in S BY <1>1
<1>2. CASE 1 \notin S /\ 2 \in S BY <1>2
<1>3. CASE 1 \notin S /\ 2 \notin S /\ 3 \in S BY <1>3
<1>4. CASE 1 \notin S /\ 2 \notin S /\ 3 \notin S /\ 4 \in S BY <1>4
<1>5. CASE 1 \notin S /\ 2 \notin S /\ 3 \notin S /\ 4 \notin S
  <2>1. ASSUME NEW i \in S PROVE i = 5
    <3>1. i \in 1..5 OBVIOUS
    <3>2. i # 1 /\ i # 2 /\ i # 3 /\ i # 4 BY <1>5
    <3> QED BY <3>1, <3>2
  <2>2. PICK i \in S : TRUE OBVIOUS
  <2>3. ASSUME NEW j \in S PROVE i <= j
    <3>1. i = 5 /\ j = 5 BY <2>1
    <3> QED BY <3>1
  <2> QED BY <2>3
<1> QED BY <1>1, <1>2, <1>3, <1>4, <1>5

(* The rule that decides is the first that stops, so a verdict is one of   *)
(* three, and passed only when no rule stops a complete comparison.        *)
LEMMA VerdictOfRules ==
  ASSUME NEW v, DOMAIN v.rules \subseteq 1..5
  PROVE  /\ ScheduledVerdict(v) \in Verdict
         /\ ScheduledVerdict(v) = "passed" => v.comparable /\ v.complete
<1> DEFINE stops == {i \in DOMAIN v.rules : v.rules[i] \in {"regression", "not_evaluable"}}
           first == CHOOSE i \in stops : \A j \in stops : i <= j
<1>1. ASSUME stops # {} PROVE v.rules[first] \in {"regression", "not_evaluable"}
  <2>1. stops \subseteq 1..5 OBVIOUS
  <2>2. \E i \in stops : \A j \in stops : i <= j BY <1>1, <2>1, LeastPlace
  <2>3. first \in stops BY <2>2
  <2> QED BY <2>3
<1>2. ScheduledVerdict(v) =
        CASE ~v.comparable -> "not_evaluable"
          [] DOMAIN v.rules = {} -> "not_evaluable"
          [] stops # {} -> v.rules[first]
          [] ~v.complete -> "not_evaluable"
          [] OTHER -> "passed"
  BY DEF ScheduledVerdict
<1> HIDE DEF stops, first
<1> QED BY <1>1, <1>2 DEF Verdict

(* Compare: the rules keep their place in orderedMetrics.                  *)
LEMMA CompareShape ==
  ASSUME NEW c, NEW b, NEW comparable
  PROVE  LET v == Compare(c, b, Rules, comparable)
         IN /\ DOMAIN v.rules \subseteq 1..5
            /\ v.comparable => comparable
            /\ v.comparable /\ v.complete => c.complete /\ b.complete
<1>1. DOMAIN MetricOrder = 1..5 BY DEF MetricOrder
<1>2. CASE ~comparable BY <1>2 DEF Compare
<1>3. CASE comparable BY <1>1, <1>3 DEF Compare
<1> QED BY <1>2, <1>3

(* sameCorpus: of finite snapshots, equal sizes and one inclusion suffice. *)
LEMMA SameCorpusEqual ==
  ASSUME NEW a, NEW b, Snapshot(a), Snapshot(b), SameCorpus(a, b)
  PROVE  a = b
<1>1. DOMAIN a \in SUBSET DOMAIN b BY DEF SameCorpus
<1>2. DOMAIN a = DOMAIN b BY <1>1, FS_Subset DEF SameCorpus, Snapshot
<1> QED BY <1>2 DEF SameCorpus, Snapshot

(* A complete candidate has a completed case.                              *)
LEMMA CompleteHasCase ==
  ASSUME NEW results, NEW c \in Aggregates(results), c.complete
  PROVE  With(results, "completed") # {}
<1>1. c.complete \in {RunComplete(results)} BY DEF Aggregates
<1> QED BY <1>1 DEF RunComplete
----------------------------------------------------------------------------
(* Type correctness and References.                                        *)

LEMMA Terminals ==
  ASSUME NEW results
  PROVE  OutcomeOf(results) \in Terminal /\ OutcomeOf(results) \in RunStatus
BY DEF OutcomeOf, Terminal, RunStatus

LEMMA LifecycleTyped ==
  ASSUME TypeOK, NEW r \in Runs,
         \/ Create(r) \/ Start(r) \/ Refuse(r) \/ Settle(r)
         \/ \E c \in Cases : Store(r, c)
  PROVE  /\ status' \in [Runs -> RunStatus]
         /\ stored' \in [Runs -> [Cases -> CaseResult \cup {"none"}]]
<1> USE DEF TypeOK
<1>1. CASE Create(r) \/ Start(r) \/ Refuse(r)
  BY <1>1 DEF Create, Start, Refuse, RunStatus, Terminal
<1>2. CASE Settle(r)
  BY <1>2, Terminals DEF Settle
<1>3. ASSUME NEW c \in Cases, Store(r, c)
      PROVE  stored' \in [Runs -> [Cases -> CaseResult \cup {"none"}]] /\ status' = status
  BY <1>3 DEF Store
<1> QED BY <1>1, <1>2, <1>3 DEF Create, Start, Refuse, Settle

LEMMA NoStartTyped == NoStart \in StartType /\ NoTask \in TaskType
BY DEF NoStart, NoTask, StartType, TaskType

LEMMA TypeInit == RInit => TypeOK /\ References
<1> SUFFICES ASSUME RInit PROVE TypeOK /\ References
  OBVIOUS
<1>1. check \in CheckType BY DEF RInit, CheckType
<1>2. (CHOOSE c \in Corpora : TRUE) \in Corpora BY CorporaAssumption
<1>3. TypeOK
  BY <1>1, <1>2, NoStartTyped DEF RInit, Init, TypeOK, RunStatus
<1>4. References
  BY DEF RInit, References, NoStart, NoTask, Created, HasRun
<1> QED BY <1>3, <1>4

LEMMA OutcomeTyped ==
  ASSUME TypeOK, NEW s \in {"failed"} \cup Verdict, NEW verdict \in Verdict \cup {"none"},
         SetOutcome(s, verdict)
  PROVE  check' \in CheckType
BY DEF TypeOK, CheckType, SetOutcome

LEMMA AttemptTyped ==
  ASSUME TypeOK, AttemptFailed
  PROVE  task' \in TaskType /\ task'.request = None /\ task'.run = None /\ task'.pc = "start"
         /\ (task'.state = "idle" => task' = NoTask)
<1>1. task.try \in Nat BY DEF TypeOK, TaskType
<1>2. CASE TriesLeft(task.try)
  <2>1. task' = [NoTask EXCEPT !.state = "running", !.try = task.try + 1]
    BY <1>2 DEF AttemptFailed
  <2>2. task' \in TaskType
    <3>1. task.try + 1 \in Nat BY <1>1
    <3> QED BY <2>1, <3>1 DEF NoTask, TaskType
  <2> QED BY <2>1, <2>2 DEF NoTask
<1>3. CASE ~TriesLeft(task.try)
  BY <1>3, NoStartTyped DEF AttemptFailed, NoTask
<1> QED BY <1>2, <1>3

LEMMA TypeStart ==
  ASSUME TypeOK, References, NEW q \in Requests, StartStep(q)
  PROVE  TypeOK' /\ References'
<1> USE DEF TypeOK
<1>0. starts[q] \in StartType OBVIOUS
<1>go. ASSUME NEW pc \in {"dispatch", "refused", "running"}, Go(q, pc),
              starts[q].pc \in {"mark", "dispatch"}, UNCHANGED task
       PROVE  starts' \in [Requests -> StartType] /\ References'
  <2>1. starts' \in [Requests -> StartType] BY <1>0, <1>go DEF Go, StartType
  <2>2. starts[q].run \in Runs BY <1>go DEF References, Created
  <2>3. starts'[q].run = starts[q].run /\ \A p \in Requests : p # q => starts'[p] = starts[p]
    BY <1>0, <1>go DEF Go, StartType
  <2>4. References' BY <1>go, <2>2, <2>3 DEF References, HasRun
  <2> QED BY <2>1, <2>4
<1>answer. ASSUME NEW err \in BOOLEAN, Answer(q, err), err \/ starts[q].run \in Runs, UNCHANGED task
           PROVE  starts' \in [Requests -> StartType] /\ References'
  <2>1. starts' \in [Requests -> StartType] BY <1>0, <1>answer DEF Answer, StartType
  <2>2. /\ starts'[q].run = starts[q].run /\ starts'[q].pc = "done" /\ starts'[q].err = err
        /\ \A p \in Requests : p # q => starts'[p] = starts[p]
    BY <1>0, <1>answer DEF Answer, StartType
  <2>3. References' BY <1>answer, <2>2 DEF References, HasRun, Created
  <2> QED BY <2>1, <2>3
<1>1. CASE StartRefused(q)
  BY <1>1, <1>answer, OutcomeTyped DEF StartRefused, vars, Verdict
<1>2. ASSUME NEW r \in Runs, CreateCandidate(q, r) PROVE TypeOK' /\ References'
  <2>1. starts' \in [Requests -> StartType]
    BY <1>2 DEF CreateCandidate, NoStart, StartType
  <2>2. pinned' \in [Runs -> Corpora] BY <1>2 DEF CreateCandidate
  <2>3. References' BY <1>2 DEF CreateCandidate, References, HasRun, Created, NoStart
  <2> QED BY <1>2, <2>1, <2>2, <2>3, LifecycleTyped DEF CreateCandidate
<1>3. CASE CreateFails(q)
  BY <1>3, <1>answer, OutcomeTyped DEF CreateFails, vars, Verdict
<1>4. CASE MarkCandidate(q)
  <2>1. starts[q].run \in Runs BY <1>4 DEF MarkCandidate, References, Created
  <2> QED BY <1>4, <1>go, <2>1, LifecycleTyped DEF MarkCandidate
<1>5. CASE DispatchCandidate(q)
  <2>1. starts[q].run \in Runs BY <1>5 DEF DispatchCandidate, References, Created
  <2>2. /\ status' \in [Runs -> RunStatus]
        /\ stored' \in [Runs -> [Cases -> CaseResult \cup {"none"}]]
    BY <1>5, <2>1, LifecycleTyped DEF DispatchCandidate, vars
  <2>3. starts' \in [Requests -> StartType] /\ References'
    BY <1>5, <1>go, <1>answer DEF DispatchCandidate
  <2> QED BY <1>5, <2>2, <2>3 DEF DispatchCandidate
<1>6. CASE DispatchRefused(q)
  BY <1>6, <1>answer, OutcomeTyped DEF DispatchRefused, vars
<1>7. CASE SetRunning(q)
  <2>1. starts[q].run \in Runs BY <1>7 DEF SetRunning, References, Created
  <2>2. check' \in CheckType BY <1>7, <2>1 DEF SetRunning, RunningRow, CheckType
  <2> QED BY <1>7, <1>answer, <2>1, <2>2 DEF SetRunning, vars
<1>8. CASE StartDies(q)
  BY <1>8, <1>answer DEF StartDies, vars
<1> QED BY <1>1, <1>2, <1>3, <1>4, <1>5, <1>6, <1>7, <1>8 DEF StartStep

LEMMA TypeRest ==
  ASSUME TypeOK, References,
         \/ Trigger \/ TaskStep \/ UNCHANGED allVars
         \/ \E q \in Requests : StartUnheard(q)
         \/ \E r \in Runs : Evaluate(r)
  PROVE  TypeOK' /\ References'
<1> USE DEF TypeOK
<1>failed. ASSUME AttemptFailed,
                  \/ UNCHANGED starts
                  \/ \E q \in Requests \cup {None} : starts' = [starts EXCEPT ![q] = NoStart]
           PROVE  task' \in TaskType /\ starts' \in [Requests -> StartType] /\ References'
  <2>1. starts' \in [Requests -> StartType] BY <1>failed, NoStartTyped
  <2>2. \A q \in Requests : starts'[q] = starts[q] \/ starts'[q] = NoStart
    BY <1>failed
  <2> QED BY <1>failed, AttemptTyped, <2>1, <2>2 DEF References, HasRun, Created, NoStart
<1>1. CASE Trigger
  <2>1. task' \in TaskType BY <1>1, NoStartTyped DEF Trigger, TaskType
  <2> QED BY <1>1, <2>1 DEF Trigger, vars, References, HasRun, NoTask
<1>2. ASSUME NEW q \in Requests, RequestStart(q) PROVE TypeOK' /\ References'
  <2>1. task' \in TaskType BY <1>2 DEF RequestStart, TaskType
  <2>2. starts' \in [Requests -> StartType] BY <1>2 DEF RequestStart, Go, StartType
  <2>3. References'
    BY <1>2 DEF RequestStart, Doing, Go, References, HasRun, Created, TaskType, StartType
  <2> QED BY <1>2, <2>1, <2>2, <2>3 DEF RequestStart, vars
<1>3. ASSUME NEW q \in Requests, Started(q) PROVE TypeOK' /\ References'
  <2>1. CASE starts[q].err
    BY <1>3, <2>1, <1>failed DEF Started, vars
  <2>2. CASE ~starts[q].err
    <3>1. starts[q].run \in Runs BY <1>3, <2>2 DEF Started, References, Created
    <3>2. task' \in TaskType BY <1>3, <2>2, <3>1 DEF Started, TaskType
    <3>3. starts' \in [Requests -> StartType] BY <1>3, NoStartTyped DEF Started
    <3>4. References'
      BY <1>3, <2>2, <3>1 DEF Started, Doing, References, HasRun, Created, NoStart, TaskType
    <3> QED BY <1>3, <3>2, <3>3, <3>4 DEF Started, vars
  <2> QED BY <2>1, <2>2
<1>4. CASE Poll
  <2>1. task' \in TaskType BY <1>4 DEF Poll, TaskType
  <2>2. References' BY <1>4 DEF Poll, Doing, References, HasRun, TaskType
  <2> QED BY <1>4, <2>1, <2>2 DEF Poll, vars
<1>5. CASE CompareRuns
  <2>1. PICK verdict \in Verdict : /\ comparisons' = [comparisons EXCEPT ![task.run] = verdict]
                                   /\ task' = [task EXCEPT !.pc = "finish", !.verdict = verdict]
    BY <1>5, CompareShape, VerdictOfRules DEF CompareRuns
  <2>2. task' \in TaskType BY <2>1 DEF TaskType
  <2>3. References' BY <1>5, <2>1 DEF CompareRuns, Doing, References, HasRun, TaskType
  <2> QED BY <1>5, <2>1, <2>2, <2>3 DEF CompareRuns, vars
<1>6. CASE Finish
  <2>1. task.verdict \in Verdict BY <1>6 DEF Finish, Doing, References
  <2>2. check' \in CheckType BY <1>6, <2>1, OutcomeTyped DEF Finish
  <2>3. task' \in TaskType /\ References'
    <3>1. CASE task' = NoTask
      BY <1>6, <3>1, NoStartTyped DEF Finish, References, HasRun, NoTask
    <3>2. CASE AttemptFailed BY <1>6, <3>2, <1>failed DEF Finish
    <3> QED BY <1>6, <3>1, <3>2 DEF Finish
  <2>4. lost' \in Nat BY <1>6 DEF Finish
  <2> QED BY <1>6, <2>2, <2>3, <2>4 DEF Finish, vars
<1>7. CASE AttemptDies
  <2>1. task.request \in Requests \cup {None} BY DEF TaskType
  <2>2. lost' \in Nat BY <1>7 DEF AttemptDies
  <2> QED BY <1>7, <1>failed, <2>1, <2>2 DEF AttemptDies, vars
<1>8. ASSUME NEW q \in Requests, StartUnheard(q) PROVE TypeOK' /\ References'
  <2>1. starts' \in [Requests -> StartType] BY <1>8, NoStartTyped DEF StartUnheard
  <2>2. References' BY <1>8 DEF StartUnheard, References, HasRun, Created, NoStart
  <2> QED BY <1>8, <2>1, <2>2 DEF StartUnheard, vars
<1>9. ASSUME NEW r \in Runs, Evaluate(r) PROVE TypeOK' /\ References'
  <2>1. References' BY <1>9 DEF Evaluate, regression, References, HasRun
  <2> QED BY <1>9, <2>1, LifecycleTyped DEF Evaluate, regression
<1>10. CASE UNCHANGED allVars
  BY <1>10 DEF allVars, vars, regression, References, HasRun
<1> QED BY <1>1, <1>2, <1>3, <1>4, <1>5, <1>6, <1>7, <1>8, <1>9, <1>10 DEF TaskStep

(* Every variable keeps its type, and a start request past CreateRun, like *)
(* a task past its start, is about a run (regression.go, scheduled.py).    *)
THEOREM TypeCorrect == RSpec => [](TypeOK /\ References)
<1>1. ASSUME TypeOK /\ References, [RNext]_allVars PROVE TypeOK' /\ References'
  BY <1>1, TypeStart, TypeRest DEF RNext
<1> QED BY TypeInit, <1>1, PTL DEF RSpec
----------------------------------------------------------------------------
(* What a run has earned stays: it keeps its corpus and, once terminal, a  *)
(* terminal status, its results stay, and its verdict is written once.     *)

Onward ==
  /\ baseline' = baseline /\ check'.enabled = check.enabled
  /\ \A r \in Runs :
       /\ status[r] # "none" => status'[r] # "none" /\ pinned'[r] = pinned[r]
       /\ status[r] \in Terminal => status'[r] \in Terminal
       /\ With(stored[r], "completed") \subseteq With(stored'[r], "completed")
       /\ comparisons[r] # "none" => comparisons'[r] = comparisons[r]

LEMMA EarnedStays ==
  ASSUME Onward, NEW r \in Runs, Earned(r)
  PROVE  Earned(r)'
BY DEF Onward, Earned, Terminal

LEMMA LifecycleOnward ==
  ASSUME TypeOK, NEW r \in Runs,
         \/ Create(r) \/ Start(r) \/ Refuse(r) \/ Settle(r)
         \/ \E c \in Cases : Store(r, c)
  PROVE  \A s \in Runs :
           /\ status[s] # "none" => status'[s] # "none"
           /\ status[s] \in Terminal => status'[s] \in Terminal
           /\ With(stored[s], "completed") \subseteq With(stored'[s], "completed")
<1> USE DEF TypeOK
<1>1. CASE Create(r) \/ Start(r) \/ Refuse(r)
  BY <1>1 DEF Create, Start, Refuse, Terminal
<1>2. CASE Settle(r)
  BY <1>2, Terminals DEF Settle, Terminal
<1>3. ASSUME NEW c \in Cases, Store(r, c)
      PROVE  /\ status' = status
             /\ \A s \in Runs : With(stored[s], "completed") \subseteq With(stored'[s], "completed")
  <2>1. ASSUME NEW s \in Runs, NEW d \in Cases, stored[s][d] = "completed"
        PROVE  stored'[s][d] = "completed"
    BY <1>3, <2>1 DEF Store
  <2> QED BY <1>3, <2>1 DEF Store, With
<1> QED BY <1>1, <1>2, <1>3

LEMMA OutcomeKeeps ==
  ASSUME TypeOK, NEW s, NEW verdict, SetOutcome(s, verdict)
  PROVE  /\ check'.enabled = check.enabled /\ check'.run = check.run
         /\ check'.status = s /\ check'.verdict = verdict
BY DEF SetOutcome, TypeOK, CheckType

LEMMA StartOnward ==
  ASSUME TypeOK, References, RunsCreated, NEW q \in Requests, StartStep(q)
  PROVE  Onward
<1> USE DEF Onward
<1>1. CASE StartRefused(q)
  BY <1>1, OutcomeKeeps DEF StartRefused, vars
<1>2. ASSUME NEW r \in Runs, CreateCandidate(q, r) PROVE Onward
  <2>1. status[r] = "none" BY <1>2 DEF CreateCandidate, Create
  <2>2. \A s \in Runs : s # r => pinned'[s] = pinned[s] BY <1>2 DEF CreateCandidate, TypeOK
  <2> QED BY <1>2, <2>1, <2>2, LifecycleOnward DEF CreateCandidate
<1>3. CASE CreateFails(q)
  BY <1>3, OutcomeKeeps DEF CreateFails, vars
<1>4. CASE MarkCandidate(q)
  <2>1. starts[q].run \in Runs BY <1>4 DEF MarkCandidate, References, Created
  <2> QED BY <1>4, <2>1, LifecycleOnward DEF MarkCandidate
<1>5. CASE DispatchCandidate(q)
  <2>1. starts[q].run \in Runs BY <1>5 DEF DispatchCandidate, References, Created
  <2>2. Refuse(starts[q].run) \/ UNCHANGED vars BY <1>5 DEF DispatchCandidate
  <2> QED BY <1>5, <2>1, <2>2, LifecycleOnward DEF DispatchCandidate, vars
<1>6. CASE DispatchRefused(q)
  BY <1>6, OutcomeKeeps DEF DispatchRefused, vars
<1>7. CASE SetRunning(q)
  BY <1>7 DEF SetRunning, RunningRow, vars, TypeOK, CheckType
<1>8. CASE StartDies(q)
  BY <1>8 DEF StartDies, vars
<1> QED BY <1>1, <1>2, <1>3, <1>4, <1>5, <1>6, <1>7, <1>8 DEF StartStep

LEMMA RestOnward ==
  ASSUME TypeOK, References, RunsCreated,
         \/ Trigger \/ TaskStep \/ UNCHANGED allVars
         \/ \E q \in Requests : StartUnheard(q)
         \/ \E r \in Runs : Evaluate(r)
  PROVE  Onward
<1> USE DEF Onward
<1>1. CASE Trigger BY <1>1 DEF Trigger, vars
<1>2. CASE \E q \in Requests : RequestStart(q) \/ Started(q) \/ StartUnheard(q)
  BY <1>2 DEF RequestStart, Started, StartUnheard, vars
<1>3. CASE Poll BY <1>3 DEF Poll, vars
<1>4. CASE CompareRuns
  <2>1. task.run \in Runs /\ comparisons[task.run] = "none"
    BY <1>4 DEF CompareRuns, Doing, References, HasRun, RunsCreated
  <2>2. \A r \in Runs : r # task.run => comparisons'[r] = comparisons[r]
    BY <1>4 DEF CompareRuns, TypeOK
  <2> QED BY <1>4, <2>1, <2>2 DEF CompareRuns, vars
<1>5. CASE Finish BY <1>5, OutcomeKeeps DEF Finish, vars
<1>6. CASE AttemptDies BY <1>6 DEF AttemptDies, vars
<1>7. ASSUME NEW r \in Runs, Evaluate(r) PROVE Onward
  BY <1>7, LifecycleOnward DEF Evaluate, regression
<1>8. CASE UNCHANGED allVars BY <1>8 DEF allVars, vars, regression
<1> QED BY <1>1, <1>2, <1>3, <1>4, <1>5, <1>6, <1>7, <1>8 DEF TaskStep

----------------------------------------------------------------------------
(* Runs are created once, and each is in one hand.                         *)

LEMMA HeldInit == RInit => RunsCreated /\ OneHolder /\ Passing
<1> SUFFICES ASSUME RInit PROVE RunsCreated /\ OneHolder /\ Passing
  OBVIOUS
<1>1. None \notin Runs BY RegressionAssumption
<1>2. \A q \in Requests : starts[q].run = None BY DEF RInit, NoStart
<1>3. task.run = None /\ task.pc = "start" BY DEF RInit, NoTask
<1>4. check.status = "not_run" BY DEF RInit
<1> QED BY <1>1, <1>2, <1>3, <1>4 DEF RInit, RunsCreated, OneHolder, Passing

(* A start request keeps the run it has, or gets one nobody holds.         *)
LEMMA HeldStart ==
  ASSUME TypeOK, References, RunsCreated, OneHolder, NEW q \in Requests, StartStep(q)
  PROVE  RunsCreated' /\ OneHolder'
<1>0. Onward BY StartOnward
<1>1. ASSUME NEW r \in Runs, CreateCandidate(q, r) PROVE RunsCreated' /\ OneHolder'
  <2>1. /\ Eligible' /\ status[r] = "none" /\ status' = [status EXCEPT ![r] = "created"]
        /\ comparisons' = comparisons /\ task' = task
    BY <1>1 DEF CreateCandidate, Create, Eligible
  <2>2. comparisons[r] = "none" /\ status'[r] = "created"
    BY <2>1 DEF RunsCreated, TypeOK
  <2>3. starts'[q].run = r /\ \A p \in Requests : p # q => starts'[p] = starts[p]
    BY <1>1 DEF CreateCandidate, TypeOK, NoStart
  <2>4. task.run # r /\ \A p \in Requests : starts[p].run # r
    BY <2>1 DEF RunsCreated
  <2>5. task'.pc = "compare" => status'[task.run] \in Terminal
    BY <1>0, <2>1 DEF Onward, RunsCreated, References, HasRun
  <2>6. RunsCreated' BY <1>0, <2>1, <2>2, <2>3, <2>5 DEF RunsCreated, Onward, TypeOK
  <2>7. OneHolder' BY <2>1, <2>3, <2>4 DEF OneHolder
  <2> QED BY <2>6, <2>7
<1>2. ASSUME \A p \in Requests : starts'[p].run = starts[p].run, UNCHANGED <<task, comparisons>>
      PROVE  RunsCreated' /\ OneHolder'
  <2>1. \A r \in Runs : status'[r] = "none" => status[r] = "none" BY <1>0 DEF Onward
  <2>2. task'.pc = "compare" => status'[task'.run] \in Terminal
    BY <1>0, <1>2 DEF Onward, RunsCreated, References, HasRun
  <2>3. RunsCreated' BY <1>0, <1>2, <2>1, <2>2 DEF RunsCreated, Onward, Eligible
  <2>4. OneHolder' BY <1>2 DEF OneHolder
  <2> QED BY <2>3, <2>4
<1>3. ASSUME NEW pc, Go(q, pc) \/ (\E err \in BOOLEAN : Answer(q, err))
      PROVE  \A p \in Requests : starts'[p].run = starts[p].run
  <2>1. \A p \in Requests : p # q => starts'[p] = starts[p] BY <1>3 DEF Go, Answer, TypeOK
  <2>2. starts'[q].run = starts[q].run
    <3>1. CASE Go(q, pc) BY <3>1 DEF Go, TypeOK, StartType
    <3>2. CASE \E err \in BOOLEAN : Answer(q, err) BY <3>2 DEF Answer, TypeOK, StartType
    <3> QED BY <1>3, <3>1, <3>2
  <2> QED BY <2>1, <2>2
<1>4. CASE ~\E r \in Runs : CreateCandidate(q, r)
  <2>1. /\ UNCHANGED <<task, comparisons>>
        /\ \E pc : Go(q, pc) \/ (\E err \in BOOLEAN : Answer(q, err))
    BY <1>4 DEF StartStep, StartRefused, CreateFails, MarkCandidate, DispatchCandidate,
                DispatchRefused, SetRunning, StartDies
  <2> QED BY <1>2, <1>3, <2>1
<1> QED BY <1>1, <1>4

(* The task takes the run of the request that answered it, and lets go of  *)
(* it when its attempt ends.                                               *)
LEMMA HeldRest ==
  ASSUME TypeOK, References, RunsCreated, OneHolder,
         \/ Trigger \/ TaskStep \/ UNCHANGED allVars
         \/ \E q \in Requests : StartUnheard(q)
         \/ \E r \in Runs : Evaluate(r)
  PROVE  RunsCreated' /\ OneHolder'
<1>0. Onward /\ None \notin Runs BY RestOnward, RegressionAssumption
<1>status. \A r \in Runs : status'[r] = "none" => status[r] = "none" BY <1>0 DEF Onward
(* A step that gives no run to anyone and compares nothing.                *)
<1>quiet. ASSUME UNCHANGED comparisons,
                 \A p \in Requests : starts'[p].run = starts[p].run \/ starts'[p].run = None,
                 task'.run = task.run \/ task'.run = None,
                 task'.run \in Runs /\ task.pc = "finish" => task'.pc = "finish",
                 task'.pc = "compare" => /\ task'.run = task.run
                                         /\ task.run \in Runs /\ status[task.run] \in Terminal
          PROVE  RunsCreated' /\ OneHolder'
  <2>1. \A p \in Requests : starts'[p].run \in Runs =>
          starts'[p].run = starts[p].run /\ starts[p].run \in Runs
    BY <1>0, <1>quiet
  <2>2. task'.run \in Runs => task'.run = task.run BY <1>0, <1>quiet
  <2>3. RunsCreated'
    BY <1>0, <1>status, <1>quiet, <2>1, <2>2 DEF RunsCreated, Onward, Eligible
  <2>4. OneHolder' BY <1>0, <1>quiet, <2>1, <2>2 DEF OneHolder
  <2> QED BY <2>3, <2>4
<1>1. CASE Trigger
  BY <1>0, <1>1, <1>quiet DEF Trigger, NoTask
<1>2. ASSUME NEW q \in Requests, RequestStart(q) PROVE RunsCreated' /\ OneHolder'
  <2>1. \A p \in Requests : starts'[p].run = starts[p].run
    BY <1>2 DEF RequestStart, Go, TypeOK, StartType
  <2> QED BY <1>2, <1>quiet, <2>1 DEF RequestStart, Doing, TypeOK, TaskType
<1>3. ASSUME NEW q \in Requests, Started(q) PROVE RunsCreated' /\ OneHolder'
  <2>0. starts'[q].run = None /\ \A p \in Requests : p # q => starts'[p] = starts[p]
    BY <1>3 DEF Started, TypeOK, NoStart
  <2>1. CASE starts[q].err
    BY <1>0, <1>3, <1>quiet, <2>0, <2>1, AttemptTyped DEF Started
  <2>2. CASE ~starts[q].err
    <3>1. starts[q].run \in Runs BY <1>3, <2>2 DEF Started, References, Created
    <3>2. task'.run = starts[q].run /\ task'.pc = "poll"
      BY <1>3, <2>2 DEF Started, TypeOK, TaskType
    <3>3. /\ Eligible' /\ status'[starts[q].run] # "none"
          /\ comparisons'[starts[q].run] = "none"
      BY <1>0, <1>3, <3>1 DEF Onward, RunsCreated, Eligible, Started
    <3>4. \A p \in Requests : starts'[p].run \in Runs => starts'[p] = starts[p] /\ p # q
      BY <1>0, <2>0
    <3>5. RunsCreated'
      BY <1>0, <1>3, <1>status, <3>2, <3>3, <3>4 DEF RunsCreated, Onward, Eligible, Started
    <3>6. OneHolder' BY <3>1, <3>2, <3>4 DEF OneHolder
    <3> QED BY <3>5, <3>6
  <2> QED BY <2>1, <2>2
<1>4. CASE Poll
  <2>1. task'.run = task.run /\ task'.pc = "compare" BY <1>4 DEF Poll, TypeOK, TaskType
  <2> QED BY <1>4, <1>quiet, <2>1 DEF Poll, PollEnds, Doing, References, HasRun
<1>5. CASE CompareRuns
  <2>1. /\ task'.run = task.run /\ task'.pc = "finish" /\ task.run \in Runs
        /\ UNCHANGED <<starts, status, baseline, check>>
        /\ \A r \in Runs : r # task.run => comparisons'[r] = comparisons[r]
    BY <1>5 DEF CompareRuns, Doing, References, HasRun, TypeOK, TaskType, vars
  <2>2. status[task.run] # "none" BY <1>5, <2>1 DEF RunsCreated
  <2>3. \A q \in Requests : starts[q].run \in Runs => starts[q].run # task.run
    BY DEF OneHolder
  <2>4. RunsCreated' BY <2>1, <2>2, <2>3 DEF RunsCreated, Eligible
  <2>5. OneHolder' BY <2>1 DEF OneHolder
  <2> QED BY <2>4, <2>5
<1>6. CASE Finish
  <2>1. task'.run = None /\ task'.pc = "start" BY <1>6, AttemptTyped DEF Finish, NoTask
  <2> QED BY <1>0, <1>6, <1>quiet, <2>1 DEF Finish
<1>7. CASE AttemptDies
  <2>1. task'.run = None /\ task'.pc = "start" BY <1>7, AttemptTyped DEF AttemptDies
  <2>2. \A p \in Requests : starts'[p].run = starts[p].run \/ starts'[p].run = None
    BY <1>7 DEF AttemptDies, TypeOK, NoStart
  <2> QED BY <1>7, <1>0, <1>quiet, <2>1, <2>2 DEF AttemptDies
<1>8. ASSUME NEW q \in Requests, StartUnheard(q) PROVE RunsCreated' /\ OneHolder'
  <2>1. \A p \in Requests : starts'[p].run = starts[p].run \/ starts'[p].run = None
    BY <1>8 DEF StartUnheard, TypeOK, NoStart
  <2> QED BY <1>8, <1>quiet, <2>1 DEF StartUnheard, RunsCreated, References, HasRun
<1>9. CASE \E r \in Runs : Evaluate(r)
  BY <1>9, <1>quiet DEF Evaluate, regression, RunsCreated, References, HasRun
<1>10. CASE UNCHANGED allVars
  BY <1>10, <1>quiet DEF allVars, regression, RunsCreated, References, HasRun
<1> QED BY <1>1, <1>2, <1>3, <1>4, <1>5, <1>6, <1>7, <1>8, <1>9, <1>10 DEF TaskStep
----------------------------------------------------------------------------
(* A pass is earned when the runs are compared, and stays earned.          *)

LEMMA PassingStays ==
  ASSUME TypeOK, References, Passing, Onward,
         UNCHANGED task \/ task'.pc # "finish",
         check'.status = "passed" => check.status = "passed"
  PROVE  Passing'
<1>1. ASSUME task'.pc = "finish"
      PROVE  /\ task'.run = task.run /\ task'.verdict = task.verdict /\ task.pc = "finish"
             /\ task.run \in Runs /\ comparisons'[task.run] = task.verdict
  BY <1>1 DEF References, HasRun, Passing, Onward, Verdict
<1>2. task'.pc = "finish" /\ task'.verdict = "passed" => Earned(task.run)'
  <2> SUFFICES ASSUME task'.pc = "finish", task'.verdict = "passed" PROVE Earned(task.run)'
    OBVIOUS
  <2>1. task.run \in Runs /\ Earned(task.run) /\ task'.run = task.run BY <1>1 DEF Passing
  <2>2. \A r \in Runs : r = task.run => Earned(r)' BY <2>1, EarnedStays
  <2> QED BY <2>1, <2>2
<1>3. check'.status = "passed" => Eligible' /\ \E r \in Runs : Earned(r)'
  BY EarnedStays DEF Passing, Onward, Eligible
<1> QED BY <1>1, <1>2, <1>3 DEF Passing

LEMMA PassingStep ==
  ASSUME TypeOK, References, RunsCreated, Passing, [RNext]_allVars
  PROVE  Passing'
<1>onward. Onward BY StartOnward, RestOnward DEF RNext
<1>1. ASSUME NEW q \in Requests, StartStep(q) PROVE Passing'
  <2>1. task' = task
    BY <1>1 DEF StartStep, StartRefused, CreateFails, CreateCandidate, MarkCandidate,
                DispatchCandidate, DispatchRefused, SetRunning, StartDies
  <2>2. \/ check' = check \/ check' = RunningRow(check, starts[q].run)
        \/ \E s \in {"failed", "not_evaluable"} : SetOutcome(s, "none")
    BY <1>1 DEF StartStep, StartRefused, CreateFails, CreateCandidate, MarkCandidate,
                DispatchCandidate, DispatchRefused, SetRunning, StartDies
  <2>3. check'.status = "passed" => check.status = "passed"
    <3>1. CASE check' = RunningRow(check, starts[q].run)
      BY <3>1 DEF RunningRow, TypeOK, CheckType
    <3> QED BY <2>2, <3>1, OutcomeKeeps
  <2> QED BY <1>onward, <2>1, <2>3, PassingStays
<1>2. CASE CompareRuns
  <2> DEFINE r == task.run
             v(c) == Compare(c, [complete |-> TRUE, values |-> baseline.values], Rules,
                             SameCorpus(pinned[r], baseline.corpus))
  <2>1. r \in Runs /\ status[r] \in Terminal /\ Eligible
    BY <1>2 DEF CompareRuns, Doing, References, HasRun, RunsCreated
  <2>2. PICK c \in Aggregates(stored[r]) :
               /\ comparisons' = [comparisons EXCEPT ![r] = ScheduledVerdict(v(c))]
               /\ task' = [task EXCEPT !.pc = "finish", !.verdict = ScheduledVerdict(v(c))]
    BY <1>2 DEF CompareRuns
  <2>3. /\ comparisons'[r] = ScheduledVerdict(v(c)) /\ task'.verdict = ScheduledVerdict(v(c))
        /\ task'.run = r
    BY <2>1, <2>2 DEF TypeOK, TaskType
  <2>4. ASSUME ScheduledVerdict(v(c)) = "passed"
        PROVE  pinned[r] = baseline.corpus /\ With(stored[r], "completed") # {}
    <3> DEFINE other == [complete |-> TRUE, values |-> baseline.values]
               like == SameCorpus(pinned[r], baseline.corpus)
    <3>1. /\ DOMAIN v(c).rules \subseteq 1..5 /\ (v(c).comparable => like)
          /\ (v(c).comparable /\ v(c).complete => c.complete)
      BY CompareShape
    <3>2. v(c).comparable /\ v(c).complete BY <2>4, <3>1, VerdictOfRules
    <3>3. Snapshot(pinned[r]) /\ Snapshot(baseline.corpus)
      BY <2>1, CorporaAssumption DEF TypeOK
    <3> QED BY <3>1, <3>2, <3>3, SameCorpusEqual, CompleteHasCase
  <2>5. UNCHANGED <<status, stored, pinned, baseline, check>>
    BY <1>2 DEF CompareRuns, vars
  <2>6. ASSUME task'.verdict = "passed" PROVE Earned(r)'
    BY <2>1, <2>3, <2>4, <2>5, <2>6 DEF Earned
  <2>7. check'.status = "passed" => Eligible' /\ \E s \in Runs : Earned(s)'
    BY <1>onward, <2>5, EarnedStays DEF Passing, Onward, Eligible
  <2>8. (task.run)' = r BY <2>3
  <2> QED BY <2>3, <2>6, <2>7, <2>8 DEF Passing, Earned
<1>3. CASE Finish
  <2>1. task.run \in Runs /\ task.pc = "finish" /\ Eligible
    BY <1>3 DEF Finish, Doing, References, HasRun, RunsCreated
  <2>2. task'.pc = "start" BY <1>3, AttemptTyped DEF Finish, NoTask
  <2>3. check'.status = task.verdict BY <1>3, OutcomeKeeps DEF Finish
  <2>4. check'.status = "passed" => Eligible' /\ \E r \in Runs : Earned(r)'
    BY <1>onward, <2>1, <2>3, EarnedStays DEF Passing, Onward, Eligible
  <2> QED BY <2>2, <2>4 DEF Passing
<1>4. CASE Trigger \/ \E q \in Requests : RequestStart(q)
  BY <1>onward, <1>4, PassingStays DEF Trigger, NoTask, RequestStart, TypeOK, TaskType
<1>5. ASSUME NEW q \in Requests, Started(q) PROVE Passing'
  <2>1. task'.pc \in {"start", "poll"} /\ check' = check
    BY <1>5, AttemptTyped DEF Started, TypeOK, TaskType
  <2> QED BY <1>onward, <2>1, PassingStays
<1>6. CASE Poll \/ AttemptDies
  BY <1>onward, <1>6, AttemptTyped, PassingStays DEF Poll, AttemptDies, TypeOK, TaskType
<1>7. CASE (\E q \in Requests : StartUnheard(q)) \/ (\E r \in Runs : Evaluate(r))
  BY <1>onward, <1>7, PassingStays DEF StartUnheard, Evaluate, regression
<1>8. CASE UNCHANGED allVars
  BY <1>onward, <1>8, PassingStays DEF allVars, regression
<1> QED BY <1>1, <1>2, <1>3, <1>4, <1>5, <1>6, <1>7, <1>8 DEF RNext, TaskStep

(* The inductive invariant behind both results.                            *)
LEMMA HeldAlways == RSpec => [](TypeOK /\ References /\ RunsCreated /\ OneHolder /\ Passing)
<1>1. RInit => TypeOK /\ References /\ RunsCreated /\ OneHolder /\ Passing
  BY TypeInit, HeldInit
<1>2. TypeOK /\ References /\ RunsCreated /\ OneHolder /\ Passing /\ [RNext]_allVars
        => (TypeOK /\ References /\ RunsCreated /\ OneHolder /\ Passing)'
  BY TypeStart, TypeRest, HeldStart, HeldRest, PassingStep DEF RNext
<1> QED BY <1>1, <1>2, PTL DEF RSpec

(* scheduled.py never invents a baseline: a check that shows passed is     *)
(* enabled, its baseline completed, and some run saw the baseline's very   *)
(* corpus, reached a terminal status with a completed case, and was        *)
(* recorded as a pass (scheduledVerdict, CompareIdentity).                 *)
THEOREM PassAlwaysEarned == RSpec => []PassIsEarned
<1>1. Passing => PassIsEarned BY DEF Passing, Earned, Eligible, PassIsEarned
<1> QED BY <1>1, HeldAlways, PTL

(* No step takes away what a verdict rests on: a compared run keeps its    *)
(* verdict, its corpus, its completed cases and a terminal status.         *)
THEOREM EvidenceKept == RSpec => [][Onward]_allVars
<1>1. TypeOK /\ References /\ RunsCreated /\ [RNext]_allVars => [Onward]_allVars
  BY StartOnward, RestOnward DEF RNext
<1> QED BY <1>1, HeldAlways, PTL DEF RSpec

----------------------------------------------------------------------------
(* The row follows the attempt while no answer is lost.                    *)

LEMMA RowInit == RInit => RowFollows
BY DEF RInit, RowFollows, NoStart, NoTask, Answered, HasRun, VerdictOfLastRun

(* Only the request the task waits for takes steps.                        *)
LEMMA RowStart ==
  ASSUME TypeOK, References, RunsCreated, RowFollows, NEW q \in Requests, StartStep(q)
  PROVE  RowFollows'
<1> SUFFICES ASSUME lost' = 0 PROVE RowFollows'
  BY DEF RowFollows
<1>0. lost = 0 /\ task' = task /\ comparisons' = comparisons
  BY DEF StartStep, StartRefused, CreateFails, CreateCandidate, MarkCandidate,
         DispatchCandidate, DispatchRefused, SetRunning, StartDies
<1>1. starts[q].pc \notin {"idle", "done"}
  BY DEF StartStep, StartRefused, CreateFails, CreateCandidate, MarkCandidate,
         DispatchCandidate, DispatchRefused, SetRunning, StartDies
<1>2. /\ task.pc = "starting" /\ task.request = q
      /\ \A p \in Requests : p # q => starts[p].pc = "idle"
  BY <1>0, <1>1 DEF RowFollows
<1>3. ~HasRun(task') BY <1>0, <1>2 DEF HasRun
<1>4. \A p \in Requests : p # q => starts'[p] = starts[p]
  BY DEF StartStep, StartRefused, CreateFails, CreateCandidate, MarkCandidate, Go, Answer,
         DispatchCandidate, DispatchRefused, SetRunning, StartDies, TypeOK
<1>5. ASSUME Answered(starts'[q]) PROVE check'.run = starts'[q].run /\ check'.verdict = "none"
  <2>1. ASSUME NEW pc \in {"dispatch", "refused", "running"}, Go(q, pc) PROVE FALSE
    BY <1>5, <2>1 DEF Go, Answered, TypeOK, StartType
  <2>2. ASSUME NEW err \in BOOLEAN, Answer(q, err) PROVE ~err
    BY <1>5, <2>2 DEF Answer, Answered, TypeOK, StartType
  <2>3. ASSUME NEW r \in Runs, CreateCandidate(q, r) PROVE FALSE
    BY <1>5, <2>3 DEF CreateCandidate, NoStart, Answered, TypeOK
  <2>4. SetRunning(q)
    BY <2>1, <2>2, <2>3
    DEF StartStep, StartRefused, CreateFails, MarkCandidate, DispatchCandidate,
        DispatchRefused, StartDies
  <2> QED BY <2>4 DEF SetRunning, RunningRow, Answer, TypeOK, CheckType, StartType
<1>6. \/ check' = check
      \/ check'.verdict = "none"
  BY OutcomeKeeps
  DEF StartStep, StartRefused, CreateFails, CreateCandidate, MarkCandidate, DispatchCandidate,
      DispatchRefused, SetRunning, RunningRow, StartDies, TypeOK, CheckType
<1>7. VerdictOfLastRun' BY <1>0, <1>6 DEF RowFollows, VerdictOfLastRun
<1>8. \A p \in Requests : starts'[p].pc # "idle" => p = q BY <1>2, <1>4
<1>9. \A p \in Requests : Answered(starts'[p]) => p = q BY <1>8 DEF Answered
<1> QED BY <1>0, <1>2, <1>3, <1>5, <1>7, <1>8, <1>9 DEF RowFollows

LEMMA RowRest ==
  ASSUME TypeOK, References, RunsCreated, Passing, RowFollows,
         \/ Trigger \/ TaskStep \/ UNCHANGED allVars
         \/ \E q \in Requests : StartUnheard(q)
         \/ \E r \in Runs : Evaluate(r)
  PROVE  RowFollows'
<1> SUFFICES ASSUME lost' = 0 PROVE RowFollows'
  BY DEF RowFollows
<1>0. lost = 0
  <2>1. lost' = lost \/ lost' = lost + 1
    BY DEF Trigger, TaskStep, allVars, regression, StartUnheard, Evaluate, RequestStart, Started,
           Poll, CompareRuns, Finish, AttemptDies
  <2> QED BY <2>1 DEF TypeOK
(* A step after which no request is in flight, and no run in hand.         *)
<1>calm. ASSUME \A q \in Requests : starts'[q].pc = "idle", task'.pc = "start", VerdictOfLastRun'
         PROVE  RowFollows'
  BY <1>calm DEF RowFollows, Answered, HasRun
<1>idle. ASSUME task.pc # "starting" PROVE \A q \in Requests : starts[q].pc = "idle"
  BY <1>0, <1>idle DEF RowFollows
<1>same. ASSUME UNCHANGED <<check, comparisons>> PROVE VerdictOfLastRun'
  BY <1>0, <1>same DEF RowFollows, VerdictOfLastRun
<1>1. CASE Trigger
  <2>1. task.pc = "start" BY <1>1 DEF Trigger, References, NoTask
  <2> QED BY <1>1, <1>calm, <1>idle, <1>same, <2>1 DEF Trigger, NoTask
<1>2. ASSUME NEW q \in Requests, RequestStart(q) PROVE RowFollows'
  <2>1. /\ task'.pc = "starting" /\ task'.request = q /\ starts'[q].pc = "baseline"
        /\ \A p \in Requests : p # q => starts'[p].pc = "idle"
    BY <1>2, <1>idle DEF RequestStart, Doing, Go, TypeOK, StartType, TaskType
  <2> QED BY <1>2, <1>same, <2>1 DEF RowFollows, Answered, HasRun, RequestStart
<1>3. ASSUME NEW q \in Requests, Started(q) PROVE RowFollows'
  <2>1. \A p \in Requests : starts'[p].pc = "idle"
    BY <1>0, <1>3 DEF Started, Doing, RowFollows, NoStart, TypeOK
  <2>2. CASE starts[q].err
    BY <1>3, <1>calm, <1>same, <2>1, <2>2, AttemptTyped DEF Started
  <2>3. CASE ~starts[q].err
    <3>1. Answered(starts[q]) BY <1>3, <2>3 DEF Started, Answered
    <3>2. task'.run = starts[q].run /\ check' = check
      BY <1>3, <2>3 DEF Started, TypeOK, TaskType
    <3>3. check'.run = task'.run /\ check'.verdict = "none"
      BY <1>0, <3>1, <3>2 DEF RowFollows
    <3> QED BY <1>3, <1>same, <2>1, <3>3 DEF RowFollows, Answered, Started
  <2> QED BY <2>2, <2>3
<1>4. CASE Poll
  <2>1. task'.pc = "compare" /\ task'.run = task.run /\ task.pc = "poll"
    BY <1>4 DEF Poll, Doing, TypeOK, TaskType
  <2> QED BY <1>0, <1>4, <1>idle, <1>same, <2>1 DEF RowFollows, Answered, HasRun, Poll
<1>5. CASE CompareRuns
  <2>1. task'.pc = "finish" /\ task'.run = task.run /\ task.pc = "compare"
    BY <1>5 DEF CompareRuns, Doing, TypeOK, TaskType
  <2>2. check' = check /\ starts' = starts BY <1>5 DEF CompareRuns
  <2>3. check.verdict = "none" /\ check.run = task.run BY <1>0, <2>1 DEF RowFollows, HasRun
  <2> QED BY <1>idle, <2>1, <2>2, <2>3 DEF RowFollows, Answered, HasRun, VerdictOfLastRun
<1>6. CASE Finish
  <2>1. task.pc = "finish" BY <1>6 DEF Finish, Doing
  <2>2. task'.pc = "start" BY <1>6, AttemptTyped DEF Finish, NoTask
  <2>3. check'.run = check.run /\ check'.status = task.verdict /\ check'.verdict = task.verdict
    BY <1>6, OutcomeKeeps DEF Finish
  <2>4. /\ check.run = task.run /\ task.run \in Runs /\ task.run # None
        /\ comparisons[task.run] = task.verdict
    BY <1>0, <2>1, RegressionAssumption DEF RowFollows, HasRun, References, Passing
  <2>5. VerdictOfLastRun' BY <1>6, <2>3, <2>4 DEF VerdictOfLastRun, Finish
  <2> QED BY <1>6, <1>calm, <1>idle, <2>1, <2>2, <2>5 DEF Finish
<1>7. CASE AttemptDies
  <2>1. task'.pc = "start" BY <1>7, AttemptTyped DEF AttemptDies
  <2>2. \A q \in Requests : starts'[q].pc = "idle"
    <3>1. CASE task.pc = "starting"
      <4>1. starts' = [starts EXCEPT ![task.request] = NoStart]
        BY <1>0, <1>7, <3>1 DEF AttemptDies, TypeOK
      <4> QED BY <1>0, <4>1 DEF RowFollows, NoStart, TypeOK
    <3>2. CASE task.pc # "starting" BY <1>7, <1>idle, <3>2 DEF AttemptDies
    <3> QED BY <3>1, <3>2
  <2> QED BY <1>7, <1>calm, <1>same, <2>1, <2>2 DEF AttemptDies
<1>8. ASSUME NEW q \in Requests, StartUnheard(q) PROVE RowFollows'
  BY <1>0, <1>8 DEF StartUnheard, RowFollows
<1>9. CASE \E r \in Runs : Evaluate(r)
  BY <1>0, <1>9, <1>same DEF Evaluate, regression, RowFollows, VerdictOfLastRun
<1>10. CASE UNCHANGED allVars
  BY <1>0, <1>10, <1>same DEF allVars, regression, RowFollows, VerdictOfLastRun
<1> QED BY <1>1, <1>2, <1>3, <1>4, <1>5, <1>6, <1>7, <1>8, <1>9, <1>10 DEF TaskStep

(* While no answer to the scheduled task was lost, a verdict on the row is *)
(* the recorded comparison of the run the row names, never that of an      *)
(* earlier attempt (SetRunning, SetOutcome, run_scheduled_check).          *)
THEOREM VerdictAlwaysOfLastRun == RSpec => []VerdictOfLastRun
<1>1. RInit => IInv BY TypeInit, HeldInit, RowInit DEF IInv
<1>2. IInv /\ [RNext]_allVars => IInv'
  BY TypeStart, TypeRest, HeldStart, HeldRest, PassingStep, RowStart, RowRest DEF RNext, IInv
<1>3. IInv => VerdictOfLastRun BY DEF IInv, RowFollows, VerdictOfLastRun
<1> QED BY <1>1, <1>2, <1>3, PTL DEF RSpec
=============================================================================
