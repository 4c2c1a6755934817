------------------------------ MODULE SweepDag ------------------------------
(***************************************************************************)
(* The rag_parameter_sweep DAG (airflow/dags/rag_parameter_sweep.py) over  *)
(* the experiment it drives.  Its one task posts Advance steps back to     *)
(* back, without a pause, until one is answered with a terminal state, and *)
(* raises after MaxSteps of them; Airflow retries an attempt that raised.  *)
(* Nothing else takes a sweep forward by itself: the Experiments page      *)
(* advances it when somebody clicks.                                       *)
(***************************************************************************)
EXTENDS Experiment

CONSTANTS Driver,    \* the call that the task's step is
          MaxSteps,  \* MAX_STEPS
          Retries    \* default_args["retries"]

ASSUME SweepDagAssumption == Driver \in Calls /\ Retries \in Nat /\ MaxSteps \in Nat

VARIABLE drive  \* the task: its attempt, the steps the attempt has posted,
                \* whether one found a reindex or an evaluation going on

sweepVars == <<matrix, status, cells, runs, docs, calls, trouble, drive>>

Attempt(n) == [state |-> "running", attempt |-> n, steps |-> 0, waited |-> FALSE]
Ended(state, waited) == [state |-> state, attempt |-> 0, steps |-> 0, waited |-> waited]

SweepInit == Init /\ drive = Attempt(1)

Running == drive.state = "running"

(* The attempt raises: an error answer, a state failed, or no step left,   *)
(* after steps that waited or not.                                         *)
Raise(waited) ==
  drive' = IF drive.attempt <= Retries THEN Attempt(drive.attempt + 1)
           ELSE Ended("failed", waited)
Return == drive' = Ended("success", FALSE)

(* A settled sweep answers with its state before it reads any cell.        *)
Post ==
  /\ Running /\ At(Driver, "idle")
  /\ \/ BeginAdvance(Driver) /\ drive' = [drive EXCEPT !.steps = drive.steps + 1]
     \/ /\ Over(status)
        /\ IF status = "failed" THEN Raise(FALSE) ELSE Return
        /\ UNCHANGED vars

(* What the loop makes of the answer that ends a step.  Step 5 answers     *)
(* failed for one cell while the sweep goes on, and a link that another    *)
(* run has taken is an error.                                              *)
Failing(k) ==
  \/ calls[k].pc \in {"get", "finalize"} /\ status' = "failed"
  \/ calls[k].pc \in {"link", "fail_run"}
Terminal(k) == calls[k].pc \in {"get", "finalize"} /\ status' \in Settled

(* A step that found a reindex, or an earlier step's run, not ended.       *)
Waits(k) ==
  \/ At(k, "plan")
  \/ At(k, "outcome") /\ Row(k).run # None /\ calls[k].runStatus \notin Settled

Continue(waited) ==
  IF drive.steps < MaxSteps THEN drive' = [drive EXCEPT !.waited = waited] ELSE Raise(waited)

Step ==
  /\ Running /\ Work(Driver)
  /\ IF calls'[Driver].pc # "idle" THEN UNCHANGED drive
     ELSE IF Failing(Driver) THEN Raise(FALSE)
     ELSE IF Terminal(Driver) THEN Return
     ELSE Continue(drive.waited \/ Waits(Driver))

(* The API dies or answers an error.  A task that is killed, or times out, *)
(* takes its step with it; between two steps that is the same as the next  *)
(* one dying before it wrote.                                              *)
StepDies == Running /\ CallDies(Driver) /\ Raise(FALSE)

(* A call of the page; bound: beside the DAG it is not the Driver's.       *)
Page(k) ==
  /\ Running => k # Driver
  /\ BeginAdvance(k) \/ Work(k) \/ CallDies(k)
  /\ UNCHANGED drive

Index(d) == IndexDocument(d) /\ UNCHANGED drive
Evaluate(r) == r \in DOMAIN runs /\ StoreLastCase(r) /\ UNCHANGED drive
EvaluateCase(r) == r \in DOMAIN runs /\ StoreCase(r) /\ UNCHANGED drive

SweepNext ==
  \/ Post \/ Step \/ StepDies
  \/ \E k \in Calls : Page(k)
  \/ \E d \in Docs : Index(d)
  \/ \E r \in 1..MaxRuns : EvaluateCase(r) \/ Evaluate(r)

SweepSpec == SweepInit /\ [][SweepNext]_sweepVars

(* While nothing goes wrong, Airflow runs the task's attempts, the API     *)
(* answers their steps, and document_reindex and rag_evaluation end.       *)
(* Nobody has to use the page, and after its attempts the task is over.    *)
Undisturbed == trouble = {}

FairSweep ==
  /\ SweepSpec
  /\ WF_sweepVars(Undisturbed /\ (Post \/ Step))
  /\ \A d \in Docs : WF_sweepVars(Undisturbed /\ Index(d))
  /\ \A r \in 1..MaxRuns : WF_sweepVars(Undisturbed /\ Evaluate(r))
----------------------------------------------------------------------------
(* Properties.                                                             *)

(* rag_parameter_sweep.py:31-32: the bounded loop converges.  A sweep that *)
(* nothing disturbs settles, or all attempts of its task are over and the  *)
(* last used up its steps while a reindex or an evaluation was going on.   *)
(* Without such a wait a cell takes four steps at most and finalize one,   *)
(* so 257 for the 64 cells that MaxCombinationLimit allows; MAX_STEPS is   *)
(* 1000, and here MaxSteps has to exceed four times the cells.             *)
SweepSettles ==
  <>(status \in Settled \/ ~Undisturbed \/ (drive.state = "failed" /\ drive.waited))
=============================================================================
