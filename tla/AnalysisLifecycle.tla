------------------------- MODULE AnalysisLifecycle --------------------------
(***************************************************************************)
(* What a document analysis promises whoever reads it: its stages succeed  *)
(* in their order, each works on answers that no longer change, a failure  *)
(* names the one stage that is missing, and a completed or cancelled       *)
(* analysis stays so.                                                      *)
(***************************************************************************)
EXTENDS Naturals

CONSTANTS Analyses,
          Summarize   \* the last stage

VARIABLE view   \* what a reader sees of each analysis

Stages == 1..Summarize

(* A job that was not accepted yet, refused or not, waits for dispatch.    *)
Status == {"none", "waiting", "queued", "processing", "completed", "partial",
           "failed", "cancelled"}
Ongoing == {"waiting", "queued", "processing"}
Unfinished == Ongoing \cup {"partial", "failed"}

View == [status : Status, stage : 0..Summarize,
         done : SUBSET Stages,      \* the stages that succeeded
         out : [Stages -> Nat]]     \* their answers, 0 for none

Unseen == [status |-> "none", stage |-> 0, done |-> {}, out |-> [s \in Stages |-> 0]]

Init == view = [a \in Analyses |-> Unseen]

(* How an analysis moves from v to w.                                      *)
Submit(v, w) == v = Unseen /\ w = [v EXCEPT !.status = "waiting"]

Accept(v, w) == v.status = "waiting" /\ w = [v EXCEPT !.status = "queued"]

(* The stage whose turn it is: those before it succeeded, and no other.    *)
Turn(v, s) == s \in Stages /\ v.done = 1..s - 1

Begin(v, w) ==
  /\ v.status \in Unfinished
  /\ Turn(v, w.stage)
  /\ w = [status |-> "processing", stage |-> w.stage, done |-> v.done, out |-> v.out]

(* The current stage's answer, or another one until the next stage begins. *)
Publish(v, w) ==
  /\ v.status \in Unfinished \cup {"completed"}
  /\ v.stage # 0 /\ w.out[v.stage] # 0
  /\ w = [status |-> IF v.stage = Summarize THEN "completed" ELSE "processing",
          stage |-> v.stage,
          done |-> v.done \cup {v.stage},
          out |-> [v.out EXCEPT ![v.stage] = w.out[v.stage]]]

(* The stage whose turn it is failed, with or without an answer to show.   *)
Fail(v, w) ==
  /\ v.status \in Unfinished
  /\ Turn(v, w.stage)
  /\ w = [status |-> IF w.stage = Summarize THEN "partial" ELSE "failed",
          stage |-> w.stage,
          done |-> v.done,
          out |-> [v.out EXCEPT ![w.stage] = w.out[w.stage]]]

Cancel(v, w) == v.status \in Ongoing /\ w = [v EXCEPT !.status = "cancelled"]

Move(v, w) ==
  Submit(v, w) \/ Accept(v, w) \/ Begin(v, w) \/ Publish(v, w) \/ Fail(v, w) \/ Cancel(v, w)

(* Deleting the document cancels all its unfinished analyses at once.      *)
Next ==
  /\ view' \in [Analyses -> View]
  /\ \A a \in Analyses : view'[a] = view[a] \/ Move(view[a], view'[a])

Spec == Init /\ [][Next]_view
=============================================================================
