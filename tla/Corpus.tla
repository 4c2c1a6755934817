------------------------------- MODULE Corpus -------------------------------
(***************************************************************************)
(* What the document library promises to retrieval, with no jobs, workers  *)
(* or stages: every document serves at most one complete index revision,   *)
(* the served revision is only ever replaced by a newer one, and it goes   *)
(* away only when the document is deleted, for good.                       *)
(***************************************************************************)
EXTENDS Naturals

CONSTANTS Docs,      \* document identities
          MaxNumber  \* largest revision number of an instance

VARIABLES life,    \* life[d]: "absent", "live" or "deleted"
          served   \* served[d]: number of the revision search reads, 0 for none

corpusVars == <<life, served>>

CInit == /\ life = [d \in Docs |-> "absent"]
         /\ served = [d \in Docs |-> 0]

Add(d) == /\ life[d] = "absent"
          /\ life' = [life EXCEPT ![d] = "live"]
          /\ UNCHANGED served

Serve(d, n) == /\ life[d] = "live"
               /\ n > served[d]
               /\ served' = [served EXCEPT ![d] = n]
               /\ UNCHANGED life

Remove(d) == /\ life[d] = "live"
             /\ life' = [life EXCEPT ![d] = "deleted"]
             /\ served' = [served EXCEPT ![d] = 0]

CNext == \E d \in Docs : \/ Add(d)
                         \/ Remove(d)
                         \/ \E n \in 1..MaxNumber : Serve(d, n)

(* The library's promise, as a specification other modules implement.      *)
CSpec == CInit /\ [][CNext]_corpusVars
=============================================================================
