------------------------------ MODULE Content -------------------------------
(***************************************************************************)
(* What a document's content goes through between the parser and the       *)
(* embedding provider (ragbench/content.py, called by compute_stage of     *)
(* ragbench/pipeline.py): the normalize stage and then the chunk stage on  *)
(* what it has stored.                                                     *)
(***************************************************************************)
EXTENDS Normalizing, Chunking

contentVars == <<vars, normalizing>>

(* The chunk stage's argument before normalize has stored anything.        *)
NoArtifact == [text |-> <<>>, locations |-> <<>>]
----------------------------------------------------------------------------
Prepare == NormalizeInit /\ Init /\ input = NoArtifact

Normalize == NormalizeNext /\ UNCHANGED vars

(* artifacts["normalize"] becomes the argument of chunk.                   *)
ChunkInput ==
  [text |-> Text,
   locations |-> [k \in DOMAIN locations |-> [start |-> locations[k].start,
                                              end   |-> locations[k].end]]]

ReadArtifact == /\ joining = "done" /\ input = NoArtifact
                /\ input' = ChunkInput
                /\ UNCHANGED <<size, overlap, pc, start, chunks, normalizing>>

Chunk == input # NoArtifact /\ Next /\ UNCHANGED normalizing

Ended == joining = "failed" \/ pc \in {"done", "failed"}
Idle == Ended /\ UNCHANGED contentVars

ContentNext == Normalize \/ ReadArtifact \/ Chunk \/ Idle
ContentSpec == Prepare /\ [][ContentNext]_contentVars /\ WF_contentVars(ContentNext)
----------------------------------------------------------------------------
(* The two stages end, and a document gets chunks exactly when it has a    *)
(* visible character and the configured overlap is less than the size: a   *)
(* text normalize accepts never fails in the chunk stage as empty.         *)
HasVisible(s) == \E i \in DOMAIN s : s[i] = "visible"
ContentPrepared ==
  <>[](/\ Ended
       /\ pc = "done" <=> (\E k \in DOMAIN source : HasVisible(source[k])) /\ overlap < size)
=============================================================================
