---------------------------- MODULE MCAnswering -----------------------------
(* A document that is indexed again, one that moves to another embedding   *)
(* identity, and a configuration of each mode, the last with a reranker.   *)
EXTENDS Answering

CONSTANTS d1, d2

MCConfig(hybrid, rerank, topK) ==
  [hybrid |-> hybrid, rerank |-> rerank, topK |-> topK, rerankLimit |-> 3,
   vectorLimit |-> 3, textLimit |-> 3, k |-> 1, identity |-> "small", priced |-> TRUE]
MCConfigs == {MCConfig(FALSE, FALSE, 3), MCConfig(TRUE, FALSE, 2), MCConfig(TRUE, TRUE, 2)}

(* Revisions 1 and 2 of d1, 3 and 4 of d2.                                 *)
MCRevisionDoc == <<d1, d1, d2, d2>>
MCRevisionIdentity == <<"small", "small", "small", "large">>
MCChunkRevision == <<1, 1, 2, 3, 4>>
MCSize == <<2, 1, 1, 2, 1>>
MCDistance == <<1, 2, 2, 1, 0>>
MCNearness == <<5, 1, 4, 2, 3>>
MCMatches == <<4, 1, 3>>
MCUsage == {<<>>, <<1>>}
=============================================================================
