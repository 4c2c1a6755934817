---------------------------- MODULE SweepMatrix -----------------------------
(***************************************************************************)
(* The expansion of a parameter matrix into the cells of a sweep           *)
(* (experiment/matrix.go): every dimension's values without repetition and *)
(* in order, the base configuration's value for a dimension the matrix     *)
(* leaves out, and the combinations numbered lexicographically.            *)
(***************************************************************************)
EXTENDS Naturals, Sequences, FiniteSets, SequencesExt

(* In the order of the nested loops.  A value is a number that stands at   *)
(* the value's place in its dimension's order; Blank is the empty string,  *)
(* which the textual dimensions drop.                                      *)
Dimensions == <<"chunk_size", "chunk_overlap", "top_k", "retrieval_mode",
                "prompt_version", "model_profile", "rerank_enabled",
                "reranker_profile", "rerank_candidate_limit">>
Blank == 0
Textual == {"retrieval_mode", "prompt_version", "model_profile", "reranker_profile"}

Values(dim, listed, fallback) ==
  LET given == IF dim \in Textual THEN ToSet(listed) \ {Blank} ELSE ToSet(listed)
  IN IF given = {} THEN {fallback} ELSE given

SortedAsGiven(dim, listed, fallback) ==   \* mutant: repetitions stay
  IF listed = <<>> THEN <<fallback>> ELSE SortSeq(listed, <)
SortedUnique(dim, listed, fallback) ==
  LET values == Values(dim, listed, fallback) IN
  [i \in 1..Cardinality(values) |->
     CHOOSE v \in values : Cardinality({w \in values : w < v}) = i - 1]

(* One cell for every choice made so far and every value of the dimension. *)
Variants(combo, dim, values) == [j \in DOMAIN values |-> [combo EXCEPT ![dim] = values[j]]]

Extend(combos, dim, values) ==
  LET upTo[i \in 0..Len(combos)] ==
        IF i = 0 THEN <<>> ELSE upTo[i - 1] \o Variants(combos[i], dim, values)
  IN upTo[Len(combos)]

Declares(matrix) == \E dim \in ToSet(Dimensions) : matrix[dim] # <<>>
Expand(base, matrix) ==
  LET chosen[d \in 0..Len(Dimensions)] ==
        IF d = 0 THEN <<base>>
        ELSE LET dim == Dimensions[d] IN
             Extend(chosen[d - 1], dim, SortedUnique(dim, matrix[dim], base[dim]))
  IN chosen[Len(Dimensions)]

(* What the expansion stands for: every choice of one value a dimension.   *)
Combinations(base, matrix) ==
  {setting \in [ToSet(Dimensions) ->
                  UNION {Values(dim, matrix[dim], base[dim]) : dim \in ToSet(Dimensions)}] :
     \A dim \in ToSet(Dimensions) : setting[dim] \in Values(dim, matrix[dim], base[dim])}
=============================================================================
