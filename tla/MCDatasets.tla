----------------------------- MODULE MCDatasets -----------------------------
(* Datasets for TLC: three requests that create a dataset or add a version *)
(* to it, with payloads that are sound, empty, or wrong in one way each.   *)
EXTENDS Datasets

CONSTANTS n1, a, b, r1, r2, r3, k1, k2

MCCase(key, evidence) ==
  [key |-> key, evidence |-> evidence, graded |-> {evidence[1]}]

MCNew ==
  {<<MCCase(k2, <<b, a>>)>>, <<MCCase(k2, <<b, b>>)>>,
   <<MCCase(k1, <<a>>), MCCase(k1, <<b>>)>>}
MCNext ==
  {<<MCCase(k1, <<a>>)>>, <<MCCase(k2, <<a>>), MCCase(k1, <<b>>)>>,
   <<[key |-> k2, evidence |-> <<a>>, graded |-> {b}]>>, <<>>}

MCEdits ==
  [dataset : Names, creates : {TRUE}, cases : MCNew]
    \union [dataset : Names, creates : {FALSE}, cases : MCNext]
=============================================================================
