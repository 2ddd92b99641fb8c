---------------------------- MODULE MCHTTPClient ----------------------------
(***************************************************************************)
(* Small instances of HTTPClientThreads.  Three slots are as many as there *)
(* are downloaders, as in the code there are more slots than downloaders.  *)
(***************************************************************************)
EXTENDS HTTPClientThreads, TLC

OneSource  == 1 .. 1
TwoSources == 1 .. 2
OneSourceAndPart  == OneSource \union {Part}
TwoSourcesAndPart == TwoSources \union {Part}

MixedDocuments ==
  {[version |-> 1, list |-> "urls"], [version |-> 2, list |-> "empty"]}
CompleteDocuments ==
  {[version |-> v, list |-> "urls"] : v \in 1 .. 2}

Symmetry == Permutations(Slots) \union Permutations(Ids)
=============================================================================
