------------------------- MODULE MCEvidencePipeline -------------------------
(* A new file beside one that is already approved; two workers. *)
EXTENDS EvidencePipeline, TLC

CONSTANTS e1, e2, w1, w2

Versions == e1 :> 5 @@ e2 :> 2

Workers == Permutations(Worker)
=============================================================================
