--------------------------- MODULE MCNodeScoring ---------------------------
(* Nodes share the file, which is written whole, and the key, of which one  *)
(* more sender stands for the others: one provider with three signals that  *)
(* may close at the same time, one of which spells the node id in another   *)
(* way, shows every interleaving that matters.                              *)
EXTENDS NodeScoring, TLC

CONSTANTS s1, s2, s3, lower, mixed, provider, batch

MCNodeOf == [s \in Signals |-> IF s = s3 THEN mixed ELSE lower]
MCAddressOf == [n \in Nodes |-> provider]

(* The two signals of one spelling are interchangeable.                     *)
MCSymmetry == Permutations({s1, s2})
=============================================================================
