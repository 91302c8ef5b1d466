---------------------------- MODULE MCGMXExecutor ----------------------------
(* The live executor alone, called for two signals the stream brings one      *)
(* after the other, with room for one position.                              *)
EXTENDS GMXExecutor, TLC

CONSTANTS s1, s2, n1

mcNodeOf == s1 :> n1 @@ s2 :> n1
mcTopNodes == {n1 :> [trust |-> 90, tier |-> "DIAMOND", signals |-> 9]}
mcConfigs == {[maxPositionUsd |-> 10, maxOpenPositions |-> 1,
               minTrustScore |-> 50, minTier |-> "SILVER"]}
=============================================================================
