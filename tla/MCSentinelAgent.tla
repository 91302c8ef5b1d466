--------------------------- MODULE MCSentinelAgent ---------------------------
(* One signal, which the platform can stream twice; its node just meets every *)
(* threshold, misses one of them, or is not listed.                           *)
EXTENDS SentinelAgent, TLC

CONSTANTS s1, n1

mcNodeOf == s1 :> n1
mcTopNodes ==
    {n1 :> [trust |-> 50, tier |-> "SILVER", signals |-> 5],
     n1 :> [trust |-> 49, tier |-> "DIAMOND", signals |-> 9],
     n1 :> [trust |-> 90, tier |-> "BRONZE", signals |-> 9],
     n1 :> [trust |-> 90, tier |-> "DIAMOND", signals |-> 4]}
mcConfig(size, limit, trust) ==
    [maxPositionUsd |-> size, maxOpenPositions |-> limit,
     minTrustScore |-> trust, minTier |-> "SILVER"]
mcConfigs ==
    {mcConfig(NaN, 1, 50), mcConfig(0, 1, 50), mcConfig(1, 1, 50),
     mcConfig(1, 2, 50), mcConfig(2, 2, 50), mcConfig(1, NaN, NaN)}
mcOutcomes == {-1, 1}
=============================================================================
