---------------------------- MODULE MCRateLimiter ----------------------------
(* One signal sent under two node ids and two more: limits a single node     *)
(* can reach and both can reach together, and a duplicate window longer than *)
(* the rate windows, as in DefaultConfig.                                    *)
EXTENDS RateLimiter, TLC

CONSTANTS r1, r2, r3, r4, s1, s2, s3, n1, n2

MCSignalOf == r1 :> s1 @@ r2 :> s1 @@ r3 :> s2 @@ r4 :> s3
MCNodeOf == r1 :> n1 @@ r2 :> n2 @@ r3 :> n1 @@ r4 :> n2
=============================================================================
