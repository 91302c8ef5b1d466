--------------------------- MODULE MCPointLedger ---------------------------
(* Block 2: two deposits of u in one transaction.  Block 3: one of u and    *)
(* one that names nobody.  Two requests of u compete for its points.        *)
EXTENDS PointLedger, TLC

CONSTANTS t1, t2, t3, u, nobody, r1, r2

MCDeposits == 1 .. 4
MCTxOf == <<t1, t1, t2, t3>>
MCBlockOf == <<2, 2, 3, 3>>
MCUserOf == <<u, u, u, nobody>>
MCPoints == <<2, 1, 1, 1>>
MCSubscriber == [r \in Requests |-> u]
MCPrice == (r1 :> 2) @@ (r2 :> 1)
=============================================================================
