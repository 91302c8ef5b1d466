------------------------- MODULE MCSchedulerBatcher -------------------------
(* e1 and e2 share an id, so e2 can be accepted only once e1 is closed or   *)
(* forgotten; e3 is independent.                                            *)
EXTENDS SchedulerBatcher, TLC

CONSTANTS e1, e2, e3, i1, i2, w1

MCIdOf == [e \in Envelopes |-> IF e = e3 THEN i2 ELSE i1]
MCExpiry == [e \in Envelopes |-> IF e = e1 THEN 1 ELSE 2]
=============================================================================
