------------------------- MODULE MCSignalScheduler -------------------------
(* Two submissions share an id (the second can be accepted only after the   *)
(* first is finalized), a third has its own.                                *)
EXTENDS SignalScheduler, TLC

CONSTANTS e1, e2, e3, i1, i2, w1, w2

MCEnvelopes == {e1, e2, e3}
MCIds == {i1, i2}
MCIdOf == (e1 :> i1) @@ (e2 :> i1) @@ (e3 :> i2)
MCExpiry == (e1 :> 1) @@ (e2 :> 2) @@ (e3 :> 2)
=============================================================================
