------------------------- MODULE MCSignalEvaluation -------------------------
(* One grid step is 0.5 % of the entry price, so every threshold of the     *)
(* points table (up to 10 %) and levels on both sides lie on the grid.  The *)
(* weights are of every sign.                                               *)
EXTENDS SignalEvaluation

MCPrices == 174 .. 226
MCWeights == {-50, 0, 80}
=============================================================================
