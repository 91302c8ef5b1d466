------------------------ MODULE MCProviderWithdrawal ------------------------
(* A point is worth two units and the vault pays up to three at once.  An   *)
(* immediate withdrawal whose half a point is cut off, one too small for a  *)
(* point, one of a negative amount and a queued one rounded down by a whole *)
(* point compete for the points of one provider.                            *)
EXTENDS ProviderWithdrawal, TLC

CONSTANTS p, cut, tiny, negative, queued

MCProviderOf == [w \in Requests |-> p]
MCAmountWei == cut :> 3 @@ tiny :> 1 @@ negative :> -3 @@ queued :> 4
MCRedeemed == cut :> 1 @@ tiny :> 0 @@ negative :> -1 @@ queued :> 1
=============================================================================
