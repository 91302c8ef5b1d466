----------------------- MODULE MCSubscriptionEconomy -----------------------
(* One subscriber of two agents, prices that do not split evenly.           *)
EXTENDS SubscriptionEconomy

CONSTANTS agent1, agent2, user1
=============================================================================
