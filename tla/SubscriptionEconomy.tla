------------------------ MODULE SubscriptionEconomy ------------------------
(***************************************************************************)
(* The V1 payment path over the registry: ReputationOracle.sol (scores and  *)
(* tiers pushed by the verifier, internal/contracts/manager.go and          *)
(* internal/scorer/scorer.go), SubscriptionManager.sol (periods of access)  *)
(* and FeeRouter.sol (the split of each payment and creators' withdrawals). *)
(* A transaction is one step; a revert anywhere undoes all of it, and is    *)
(* not a step.  Amounts are small enough never to overflow 256 bits.        *)
(***************************************************************************)
EXTENDS AgentRegistry, FiniteSets, Functions

CONSTANTS
  Users,        \* subscribers
  Scores,       \* trust scores the Go scorer may push, in hundredths
  Prices,       \* values of tierPrices
  Durations,    \* values of subscriptionDuration
  FeeBps,       \* values setCreatorFeeBps may set
  MaxTime,      \* last block.timestamp (bound)
  MaxPayments,  \* payments made (bound)
  MaxChanges    \* admin settings changed (bound)

BasisPoints == 0 .. 10000

ASSUME EconomyAssumption ==
  /\ IsFiniteSet(Agents)
  /\ Scores \subseteq 0 .. 10000
  /\ Prices \subseteq Nat \ {0} /\ Durations \subseteq Nat
  /\ FeeBps \subseteq BasisPoints
  /\ MaxTime \in Nat /\ MaxPayments \in Nat /\ MaxChanges \in Nat

Tiers == 0 .. 3   \* BRONZE, SILVER, GOLD, DIAMOND

VARIABLES
  now,            \* block.timestamp
  scores,         \* ReputationOracle.scores: score and tier
  tierPrices,
  duration,       \* subscriptionDuration
  endTime,        \* subscriptions[user][node].endTime
  creatorFeeBps,
  pending,        \* pendingWithdrawals
  routerBalance,  \* native balance of the FeeRouter
  payments,       \* history: how many payments
  changes,        \* history: how many settings the admins have changed
  firstPaid,      \* history: time of a user's first payment to a node
  bought          \* history: seconds of access a user has paid for at a node

oracleVars == <<scores>>
managerVars == <<tierPrices, duration, endTime>>
routerVars == <<creatorFeeBps, pending, routerBalance>>
historyVars == <<payments, changes, firstPaid, bought>>
vars == <<registryVars, now, oracleVars, managerVars, routerVars, historyVars>>

(* What the constructors set, tier by tier.                                 *)
InitialPrices == [t \in Tiers |-> <<10, 25, 50, 100>>[t + 1]]
InitialFeeBps == [t \in Tiers |-> <<6000, 7000, 8000, 8500>>[t + 1]]

Init ==
  /\ RegistryInit
  /\ now = 1
  /\ scores = [n \in Agents |-> [score |-> 0, tier |-> 0]]
  /\ tierPrices = InitialPrices
  /\ duration \in Durations
  /\ endTime = [u \in Users |-> [n \in Agents |-> 0]]
  /\ creatorFeeBps = InitialFeeBps
  /\ pending = [a \in Agents |-> 0]
  /\ routerBalance = 0
  /\ payments = 0
  /\ changes = 0
  /\ firstPaid = [u \in Users |-> [n \in Agents |-> 0]]
  /\ bought = [u \in Users |-> [n \in Agents |-> 0]]

----------------------------------------------------------------------------
(* tierFromScore of the Go scorer, on hundredths, and TierIndex.            *)
TierFromRounded(s) == IF s >= 9000 THEN 3 ELSE IF s >= 7000 THEN 2 ELSE IF s >= 4000 THEN 1 ELSE 0
TierFromScore(s) == IF s >= 9100 THEN 3 ELSE IF s >= 7100 THEN 2 ELSE IF s >= 4100 THEN 1 ELSE 0

(* UpdateNodeScore's transaction.                                           *)
UpdateScore(n) ==
  /\ \E s \in Scores : scores' = [scores EXCEPT ![n] = [score |-> s, tier |-> TierFromScore(s)]]
  /\ UNCHANGED <<registryVars, now, managerVars, routerVars, historyVars>>

(* The new end of a subscription: a renewal extends the current period.     *)
ExtendedFromNow(u, n) == now + duration
ExtendedEnd(u, n) == (IF endTime[u][n] > now THEN endTime[u][n] ELSE now) + duration

(* The platform's part of a payment split at bps.                           *)
PlatformShareRounded(value, bps) == (value * (10000 - bps)) \div 10000
CreatorAmount(value, bps) == (value * bps) \div 10000
PlatformAmount(value, bps) == value - CreatorAmount(value, bps)

(* subscribe and, in the same transaction, FeeRouter.route.  A node that    *)
(* was deregistered can still be subscribed to.                             *)
Subscribe(u, n) ==
  LET tier == scores[n].tier
      price == tierPrices[tier]
      bps == creatorFeeBps[tier]
  IN /\ payments < MaxPayments
     /\ agents[n].registered
     /\ endTime' = [endTime EXCEPT ![u][n] = ExtendedEnd(u, n)]
     /\ pending' = [pending EXCEPT ![n] = @ + CreatorAmount(price, bps)]
     /\ routerBalance' = routerBalance + price - PlatformAmount(price, bps)
     /\ payments' = payments + 1
     /\ firstPaid' = [firstPaid EXCEPT ![u][n] = IF @ = 0 THEN now ELSE @]
     /\ bought' = [bought EXCEPT ![u][n] = @ + duration]
     /\ UNCHANGED <<registryVars, now, oracleVars, tierPrices, duration, creatorFeeBps, changes>>

(* withdraw clears the balance it pays out.                                 *)
Cleared(c) == [pending EXCEPT ![c] = 0]

Withdraw(c) ==
  /\ pending[c] > 0
  /\ pending' = Cleared(c)
  /\ routerBalance' = routerBalance - pending[c]
  /\ UNCHANGED <<registryVars, now, oracleVars, managerVars, creatorFeeBps, historyVars>>

CountsChange == changes < MaxChanges /\ changes' = changes + 1

SetTierPrice(t) ==
  /\ \E p \in Prices : tierPrices' = [tierPrices EXCEPT ![t] = p]
  /\ CountsChange
  /\ UNCHANGED <<registryVars, now, oracleVars, duration, endTime, routerVars, payments, firstPaid, bought>>

SetSubscriptionDuration ==
  /\ duration' \in Durations
  /\ CountsChange
  /\ UNCHANGED <<registryVars, now, oracleVars, tierPrices, endTime, routerVars, payments, firstPaid, bought>>

SetCreatorFeeBps(t) ==
  /\ \E b \in FeeBps : creatorFeeBps' = [creatorFeeBps EXCEPT ![t] = b]
  /\ CountsChange
  /\ UNCHANGED <<registryVars, now, oracleVars, managerVars, pending, routerBalance,
                 payments, firstPaid, bought>>

TimePasses ==
  /\ now < MaxTime
  /\ now' = now + 1
  /\ UNCHANGED <<registryVars, oracleVars, managerVars, routerVars, historyVars>>

RegistryStep ==
  /\ \E n \in Agents : RegisterAgent(n) \/ DeregisterAgent(n)
  /\ UNCHANGED <<now, oracleVars, managerVars, routerVars, historyVars>>

Next ==
  \/ RegistryStep
  \/ \E n \in Agents : UpdateScore(n) \/ Withdraw(n)
  \/ \E u \in Users, n \in Agents : Subscribe(u, n)
  \/ \E t \in Tiers : SetTierPrice(t) \/ SetCreatorFeeBps(t)
  \/ SetSubscriptionDuration
  \/ TimePasses

Spec == Init /\ [][Next]_vars

----------------------------------------------------------------------------
Amounts == [Users -> [Agents -> Nat]]

(* Every variable has its type.                                             *)
TypeOK ==
  /\ RegistryTypeOK
  /\ now \in Nat /\ duration \in Durations
  /\ scores \in [Agents -> [score : Scores \cup {0}, tier : Tiers]]
  /\ tierPrices \in [Tiers -> Nat]
  /\ creatorFeeBps \in [Tiers -> BasisPoints]
  /\ pending \in [Agents -> Nat]
  /\ routerBalance \in Nat
  /\ payments \in 0 .. MaxPayments /\ changes \in 0 .. MaxChanges
  /\ endTime \in Amounts /\ firstPaid \in Amounts /\ bought \in Amounts

(* The router always holds exactly what it owes to creators: rounding       *)
(* leaves nothing behind and overdraws nothing, whatever changes of the fee *)
(* and withdrawals come between payments.                                   *)
RouterSolvent == routerBalance = SumFunctionOnSet(pending, Agents)

(* A subscriber receives every second paid for: renewals before expiry add  *)
(* to the current period, also when the admin changes the duration.         *)
AccessCoversPayments ==
  \A u \in Users, n \in Agents :
    bought[u][n] > 0 => endTime[u][n] >= firstPaid[u][n] + bought[u][n]

(* The tier the scorer pushes is never above the one the oracle's own table *)
(* gives for the score beside it (0-4000, 4001-7000, 7001-9000, above), so  *)
(* nobody is charged the price of a tier the score has not reached; between *)
(* 4001 and 4099, 7001 and 7099, 9001 and 9099 it is one below.             *)
OracleTier(s) == IF s > 9000 THEN 3 ELSE IF s > 7000 THEN 2 ELSE IF s > 4000 THEN 1 ELSE 0

TierNotInflated == \A n \in Agents : scores[n].tier <= OracleTier(scores[n].score)
=============================================================================
