------------------------- MODULE ProviderWithdrawal -------------------------
(***************************************************************************)
(* Withdrawals of provider points: handleV2ProviderWithdraw                 *)
(* (internal/api/handlers_v2.go), the provider_points and                   *)
(* withdrawal_requests tables (internal/database) and the transactions of   *)
(* internal/vault/vault_contract.go.  The handler debits the points, sends  *)
(* a transaction and, when the vault call returns an error, refunds them.   *)
(* Requests of one provider run concurrently; database calls fail (a client *)
(* that hangs up cancels every later call of its handler); the process may  *)
(* crash between any two steps; the chain settles transactions on its own.  *)
(***************************************************************************)
EXTENDS Integers, FiniteSets, Functions

CONSTANTS
  Providers,
  Requests,     \* withdrawal requests
  ProviderOf,   \* provider of a request
  AmountWei,    \* what it asks the vault to pay; the handler does not refuse a negative one
  Redeemed,     \* its pointsToRedeem
  WeiPerPoint,  \* 10^15: a point is a thousandth of one 0G
  AutoThreshold,\* the vault's autoThreshold
  Reward,       \* points of one AllocatePoints credit
  MaxRewards    \* bound on the points AllocatePoints credits to a provider

(* Both amounts come from one big.Float of 64 bits, each multiplied,        *)
(* rounded and cut toward zero on its own: 0.0009 0G are 9*10^14 wei and    *)
(* no point, 1.009 0G are 1009*10^15 wei and 1008 points.  They have one    *)
(* sign and differ by at most a point.                                      *)
ASSUME WithdrawalAssumption ==
  /\ IsFiniteSet(Requests)
  /\ ProviderOf \in [Requests -> Providers]
  /\ AmountWei \in [Requests -> Int] /\ Redeemed \in [Requests -> Int]
  /\ WeiPerPoint \in Nat /\ AutoThreshold \in Nat
  /\ \A w \in Requests :
       /\ AmountWei[w] - WeiPerPoint * Redeemed[w] \in -WeiPerPoint .. WeiPerPoint
       /\ AmountWei[w] >= 0 => Redeemed[w] >= 0
       /\ AmountWei[w] <= 0 => Redeemed[w] <= 0
  /\ Reward \in Nat /\ MaxRewards \in Nat

VARIABLES
  balance,    \* points_balance
  earned,     \* points_earned_total
  withdrawn,  \* points_withdrawn_total
  pc,         \* the handler of each request
  tx,         \* its vault transaction: "none", "pending", "mined", "reverted" (external)
  answer,     \* the handler's answer to the client
  records,    \* requests with a row in withdrawal_requests
  rewards,    \* history: what AllocatePoints credited
  debited,    \* history: requests whose debit was committed
  refunded,   \* history: requests whose refund was committed
  faults      \* history: requests whose handler met a database fault or crash

tableVars == <<balance, earned, withdrawn>>
history == <<rewards, debited, refunded, faults>>
withdrawalVars == <<tableVars, pc, tx, answer, records, history>>

(* At most autoThreshold is withdrawn at once, more is queued.              *)
Immediate == {w \in Requests : AmountWei[w] <= AutoThreshold}

WithdrawalInit ==
  /\ balance = [p \in Providers |-> 0]
  /\ earned = [p \in Providers |-> 0]
  /\ withdrawn = [p \in Providers |-> 0]
  /\ pc = [w \in Requests |-> "new"]
  /\ tx = [w \in Requests |-> "none"]
  /\ answer = [w \in Requests |-> "none"]
  /\ records = {}
  /\ rewards = [p \in Providers |-> 0]
  /\ debited = {} /\ refunded = {}
  /\ faults = {}

Goes(w, from, to) == pc[w] = from /\ pc' = [pc EXCEPT ![w] = to]
Answers(w, a) == answer' = [answer EXCEPT ![w] = a]
Funded(w) == balance[ProviderOf[w]] >= Redeemed[w]

----------------------------------------------------------------------------
(* AllocatePoints credits a provider for a signal (CreditProviderPoints).   *)
Earn(p) ==
  /\ rewards[p] + Reward <= MaxRewards
  /\ balance' = [balance EXCEPT ![p] = @ + Reward]
  /\ earned' = [earned EXCEPT ![p] = @ + Reward]
  /\ rewards' = [rewards EXCEPT ![p] = @ + Reward]
  /\ UNCHANGED <<withdrawn, pc, tx, answer, records, debited, refunded, faults>>

(* Balance and threshold are read, and DebitProviderPoints reads the        *)
(* balance again; an error or too few points answer with an error.          *)
ReadBalance(w) ==
  /\ \/ Funded(w) /\ Goes(w, "new", "checked") /\ UNCHANGED answer
     \/ Goes(w, "new", "done") /\ Answers(w, "error")
  /\ UNCHANGED <<tableVars, tx, records, history>>

(* CHECK (points_balance >= 0) on provider_points.  A negative amount adds  *)
(* to the balance.                                                          *)
NoConstraint(w) == TRUE
CheckHolds(w) == balance[ProviderOf[w]] - Redeemed[w] >= 0

(* Where the handler goes when the UPDATE fails.                            *)
DebitErrorIgnored == "send"
AfterDebitError == "done"

(* DebitProviderPoints: the UPDATE, or an error before or after it (no row, *)
(* too few points, a connection lost).                                      *)
TakePoints(w) ==
  /\ CheckHolds(w)
  /\ balance' = [balance EXCEPT ![ProviderOf[w]] = @ - Redeemed[w]]
  /\ withdrawn' = [withdrawn EXCEPT ![ProviderOf[w]] = @ + Redeemed[w]]
  /\ debited' = debited \cup {w}

Debit(w) ==
  /\ \/ /\ Goes(w, "checked", "send")
        /\ TakePoints(w)
        /\ UNCHANGED <<answer, faults>>
     \/ /\ Goes(w, "checked", AfterDebitError)
        /\ Answers(w, "error")
        /\ \/ TakePoints(w) /\ faults' = faults \cup {w}
           \/ UNCHANGED <<balance, withdrawn, debited, faults>>
  /\ UNCHANGED <<earned, tx, records, rewards, refunded>>

(* sendTransaction of Withdraw or QueueWithdrawal returns an error; the     *)
(* node may have accepted the transaction all the same.                     *)
DoneAfterSendError == "done"
AfterSendError == "refund"

SendFails(w) ==
  /\ Goes(w, "send", AfterSendError)
  /\ tx' \in {tx, [tx EXCEPT ![w] = "pending"]}
  /\ UNCHANGED <<tableVars, answer, records, history>>

SendSucceeds(w) ==
  /\ IF w \in Immediate THEN Goes(w, "send", "record") ELSE Goes(w, "send", "receipt")
  /\ tx' = [tx EXCEPT ![w] = "pending"]
  /\ UNCHANGED <<tableVars, answer, records, history>>

NotAsked(w) == TRUE
ReceiptFound(w) == tx[w] = "mined"

(* waitForReceipt asks once; only a mined transaction has the event with    *)
(* the withdrawal id, anything else is an error.                            *)
GetReceipt(w) ==
  /\ \/ ReceiptFound(w) /\ Goes(w, "receipt", "record")
     \/ Goes(w, "receipt", "refund")
  /\ UNCHANGED <<tableVars, tx, answer, records, history>>

(* The refund is CreditProviderPoints with its error ignored.  The row it   *)
(* proposes is under the CHECK too, so a negative amount is never taken     *)
(* back.                                                                    *)
Refund(w) ==
  /\ Goes(w, "refund", "done")
  /\ Answers(w, "error")
  /\ \/ /\ Redeemed[w] >= 0
        /\ balance' = [balance EXCEPT ![ProviderOf[w]] = @ + Redeemed[w]]
        /\ earned' = [earned EXCEPT ![ProviderOf[w]] = @ + Redeemed[w]]
        /\ refunded' = refunded \cup {w}
        /\ UNCHANGED faults
     \/ /\ faults' = faults \cup {w}
        /\ UNCHANGED <<balance, earned, refunded>>
  /\ UNCHANGED <<withdrawn, tx, records, rewards, debited>>

(* The status written and the CHECK on withdrawal_requests.status.          *)
Status(w) == IF w \in Immediate THEN "COMPLETED" ELSE "QUEUED"
AllowedStatus == {"PENDING", "QUEUED", "EXECUTED", "FAILED", "CANCELLED"}

(* RecordWithdrawalRequest; its error is only logged.                       *)
Record(w) ==
  /\ Goes(w, "record", "done")
  /\ IF w \in Immediate THEN Answers(w, "completed") ELSE Answers(w, "queued")
  /\ \/ Status(w) \in AllowedStatus /\ records' = records \cup {w} /\ UNCHANGED faults
     \/ Status(w) \notin AllowedStatus /\ UNCHANGED <<records, faults>>
     \/ faults' = faults \cup {w} /\ UNCHANGED records
  /\ UNCHANGED <<tableVars, tx, rewards, debited, refunded>>

(* The chain includes a pending transaction; the vault accepts or reverts.  *)
(* A negative amount reaches it as a number near 2^256, which it cannot pay. *)
Settle(w) ==
  /\ tx[w] = "pending"
  /\ \/ AmountWei[w] >= 0 /\ tx' = [tx EXCEPT ![w] = "mined"]
     \/ tx' = [tx EXCEPT ![w] = "reverted"]
  /\ UNCHANGED <<tableVars, pc, answer, records, history>>

(* The process ends: handlers are gone wherever they were.                  *)
Running == {w \in Requests : pc[w] \notin {"new", "done"}}

Crash ==
  /\ Running # {}
  /\ pc' = [w \in Requests |-> IF w \in Running THEN "done" ELSE pc[w]]
  /\ faults' = faults \cup Running
  /\ UNCHANGED <<tableVars, tx, answer, records, rewards, debited, refunded>>

WithdrawalNext ==
  \/ \E p \in Providers : Earn(p)
  \/ \E w \in Requests :
       \/ ReadBalance(w) \/ Debit(w)
       \/ SendFails(w) \/ SendSucceeds(w) \/ GetReceipt(w)
       \/ Refund(w) \/ Record(w) \/ Settle(w)
  \/ Crash

WithdrawalSpec == WithdrawalInit /\ [][WithdrawalNext]_withdrawalVars

----------------------------------------------------------------------------
(* Every variable has its type.  The withdrawn column may fall below zero   *)
(* by negative amounts.                                                     *)
WithdrawalTypeOK ==
  /\ balance \in [Providers -> Nat]
  /\ earned \in [Providers -> Nat]
  /\ withdrawn \in [Providers -> Int]
  /\ pc \in [Requests -> {"new", "checked", "send", "receipt", "refund", "record", "done"}]
  /\ tx \in [Requests -> {"none", "pending", "mined", "reverted"}]
  /\ answer \in [Requests -> {"none", "error", "completed", "queued"}]
  /\ records \in SUBSET Requests
  /\ rewards \in [Providers -> Nat]
  /\ debited \in SUBSET Requests
  /\ refunded \in SUBSET Requests
  /\ faults \in SUBSET Requests

(* The three columns of provider_points agree, and concurrent requests that *)
(* all passed the balance check cannot overdraw it.                         *)
ColumnsAgree ==
  \A p \in Providers : balance[p] >= 0 /\ earned[p] - withdrawn[p] = balance[p]

(* The points the debits of p took for good, and those the debits of        *)
(* negative amounts granted it.                                             *)
Taken(p) == {w \in debited \ refunded : ProviderOf[w] = p}
Granted == [w \in Requests |-> IF Redeemed[w] < 0 THEN -Redeemed[w] ELSE 0]
Spent == [w \in Requests |-> IF Redeemed[w] > 0 THEN Redeemed[w] ELSE 0]

PointsSpent(p) == rewards[p] - balance[p] + SumFunctionOnSet(Granted, Taken(p))

(* What the vault pays a provider, or still may, comes out of the points it *)
(* was rewarded and no longer has, whatever crashes or failures came in     *)
(* between: the balance is checked before, debited, and given back after a  *)
(* failed call.  It may exceed their worth by one point a transaction, what *)
(* the truncation of pointsToRedeem gives away; a debit of a negative       *)
(* amount grants points; and a transaction that the chain takes although    *)
(* the call for it failed, or its receipt was asked for too early, is paid  *)
(* and refunded: those are left out.                                        *)
Paid(p) ==
  {w \in Requests : /\ ProviderOf[w] = p /\ w \notin refunded
                    /\ tx[w] \in {"pending", "mined"} /\ AmountWei[w] >= 0}

PaidWithinRewards ==
  \A p \in Providers :
    SumFunctionOnSet(AmountWei, Paid(p)) <= WeiPerPoint * (PointsSpent(p) + Cardinality(Paid(p)))

(* Points do not evaporate by the handler's own doing: what a provider was  *)
(* rewarded and no longer has is that of requests still in hand, of         *)
(* transactions that pay it or still may, of handlers cut off by a crash or *)
(* a database fault, and of immediate withdrawals answered as completed     *)
(* that reverted afterwards, which nothing ever gives back.                 *)
InHand(w) == pc[w] \in {"send", "receipt", "refund", "record"}
RevertedAfterAnswer(w) == w \in Immediate /\ answer[w] = "completed" /\ tx[w] = "reverted"
Accounted(p) ==
  {w \in Requests : /\ ProviderOf[w] = p
                    /\ \/ InHand(w)
                       \/ tx[w] \in {"pending", "mined"}
                       \/ w \in faults
                       \/ RevertedAfterAnswer(w)}

NothingEvaporates ==
  \A p \in Providers : PointsSpent(p) <= SumFunctionOnSet(Spent, Accounted(p))

(* A row of withdrawal_requests is a withdrawal the vault holds: none is     *)
(* written for a transaction that is still open or was reverted, although   *)
(* immediate withdrawals do not wait for theirs.                            *)
RowsAreOnChain == \A w \in records : tx[w] = "mined"
=============================================================================
