---------------------------- MODULE PointLedger ----------------------------
(***************************************************************************)
(* Users' points in the V2 system: the deposit listener                     *)
(* (internal/vault/listener.go) that turns Deposit events of the vault into *)
(* points, and the subscribe requests (internal/api/handlers_v2.go) that    *)
(* spend them, over the tables users, point_transactions, deposit_events    *)
(* and deposit_listener_state.  Each database call may fail; the process    *)
(* may crash between any two of them and starts again with the tables.      *)
(*                                                                          *)
(* The vault's events are given: Deposits are numbered in log order, one    *)
(* transaction may emit several, and a user id on an event need not exist.  *)
(***************************************************************************)
EXTENDS Integers, FiniteSets, Functions

CONSTANTS
  Deposits,       \* Deposit events, numbered in (block, log index) order
  Txs,            \* transaction hashes
  TxOf,           \* transaction of an event
  BlockOf,        \* block of an event
  UserOf,         \* userId of an event, in Users or not
  Points,         \* points an event is worth after truncation; 0 if too small
  Users,          \* rows of the users table
  Requests,       \* subscribe requests
  Subscriber,     \* user of a request
  Price,          \* points_per_month of a request's tier
  Confirmations,  \* cfg.Confirmations
  MaxBlock,       \* last block of the chain (bound)
  MaxErrors       \* database errors and crashes (bound)

ASSUME LedgerAssumption ==
  /\ Deposits \subseteq Nat /\ IsFiniteSet(Deposits)
  /\ TxOf \in [Deposits -> Txs]
  /\ BlockOf \in [Deposits -> Nat]
  /\ Points \in [Deposits -> Nat]
  /\ Subscriber \in [Requests -> Users]
  /\ Price \in [Requests -> Nat]
  /\ Confirmations \in Nat /\ MaxBlock \in Nat /\ MaxErrors \in Nat

VARIABLES
  head,      \* latest block (external)
  last,      \* last_processed_block; 0 on a fresh database
  pc,        \* where pollOnce is: between polls, at an event's check, ...
  todo,      \* logs of this scan not yet processed
  toBlock,   \* end of this scan
  rows,      \* DEPOSIT rows of point_transactions, per event
  recorded,  \* tx hashes in deposit_events
  balance,   \* points_balance of each user
  spent,     \* points_spent of each user
  req,       \* subscribe handlers: "new", "checked" (balance read), "done"
  first,     \* history: the block the listener was initialised at
  failed,    \* history: events whose processing returned an error
  errors     \* history: errors and crashes so far

listenerVars == <<pc, todo, toBlock>>
userVars == <<balance, spent>>
historyVars == <<first, failed, errors>>
vars == <<head, last, listenerVars, rows, recorded, userVars, req, historyVars>>

Init ==
  /\ head = 0
  /\ last = 0
  /\ pc = "idle"
  /\ todo = {}
  /\ toBlock = 0
  /\ rows = [d \in Deposits |-> 0]
  /\ recorded = {}
  /\ balance = [u \in Users |-> 0]
  /\ spent = [u \in Users |-> 0]
  /\ req = [r \in Requests |-> "new"]
  /\ first = 0
  /\ failed = {}
  /\ errors = 0

CanFail == errors < MaxErrors /\ errors' = errors + 1

(* The event the loop over the logs is at.                                  *)
Current(d) == d \in todo /\ \A e \in todo : d <= e

----------------------------------------------------------------------------
MineBlock ==
  /\ head < MaxBlock
  /\ head' = head + 1
  /\ UNCHANGED <<last, listenerVars, rows, recorded, userVars, req, historyVars>>

Confirmed == head - Confirmations

(* The first poll only sets the starting point.                             *)
PollInitialises ==
  /\ pc = "idle"
  /\ last = 0
  /\ Confirmed > 0
  /\ last' = Confirmed
  /\ first' = Confirmed
  /\ UNCHANGED <<head, listenerVars, rows, recorded, userVars, req, failed, errors>>

(* The blocks a poll scans.                                                 *)
RangeSkippingOne == (last + 2) .. Confirmed
ScanRange == (last + 1) .. Confirmed

PollScans ==
  /\ pc = "idle"
  /\ last > 0
  /\ Confirmed > last
  /\ pc' = "check"
  /\ toBlock' = Confirmed
  /\ todo' = {d \in Deposits : BlockOf[d] \in ScanRange}
  /\ UNCHANGED <<head, last, rows, recorded, userVars, req, historyVars>>

(* IsDepositProcessed, then the checks that end processing without an error.*)
CheckEvent(d) ==
  /\ pc = "check"
  /\ Current(d)
  /\ \/ /\ TxOf[d] \in recorded \/ Points[d] = 0
        /\ todo' = todo \ {d}
        /\ UNCHANGED pc
     \/ /\ TxOf[d] \notin recorded /\ Points[d] > 0
        /\ pc' = "credit"
        /\ UNCHANGED todo
  /\ UNCHANGED <<head, last, toBlock, rows, recorded, userVars, req, historyVars>>

(* The UNIQUE constraint on point_transactions.tx_hash.                     *)
NoConstraint(d) == TRUE
TxHashUnused(d) == \A e \in Deposits : TxOf[e] = TxOf[d] => rows[e] = 0

(* CreditUserPoints commits.  The UPDATE of an unknown user matches no row, *)
(* which is no error.                                                       *)
CreditCommits(d) ==
  /\ pc = "credit"
  /\ Current(d)
  /\ TxHashUnused(d)
  /\ rows' = [rows EXCEPT ![d] = @ + 1]
  /\ balance' = [u \in Users |-> balance[u] + IF u = UserOf[d] THEN Points[d] ELSE 0]
  /\ pc' = "record"
  /\ UNCHANGED <<head, last, todo, toBlock, recorded, spent, req, historyVars>>

(* An event whose check or credit returns an error is logged and left; the  *)
(* loop goes on.                                                            *)
AfterError(d) == pc' = "check" /\ todo' = todo \ {d}

EventFails(d) ==
  /\ Current(d)
  /\ \/ pc = "check" /\ CanFail
     \/ pc = "credit" /\ (CanFail \/ (~TxHashUnused(d) /\ UNCHANGED errors))
  /\ failed' = failed \cup {d}
  /\ AfterError(d)
  /\ UNCHANGED <<head, last, toBlock, rows, recorded, userVars, req, first>>

(* RecordDepositEvent; an error is only a warning.                          *)
RecordEvent(d) ==
  /\ pc = "record"
  /\ Current(d)
  /\ \/ recorded' = recorded \cup {TxOf[d]} /\ UNCHANGED errors
     \/ CanFail /\ UNCHANGED recorded
  /\ todo' = todo \ {d}
  /\ pc' = "check"
  /\ UNCHANGED <<head, last, toBlock, rows, userVars, req, first, failed>>

(* UpdateLastProcessedBlock after the loop, or its error.                   *)
PollEnds ==
  /\ pc = "check"
  /\ todo = {}
  /\ pc' = "idle"
  /\ \/ last' = toBlock /\ UNCHANGED errors
     \/ CanFail /\ UNCHANGED last
  /\ toBlock' = 0
  /\ UNCHANGED <<head, todo, rows, recorded, userVars, req, first, failed>>

----------------------------------------------------------------------------
(* handleV2Subscribe reads the balance (and so does CreateSubscription).    *)
SubscribeChecks(r) ==
  /\ req[r] = "new"
  /\ req' = [req EXCEPT ![r] = IF balance[Subscriber[r]] >= Price[r] THEN "checked" ELSE "done"]
  /\ UNCHANGED <<head, last, listenerVars, rows, recorded, userVars, historyVars>>

(* CHECK (points_balance >= 0).                                             *)
NoBalanceCheck(r) == TRUE
BalanceStaysPositive(r) == balance[Subscriber[r]] - Price[r] >= 0

(* CreateSubscription's UPDATE and commit, or its rollback.                 *)
SubscribePays(r) ==
  /\ req[r] = "checked"
  /\ req' = [req EXCEPT ![r] = "done"]
  /\ \/ /\ BalanceStaysPositive(r)
        /\ balance' = [balance EXCEPT ![Subscriber[r]] = @ - Price[r]]
        /\ spent' = [spent EXCEPT ![Subscriber[r]] = @ + Price[r]]
        /\ UNCHANGED errors
     \/ /\ ~BalanceStaysPositive(r)
        /\ UNCHANGED <<userVars, errors>>
     \/ /\ CanFail
        /\ UNCHANGED userVars
  /\ UNCHANGED <<head, last, listenerVars, rows, recorded, first, failed>>

(* The process ends and starts again: the poll and the handlers are gone.   *)
Crash ==
  /\ CanFail
  /\ pc' = "idle"
  /\ todo' = {}
  /\ toBlock' = 0
  /\ req' = [r \in Requests |-> IF req[r] = "checked" THEN "done" ELSE req[r]]
  /\ UNCHANGED <<head, last, rows, recorded, userVars, first, failed>>

ListenerStep ==
  \/ PollInitialises \/ PollScans \/ PollEnds
  \/ \E d \in Deposits : CheckEvent(d) \/ CreditCommits(d) \/ EventFails(d) \/ RecordEvent(d)

RequestStep == \E r \in Requests : SubscribeChecks(r) \/ SubscribePays(r)

Next == MineBlock \/ ListenerStep \/ RequestStep \/ Crash

Spec == Init /\ [][Next]_vars

(* The chain grows and the poll ticker keeps the listener going.            *)
Fairness == WF_vars(MineBlock) /\ WF_vars(ListenerStep)

FairSpec == Spec /\ Fairness

----------------------------------------------------------------------------
(* Every variable has its type.                                             *)
TypeOK ==
  /\ head \in Nat /\ last \in Nat /\ toBlock \in Nat /\ first \in Nat
  /\ pc \in {"idle", "check", "credit", "record"}
  /\ todo \in SUBSET Deposits
  /\ rows \in [Deposits -> Nat]
  /\ recorded \in SUBSET Txs
  /\ balance \in [Users -> Nat]
  /\ spent \in [Users -> Nat]
  /\ req \in [Requests -> {"new", "checked", "done"}]
  /\ failed \in SUBSET Deposits
  /\ errors \in Nat

(* However often blocks are scanned again after a crash or a failed         *)
(* bookkeeping write, a vault transaction is credited at most once.         *)
CreditedAtMostOnce ==
  \A d, e \in Deposits :
    rows[d] > 0 /\ rows[e] > 0 /\ TxOf[d] = TxOf[e] => d = e /\ rows[d] = 1

(* A transaction marked as processed has been credited: the mark never      *)
(* comes first, so it can never make a rescan skip an uncredited one.       *)
ProcessedImpliesCredited ==
  \A t \in recorded : \E d \in Deposits : TxOf[d] = t /\ rows[d] > 0

(* The books balance: what a user has and has spent is what the ledger's    *)
(* DEPOSIT rows say, and concurrent requests cannot overdraw the account.   *)
Worth == [d \in Deposits |-> rows[d] * Points[d]]
Deposited(u) == SumFunctionOnSet(Worth, {d \in Deposits : UserOf[d] = u})

BooksBalance ==
  \A u \in Users : balance[u] >= 0 /\ balance[u] + spent[u] = Deposited(u)

(* Every event the chain confirms is eventually settled: credited, hidden   *)
(* behind its transaction, or given up on after an error.                   *)
EventuallySettled ==
  \A d \in Deposits :
    first > 0 /\ BlockOf[d] > first /\ BlockOf[d] + Confirmations <= MaxBlock /\ Points[d] > 0 ~>
      d \in failed \/ TxOf[d] \in recorded \/ rows[d] > 0

=============================================================================
