----------------------------- MODULE GMXExecutor -----------------------------
(***************************************************************************)
(* The live executor of the sentinel: executeSignal as the awaits it is    *)
(* made of, waitForOrderExecution as its polling loop, and the GMX keeper  *)
(* that executes or cancels an order whenever it likes.                    *)
(*                                                                         *)
(* The wallet is not counted: getBalances answers that the collateral is   *)
(* enough, that ETH has to be swapped first, or that neither is there.     *)
(***************************************************************************)
EXTENDS TradeExecution

CONSTANTS
    Supported,              \* the signals whose token pair GMX trades
    MaxPolls                \* maxAttempts of waitForOrderExecution (10)

ASSUME SupportedAssumption == Supported \subseteq Signals
ASSUME MaxPollsAssumption == MaxPolls \in Nat \ {0}

VARIABLES
    order,                  \* the order of each call, as GMX knows it
    polls,                  \* status checks each call has made
    activePositions,        \* the agent's map of positions, as its keys
    peak                    \* history: the most calls ever in flight at once

gmxVars == <<order, polls, activePositions, peak>>

OrderStates == {"none", "open", "executed", "cancelled"}

\* size >= NaN is false: a limit that is not a number is never reached
LimitPassed ==
    /\ config.maxOpenPositions # NaN
    /\ Cardinality(activePositions) > config.maxOpenPositions
LimitReached ==
    /\ config.maxOpenPositions # NaN
    /\ Cardinality(activePositions) >= config.maxOpenPositions

\* the checks executeSignal makes before its first await
Refuse(c) ==
    /\ pc[c] = "idle"
    /\ SignalOf(c) \notin Supported \/ LimitReached
    /\ Conclude(c, "failed")
    /\ UNCHANGED gmxVars

Admit(c) ==
    /\ pc[c] = "idle"
    /\ SignalOf(c) \in Supported
    /\ ~LimitReached
    /\ Await(c, "order")
    /\ peak' = IF Cardinality(InFlight) < peak
               THEN peak
               ELSE Cardinality(InFlight) + 1
    /\ UNCHANGED <<order, polls, activePositions>>

ExecuteSignal(c) == Refuse(c) \/ Admit(c)

\* The balance is read, ETH may be swapped for collateral and the order is
\* prepared: awaits after which no other call can tell the difference.  Each may
\* throw, or answer what cannot be traded on, before any order was sent.
GiveUp(c) ==
    /\ pc[c] = "order"
    /\ Conclude(c, "failed")
    /\ UNCHANGED gmxVars

SendOrder(c) ==
    /\ pc[c] = "order"
    /\ Await(c, "wait")
    /\ order' = [order EXCEPT ![c] = "open"]
    /\ polls' = [polls EXCEPT ![c] = 0]
    /\ UNCHANGED <<activePositions, peak>>

\* sendTransaction throws although the transaction is out (if it is not, the
\* outcome is that of GiveUp)
SendThrows(c) ==
    /\ pc[c] = "order"
    /\ Conclude(c, "failed")
    /\ order' = [order EXCEPT ![c] = "open"]
    /\ UNCHANGED <<polls, activePositions, peak>>

\* GMX settles an order; what becomes of it when nobody asks any more is not
\* followed, and such an order stays "open": the agent cannot know
KeeperSettles(c) ==
    /\ pc[c] = "wait"
    /\ order[c] = "open"
    /\ \E o \in {"executed", "cancelled"} : order' = [order EXCEPT ![c] = o]
    /\ UNCHANGED <<polls, activePositions, peak>>
    /\ UNCHANGED execVars

PollExecuted(c) ==
    /\ pc[c] = "wait"
    /\ order[c] = "executed"
    /\ Conclude(c, "executed")
    /\ activePositions' = activePositions \union {SignalOf(c)}
    /\ UNCHANGED <<order, polls, peak>>

PollCancelled(c) ==
    /\ pc[c] = "wait"
    /\ order[c] = "cancelled"
    /\ Conclude(c, "failed")
    /\ UNCHANGED gmxVars

SamePoll(c) == polls[c]
NextPoll(c) == polls[c] + 1

\* the order is still open, or the status request failed
PollAgain(c) ==
    /\ pc[c] = "wait"
    /\ polls[c] + 1 < MaxPolls
    /\ polls' = [polls EXCEPT ![c] = NextPoll(c)]
    /\ UNCHANGED <<order, activePositions, peak>>
    /\ UNCHANGED execVars

PollTimeout(c) ==
    /\ pc[c] = "wait"
    /\ polls[c] + 1 = MaxPolls
    /\ Conclude(c, "failed")
    /\ UNCHANGED gmxVars

Poll(c) == PollExecuted(c) \/ PollCancelled(c) \/ PollAgain(c) \/ PollTimeout(c)

\* one await of the call is answered
Settle(c) ==
    GiveUp(c) \/ SendOrder(c) \/ SendThrows(c) \/ Poll(c)

GMXInit ==
    /\ order = [c \in Calls |-> "none"]
    /\ polls = [c \in Calls |-> 0]
    /\ activePositions = {}
    /\ peak = 0

\* a new process tracks no position, and none of the orders it did not send
GMXReset ==
    /\ order' = [c \in Calls |-> "none"]
    /\ polls' = [c \in Calls |-> 0]
    /\ activePositions' = {}
    /\ peak' = 0

GMXNext == \E c \in Calls : ExecuteSignal(c) \/ Settle(c) \/ KeeperSettles(c)

GMXSpec == /\ config \in Configs /\ ExecInit /\ GMXInit
           /\ [][GMXNext /\ UNCHANGED config]_<<config, execVars, gmxVars>>
-----------------------------------------------------------------------------
\* .env.example 36: "Maximum open positions at once"
MaxOpenPositions == Cardinality(activePositions) <= config.maxOpenPositions

GMXTypeOK ==
    /\ ExecTypeOK
    /\ order \in [Calls -> OrderStates]
    /\ polls \in [Calls -> 0..(MaxPolls - 1)]
    /\ activePositions \subseteq Signals
    /\ peak \in 0..Cardinality(Calls)

\* canOpenPosition is asked before the awaits and the position is recorded
\* after them (executor.ts 351 and 443), so calls that overlap can exceed
\* MAX_OPEN_POSITIONS: but never by more than the calls that raced.  Positions
\* and calls in flight together stay below the limit plus the largest number
\* of calls that were ever in flight at once.  A limit that is not a number,
\* which validateConfig lets through (config.ts 38 and 44-66), bounds nothing.
OvershootBoundedByRace ==
    config.maxOpenPositions # NaN =>
        Cardinality(activePositions) + Cardinality(InFlight)
            <= IF peak = 0 THEN 0 ELSE config.maxOpenPositions - 1 + peak

\* The agent's positions are exactly the orders it saw GMX execute, each with
\* one executed record; a call whose order GMX has executed is reported as failed
\* only after every status request was used up (executor.ts 292-317).
PositionsMatchOrders ==
    /\ activePositions = {SignalOf(c) : c \in Executed}
    /\ \A c \in Executed : order[c] = "executed"
    /\ \A c \in Failed : order[c] = "executed" => polls[c] + 1 = MaxPolls

\* The history holds exactly one entry for every call that has returned, under
\* the status the call returned with, whatever the interleaving of the calls.
HistoryComplete ==
    /\ history.executed = Cardinality(Executed)
    /\ history.failed = Cardinality(Failed)
    /\ \A c \in Calls : pc[c] \in {"returned", "done"} <=> result[c] # "none"
=============================================================================
