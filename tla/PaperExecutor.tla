---------------------------- MODULE PaperExecutor ----------------------------
(***************************************************************************)
(* The executor of paper mode.  executeSignal runs without an await: it    *)
(* takes the position's size out of the virtual balance, records the       *)
(* position under its signal's id and starts a timer (30 s to 5 min) that  *)
(* closes "the position of that id" with a random profit or loss.          *)
(***************************************************************************)
EXTENDS TradeExecution

CONSTANTS
    StartBalance,           \* the initial virtualBalance (10000 in the code)
    Outcomes                \* what closePosition may add to the P&L: -3%..5%

ASSUME PaperAssumption ==
    /\ StartBalance \in Nat
    /\ Outcomes \subseteq Int

VARIABLES
    virtualBalance,
    virtualPnL,
    paperPositions,         \* the map activePositions, as its keys
    timers,                 \* the calls whose close timer has not fired
    overwritten             \* history: executions of a signal already open

paperVars == <<virtualBalance, virtualPnL, paperPositions, timers, overwritten>>

PaperCanOpen ==
    /\ config.maxOpenPositions # NaN =>
           Cardinality(paperPositions) < config.maxOpenPositions
    /\ virtualBalance >= config.maxPositionUsd

PaperRefuse(c) ==
    /\ pc[c] = "idle"
    /\ ~PaperCanOpen
    /\ Conclude(c, "failed")
    /\ UNCHANGED paperVars

PaperTrade(c) ==
    /\ pc[c] = "idle"
    /\ PaperCanOpen
    /\ Conclude(c, "executed")
    /\ virtualBalance' = virtualBalance - config.maxPositionUsd
    /\ paperPositions' = paperPositions \union {SignalOf(c)}
    /\ timers' = timers \union {c}
    /\ overwritten' = IF SignalOf(c) \in paperPositions
                      THEN overwritten + 1
                      ELSE overwritten
    /\ UNCHANGED virtualPnL

PaperExecuteSignal(c) == PaperRefuse(c) \/ PaperTrade(c)

ProfitOnly(pnl) == virtualBalance + pnl
Refunded(pnl) == virtualBalance + config.maxPositionUsd + pnl

\* the timer of call c: closePosition finds the signal open, or returns at once
ClosePosition(c) ==
    /\ c \in timers
    /\ timers' = timers \ {c}
    /\ IF SignalOf(c) \in paperPositions
       THEN \E pnl \in Outcomes :
                /\ virtualPnL' = virtualPnL + pnl
                /\ virtualBalance' = Refunded(pnl)
                /\ paperPositions' = paperPositions \ {SignalOf(c)}
       ELSE UNCHANGED <<virtualPnL, virtualBalance, paperPositions>>
    /\ UNCHANGED overwritten
    /\ UNCHANGED execVars

PaperInit ==
    /\ virtualBalance = StartBalance
    /\ virtualPnL = 0
    /\ paperPositions = {}
    /\ timers = {}
    /\ overwritten = 0

PaperReset ==
    /\ virtualBalance' = StartBalance
    /\ virtualPnL' = 0
    /\ paperPositions' = {}
    /\ timers' = {}
    /\ overwritten' = 0
-----------------------------------------------------------------------------
PaperTypeOK ==
    /\ virtualBalance \in Int
    /\ virtualPnL \in Int
    /\ paperPositions \subseteq Signals
    /\ timers \subseteq Calls
    /\ overwritten \in Nat

\* Virtual money is neither made nor lost: balance and open positions add up to
\* the starting balance and the reported P&L.  A second execution of a signal
\* that is still open (paper-executor.ts 80-83) is the one leak: it is paid for
\* but overwrites the first in the map, and only one of their timers refunds.
PaperBooksBalance ==
    config.maxPositionUsd # NaN =>
        virtualBalance
            + config.maxPositionUsd * (Cardinality(paperPositions) + overwritten)
        = StartBalance + virtualPnL

\* Every open paper position has a timer that will close it: none stays open
\* for ever, and none is closed without the timer of a call for its signal.
OpenPositionsWillClose ==
    \A s \in paperPositions : \E c \in timers : SignalOf(c) = s
=============================================================================
