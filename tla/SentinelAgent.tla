---------------------------- MODULE SentinelAgent ----------------------------
(***************************************************************************)
(* The trading agent: SentinelAgent of index.ts over its consumer, one of  *)
(* its two executors and the counters of its dashboard, in the event loop  *)
(* they share.  The process may be stopped, crash or exit on a fatal error *)
(* at any time, and be started again; what it knew is then gone.           *)
(*                                                                         *)
(* start() also reads the signals the platform has scheduled, to catch up. *)
(* Each of them is in state PENDING from AddSignal until it is closed, and *)
(* processExistingSignals handles ACTIVE ones only: whatever the request   *)
(* is answered, no signal reaches handleSignal but by the stream.          *)
(***************************************************************************)
EXTENDS SignalConsumer, GMXExecutor, PaperExecutor

CONSTANTS
    Spenders,               \* the contracts that move the collateral
    MaxLives                \* bound: how often the process is started

ASSUME AgentAssumption == MaxLives \in Nat \ {0}

VARIABLES
    phase,
    paperMode,
    allowances,             \* on chain: the spenders that are approved
    received, followed,     \* signalsReceived, signalsFollowed
    dash,                   \* the dashboard's counters and connection flag
    lives,
    handed                  \* history: times an event was given to an executor

agentVars == <<phase, paperMode, allowances, received, followed, dash, lives,
               handed>>
vars == <<config, consumerVars, execVars, gmxVars, paperVars, agentVars>>

Phases == {"boot", "catchingUp", "running", "exited"}

NewDashboard == [received |-> 0, followed |-> 0, executed |-> 0, failed |-> 0,
                 wsConnected |-> FALSE]

Init ==
    /\ config \in Configs
    /\ ConsumerInit /\ ExecInit /\ GMXInit /\ PaperInit
    /\ received = 0 /\ followed = 0
    /\ dash = NewDashboard
    /\ phase = "boot"
    /\ paperMode \in BOOLEAN
    /\ allowances = {}
    /\ lives = 1
    /\ handed = [c \in Calls |-> 0]

\* the process is gone with its memory
Reset ==
    /\ phase' = "exited"
    /\ ConsumerReset /\ ExecReset /\ GMXReset /\ PaperReset
    /\ received' = 0 /\ followed' = 0
    /\ dash' = NewDashboard

\* process.exit, a signal or a crash: only chain, platform and history remain
Exit ==
    /\ phase # "exited"
    /\ Reset
    /\ UNCHANGED <<paperMode, allowances, lives, handed>>

Restart ==
    /\ phase = "exited"
    /\ lives < MaxLives
    /\ lives' = lives + 1
    /\ phase' = "boot"
    /\ UNCHANGED <<consumerVars, execVars, gmxVars, paperVars>>
    /\ UNCHANGED <<paperMode, allowances, received, followed, dash, handed>>

-----------------------------------------------------------------------------
(* start() *)

\* initialize of the live executor approves what has no allowance yet
EnsureApprovals ==
    /\ phase = "boot"
    /\ ValidConfig
    /\ ~paperMode
    /\ \E spender \in Spenders \ allowances :
           allowances' = allowances \union {spender}
    /\ UNCHANGED <<consumerVars, execVars, gmxVars, paperVars>>
    /\ UNCHANGED <<phase, paperMode, received, followed, dash, lives, handed>>

\* from the node statistics to the request for the scheduled signals
Connect ==
    /\ phase = "boot"
    /\ ValidConfig
    /\ paperMode \/ allowances = Spenders
    /\ FirstConnect
    /\ dash' = [dash EXCEPT !.wsConnected = TRUE]
    /\ phase' = "catchingUp"
    /\ UNCHANGED <<execVars, gmxVars, paperVars>>
    /\ UNCHANGED <<paperMode, allowances, received, followed, lives, handed>>

\* fetchActiveSignals is answered, or turns its error into "no signals"; either
\* way processExistingSignals finds none that is ACTIVE
Running ==
    /\ phase = "catchingUp"
    /\ phase' = "running"
    /\ UNCHANGED <<consumerVars, execVars, gmxVars, paperVars>>
    /\ UNCHANGED <<paperMode, allowances, received, followed, dash, lives,
                   handed>>

-----------------------------------------------------------------------------
(* handleSignal *)

CountSignal(c) ==
    /\ received' = received + 1
    /\ dash' = [dash EXCEPT !.received = @ + 1, !.followed = @ + 1]
    /\ handed' = [handed EXCEPT ![c] = @ + 1]

\* up to its await: counters, then the executor as far as it runs by itself
HandleSignal(c) ==
    /\ config.maxPositionUsd # NaN
    /\ CountSignal(c)
    /\ \/ paperMode /\ PaperExecuteSignal(c) /\ UNCHANGED gmxVars
       \/ ~paperMode /\ ExecuteSignal(c) /\ UNCHANGED paperVars

HandlerThrows(c) ==
    /\ config.maxPositionUsd = NaN
    /\ CountSignal(c)
    /\ Throw(c)
    /\ UNCHANGED <<gmxVars, paperVars>>

\* updateDashboard replaces the dashboard's counters by the agent's
TradesRefreshed(f) ==
    [dash EXCEPT !.executed = history.executed, !.failed = history.failed]
Refreshed(f) ==
    [dash EXCEPT !.received = received, !.followed = f,
                 !.executed = history.executed, !.failed = history.failed]

\* the executor has answered: the rest of handleSignal
Resume(c) ==
    /\ pc[c] = "returned"
    /\ pc' = [pc EXCEPT ![c] = "done"]
    /\ followed' = IF result[c] = "executed" THEN followed + 1 ELSE followed
    /\ dash' = Refreshed(followed')
    /\ UNCHANGED <<result, history, consumerVars, gmxVars, paperVars>>
    /\ UNCHANGED <<phase, paperMode, allowances, received, lives, handed>>

\* A macrotask of the event loop, or an event of the world around it, runs when
\* the handlers whose executor has answered have been resumed (microtasks).
LoopTurn == \A c \in Calls : pc[c] # "returned"

HandledOnceRunning(s) == phase = "running" /\ ShouldFollowSignal(s)
Handled(s) == ShouldFollowSignal(s)

\* the stream's message handler; what it cannot handle it logs
Receive ==
    /\ LoopTurn
    /\ TakeMessage
    /\ LET c == Head(wire)
       IN  IF Handled(SignalOf(c))
           THEN HandleSignal(c) \/ HandlerThrows(c)
           ELSE UNCHANGED <<execVars, gmxVars, paperVars, received, dash, handed>>
    /\ UNCHANGED <<phase, paperMode, allowances, followed, lives>>

-----------------------------------------------------------------------------
Platform ==
    /\ LoopTurn
    /\ \/ \E s \in Signals : Publish(s) \/ CloseSignal(s)
       \/ FanOut \/ HubSubscribes \/ PlatformRestarts
    /\ UNCHANGED <<execVars, gmxVars, paperVars, agentVars>>

SocketEvent(A) ==
    LoopTurn /\ A /\ UNCHANGED <<execVars, gmxVars, paperVars, agentVars>>

Socket == SocketEvent(SocketOpens \/ SocketCloses \/ Reconnect)

\* an await of the live executor is answered
Settles(c) == Settle(c) /\ UNCHANGED <<consumerVars, paperVars, agentVars>>

Keeper(c) ==
    /\ LoopTurn /\ KeeperSettles(c)
    /\ UNCHANGED <<consumerVars, paperVars, agentVars>>

PaperTimer(c) ==
    /\ LoopTurn /\ ClosePosition(c)
    /\ UNCHANGED <<consumerVars, gmxVars, agentVars>>

AgentStep ==
    \/ Exit \/ Restart
    \/ EnsureApprovals \/ Connect \/ Running
    \/ Receive
    \/ \E c \in Calls : Resume(c) \/ Settles(c) \/ Keeper(c) \/ PaperTimer(c)
    \/ Platform \/ Socket

Next == AgentStep /\ UNCHANGED config

\* Timers fire, a connection attempt and a pending request end one way or the
\* other, and a resolved promise resumes its awaiter.  Nothing is assumed of the
\* platform, the keeper, the socket once it is open, or who restarts the agent.
Fairness ==
    /\ WF_vars(SocketEvent(ws = "connecting" /\ (SocketOpens \/ SocketCloses))
               /\ UNCHANGED config)
    /\ WF_vars(SocketEvent(Reconnect) /\ UNCHANGED config)
    /\ \A c \in Calls : /\ WF_vars(Settles(c) /\ UNCHANGED config)
                       /\ WF_vars(Resume(c) /\ UNCHANGED config)

Spec == Init /\ [][Next]_vars /\ Fairness
-----------------------------------------------------------------------------
TypeOK ==
    /\ config \in Configs
    /\ ConsumerTypeOK /\ GMXTypeOK /\ PaperTypeOK
    /\ phase \in Phases
    /\ paperMode \in BOOLEAN
    /\ allowances \subseteq Spenders
    /\ received \in Nat /\ followed \in Nat
    /\ dash \in [received : Nat, followed : Nat, executed : Nat, failed : Nat,
                 wsConnected : BOOLEAN]
    /\ lives \in 1..MaxLives
    /\ handed \in [Calls -> Nat]

\* The dashboard counts every signal at once in two places (addSignal and the
\* agent) and overwrites its trade counters with the executor's after every
\* trade (server.ts 212-263, index.ts 137-160).  Whatever the order in which
\* overlapping calls resume, it never shows a trade the history does not hold,
\* and when no call is under way it shows exactly the agent's own counters,
\* unless handleSignal threw after the dashboard had counted the signal.
DashboardAgrees ==
    LET quiet == \A c \in Calls : pc[c] \in {"idle", "done"}
    IN  /\ dash.received = received
        /\ dash.executed <= history.executed /\ dash.failed <= history.failed
        /\ quiet => /\ dash.executed = history.executed
                    /\ dash.failed = history.failed
                    /\ dash.followed = followed /\ followed = history.executed

\* Every event of the stream is handled at most once, across lost sockets and
\* restarts of the agent, and a signal is traded a second time only after a
\* restart of the platform that lost it from the schedule: submitted again, it
\* is streamed as ACTIVE again, and the agent remembers no ids (consumer.ts
\* 158-201, scheduler_batcher.go 205-228).
HandledTwiceExplained ==
    \A c, d \in Calls : handed[c] > 0 /\ handed[d] > 0 /\ SignalOf(c) = SignalOf(d) =>
        /\ handed[c] = 1
        /\ c # d => SignalOf(c) \in forgotten

\* The last event of a signal on the platform's schedule
LastEvent(s) == <<s, published[s]>>

\* An agent that has connected has handled every scheduled signal that passes
\* its filters, or will when the hub and the socket bring its event, except
\* when that event was streamed before the agent's session was in the hub's
\* map, met a full channel, was lost with a socket or with the platform's
\* process, or went to an earlier life of the agent: the request that start()
\* makes to catch up brings back none of them (consumer.ts 88-113).
MissedExplained ==
    phase \in {"catchingUp", "running"} =>
        \A s \in ActiveSignals : ShouldFollowSignal(s) =>
            \/ handed[LastEvent(s)] > 0
            \/ LastEvent(s) \in Elements(eventStream) \union Elements(wire)
            \/ s \in unheard

\* An order is sent only when every contract that has to move the collateral is
\* approved, in this life of the process or in an earlier one that was cut off
\* between two approvals (executor.ts 153-184).
OrdersAreApproved ==
    \A c \in Calls : order[c] # "none" => allowances = Spenders

\* The executor's positions are accounted for.  Live: they are the orders seen
\* to execute, and a filled order is reported as failed only when every status
\* request was used up.  Paper: positions and balance add up to what there was at
\* the start, except for a signal executed twice, and each will be closed.
PositionsAccountedFor ==
    IF paperMode
    THEN PaperBooksBalance /\ OpenPositionsWillClose
    ELSE PositionsMatchOrders

\* Every call of executeSignal that waits for an RPC, the keeper or a timer
\* comes to its end, even if the keeper never touches the order.
HandlersSettle ==
    \A c \in Calls : pc[c] \in Awaiting \union {"returned"}
                         ~> pc[c] \in {"done", "idle"}

\* A stream that was lost is open again, or all the attempts are used up.
StreamRecovers ==
    ws = "closed" ~>
        ws \in {"open", "none"} \/ reconnectAttempts = MaxReconnectAttempts
=============================================================================
