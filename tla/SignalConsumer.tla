---------------------------- MODULE SignalConsumer ----------------------------
(***************************************************************************)
(* The sentinel's link to the platform: node reputations read once at the  *)
(* start, the WebSocket stream with its reconnect timer, and the filter    *)
(* every signal has to pass.                                               *)
(*                                                                         *)
(* The platform is the verification layer as one agent sees it.  A signal  *)
(* it schedules goes out as ACTIVE through the channel eventStream and the *)
(* hub to the agent's socket, and may be dropped at either.  Its process   *)
(* may be restarted: the schedule is restored from the store without being *)
(* streamed, and a signal it forgot may be submitted, and streamed, again. *)
(***************************************************************************)
EXTENDS SentinelTypes

CONSTANT MaxReconnectAttempts       \* 10 in the code

ASSUME ReconnectAssumption == MaxReconnectAttempts \in Nat

VARIABLES
    ws,                     \* the state of the socket
    reconnectAttempts,
    reconnectTimer,         \* is a setTimeout(connect) armed?
    wire,                   \* events sent to the agent and not yet received
    nodeStatsCache,
    signalState,            \* is a signal in the platform's schedule?
    eventStream,            \* events the hub has not taken
    hub,                    \* the platform's end of the socket
    published,              \* how often each signal was streamed as ACTIVE
    unheard,                \* history: signals whose last event could not be
                            \* delivered to this agent
    forgotten               \* history: signals a restart of the platform lost

wsVars == <<ws, reconnectAttempts, reconnectTimer>>
platformVars == <<signalState, eventStream, published, forgotten>>
consumerVars == <<wsVars, wire, nodeStatsCache, hub, unheard, platformVars>>

\* the n-th event of a signal is the pair of them
Events == Signals \X (1..MaxPublished)
Elements(queue) == {queue[i] : i \in DOMAIN queue}
SignalsIn(queue) == {e[1] : e \in Elements(queue)}
ActiveSignals == {s \in Signals : signalState[s] = "active"}

ReliableSignals == 5        \* total_signals a node must have

\* trust < NaN is false: a threshold that is not a number refuses nobody
ShouldFollowSignal(s) ==
    LET node == NodeOf[s]
    IN  /\ node \in DOMAIN nodeStatsCache
        /\ config.minTrustScore # NaN =>
               nodeStatsCache[node].trust >= config.minTrustScore
        /\ Priority(nodeStatsCache[node].tier) >= Priority(config.minTier)
        /\ nodeStatsCache[node].signals >= ReliableSignals

\* top_nodes replaces the cache; an error leaves it as it was
FetchNodeStats ==
    \/ nodeStatsCache' \in TopNodes
    \/ UNCHANGED nodeStatsCache

-----------------------------------------------------------------------------
(* The platform *)

\* processIncomingSignal: the signal is scheduled and its ACTIVE event put in
\* the channel, unless that is full
Publish(s) ==
    /\ signalState[s] = "unborn"
    /\ published[s] < MaxPublished
    /\ signalState' = [signalState EXCEPT ![s] = "active"]
    /\ published' = [published EXCEPT ![s] = @ + 1]
    /\ \/ /\ eventStream' = Append(eventStream, <<s, published[s] + 1>>)
          /\ UNCHANGED unheard
       \/ /\ unheard' = unheard \union {s}
          /\ UNCHANGED eventStream
    /\ UNCHANGED <<wsVars, wire, nodeStatsCache, hub, forgotten>>

\* the update that closes a signal goes out too: the handler drops whatever is
\* not ACTIVE, so such a message is as if it had not been sent
UpdateHandled(s) == Append(eventStream, <<s, published[s] + 1>>)
UpdateDropped(s) == eventStream

CloseSignal(s) ==
    /\ signalState[s] = "active"
    /\ signalState' = [signalState EXCEPT ![s] = "closed"]
    /\ eventStream' = UpdateDropped(s)
    /\ UNCHANGED <<wsVars, wire, nodeStatsCache, hub, published, unheard,
                   forgotten>>

\* the hub takes an event and sends it to the agent, if the agent's channel is
\* in its map and has room
FanOut ==
    /\ eventStream # << >>
    /\ eventStream' = Tail(eventStream)
    /\ LET event == Head(eventStream)
       IN  \/ /\ hub = "registered"
              /\ wire' = Append(wire, event)
              /\ unheard' = unheard \ {event[1]}
           \/ /\ unheard' = unheard \union {event[1]}
              /\ UNCHANGED wire
    /\ UNCHANGED <<wsVars, nodeStatsCache, hub, signalState, published,
                   forgotten>>

\* handlePublicStream, after the upgrade that the agent sees as 'open'
HubSubscribes ==
    /\ ws = "open" /\ hub = "away"
    /\ hub' = "registered"
    /\ UNCHANGED <<wsVars, wire, nodeStatsCache, unheard, platformVars>>

\* The platform's process ends and is started again.  What the store holds of
\* its schedule is scheduled again and not streamed; the rest is forgotten.
PlatformRestarts ==
    /\ \E kept \in SUBSET ActiveSignals :
           /\ signalState' = [s \in Signals |->
                                 IF s \in ActiveSignals \ kept THEN "unborn"
                                 ELSE signalState[s]]
           /\ forgotten' = forgotten \union (ActiveSignals \ kept)
    /\ eventStream' = << >>
    /\ unheard' = unheard \union SignalsIn(eventStream)
    /\ hub' = IF ws = "open" THEN "lost" ELSE hub
    /\ UNCHANGED <<wsVars, wire, nodeStatsCache, published>>

-----------------------------------------------------------------------------
(* The socket *)

\* the first connect(), in the same step as the caller's fetchNodeStats
FirstConnect ==
    /\ FetchNodeStats
    /\ ws' = "connecting"
    /\ UNCHANGED <<reconnectAttempts, reconnectTimer, wire, hub, unheard,
                   platformVars>>

SocketOpens ==
    /\ ws = "connecting"
    /\ ws' = "open"
    /\ reconnectAttempts' = 0
    /\ UNCHANGED <<reconnectTimer, wire, nodeStatsCache, hub, unheard,
                   platformVars>>

MayReconnectLost == ws = "open" /\ reconnectAttempts < MaxReconnectAttempts
MayReconnect == reconnectAttempts < MaxReconnectAttempts

\* the close event of a socket that was open or never opened: messages still
\* under way are lost, and a reconnect is scheduled unless it was tried too often
SocketCloses ==
    /\ ws \in {"connecting", "open"}
    /\ ws' = "closed"
    /\ hub' = "away"
    /\ wire' = << >>
    /\ unheard' = unheard \union SignalsIn(wire)
    /\ IF MayReconnect
       THEN /\ reconnectAttempts' = reconnectAttempts + 1
            /\ reconnectTimer' = TRUE
       ELSE UNCHANGED <<reconnectAttempts, reconnectTimer>>
    /\ UNCHANGED <<nodeStatsCache, platformVars>>

\* the reconnect timer fires and connect() opens a new socket
Reconnect ==
    /\ reconnectTimer
    /\ reconnectTimer' = FALSE
    /\ ws' = "connecting"
    /\ UNCHANGED <<reconnectAttempts, wire, nodeStatsCache, hub, unheard,
                   platformVars>>

\* the message handler takes the first message
TakeMessage ==
    /\ wire # << >>
    /\ wire' = Tail(wire)
    /\ UNCHANGED <<wsVars, nodeStatsCache, hub, unheard, platformVars>>

\* The process is gone, and what was on its way to it.  The next one is told of
\* nothing that was streamed before.
ConsumerReset ==
    /\ ws' = "none"
    /\ reconnectAttempts' = 0
    /\ reconnectTimer' = FALSE
    /\ wire' = << >>
    /\ nodeStatsCache' = << >>
    /\ hub' = "away"
    /\ unheard' = unheard \union ActiveSignals \union SignalsIn(wire)
    /\ UNCHANGED platformVars

ConsumerInit ==
    /\ ws = "none"
    /\ reconnectAttempts = 0
    /\ reconnectTimer = FALSE
    /\ wire = << >>
    /\ nodeStatsCache = << >>
    /\ signalState = [s \in Signals |-> "unborn"]
    /\ eventStream = << >>
    /\ hub = "away"
    /\ published = [s \in Signals |-> 0]
    /\ unheard = {} /\ forgotten = {}
-----------------------------------------------------------------------------
ConsumerTypeOK ==
    /\ ws \in {"none", "connecting", "open", "closed"}
    /\ reconnectAttempts \in 0..MaxReconnectAttempts
    /\ reconnectTimer \in BOOLEAN
    /\ wire \in Seq(Events) /\ eventStream \in Seq(Events)
    /\ hub \in {"away", "registered", "lost"}
    /\ nodeStatsCache \in TopNodes \union {<< >>}
    /\ signalState \in [Signals -> {"unborn", "active", "closed"}]
    /\ published \in [Signals -> 0..MaxPublished]
    /\ unheard \subseteq Signals /\ forgotten \subseteq Signals

\* A reconnect timer is only ever armed while the socket is closed (consumer.ts
\* 198-221): the agent never opens a second socket beside a live one, on which
\* every signal would arrive, and be traded, twice.  And a socket stays closed
\* without a timer only when all the attempts have been used up.
OneSocketAtATime ==
    /\ reconnectTimer => ws = "closed"
    /\ ws = "closed" /\ ~reconnectTimer
         => reconnectAttempts = MaxReconnectAttempts
=============================================================================
