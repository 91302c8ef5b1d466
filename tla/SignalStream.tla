---------------------------- MODULE SignalStream ----------------------------
(***************************************************************************)
(* The WebSocket streams of the verifier: the hub that fans every signal   *)
(* event out to the channels of the connected sessions, the handlers that  *)
(* pump a channel into a socket, and, for V2 sessions, the filter on the   *)
(* user's subscriptions.  Hub, handlers and refresh goroutines run         *)
(* concurrently and share the client maps, the channels and the filter     *)
(* without a lock of their own.                                            *)
(***************************************************************************)
EXTENDS SubscriptionCacheV2, Sequences, SequencesExt

CONSTANTS
    Configurations,     \* what the sessions ask for: the stream of one "node",
                        \* "public", "v2", or "none"
    Spellings,          \* of an address: "lower" and "checksummed"
    NodeAsked,          \* the node id in the request of a "node" session
    RemoteAddr,         \* the address and port a session's client connects from
    ChannelCap,         \* 64 in the code
    MaxEvents,          \* bound on the events emitted, by configuration
    Nobody,             \* no session
    NoCrash

ASSUME StreamAssumption ==
    /\ Configurations \subseteq
        [Sessions -> {"node", "public", "v2", "none"}]
    /\ Spellings \subseteq {"lower", "checksummed"}
    /\ NodeAsked \in [Sessions -> [provider : Providers, spelled : Spellings]]
    /\ DOMAIN RemoteAddr = Sessions
    /\ ChannelCap \in Nat \ {0} /\ MaxEvents \in [Configurations -> Nat]
    /\ Nobody \notin Sessions

VARIABLES
    kind,               \* the configuration of this run
    phase,              \* where each handler stands
    registered,         \* the sessions whose channel is in a map of hub.subs
    channel,            \* the events each channel buffers
    closed,             \* channels that have been closed
    emitted,            \* the events the hub has received
    fanout,             \* what the hub is doing with the last one
    filter,             \* subscribedProviders of a V2 session
    filling,            \* providers the refresh has still to put in the filter
    filterDue,          \* when the session's refresh ticker fires next
    crashed,            \* what ended the process, and over which session
    joined,             \* history: the first event a session is owed
    openedAt,           \* history: when it connected
    taken,              \* history: the events the handler took, in order
    dropped,            \* history: events dropped on a full channel
    displaced,          \* history: sessions another one put out of the map
    leftDuringFanout    \* history: sessions that left during this fan-out

hubVars == <<registered, channel, closed, emitted, fanout>>
filterVars == <<filter, filling, filterDue>>
historyVars == <<joined, openedAt, taken, dropped, displaced, leftDuringFanout>>
streamVars == <<kind, phase, hubVars, filterVars, crashed,
                historyVars>>
cacheSide == <<now, rowVars, cacheVars>>
vars == <<cacheSide, streamVars>>

V2 == {s \in Sessions : kind[s] = "v2"}
Idle == [at |-> "idle", visited |-> {}, owed |-> {}, held |-> Nobody]

NodeIds == [provider : Providers, spelled : Spellings]

\* the map of hub.subs a session registers in: that of a node id, to the letter,
\* or that of "*"
Listens(s, id) == kind[s] = "node" /\ NodeAsked[s] = id
Wildcard(s) == kind[s] \in {"public", "v2"}

\* in a map there is one channel for each address clients connect from
SameEntry(s) ==
    {t \in Sessions : /\ RemoteAddr[t] = RemoteAddr[s]
                      /\ Wildcard(t) <=> Wildcard(s)
                      /\ ~Wildcard(s) => NodeAsked[t] = NodeAsked[s]}
PutOutBy(s) == (registered \intersect SameEntry(s)) \ {s}

Interested(stage) ==
    IF stage = "node" THEN {s \in Sessions : Listens(s, Last(emitted))}
                      ELSE {s \in Sessions : Wildcard(s)}

TypeOK ==
    /\ CacheTypeOK
    /\ kind \in Configurations
    /\ phase \in [Sessions -> {"new", "loading", "pumping", "leaving",
                               "unregistered", "gone"}]
    /\ registered \subseteq Sessions
    /\ closed \subseteq Sessions
    /\ channel \in [Sessions -> Seq(1..Len(emitted))]
    /\ emitted \in Seq(NodeIds)
    /\ fanout \in [at : {"idle", "node", "wildcard"}, visited : SUBSET Sessions,
                   owed : SUBSET Sessions, held : Sessions \union {Nobody}]
    /\ filter \in [Sessions -> SUBSET Providers]
    /\ filling \in [Sessions -> (SUBSET Providers) \union {NoList}]
    /\ filterDue \in [Sessions -> Nat]
    /\ crashed \in [by : {"send", "map", "ping"}, over : Sessions]
                    \union {NoCrash}
    /\ joined \in [Sessions -> Nat] /\ openedAt \in [Sessions -> 0..MaxTime]
    /\ taken \in [Sessions -> Seq(1..Len(emitted))]
    /\ dropped \in [Sessions -> SUBSET (1..Len(emitted))]
    /\ leftDuringFanout \subseteq Sessions /\ displaced \subseteq Sessions

Init ==
    /\ CacheInit
    /\ kind \in Configurations
    /\ phase = [s \in Sessions |-> "new"]
    /\ registered = {} /\ closed = {}
    /\ channel = [s \in Sessions |-> <<>>]
    /\ emitted = <<>>
    /\ fanout = Idle
    /\ filter = [s \in Sessions |-> {}]
    /\ filling = [s \in Sessions |-> NoList]
    /\ filterDue = [s \in Sessions |-> 0]
    /\ crashed = NoCrash
    /\ joined = [s \in Sessions |-> 0]
    /\ openedAt = [s \in Sessions |-> 0]
    /\ taken = [s \in Sessions |-> <<>>]
    /\ dropped = [s \in Sessions |-> {}]
    /\ leftDuringFanout = {} /\ displaced = {}

-----------------------------------------------------------------------------
\* the process is up; a session keeps its kind
Running == crashed = NoCrash /\ UNCHANGED kind

(* The hub *)

\* run takes an event from the source; all that is kept of it is the node id
Receive(id) ==
    /\ Running
    /\ fanout.at = "idle" /\ Len(emitted) < MaxEvents[kind]
    /\ emitted' = Append(emitted, id)
    /\ fanout' = [Idle EXCEPT !.at = "node",
                              !.owed = {s \in registered : Listens(s, id)}]
    /\ leftDuringFanout' = {}
    /\ UNCHANGED <<registered, channel, closed, joined, openedAt, taken,
                   dropped, displaced, filterVars, phase, crashed, cacheSide>>

\* Range visits a key at most once and reads its value then
Visit(s) ==
    /\ Running
    /\ fanout.at # "idle" /\ fanout.held = Nobody
    /\ s \in registered \intersect Interested(fanout.at)
    /\ SameEntry(s) \intersect fanout.visited = {}
    /\ fanout' = [fanout EXCEPT !.visited = @ \union {s}, !.held = s]
    /\ UNCHANGED <<registered, channel, closed, emitted, filterVars,
                   historyVars, phase, crashed, cacheSide>>

\* the send does not wait: a full channel loses the event, a closed one panics
Send ==
    LET s == fanout.held
        event == Len(emitted)
    IN  /\ Running
        /\ s # Nobody
        /\ fanout' = [fanout EXCEPT !.held = Nobody]
        /\ CASE s \in closed ->
                    /\ crashed' = [by |-> "send", over |-> s]
                    /\ UNCHANGED <<channel, dropped>>
             [] s \notin closed /\ Len(channel[s]) < ChannelCap ->
                    /\ channel' = [channel EXCEPT ![s] = Append(@, event)]
                    /\ UNCHANGED <<crashed, dropped>>
             [] OTHER ->
                    /\ dropped' = [dropped EXCEPT ![s] = @ \union {event}]
                    /\ UNCHANGED <<crashed, channel>>
        /\ UNCHANGED <<registered, closed, emitted, filterVars, phase,
                       joined, openedAt, taken, displaced, leftDuringFanout,
                       cacheSide>>

\* Range may end when every key that was there all along has been visited
RangeMayEnd == fanout.owed \intersect registered \subseteq fanout.visited
OnlyItsOwnMap == Idle
NextMap ==
    IF fanout.at = "node"
    THEN [Idle EXCEPT !.at = "wildcard",
                      !.owed = {s \in registered : Wildcard(s)}]
    ELSE Idle
NextRange ==
    /\ Running
    /\ fanout.at # "idle" /\ fanout.held = Nobody /\ RangeMayEnd
    /\ fanout' = NextMap
    /\ UNCHANGED <<registered, channel, closed, emitted, filterVars,
                   historyVars, phase, crashed, cacheSide>>

-----------------------------------------------------------------------------
(* A session *)

\* Upgrade and subscribe; a V2 session then loads its filter.  An event whose
\* fan-out is under way may or may not reach it.  A client that was cut off may
\* connect from its old address before the old session has left: its channel
\* takes the other's place.
Connect(s) ==
    /\ Running
    /\ phase[s] = "new" /\ kind[s] # "none"
    /\ phase' = [phase EXCEPT ![s] = IF s \in V2 THEN "loading" ELSE "pumping"]
    /\ registered' = (registered \ PutOutBy(s)) \union {s}
    /\ displaced' = displaced \union PutOutBy(s)
    /\ joined' = [joined EXCEPT ![s] = Len(emitted) + 1]
    /\ openedAt' = [openedAt EXCEPT ![s] = now]
    /\ UNCHANGED <<channel, closed, emitted, fanout, filterVars, taken, dropped,
                   leftDuringFanout, crashed,
                   cacheSide>>

\* unsub: Delete, by the address, whoever's channel is there; then close its own
StillRegistered(s) == registered
Unregistered(s) == registered \ SameEntry(s)
Unregister(s) ==
    /\ Running
    /\ phase[s] = "leaving"
    /\ phase' = [phase EXCEPT ![s] = "unregistered"]
    /\ registered' = Unregistered(s)
    /\ displaced' = displaced \union PutOutBy(s)
    /\ leftDuringFanout' =
        leftDuringFanout \union IF fanout.at = "idle" THEN {} ELSE {s}
    /\ UNCHANGED <<channel, closed, emitted, fanout, filterVars,
                   joined, openedAt, taken, dropped, crashed,
                   cacheSide>>

CloseChannel(s) ==
    /\ Running
    /\ phase[s] = "unregistered"
    /\ phase' = [phase EXCEPT ![s] = "gone"]
    /\ closed' = closed \union {s}
    /\ UNCHANGED <<registered, channel, emitted, fanout, filterVars,
                   historyVars, crashed, cacheSide>>

-----------------------------------------------------------------------------
(* The filter of a V2 session.  Its refresh goroutine outlives the session,  *)
(* but then changes nothing anyone sees and is left out.                     *)

LoadDue(s) ==
    \/ phase[s] = "loading"
    \/ phase[s] = "pumping" /\ now >= filterDue[s]

\* refreshProviders replaces the map by an empty one, then fills it
KeptEntries(s) == filter[s]
NoEntries(s) == {}
Rebuild(s, providers) ==
    /\ filter' = [filter EXCEPT ![s] = NoEntries(s)]
    /\ filling' = [filling EXCEPT ![s] = providers]

\* the first load ends: the ticker starts and the pump runs
PumpStarts(s) ==
    IF phase[s] = "loading"
    THEN /\ phase' = [phase EXCEPT ![s] = "pumping"]
         /\ filterDue' = [filterDue EXCEPT ![s] = now + RefreshEvery]
    ELSE UNCHANGED <<phase, filterDue>>

\* GetSubscribedProviders: the cached list, or a read of the database
LoadFilter(s) ==
    /\ Running
    /\ s \in V2 /\ LoadDue(s)
    /\ fetch[s] = NoList /\ filling[s] = NoList
    /\ IF cache # NoList
       THEN /\ Rebuild(s, cache)
            /\ UNCHANGED <<phase, fetch, fetchedAt, errors>>
       ELSE \/ ReadActive(s) /\ UNCHANGED <<phase, filter, filling>>
            \/ /\ ReadFails
               /\ phase' = [phase EXCEPT ![s] = "pumping"]
               /\ UNCHANGED <<filter, filling>>
    /\ filterDue' = [filterDue EXCEPT ![s] = now + RefreshEvery]
    /\ UNCHANGED <<hubVars, historyVars, crashed, cache,
                   refreshDue, now, rowVars>>

StoreOwn(s) ==
    /\ Running
    /\ s \in V2
    /\ StoreFetched(s)
    /\ Rebuild(s, fetch[s])
    /\ UNCHANGED <<phase, hubVars, filterDue, historyVars, crashed,
                   fetchedAt, refreshDue, errors, now, rowVars>>

FillOne(s) ==
    /\ Running
    /\ filling[s] # NoList
    /\ \/ \E p \in filling[s] :
            /\ filter' = [filter EXCEPT ![s] = @ \union {p}]
            /\ filling' = [filling EXCEPT ![s] = @ \ {p}]
            /\ UNCHANGED <<phase, filterDue>>
       \/ /\ filling[s] = {}
          /\ filling' = [filling EXCEPT ![s] = NoList]
          /\ PumpStarts(s)
          /\ UNCHANGED filter
    /\ UNCHANGED <<hubVars, historyVars, crashed, cacheSide>>

-----------------------------------------------------------------------------
(* The write pump *)

\* the filter holds lower-case addresses, the event its sender's spelling
Passes(s, event) ==
    s \in V2 => event.spelled = "lower" /\ event.provider \in filter[s]

Take(s) ==
    /\ channel' = [channel EXCEPT ![s] = Tail(@)]
    /\ taken' = [taken EXCEPT ![s] = Append(@, Head(channel[s]))]

Skip(s, event) ==
    /\ ~Passes(s, event)
    /\ Take(s)
    /\ UNCHANGED <<phase, crashed>>

\* a write to a client that left may still succeed; one that meets the ping
\* goroutine's write makes the library panic in either of the two, and only
\* the handler's panic is recovered
Write(s, event) ==
    /\ Passes(s, event)
    /\ Take(s)
    /\ \/ UNCHANGED <<phase, crashed>>
       \/ /\ phase' = [phase EXCEPT ![s] = "leaving"]
          /\ UNCHANGED crashed
       \/ /\ crashed' = [by |-> "ping", over |-> s]
          /\ UNCHANGED phase

\* the read of the map meets a write of the refresh: the runtime may notice
MapRace(s) ==
    /\ s \in V2 /\ filling[s] \notin {NoList, {}}
    /\ crashed' = [by |-> "map", over |-> s]
    /\ UNCHANGED <<channel, taken, phase>>

Pump(s) ==
    /\ Running
    /\ phase[s] = "pumping" /\ channel[s] # <<>>
    /\ LET event == emitted[Head(channel[s])]
       IN  Skip(s, event) \/ Write(s, event) \/ MapRace(s)
    /\ UNCHANGED <<registered, closed, emitted, fanout, filterVars,
                   joined, openedAt, dropped, displaced, leftDuringFanout,
                   cacheSide>>

-----------------------------------------------------------------------------
\* tickers fire and reads end on time: the clock waits for them
Tick ==
    /\ Running
    /\ now < MaxTime /\ V2 # {}
    /\ CacheOnTime
    /\ \A s \in V2 :
        /\ LoadDue(s) => fetch[s] # NoList
        /\ filling[s] = NoList
    /\ now' = now + 1
    /\ UNCHANGED <<rowVars, cacheVars, phase, hubVars, filterVars,
                   historyVars, crashed>>

\* a step of the subscription handlers or of refreshLoop; the rows of a user
\* nobody streams for are not followed
OutsideStreams ==
    /\ Running /\ V2 # {}
    /\ UNCHANGED <<now, phase, hubVars, filterVars, historyVars, crashed>>

Next ==
    \/ \E id \in NodeIds : Receive(id)
    \/ \E s \in Sessions : Visit(s)
    \/ Send
    \/ NextRange
    \/ \E s \in Sessions : Connect(s)
    \/ \E s \in Sessions : LoadFilter(s)
    \/ \E s \in Sessions : StoreOwn(s)
    \/ \E s \in Sessions : FillOne(s)
    \/ \E s \in Sessions : Pump(s)
    \/ \E s \in Sessions : Unregister(s)
    \/ \E s \in Sessions : CloseChannel(s)
    \/ \E p \in Providers : Subscribe(p) /\ OutsideStreams
    \/ \E p \in Providers : Unsubscribe(p) /\ OutsideStreams
    \/ RefreshAllUsers /\ OutsideStreams
    \/ StoreRefreshed /\ OutsideStreams
    \/ Tick

Spec == Init /\ [][Next]_vars

-----------------------------------------------------------------------------
(* Properties *)

\* what session s has taken or will take
Stream(s) == taken[s] \o channel[s]

\* A session gets the events of its map in the order the hub received them and
\* none twice, and between two events a session that is served has every event
\* since it connected that spells the node id as it asked for it, but those its
\* channel had no room for: unless a session from the same address connected
\* after it and took its place in the map, or left after it and took its entry
\* away (streamHub.run, subscribe).
StreamComplete ==
    \A s \in Sessions :
        /\ \A i, j \in DOMAIN Stream(s) : i < j => Stream(s)[i] < Stream(s)[j]
        /\ phase[s] \in {"loading", "pumping"} /\ s \notin displaced
              /\ fanout.at = "idle" =>
            \A n \in joined[s]..Len(emitted) :
                Wildcard(s) \/ Listens(s, emitted[n]) =>
                    n \in Range(Stream(s)) \union dropped[s]

\* The hub's send on a closed channel, which ends the whole process, needs a
\* session that leaves while the event is being fanned out: one that had left
\* before is in no map any more (the order of Delete and close in unsub).
SendPanicsOnlyOnLeaver ==
    crashed # NoCrash /\ crashed.by = "send" =>
        crashed.over \in leftDuringFanout

\* two refresh intervals, a read into the cache, and a read that was stored
\* after it: how far a filter may lag behind the database
Lag == 2 * RefreshEvery + 2 * FetchTime + errors * RefreshEvery

\* The filter lets a provider's signals through for at most Lag after the
\* subscription ended, though no handler invalidates the cache
\* (GetSubscribedProviders, handleV2Unsubscribe).
AccessEnds ==
    \A s \in V2 : \A p \in filter[s] \ active :
        phase[s] = "pumping" => now - activeUntil[p] <= Lag

\* The pump lets an event of an active subscription through, unless the filter
\* is being rebuilt, or the subscription began or the session connected no more
\* than Lag ago, or the provider does not spell its address in lower case: such
\* an event reaches no subscriber (handleV2Stream, handleV2Subscribe).
SubscribersServed ==
    \A s \in V2, id \in NodeIds :
        /\ id.provider \in active /\ ~Passes(s, id)
        /\ phase[s] = "pumping" /\ filling[s] = NoList
        => \/ id.spelled # "lower"
           \/ now - activeSince[id.provider] <= Lag
           \/ now - openedAt[s] <= Lag
=============================================================================
