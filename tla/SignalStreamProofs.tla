------------------------- MODULE SignalStreamProofs -------------------------
(* Proofs about the streams, for any sessions, providers, channel capacity, *)
(* intervals and number of failed reads.                                    *)
EXTENDS SignalStream, TLAPS

(* A session is in the hub's map while its handler runs and until it leaves, *)
(* unless another one put it out.                                            *)
Served(s) == phase[s] \in {"loading", "pumping", "leaving"}

RegisteredWhileServed ==
  /\ \A s \in registered : Served(s)
  /\ \A s \in Sessions : Served(s) => s \in registered \/ s \in displaced
  /\ closed = {s \in Sessions : phase[s] = "gone"}

(* The hub holds a channel only during a fan-out, and one whose session was  *)
(* served when it was visited; a session is in the map of one stage only.    *)
HubInv ==
  /\ fanout.at = "idle" => fanout = Idle
  /\ fanout.at # "idle" => emitted # <<>>
  /\ fanout.visited \subseteq Interested(fanout.at)
  /\ fanout.held # Nobody =>
       /\ fanout.held \in fanout.visited
       /\ Served(fanout.held) \/ fanout.held \in leftDuringFanout

(* The events session s has been sent or has lost.                           *)
Offered(s) == Range(Stream(s)) \union dropped[s]

(* The last event has not been offered to s yet.                             *)
StillToCome(s) ==
  \/ fanout.at = "node" /\ Wildcard(s)
  \/ fanout.at # "idle" /\ s \in Interested(fanout.at) /\ s \notin fanout.visited
  \/ fanout.held = s

(* Streams are in order, and the hub sends an event to a session once.       *)
InOrder ==
  \A s \in Sessions :
    /\ \A i, j \in DOMAIN Stream(s) : i < j => Stream(s)[i] < Stream(s)[j]
    /\ StillToCome(s) => Len(emitted) \notin Offered(s)

(* What a session is owed it has been offered, the last event apart while    *)
(* the hub still owes it.                                                    *)
Complete ==
  \A s \in registered :
    /\ joined[s] >= 1
    /\ \A n \in joined[s]..Len(emitted) :
         Wildcard(s) \/ Listens(s, emitted[n]) =>
           n \in Offered(s) \/ (n = Len(emitted) /\ StillToCome(s))
    /\ joined[s] <= Len(emitted) /\ fanout.at # "idle" /\ s \in Interested(fanout.at)
         => s \in fanout.owed

-----------------------------------------------------------------------------
(* A list and the database say different things about p ...                  *)
Differ(list, p) == (p \in list) # (p \in active)

(* ... since the last change of p's row at the earliest.                     *)
ChangedAt(p) == IF p \in active THEN activeSince[p] ELSE activeUntil[p]

(* How far failed reads put off a refresh, and how old a cached list may be. *)
PutOff == errors * RefreshEvery
CacheLag == RefreshEvery + 2 * FetchTime + PutOff

(* What the reads under way will store.                                      *)
FetchesAreFresh ==
  \A r \in Readers : fetch[r] # NoList =>
    /\ fetchedAt[r] <= now /\ now <= fetchedAt[r] + FetchTime
    /\ \A p \in Providers : Differ(fetch[r], p) => ChangedAt(p) >= fetchedAt[r]

CacheAge ==
  /\ now <= refreshDue /\ refreshDue <= now + RefreshEvery
  /\ fetch[Refresher] # NoList => refreshDue = fetchedAt[Refresher] + RefreshEvery
  /\ cache # NoList =>
       \A p \in Providers : Differ(cache, p) =>
         ChangedAt(p) + PutOff + RefreshEvery + FetchTime
           + (IF fetch[Refresher] = NoList THEN 0 ELSE RefreshEvery) >= refreshDue

(* What the filter of s holds once it has been filled.                       *)
Coming(s) == filter[s] \union (IF filling[s] = NoList THEN {} ELSE filling[s])

(* The first load of a session starts when it connects; a filter read from   *)
(* the database replaces an empty one.                                       *)
FirstLoad(s) ==
  /\ cache = NoList \/ fetch[s] # NoList => filter[s] = {} /\ filling[s] = NoList
  /\ phase[s] = "new" => filter[s] = {} /\ filling[s] = NoList /\ fetch[s] = NoList
  /\ phase[s] = "loading" /\ filling[s] = NoList => filter[s] = {}
  /\ phase[s] = "loading" /\ filling[s] = NoList /\ fetch[s] = NoList => now = openedAt[s]
  /\ phase[s] = "pumping" /\ cache = NoList /\ fetch[s] = NoList =>
       openedAt[s] + PutOff >= filterDue[s] /\ now <= filterDue[s]
  /\ phase[s] = "pumping" /\ fetch[s] # NoList =>
       /\ openedAt[s] + PutOff >= fetchedAt[s]
       /\ filterDue[s] = fetchedAt[s] + RefreshEvery
  /\ phase[s] = "pumping" => filterDue[s] <= now + RefreshEvery

(* A filter differs from the database no longer than the next refresh allows.*)
FilterAge(s) ==
  \A p \in Providers :
    /\ filling[s] # NoList /\ Differ(Coming(s), p) => ChangedAt(p) + CacheLag >= now
    /\ phase[s] = "pumping" /\ Differ(Coming(s), p) =>
         /\ \/ ChangedAt(p) + Lag >= filterDue[s]
            \/ p \in active /\ openedAt[s] + Lag >= filterDue[s]
         /\ \/ ChangedAt(p) + Lag >= now
            \/ p \in active /\ openedAt[s] + Lag >= now

FiltersInv == \A s \in V2 : FirstLoad(s) /\ FilterAge(s)

-----------------------------------------------------------------------------
(* Sequences.                                                                *)
LEMMA Widen ==
  ASSUME NEW m \in Nat, NEW n \in Nat, m <= n, NEW q \in Seq(1..m)
  PROVE  q \in Seq(1..n)
<1>1. Len(q) \in Nat /\ DOMAIN q = 1..Len(q) /\ \A i \in 1..Len(q) : q[i] \in 1..n
  OBVIOUS
<1>2. q = [i \in 1..Len(q) |-> q[i]]
  OBVIOUS
<1> QED BY <1>1, <1>2

LEMMA TakingKeepsStream ==
  ASSUME NEW S, NEW q \in Seq(S), NEW c \in Seq(S), c # <<>>
  PROVE  Append(q, Head(c)) \o Tail(c) = q \o c
OBVIOUS

LEMMA SendingAppends ==
  ASSUME NEW S, NEW q \in Seq(S), NEW c \in Seq(S), NEW e \in S
  PROVE  /\ q \o Append(c, e) = Append(q \o c, e)
         /\ Range(Append(q \o c, e)) = Range(q \o c) \union {e}
<1>1. q \o Append(c, e) = Append(q \o c, e)
  OBVIOUS
<1> DEFINE z == q \o c
<1>2. z \in Seq(S)
  OBVIOUS
<1> HIDE DEF z
<1>3. Range(Append(z, e)) = Range(z) \union {e}
  <2>1. /\ DOMAIN Append(z, e) = 1..Len(z) + 1 /\ DOMAIN z = 1..Len(z) /\ Len(z) \in Nat
        /\ Append(z, e)[Len(z) + 1] = e
        /\ \A i \in 1..Len(z) : Append(z, e)[i] = z[i]
    BY <1>2
  <2> QED BY <2>1 DEF Range
<1> QED BY <1>1, <1>3 DEF z

-----------------------------------------------------------------------------
(* Types.                                                                    *)
LEMMA InitTypeOK == Init => TypeOK
BY StreamAssumption, CacheAssumption DEF Init, TypeOK, CacheInit, CacheTypeOK, Idle

(* The cache and the rows.                                                   *)
LEMMA CacheTypes ==
  ASSUME CacheTypeOK,
         \/ \E p \in Providers : Subscribe(p) /\ UNCHANGED now
         \/ \E p \in Providers : Unsubscribe(p) /\ UNCHANGED now
         \/ RefreshAllUsers /\ UNCHANGED now
         \/ StoreRefreshed /\ UNCHANGED now
         \/ \E r \in Readers : StoreFetched(r)
              /\ UNCHANGED <<fetchedAt, refreshDue, errors, now, rowVars>>
         \/ \E r \in Readers : (ReadActive(r) \/ ReadFails)
              /\ UNCHANGED <<cache, refreshDue, now, rowVars>>
         \/ UNCHANGED cacheSide
  PROVE  CacheTypeOK'
<1> USE CacheAssumption DEF CacheTypeOK, rowVars, cacheVars, cacheSide
<1>0. Refresher \in Readers
  BY DEF Readers
<1>1. ASSUME NEW p \in Providers, Subscribe(p), UNCHANGED now PROVE CacheTypeOK'
  BY <1>1 DEF Subscribe
<1>2. ASSUME NEW p \in Providers, Unsubscribe(p), UNCHANGED now PROVE CacheTypeOK'
  BY <1>2 DEF Unsubscribe
<1>3. ASSUME RefreshAllUsers, UNCHANGED now PROVE CacheTypeOK'
  BY <1>0, <1>3 DEF RefreshAllUsers, ReadActive, ActiveProviders, ReadFails
<1>4. ASSUME NEW r \in Readers, StoreFetched(r),
             UNCHANGED <<fetchedAt, refreshDue, errors, now, rowVars>>
      PROVE  CacheTypeOK'
  BY <1>4 DEF StoreFetched
<1>5. ASSUME NEW r \in Readers, ReadActive(r) \/ ReadFails,
             UNCHANGED <<cache, refreshDue, now, rowVars>>
      PROVE  CacheTypeOK'
  BY <1>5 DEF ReadActive, ActiveProviders, ReadFails
<1>6. ASSUME StoreRefreshed, UNCHANGED now PROVE CacheTypeOK'
  BY <1>0, <1>4, <1>6 DEF StoreRefreshed
<1>7. CASE UNCHANGED cacheSide
  BY <1>7
<1> QED BY <1>1, <1>2, <1>3, <1>4, <1>5, <1>6, <1>7

(* The hub and the sessions.                                                 *)
StreamTypeOK ==
  /\ kind \in [Sessions -> {"node", "public", "v2", "none"}]
  /\ kind \in Configurations
  /\ TypeOK

LEMMA TypesOf == TypeOK <=> StreamTypeOK
BY StreamAssumption DEF TypeOK, StreamTypeOK

LEMMA ReceiveTypes ==
  ASSUME TypeOK, NEW id \in NodeIds, Receive(id)
  PROVE  TypeOK'
<1>0. CacheTypeOK'
  BY CacheTypes DEF TypeOK, Receive
<1>1. emitted' \in Seq(NodeIds) /\ Len(emitted') = Len(emitted) + 1 /\ Len(emitted) \in Nat
  <2>1. emitted \in Seq(NodeIds) /\ emitted' = Append(emitted, id)
    BY DEF TypeOK, Receive
  <2> QED BY <2>1
<1>2. channel' \in [Sessions -> Seq(1..Len(emitted'))]
      /\ taken' \in [Sessions -> Seq(1..Len(emitted'))]
  <2>1. \A q \in Seq(1..Len(emitted)) : q \in Seq(1..Len(emitted'))
    BY <1>1, Widen
  <2> QED BY <2>1 DEF TypeOK, Receive
<1>3. dropped' \in [Sessions -> SUBSET (1..Len(emitted'))]
  BY <1>1 DEF TypeOK, Receive
<1>4. fanout' \in [at : {"idle", "node", "wildcard"}, visited : SUBSET Sessions,
                   owed : SUBSET Sessions, held : Sessions \union {Nobody}]
  BY DEF TypeOK, Receive, Idle
<1> QED BY <1>0, <1>1, <1>2, <1>3, <1>4 DEF TypeOK, Receive, Running, filterVars

LEMMA SendTypes ==
  ASSUME TypeOK, HubInv, Send
  PROVE  TypeOK'
<1> DEFINE s == fanout.held
           e == Len(emitted)
<1>0. CacheTypeOK'
  BY CacheTypes DEF TypeOK, Send
<1>1. s \in Sessions /\ e \in Nat /\ e \in 1..e /\ UNCHANGED emitted
  BY DEF TypeOK, HubInv, Idle, Send
<1>2. fanout' \in [at : {"idle", "node", "wildcard"}, visited : SUBSET Sessions,
                   owed : SUBSET Sessions, held : Sessions \union {Nobody}]
  BY DEF TypeOK, Send
<1>3. channel' \in [Sessions -> Seq(1..e)]
  <2>1. Append(channel[s], e) \in Seq(1..e)
    BY <1>1 DEF TypeOK
  <2> QED BY <2>1, <1>1 DEF TypeOK, Send
<1>4. dropped' \in [Sessions -> SUBSET (1..e)]
  <2>1. UNCHANGED dropped \/ dropped' = [dropped EXCEPT ![s] = @ \union {e}]
    BY DEF Send
  <2>2. dropped \in [Sessions -> SUBSET (1..e)]
    BY DEF TypeOK
  <2> QED BY <1>1, <2>1, <2>2
<1>5. crashed' \in [by : {"send", "map", "ping"}, over : Sessions] \union {NoCrash}
  <2>1. UNCHANGED crashed \/ crashed' = [by |-> "send", over |-> s]
    BY DEF Send
  <2>2. [by |-> "send", over |-> s] \in [by : {"send", "map", "ping"}, over : Sessions]
    BY <1>1
  <2> QED BY <2>1, <2>2 DEF TypeOK
<1> QED BY <1>0, <1>1, <1>2, <1>3, <1>4, <1>5 DEF TypeOK, Send, Running, filterVars

LEMMA RangeTypes ==
  ASSUME TypeOK, NextRange \/ \E s \in Sessions : Visit(s)
  PROVE  TypeOK'
<1>0. CacheTypeOK'
  BY CacheTypes DEF TypeOK, NextRange, Visit
<1>1. fanout' \in [at : {"idle", "node", "wildcard"}, visited : SUBSET Sessions,
                   owed : SUBSET Sessions, held : Sessions \union {Nobody}]
  <2>1. CASE NextRange
    BY <2>1 DEF TypeOK, NextRange, NextMap, Idle
  <2>2. ASSUME NEW s \in Sessions, Visit(s)
        PROVE  fanout' = [fanout EXCEPT !.visited = @ \union {s}, !.held = s]
    BY <2>2 DEF Visit
  <2>3. fanout \in [at : {"idle", "node", "wildcard"}, visited : SUBSET Sessions,
                    owed : SUBSET Sessions, held : Sessions \union {Nobody}]
    BY DEF TypeOK
  <2>4. CASE \E s \in Sessions : Visit(s)
    <3>1. PICK s \in Sessions : Visit(s)
      BY <2>4
    <3>2. fanout' = [at |-> fanout.at, visited |-> fanout.visited \union {s},
                     owed |-> fanout.owed, held |-> s]
      BY <2>2, <2>3, <3>1
    <3>3. /\ fanout.at \in {"idle", "node", "wildcard"}
          /\ fanout.visited \union {s} \in SUBSET Sessions
          /\ fanout.owed \in SUBSET Sessions
      BY <2>3
    <3> QED BY <3>2, <3>3
  <2> QED BY <2>1, <2>4
<1> QED BY <1>0, <1>1 DEF TypeOK, NextRange, Visit, Running, filterVars, historyVars

LEMMA SessionTypes ==
  ASSUME TypeOK, NEW s \in Sessions, Connect(s) \/ Unregister(s) \/ CloseChannel(s)
  PROVE  TypeOK'
<1> USE DEF TypeOK, Running, filterVars, historyVars
<1>0. CacheTypeOK'
  BY CacheTypes DEF Connect, Unregister, CloseChannel
<1>1. CASE Connect(s)
  <2>1. joined' \in [Sessions -> Nat] /\ openedAt' \in [Sessions -> 0..MaxTime]
    BY <1>1 DEF Connect, CacheTypeOK
  <2> QED BY <1>0, <1>1, <2>1 DEF Connect, PutOutBy
<1>2. CASE Unregister(s)
  BY <1>0, <1>2 DEF Unregister, Unregistered, PutOutBy
<1>3. CASE CloseChannel(s)
  BY <1>0, <1>3 DEF CloseChannel
<1> QED BY <1>1, <1>2, <1>3

LEMMA PumpTypes ==
  ASSUME TypeOK, NEW s \in Sessions, Pump(s)
  PROVE  TypeOK'
<1>0. CacheTypeOK'
  BY CacheTypes DEF TypeOK, Pump
<1> DEFINE n == Len(emitted)
<1>1. n \in Nat /\ UNCHANGED emitted /\ channel[s] # <<>>
  BY DEF TypeOK, Pump
<1>2. Take(s) \/ UNCHANGED <<channel, taken>>
  BY DEF Pump, Skip, Write, MapRace
<1>3. channel' \in [Sessions -> Seq(1..n)] /\ taken' \in [Sessions -> Seq(1..n)]
  <2>1. channel \in [Sessions -> Seq(1..n)] /\ taken \in [Sessions -> Seq(1..n)]
    BY DEF TypeOK
  <2>2. /\ Tail(channel[s]) \in Seq(1..n)
        /\ Append(taken[s], Head(channel[s])) \in Seq(1..n)
    BY <1>1, <2>1
  <2> QED BY <1>2, <2>1, <2>2 DEF Take
<1>4. phase' \in [Sessions -> {"new", "loading", "pumping", "leaving", "unregistered", "gone"}]
  BY DEF TypeOK, Pump, Skip, Write, MapRace
<1>5. crashed' \in [by : {"send", "map", "ping"}, over : Sessions] \union {NoCrash}
  BY DEF TypeOK, Pump, Skip, Write, MapRace
<1> QED BY <1>0, <1>1, <1>3, <1>4, <1>5 DEF TypeOK, Pump, Running, filterVars

(* The filters and the clock.                                                *)
LEMMA FilterTypes ==
  ASSUME TypeOK, NEW s \in Sessions, LoadFilter(s) \/ StoreOwn(s) \/ FillOne(s)
  PROVE  TypeOK'
<1>0. s \in Readers /\ now \in Nat /\ cache \in (SUBSET Providers) \union {NoList}
      /\ fetch[s] \in (SUBSET Providers) \union {NoList}
      /\ filling[s] \in (SUBSET Providers) \union {NoList}
  BY DEF TypeOK, CacheTypeOK, Readers
<1>1. CacheTypeOK'
  <2>1. CASE LoadFilter(s)
    BY <1>0, <2>1, CacheTypes DEF TypeOK, LoadFilter, cacheSide, cacheVars
  <2>2. CASE StoreOwn(s)
    BY <1>0, <2>2, CacheTypes DEF TypeOK, StoreOwn
  <2>3. CASE FillOne(s)
    BY <2>3, CacheTypes DEF TypeOK, FillOne
  <2> QED BY <2>1, <2>2, <2>3
<1>2. /\ filter' \in [Sessions -> SUBSET Providers]
      /\ filling' \in [Sessions -> (SUBSET Providers) \union {NoList}]
  <2>0. /\ filter \in [Sessions -> SUBSET Providers]
        /\ filling \in [Sessions -> (SUBSET Providers) \union {NoList}]
    BY DEF TypeOK
  <2>1. ASSUME NEW list \in SUBSET Providers, Rebuild(s, list)
        PROVE  /\ filter' \in [Sessions -> SUBSET Providers]
               /\ filling' \in [Sessions -> (SUBSET Providers) \union {NoList}]
    BY <2>0, <2>1 DEF Rebuild, NoEntries
  <2>2. CASE LoadFilter(s)
    <3>1. (cache # NoList /\ Rebuild(s, cache)) \/ UNCHANGED <<filter, filling>>
      BY <2>2 DEF LoadFilter
    <3> QED BY <1>0, <2>0, <2>1, <3>1
  <2>3. CASE StoreOwn(s)
    BY <1>0, <2>1, <2>3 DEF StoreOwn, StoreFetched
  <2>4. CASE FillOne(s)
    <3>1. \/ \E p \in filling[s] :
               /\ filter' = [filter EXCEPT ![s] = @ \union {p}]
               /\ filling' = [filling EXCEPT ![s] = @ \ {p}]
          \/ filling' = [filling EXCEPT ![s] = NoList] /\ UNCHANGED filter
      BY <2>4 DEF FillOne
    <3>2. filling[s] \in SUBSET Providers
      BY <1>0, <2>4 DEF FillOne
    <3>3. ASSUME NEW p \in filling[s],
                 filter' = [filter EXCEPT ![s] = @ \union {p}],
                 filling' = [filling EXCEPT ![s] = @ \ {p}]
          PROVE  /\ filter' \in [Sessions -> SUBSET Providers]
                 /\ filling' \in [Sessions -> (SUBSET Providers) \union {NoList}]
      BY <2>0, <3>2, <3>3
    <3>4. ASSUME filling' = [filling EXCEPT ![s] = NoList], UNCHANGED filter
          PROVE  /\ filter' \in [Sessions -> SUBSET Providers]
                 /\ filling' \in [Sessions -> (SUBSET Providers) \union {NoList}]
      BY <2>0, <3>4
    <3> QED BY <3>1, <3>3, <3>4
  <2> QED BY <2>2, <2>3, <2>4
<1>3. filterDue' \in [Sessions -> Nat]
  <2>1. UNCHANGED filterDue \/ filterDue' = [filterDue EXCEPT ![s] = now + RefreshEvery]
    BY DEF LoadFilter, StoreOwn, FillOne, PumpStarts
  <2>2. filterDue \in [Sessions -> Nat] /\ now + RefreshEvery \in Nat
    BY <1>0, CacheAssumption DEF TypeOK
  <2> QED BY <2>1, <2>2
<1>4. phase' \in [Sessions -> {"new", "loading", "pumping", "leaving", "unregistered", "gone"}]
  BY DEF TypeOK, LoadFilter, StoreOwn, FillOne, PumpStarts
<1>5. UNCHANGED <<hubVars, historyVars, crashed, kind>>
  BY DEF LoadFilter, StoreOwn, FillOne, Running
<1> QED BY <1>1, <1>2, <1>3, <1>4, <1>5 DEF TypeOK, hubVars, historyVars

(* What happens outside the hub and the handlers.                            *)
Outside ==
  \/ \E p \in Providers : Subscribe(p) /\ OutsideStreams
  \/ \E p \in Providers : Unsubscribe(p) /\ OutsideStreams
  \/ RefreshAllUsers /\ OutsideStreams
  \/ StoreRefreshed /\ OutsideStreams

LEMMA OutsideTypes ==
  ASSUME TypeOK, Outside \/ Tick \/ UNCHANGED vars
  PROVE  TypeOK'
<1>1. CacheTypeOK'
  <2>1. CASE Outside
    BY <2>1, CacheTypes DEF Outside, OutsideStreams, TypeOK
  <2>2. CASE Tick
    BY <2>2, CacheAssumption DEF Tick, TypeOK, CacheTypeOK, rowVars, cacheVars
  <2>3. CASE UNCHANGED vars
    BY <2>3, CacheTypes DEF vars, TypeOK
  <2> QED BY <2>1, <2>2, <2>3
<1>2. UNCHANGED <<kind, phase, hubVars, filterVars, historyVars, crashed>>
  BY DEF Outside, OutsideStreams, Tick, Running, vars, streamVars
<1> QED BY <1>1, <1>2 DEF TypeOK, hubVars, filterVars, historyVars

LEMMA TypesKept == TypeOK /\ HubInv /\ [Next]_vars => TypeOK'
BY ReceiveTypes, SendTypes, RangeTypes, SessionTypes, PumpTypes, FilterTypes, OutsideTypes
   DEF Next, Outside

-----------------------------------------------------------------------------
(* The hub.                                                                  *)
LEMMA RegisteredKept ==
  ASSUME TypeOK, RegisteredWhileServed, [Next]_vars
  PROVE  RegisteredWhileServed'
<1> USE DEF RegisteredWhileServed, Served
<1>0. phase \in [Sessions -> {"new", "loading", "pumping", "leaving", "unregistered", "gone"}]
  BY DEF TypeOK
<1>1. ASSUME NEW s \in Sessions, Connect(s) PROVE RegisteredWhileServed'
  BY <1>0, <1>1 DEF Connect
<1>2. ASSUME NEW s \in Sessions, Unregister(s) PROVE RegisteredWhileServed'
  <2>1. s \in SameEntry(s)
    BY DEF SameEntry
  <2> QED BY <1>0, <1>2, <2>1 DEF Unregister, Unregistered, PutOutBy
<1>3. ASSUME NEW s \in Sessions, CloseChannel(s) PROVE RegisteredWhileServed'
  BY <1>0, <1>3 DEF CloseChannel, historyVars
<1>4. ASSUME NEW s \in Sessions, NEW to \in {"pumping", "leaving"},
             phase[s] \in {"loading", "pumping"},
             phase' = [phase EXCEPT ![s] = to],
             UNCHANGED <<registered, closed, displaced>>
      PROVE  RegisteredWhileServed'
  BY <1>0, <1>4
<1>5. ASSUME UNCHANGED <<phase, registered, closed, displaced>> PROVE RegisteredWhileServed'
  BY <1>5
<1>6. ASSUME NEW s \in Sessions, Pump(s) PROVE RegisteredWhileServed'
  BY <1>4, <1>5, <1>6 DEF Pump, Skip, Write, MapRace
<1>7. ASSUME NEW s \in Sessions, LoadFilter(s) PROVE RegisteredWhileServed'
  BY <1>4, <1>5, <1>7 DEF LoadFilter, LoadDue, hubVars, historyVars
<1>8. ASSUME NEW s \in Sessions, FillOne(s) PROVE RegisteredWhileServed'
  BY <1>4, <1>5, <1>8 DEF FillOne, PumpStarts, hubVars, historyVars
<1>9. \/ \E id \in NodeIds : Receive(id)
      \/ Send \/ NextRange \/ Tick \/ UNCHANGED vars \/ Outside
      \/ \E s \in Sessions : Visit(s) \/ StoreOwn(s)
      => UNCHANGED <<phase, registered, closed, displaced>>
  BY DEF Receive, Send, NextRange, Tick, vars, streamVars, hubVars, historyVars,
         Outside, OutsideStreams, Visit, StoreOwn
<1> QED BY <1>1, <1>2, <1>3, <1>5, <1>6, <1>7, <1>8, <1>9 DEF Next, Outside

(* No other step moves the hub's fan-out.                                    *)
HubStands ==
  /\ UNCHANGED <<kind, emitted, fanout, registered, joined, dropped, leftDuringFanout>>
  /\ \A s \in Sessions : Served(s) => Served(s)'

LEMMA ElsewhereHubStands ==
  ASSUME TypeOK, [Next]_vars
  PROVE  \/ \E id \in NodeIds : Receive(id)
         \/ \E s \in Sessions : Visit(s)
         \/ Send
         \/ NextRange
         \/ \E s \in Sessions : Connect(s)
         \/ \E s \in Sessions : Unregister(s)
         \/ HubStands /\ \A s \in Sessions : Stream(s)' = Stream(s)
<1>1. ASSUME UNCHANGED <<channel, taken>> PROVE \A s \in Sessions : Stream(s)' = Stream(s)
  BY <1>1 DEF Stream
<1>0. phase \in [Sessions -> {"new", "loading", "pumping", "leaving", "unregistered", "gone"}]
  BY DEF TypeOK
<1>2. ASSUME NEW s \in Sessions, Pump(s)
      PROVE  HubStands /\ \A t \in Sessions : Stream(t)' = Stream(t)
  <2>0. \A t \in Sessions : Served(t) => Served(t)'
    BY <1>0, <1>2 DEF Pump, Skip, Write, MapRace, Served
  <2>1. HubStands
    BY <1>2, <2>0 DEF Pump, HubStands, Running
  <2>2. Take(s) \/ UNCHANGED <<channel, taken>>
    BY <1>2 DEF Pump, Skip, Write, MapRace
  <2>3. CASE Take(s)
    <3>1. /\ channel \in [Sessions -> Seq(1..Len(emitted))]
          /\ taken \in [Sessions -> Seq(1..Len(emitted))]
          /\ channel[s] # <<>>
      BY <1>2 DEF TypeOK, Pump
    <3>2. Append(taken[s], Head(channel[s])) \o Tail(channel[s]) = taken[s] \o channel[s]
      <4>1. taken[s] \in Seq(1..Len(emitted)) /\ channel[s] \in Seq(1..Len(emitted))
        BY <3>1
      <4> QED BY <3>1, <4>1, TakingKeepsStream
    <3>3. Stream(s)' = Stream(s)
      BY <2>3, <3>1, <3>2 DEF Take, Stream
    <3>4. \A t \in Sessions \ {s} : Stream(t)' = Stream(t)
      BY <2>3, <3>1 DEF Take, Stream
    <3> QED BY <2>1, <3>3, <3>4
  <2> QED BY <1>1, <2>1, <2>2, <2>3
<1>3. ASSUME NEW s \in Sessions, CloseChannel(s) \/ LoadFilter(s) \/ StoreOwn(s) \/ FillOne(s)
      PROVE  HubStands /\ UNCHANGED <<channel, taken>>
  <2>1. \A t \in Sessions : Served(t) => Served(t)'
    BY <1>0, <1>3 DEF CloseChannel, LoadFilter, StoreOwn, FillOne, PumpStarts, Served
  <2> QED BY <1>3, <2>1 DEF CloseChannel, LoadFilter, StoreOwn, FillOne, HubStands,
                            Running, hubVars, historyVars
<1>4. Outside \/ Tick \/ UNCHANGED vars => HubStands /\ UNCHANGED <<channel, taken>>
  BY DEF Outside, OutsideStreams, Tick, vars, streamVars, hubVars, historyVars,
         Running, HubStands, Served
<1> QED BY <1>1, <1>2, <1>3, <1>4 DEF Next, Outside

LEMMA HubInvKept ==
  ASSUME TypeOK, TypeOK', RegisteredWhileServed, HubInv, [Next]_vars
  PROVE  HubInv'
<1>0. Nobody \notin Sessions
  BY StreamAssumption
<1>1. ASSUME NEW id \in NodeIds, Receive(id)
      PROVE  HubInv'
  <2>1. fanout'.at = "node" /\ fanout'.visited = {} /\ fanout'.held = Nobody
    BY <1>1 DEF Receive, Idle
  <2>2. emitted' # <<>>
    <3>1. emitted \in Seq(NodeIds)
      BY DEF TypeOK
    <3>2. emitted' = Append(emitted, id)
      BY <1>1 DEF Receive
    <3> QED BY <3>1, <3>2
  <2> QED BY <2>1, <2>2 DEF HubInv
<1>2. ASSUME NEW s \in Sessions, Visit(s) PROVE HubInv'
  <2>1. /\ fanout'.at = fanout.at /\ fanout.at # "idle"
        /\ fanout'.visited = fanout.visited \union {s} /\ fanout'.held = s
        /\ Served(s) /\ s \in Interested(fanout.at)
    BY <1>2 DEF Visit, TypeOK, RegisteredWhileServed
  <2>2. UNCHANGED <<emitted, kind, phase, leftDuringFanout>>
    BY <1>2 DEF Visit, Running, historyVars
  <2>3. Interested(fanout.at)' = Interested(fanout.at)
    BY <2>1, <2>2 DEF Interested, Listens, Wildcard
  <2> QED BY <2>1, <2>2, <2>3 DEF HubInv, Served
<1>3. CASE Send
  <2>1. /\ fanout'.at = fanout.at /\ fanout.at # "idle"
        /\ fanout'.visited = fanout.visited /\ fanout'.held = Nobody
    BY <1>3 DEF Send, TypeOK, HubInv, Idle
  <2>2. UNCHANGED <<emitted, kind>>
    BY <1>3 DEF Send, Running
  <2>3. Interested(fanout.at)' = Interested(fanout.at)
    BY <2>1, <2>2 DEF Interested, Listens, Wildcard
  <2> QED BY <2>1, <2>2, <2>3 DEF HubInv
<1>4. CASE NextRange
  <2>1. \/ fanout' = Idle
        \/ fanout'.at = "wildcard" /\ fanout'.visited = {} /\ fanout'.held = Nobody
    BY <1>4 DEF NextRange, NextMap, Idle
  <2>2. UNCHANGED emitted /\ emitted # <<>>
    BY <1>4 DEF NextRange, HubInv
  <2> QED BY <2>1, <2>2 DEF HubInv, Idle
<1>5. ASSUME NEW s \in Sessions, Connect(s) PROVE HubInv'
  <2>1. /\ UNCHANGED <<emitted, kind, fanout, leftDuringFanout>>
        /\ \A t \in Sessions : Served(t) => Served(t)'
    BY <1>5 DEF Connect, Running, TypeOK, Served
  <2>2. Interested(fanout.at)' = Interested(fanout.at)
    BY <2>1 DEF Interested, Listens, Wildcard
  <2> QED BY <2>1, <2>2 DEF HubInv, TypeOK
<1>6. ASSUME NEW s \in Sessions, Unregister(s) PROVE HubInv'
  <2>1. /\ \A t \in Sessions \ {s} : Served(t) => Served(t)'
        /\ UNCHANGED <<emitted, kind, fanout>>
        /\ fanout.at # "idle" => leftDuringFanout' = leftDuringFanout \union {s}
        /\ leftDuringFanout \subseteq leftDuringFanout'
    BY <1>6 DEF Unregister, Running, TypeOK, Served
  <2>2. Interested(fanout.at)' = Interested(fanout.at)
    BY <2>1 DEF Interested, Listens, Wildcard
  <2>3. fanout.at = "idle" => fanout.held = Nobody
    BY DEF HubInv, Idle
  <2> QED BY <2>1, <2>2, <2>3 DEF HubInv, TypeOK
<1>7. CASE HubStands
  <2>1. Interested(fanout.at)' = Interested(fanout.at)
    BY <1>7 DEF HubStands, Interested, Listens, Wildcard
  <2> QED BY <1>7, <2>1 DEF HubInv, HubStands, TypeOK
<1> QED BY <1>1, <1>2, <1>3, <1>4, <1>5, <1>6, <1>7, ElsewhereHubStands

-----------------------------------------------------------------------------
(* The streams.                                                              *)
StreamsInv == InOrder /\ Complete

(* Everything offered is an event that was emitted.                          *)
LEMMA StreamOfEvents ==
  ASSUME TypeOK, NEW s \in Sessions
  PROVE  /\ Stream(s) \in Seq(1..Len(emitted))
         /\ Offered(s) \subseteq 1..Len(emitted)
         /\ Len(emitted) \in Nat
<1>1. taken[s] \in Seq(1..Len(emitted)) /\ channel[s] \in Seq(1..Len(emitted))
      /\ dropped[s] \subseteq 1..Len(emitted) /\ Len(emitted) \in Nat
  BY DEF TypeOK
<1>2. Stream(s) \in Seq(1..Len(emitted))
  BY <1>1 DEF Stream
<1> HIDE DEF Stream
<1>3. Range(Stream(s)) \subseteq 1..Len(emitted)
  BY <1>2 DEF Range
<1> QED BY <1>1, <1>2, <1>3 DEF Offered

LEMMA ReceiveStreams ==
  ASSUME TypeOK, TypeOK', HubInv, StreamsInv,
         NEW id \in NodeIds, Receive(id)
  PROVE  StreamsInv'
<1> DEFINE n == Len(emitted)
<1>1. /\ n \in Nat /\ Len(emitted') = n + 1
      /\ emitted'[n + 1] = id /\ \A k \in 1..n : emitted'[k] = emitted[k]
      /\ Last(emitted') = id
  <2>1. emitted \in Seq(NodeIds)
    BY DEF TypeOK
  <2>2. emitted' = Append(emitted, id)
    BY DEF Receive
  <2> QED BY <2>1, <2>2 DEF Last
<1>2. UNCHANGED <<kind, registered, joined>>
  BY DEF Receive, Running
<1>3. /\ fanout.at = "idle" /\ fanout.held = Nobody
      /\ fanout'.at = "node" /\ fanout'.visited = {} /\ fanout'.held = Nobody
      /\ fanout'.owed = {s \in registered : Listens(s, id)}
  BY DEF Receive, HubInv, Idle
<1>4. \A s \in Sessions : /\ Stream(s)' = Stream(s) /\ Offered(s)' = Offered(s)
                          /\ Offered(s) \subseteq 1..n
  BY StreamOfEvents DEF Receive, Stream, Offered
<1>5. InOrder'
  <2>1. \A s \in Sessions : n + 1 \notin Offered(s)
    BY <1>1, <1>4
  <2> QED BY <1>1, <1>4, <2>1 DEF StreamsInv, InOrder
<1>6. \A s \in Sessions : ~StillToCome(s)
  BY <1>3, StreamAssumption DEF StillToCome
<1>7. \A s \in Sessions : Wildcard(s) \/ Listens(s, id) => StillToCome(s)'
  BY <1>1, <1>2, <1>3 DEF StillToCome, Interested, Wildcard, Listens
<1>8. ASSUME NEW s \in registered
      PROVE  /\ \A k \in joined[s]..n + 1 :
                  Wildcard(s) \/ Listens(s, emitted'[k]) =>
                    k \in Offered(s) \/ (k = n + 1 /\ StillToCome(s)')
             /\ s \in Interested(fanout.at)' => s \in fanout'.owed
  <2>1. s \in Sessions /\ joined[s] \in Nat /\ joined[s] >= 1
    BY <1>8 DEF TypeOK, StreamsInv, Complete
  <2>2. ASSUME NEW k \in joined[s]..n + 1, Wildcard(s) \/ Listens(s, emitted'[k]), k # n + 1
        PROVE  k \in Offered(s)
    <3>1. k \in joined[s]..n
      BY <1>1, <2>1, <2>2
    <3>2. Wildcard(s) \/ Listens(s, emitted[k])
      BY <1>1, <2>1, <2>2, <3>1
    <3> QED BY <1>6, <1>8, <2>1, <3>1, <3>2 DEF StreamsInv, Complete
  <2>3. s \in Interested(fanout.at)' => s \in fanout'.owed
    BY <1>1, <1>2, <1>3, <1>8 DEF Interested, Listens
  <2> QED BY <1>1, <1>7, <2>1, <2>2, <2>3
<1>9. Complete'
  <2>1. \A s \in registered : s \in Sessions /\ joined[s] >= 1
    BY DEF TypeOK, StreamsInv, Complete
  <2> QED BY <1>1, <1>2, <1>4, <1>8, <2>1 DEF Complete, Wildcard, Listens
<1> QED BY <1>5, <1>9 DEF StreamsInv

(* A step that offers nothing and adds nothing to what the hub still owes.   *)
LEMMA SameStreams ==
  ASSUME TypeOK, StreamsInv,
         \A s \in Sessions : Stream(s)' = Stream(s) /\ StillToCome(s)' = StillToCome(s),
         UNCHANGED <<kind, emitted, dropped>>,
         registered' \subseteq registered,
         \A s \in registered' :
           /\ joined'[s] = joined[s]
           /\ joined[s] <= Len(emitted) /\ fanout'.at # "idle" /\ s \in Interested(fanout.at)'
                => s \in fanout'.owed
  PROVE  StreamsInv'
<1>1. \A s \in Sessions : Offered(s)' = Offered(s)
  BY DEF Offered
<1>2. InOrder'
  BY <1>1 DEF StreamsInv, InOrder
<1>3. Complete'
  <2>1. registered \subseteq Sessions
    BY DEF TypeOK
  <2> QED BY <1>1, <2>1 DEF StreamsInv, Complete, Wildcard, Listens
<1> QED BY <1>2, <1>3 DEF StreamsInv

LEMMA VisitStreams ==
  ASSUME TypeOK, HubInv, StreamsInv, NEW s \in Sessions, Visit(s)
  PROVE  StreamsInv'
<1>1. /\ fanout.at # "idle" /\ fanout.held = Nobody
      /\ s \in Interested(fanout.at) /\ s \notin fanout.visited
      /\ fanout'.at = fanout.at /\ fanout'.owed = fanout.owed
      /\ fanout'.visited = fanout.visited \union {s} /\ fanout'.held = s
  <2>1. s \in SameEntry(s)
    BY DEF SameEntry
  <2> QED BY <2>1 DEF Visit, TypeOK
<1>2. UNCHANGED <<kind, emitted, registered, joined, taken, channel, dropped>>
  BY DEF Visit, Running, historyVars
<1>3. Interested(fanout.at)' = Interested(fanout.at)
  BY <1>1, <1>2 DEF Interested, Listens, Wildcard
<1>4. \A t \in Sessions : StillToCome(t)' = StillToCome(t)
  BY <1>1, <1>2, <1>3, StreamAssumption DEF StillToCome, Wildcard
<1>5. \A t \in Sessions : Stream(t)' = Stream(t)
  BY <1>2 DEF Stream
<1>6. \A t \in registered :
        joined[t] <= Len(emitted) /\ t \in Interested(fanout.at) => t \in fanout.owed
  BY <1>1 DEF StreamsInv, Complete
<1> QED BY <1>1, <1>2, <1>3, <1>4, <1>5, <1>6, SameStreams

LEMMA ConnectStreams ==
  ASSUME TypeOK, RegisteredWhileServed, StreamsInv, NEW s \in Sessions, Connect(s)
  PROVE  StreamsInv'
<1>1. /\ UNCHANGED <<kind, emitted, fanout, taken, channel, dropped>>
      /\ registered' \subseteq registered \union {s}
      /\ joined' = [joined EXCEPT ![s] = Len(emitted) + 1]
  BY DEF Connect, Running
<1>2. s \notin registered /\ joined \in [Sessions -> Nat] /\ Len(emitted) \in Nat
      /\ registered \subseteq Sessions
  <2>1. s \notin registered
    BY DEF Connect, RegisteredWhileServed, Served
  <2> QED BY <2>1 DEF TypeOK
<1>3. \A t \in Sessions : /\ Stream(t)' = Stream(t) /\ Offered(t)' = Offered(t)
                          /\ StillToCome(t)' = StillToCome(t)
  BY <1>1 DEF Stream, Offered, StillToCome, Wildcard, Interested, Listens
<1>4. InOrder'
  BY <1>1, <1>3 DEF StreamsInv, InOrder
<1>5. Interested(fanout.at)' = Interested(fanout.at)
  BY <1>1 DEF Interested, Listens, Wildcard
<1>6. joined'[s] = Len(emitted) + 1 /\ \A t \in registered : joined'[t] = joined[t]
  BY <1>1, <1>2
<1>7. Complete'
  BY <1>1, <1>2, <1>3, <1>5, <1>6 DEF StreamsInv, Complete, Wildcard, Listens
<1> QED BY <1>4, <1>7 DEF StreamsInv

LEMMA UnregisterStreams ==
  ASSUME TypeOK, StreamsInv, NEW s \in Sessions, Unregister(s)
  PROVE  StreamsInv'
<1>1. /\ UNCHANGED <<kind, emitted, fanout, joined, taken, channel, dropped>>
      /\ registered' \subseteq registered
  BY DEF Unregister, Unregistered, Running
<1>2. \A t \in Sessions : Stream(t)' = Stream(t) /\ StillToCome(t)' = StillToCome(t)
  BY <1>1 DEF Stream, StillToCome, Wildcard, Interested, Listens
<1>3. Interested(fanout.at)' = Interested(fanout.at)
  BY <1>1 DEF Interested, Listens, Wildcard
<1>4. \A t \in registered :
        joined[t] <= Len(emitted) /\ fanout.at # "idle" /\ t \in Interested(fanout.at)
          => t \in fanout.owed
  BY DEF StreamsInv, Complete
<1> QED BY <1>1, <1>2, <1>3, <1>4, SameStreams

LEMMA StandingStreams ==
  ASSUME TypeOK, StreamsInv, HubStands, \A s \in Sessions : Stream(s)' = Stream(s)
  PROVE  StreamsInv'
<1> USE DEF HubStands
<1>1. \A t \in Sessions : StillToCome(t)' = StillToCome(t)
  BY DEF StillToCome, Wildcard, Interested, Listens
<1>2. Interested(fanout.at)' = Interested(fanout.at)
  BY DEF Interested, Listens, Wildcard
<1>3. \A t \in registered :
        joined[t] <= Len(emitted) /\ fanout.at # "idle" /\ t \in Interested(fanout.at)
          => t \in fanout.owed
  BY DEF StreamsInv, Complete
<1> QED BY <1>1, <1>2, <1>3, SameStreams

LEMMA SendStreams ==
  ASSUME TypeOK, RegisteredWhileServed, HubInv, StreamsInv, Send
  PROVE  StreamsInv'
<1> DEFINE e == Len(emitted)
<1>0. PICK s \in Sessions : s = fanout.held
  BY DEF Send, TypeOK
<1>1. /\ s \in fanout.visited /\ s \in Interested(fanout.at)
      /\ fanout.at \in {"node", "wildcard"}
      /\ fanout'.at = fanout.at /\ fanout'.owed = fanout.owed
      /\ fanout'.visited = fanout.visited /\ fanout'.held = Nobody
  BY <1>0 DEF Send, HubInv, Idle, TypeOK
<1>2. UNCHANGED <<kind, emitted, registered, joined, taken>>
  BY DEF Send, Running
<1>3. e \in Nat /\ e \in 1..e
  BY DEF TypeOK, HubInv, Idle, Send
<1>4. Interested(fanout.at)' = Interested(fanout.at)
  BY <1>1, <1>2 DEF Interested, Listens, Wildcard
<1>5. ~StillToCome(s)' /\ StillToCome(s)
  <2>1. kind[s] = "node" => ~Wildcard(s)
    BY DEF Wildcard
  <2>2. fanout.at = "node" => kind[s] = "node"
    BY <1>1 DEF Interested, Listens
  <2>3. fanout'.held # s
    BY <1>1, StreamAssumption
  <2> QED BY <1>0, <1>1, <1>2, <1>4, <2>1, <2>2, <2>3 DEF StillToCome, Wildcard, Interested
<1>6. \A t \in Sessions \ {s} :
        /\ Stream(t)' = Stream(t) /\ Offered(t)' = Offered(t)
        /\ StillToCome(t)' = StillToCome(t)
  <2>1. \A t \in Sessions \ {s} : channel'[t] = channel[t] /\ dropped'[t] = dropped[t]
    BY <1>0 DEF Send, TypeOK
  <2>2. \A t \in Sessions \ {s} : fanout.held # t /\ fanout'.held # t
    BY <1>0, <1>1, StreamAssumption
  <2> QED BY <1>1, <1>2, <1>4, <2>1, <2>2 DEF Stream, Offered, StillToCome, Wildcard
<1>7. /\ Stream(s)' = Stream(s) \/ Stream(s)' = Append(Stream(s), e)
      /\ Offered(s) \subseteq Offered(s)'
      /\ s \notin closed => e \in Offered(s)'
  <2>1. /\ taken[s] \in Seq(1..e) /\ channel[s] \in Seq(1..e)
        /\ channel \in [Sessions -> Seq(1..e)] /\ dropped \in [Sessions -> SUBSET (1..e)]
    BY <1>1 DEF TypeOK
  <2>2. \/ s \in closed /\ UNCHANGED <<channel, dropped>>
        \/ s \notin closed /\ channel' = [channel EXCEPT ![s] = Append(@, e)] /\ UNCHANGED dropped
        \/ s \notin closed /\ dropped' = [dropped EXCEPT ![s] = @ \union {e}] /\ UNCHANGED channel
    BY <1>0 DEF Send
  <2>3. CASE channel' = [channel EXCEPT ![s] = Append(@, e)] /\ UNCHANGED dropped
    <3>1. Stream(s)' = taken[s] \o Append(channel[s], e)
      BY <1>1, <1>2, <2>1, <2>3 DEF Stream
    <3>2. /\ taken[s] \o Append(channel[s], e) = Append(taken[s] \o channel[s], e)
          /\ Range(Append(taken[s] \o channel[s], e)) = Range(taken[s] \o channel[s]) \union {e}
      <4> DEFINE S == 1..e
                 q == taken[s]
                 c == channel[s]
      <4>1. e \in S /\ q \in Seq(S) /\ c \in Seq(S)
        BY <1>3, <2>1
      <4> HIDE DEF e, S, q, c
      <4>2. /\ q \o Append(c, e) = Append(q \o c, e)
            /\ Range(Append(q \o c, e)) = Range(q \o c) \union {e}
        BY <4>1, SendingAppends
      <4> QED BY <4>2 DEF q, c
    <3> QED BY <2>3, <3>1, <3>2 DEF Stream, Offered
  <2>4. CASE dropped' = [dropped EXCEPT ![s] = @ \union {e}] /\ UNCHANGED channel
    BY <1>1, <1>2, <2>1, <2>4 DEF Stream, Offered
  <2>5. CASE s \in closed /\ UNCHANGED <<channel, dropped>>
    BY <1>2, <2>5 DEF Stream, Offered
  <2> QED BY <2>2, <2>3, <2>4, <2>5
<1>8. Stream(s) \in Seq(1..e) /\ e \notin Offered(s)
  BY <1>1, <1>3, <1>5, StreamOfEvents DEF StreamsInv, InOrder
<1>9. \A i, j \in DOMAIN Stream(s)' : i < j => Stream(s)'[i] < Stream(s)'[j]
  <2> DEFINE q == Stream(s)
  <2>1. q \in Seq(1..e) /\ \A i, j \in DOMAIN q : i < j => q[i] < q[j]
    BY <1>1, <1>8 DEF StreamsInv, InOrder
  <2>2. e \notin Range(q)
    BY <1>8 DEF Offered
  <2> HIDE DEF q
  <2>3. \A i \in 1..Len(q) : q[i] < e
    BY <1>3, <2>1, <2>2 DEF Range
  <2>4. \A i, j \in DOMAIN Append(q, e) : i < j => Append(q, e)[i] < Append(q, e)[j]
    BY <1>3, <2>1, <2>3
  <2> QED BY <1>7, <2>1, <2>4 DEF q
<1>10. InOrder'
  BY <1>1, <1>2, <1>5, <1>6, <1>9 DEF StreamsInv, InOrder
<1>11. Complete'
  <2>1. registered \subseteq Sessions /\ (s \in registered => s \notin closed)
    BY DEF RegisteredWhileServed, Served, TypeOK
  <2> QED BY <1>1, <1>2, <1>4, <1>5, <1>6, <1>7, <2>1 DEF StreamsInv, Complete, Wildcard, Listens
<1> QED BY <1>10, <1>11 DEF StreamsInv

LEMMA NextRangeStreams ==
  ASSUME TypeOK, HubInv, StreamsInv, NextRange
  PROVE  StreamsInv'
<1>1. /\ UNCHANGED <<kind, emitted, registered, joined, taken, channel, dropped>>
      /\ fanout.at # "idle" /\ fanout.held = Nobody
      /\ fanout.owed \intersect registered \subseteq fanout.visited
  BY DEF NextRange, Running, historyVars, RangeMayEnd
<1>2. \/ /\ fanout.at = "node" /\ fanout'.at = "wildcard"
         /\ fanout'.visited = {} /\ fanout'.held = Nobody
         /\ fanout'.owed = {s \in registered : Wildcard(s)}
      \/ /\ fanout.at = "wildcard" /\ fanout'.at = "idle" /\ fanout'.held = Nobody
  BY <1>1 DEF NextRange, NextMap, Idle, TypeOK
<1>3. \A s \in Sessions : Stream(s)' = Stream(s) /\ Offered(s)' = Offered(s)
  BY <1>1 DEF Stream, Offered
<1>4. \A s \in Sessions : StillToCome(s)' => fanout.at = "node" /\ Wildcard(s)
  BY <1>1, <1>2, StreamAssumption DEF StillToCome, Interested, Wildcard
<1>5. InOrder'
  BY <1>1, <1>3, <1>4 DEF StreamsInv, InOrder, StillToCome
<1>6. ASSUME NEW s \in registered, joined[s] <= Len(emitted), StillToCome(s)
      PROVE  StillToCome(s)'
  <2>1. s \in Sessions
    BY DEF TypeOK
  <2>2. ~(s \in Interested(fanout.at) /\ s \notin fanout.visited)
    BY <1>1, <1>6 DEF StreamsInv, Complete
  <2>3. fanout.at = "node" /\ Wildcard(s)
    BY <1>1, <1>6, <2>1, <2>2, StreamAssumption DEF StillToCome
  <2> QED BY <1>1, <1>2, <2>1, <2>3 DEF StillToCome, Interested, Wildcard
<1>7. Complete'
  <2>1. registered \subseteq Sessions /\ joined \in [Sessions -> Nat] /\ Len(emitted) \in Nat
    BY DEF TypeOK
  <2>2. ASSUME NEW s \in registered,
               fanout'.at # "idle", s \in Interested(fanout.at)'
        PROVE  s \in fanout'.owed
    BY <1>1, <1>2, <2>2 DEF Interested, Wildcard
  <2>3. ASSUME NEW s \in registered, NEW k \in joined[s]..Len(emitted),
               Wildcard(s) \/ Listens(s, emitted[k])
        PROVE  k \in Offered(s) \/ (k = Len(emitted) /\ StillToCome(s)')
    <3>1. k \in Offered(s) \/ (k = Len(emitted) /\ StillToCome(s))
      BY <2>3 DEF StreamsInv, Complete
    <3>2. joined[s] <= Len(emitted)
      BY <2>1, <2>3
    <3> QED BY <1>6, <3>1, <3>2
  <2>4. \A s \in registered : joined[s] >= 1
    BY DEF StreamsInv, Complete
  <2> QED BY <1>1, <1>3, <2>1, <2>2, <2>3, <2>4 DEF Complete, Wildcard, Listens
<1> QED BY <1>5, <1>7 DEF StreamsInv

LEMMA StreamsKept ==
  ASSUME TypeOK, TypeOK', RegisteredWhileServed, HubInv, StreamsInv, [Next]_vars
  PROVE  StreamsInv'
BY ElsewhereHubStands, ReceiveStreams, VisitStreams, SendStreams, NextRangeStreams,
   ConnectStreams, UnregisterStreams, StandingStreams

-----------------------------------------------------------------------------
(* The cache and the filters.                                                *)
LEMMA TimeTypes ==
  ASSUME TypeOK
  PROVE  /\ RefreshEvery \in Nat /\ RefreshEvery >= 1 /\ FetchTime \in Nat
         /\ now \in Nat /\ refreshDue \in Nat /\ PutOff \in Nat /\ CacheLag \in Nat /\ Lag \in Nat
         /\ CacheLag = RefreshEvery + 2 * FetchTime + PutOff
         /\ Lag = RefreshEvery + CacheLag
         /\ \A r \in Readers : fetchedAt[r] \in Nat
         /\ \A s \in Sessions : filterDue[s] \in Nat /\ openedAt[s] \in Nat
         /\ \A p \in Providers : ChangedAt(p) \in Nat
<1>1. RefreshEvery \in Nat /\ RefreshEvery >= 1 /\ FetchTime \in Nat /\ MaxErrors \in Nat
      /\ MaxTime \in Nat
  BY CacheAssumption
<1>2. now \in Nat /\ refreshDue \in Nat /\ errors \in Nat
      /\ \A r \in Readers : fetchedAt[r] \in Nat
  BY <1>1 DEF TypeOK, CacheTypeOK
<1>3. PutOff \in Nat
  BY <1>1, <1>2 DEF PutOff
<1>4. CacheLag = RefreshEvery + 2 * FetchTime + PutOff /\ Lag = RefreshEvery + CacheLag
  BY <1>1, <1>3 DEF CacheLag, Lag, PutOff
<1>5. CacheLag \in Nat /\ Lag \in Nat
  BY <1>1, <1>3, <1>4
<1>6. \A s \in Sessions : filterDue[s] \in Nat /\ openedAt[s] \in Nat
  BY <1>1 DEF TypeOK
<1>7. \A p \in Providers : ChangedAt(p) \in Nat
  BY <1>1 DEF TypeOK, CacheTypeOK, ChangedAt
<1> QED BY <1>1, <1>2, <1>3, <1>4, <1>5, <1>6, <1>7

LEMMA FailurePutsOff ==
  ASSUME TypeOK, ReadFails
  PROVE  PutOff' = PutOff + RefreshEvery
<1>1. RefreshEvery \in Nat /\ errors \in Nat /\ errors' = errors + 1
  BY CacheAssumption DEF TypeOK, CacheTypeOK, ReadFails
<1> QED BY <1>1 DEF PutOff

(* The rows as they were: lists differ from them as before.                  *)
LEMMA SameRows ==
  ASSUME UNCHANGED rowVars
  PROVE  /\ \A p : ChangedAt(p)' = ChangedAt(p)
         /\ UNCHANGED active
BY DEF rowVars, ChangedAt

(* A cached list differs from the database no longer than one refresh takes. *)
LEMMA CacheIsFresh ==
  ASSUME TypeOK, FetchesAreFresh, CacheAge, cache # NoList,
         NEW p \in Providers, Differ(cache, p)
  PROVE  ChangedAt(p) + CacheLag >= now
<1>1. Refresher \in Readers
  BY DEF Readers
<1>2. CASE fetch[Refresher] = NoList
  BY <1>2, TimeTypes DEF CacheAge
<1>3. CASE fetch[Refresher] # NoList
  <2>1. now <= fetchedAt[Refresher] + FetchTime /\ refreshDue = fetchedAt[Refresher] + RefreshEvery
    BY <1>1, <1>3 DEF FetchesAreFresh, CacheAge
  <2>2. ChangedAt(p) + PutOff + RefreshEvery + FetchTime + RefreshEvery >= refreshDue
    BY <1>3 DEF CacheAge
  <2> QED BY <1>1, <2>1, <2>2, TimeTypes
<1> QED BY <1>2, <1>3

TimeInv == FetchesAreFresh /\ CacheAge /\ FiltersInv

(* Steps that leave the cache, the filters and the clock alone, and at most  *)
(* end a session.                                                            *)
FiltersStand ==
  /\ UNCHANGED <<cacheSide, filterVars, kind, openedAt>>
  /\ \A s \in Sessions :
       phase'[s] = phase[s] \/ phase'[s] \notin {"new", "loading", "pumping"}

LEMMA StandingFilters ==
  ASSUME TypeOK, TimeInv, FiltersStand
  PROVE  TimeInv'
<1> USE DEF FiltersStand, cacheSide, cacheVars, rowVars, filterVars
<1>1. \A p : ChangedAt(p)' = ChangedAt(p)
  BY DEF ChangedAt
<1>2. FetchesAreFresh'
  BY <1>1 DEF TimeInv, FetchesAreFresh, Differ
<1>3. CacheAge'
  BY <1>1 DEF TimeInv, CacheAge, Differ, PutOff
<1>4. V2' = V2 /\ V2 \subseteq Sessions
  BY DEF V2
<1>5. \A s \in V2 : FirstLoad(s)'
  BY <1>4 DEF TimeInv, FiltersInv, FirstLoad, PutOff
<1>6. \A s \in V2 : FilterAge(s)'
  BY <1>1, <1>4 DEF TimeInv, FiltersInv, FilterAge, Differ, Coming, CacheLag, Lag, PutOff
<1> QED BY <1>2, <1>3, <1>4, <1>5, <1>6 DEF TimeInv, FiltersInv

(* A row that changes is up to date in no list older than the change.        *)
LEMMA RowsChange ==
  ASSUME TypeOK, TimeInv,
         NEW p \in Providers, Subscribe(p) \/ Unsubscribe(p),
         UNCHANGED <<now, kind, phase, filterVars, openedAt>>
  PROVE  TimeInv'
<1> USE DEF cacheVars, filterVars
<1>1. UNCHANGED cacheVars
  BY DEF Subscribe, Unsubscribe
<1>2. ChangedAt(p)' = now
  BY DEF Subscribe, Unsubscribe, ChangedAt, TypeOK, CacheTypeOK
<1>3. \A q \in Providers \ {p} :
        /\ ChangedAt(q)' = ChangedAt(q)
        /\ q \in active' <=> q \in active
  BY DEF Subscribe, Unsubscribe, ChangedAt, TypeOK, CacheTypeOK
<1>4. FetchesAreFresh'
  BY <1>1, <1>2, <1>3 DEF TimeInv, FetchesAreFresh, Differ
<1>5. CacheAge'
  <2>1. now + PutOff + RefreshEvery + FetchTime
          + (IF fetch[Refresher] = NoList THEN 0 ELSE RefreshEvery) >= refreshDue
    BY TimeTypes DEF TimeInv, CacheAge
  <2> QED BY <1>1, <1>2, <1>3, <2>1 DEF TimeInv, CacheAge, Differ, PutOff
<1>6. V2' = V2 /\ V2 \subseteq Sessions
  BY DEF V2
<1>7. \A s \in V2 : FirstLoad(s)'
  BY <1>1, <1>6 DEF TimeInv, FiltersInv, FirstLoad, PutOff
<1>8. \A s \in V2 : Coming(s)' = Coming(s)
  BY DEF Coming
<1>9. ASSUME NEW s \in V2 PROVE FilterAge(s)'
  <2>1. UNCHANGED <<PutOff, CacheLag, Lag>>
    BY <1>1 DEF CacheLag, Lag, PutOff
  <2>2. FilterAge(s) /\ (phase[s] = "pumping" => filterDue[s] <= now + RefreshEvery)
    BY DEF TimeInv, FiltersInv, FirstLoad
  <2>3. \A q \in Providers \ {p} : Differ(Coming(s), q)' <=> Differ(Coming(s), q)
    BY <1>3, <1>8 DEF Differ
  <2>4. now + CacheLag >= now /\ now + Lag >= now /\ now + Lag >= now + RefreshEvery
        /\ now \in Nat /\ Lag \in Nat /\ filterDue[s] \in Nat /\ RefreshEvery \in Nat
    BY <1>6, TimeTypes
  <2> QED BY <1>2, <1>3, <2>1, <2>2, <2>3, <2>4 DEF FilterAge
<1> QED BY <1>4, <1>5, <1>6, <1>7, <1>9 DEF TimeInv, FiltersInv

(* A read that starts or fails elsewhere leaves a session's filter as it was. *)
LEMMA OtherSessions ==
  ASSUME TypeOK, TypeOK', TimeInv, NEW s \in V2,
         UNCHANGED <<now, rowVars>>,
         cache' = NoList => cache = NoList,
         PutOff' >= PutOff,
         /\ filter'[s] = filter[s] /\ filling'[s] = filling[s]
         /\ filterDue'[s] = filterDue[s] /\ fetch'[s] = fetch[s]
         /\ fetchedAt'[s] = fetchedAt[s]
         /\ phase'[s] = phase[s] /\ openedAt'[s] = openedAt[s]
  PROVE  FirstLoad(s)' /\ FilterAge(s)'
<1>1. /\ \A p : ChangedAt(p)' = ChangedAt(p)
      /\ UNCHANGED active
  BY SameRows
<1>2. s \in Sessions /\ s \in Readers
  BY DEF V2, Readers
<1>3. /\ RefreshEvery \in Nat /\ FetchTime \in Nat /\ now \in Nat /\ PutOff \in Nat
      /\ CacheLag \in Nat /\ Lag \in Nat
      /\ fetchedAt[s] \in Nat /\ filterDue[s] \in Nat /\ openedAt[s] \in Nat
  BY <1>2, TimeTypes
<1>4. /\ PutOff' \in Nat /\ CacheLag' >= CacheLag /\ Lag' >= Lag
      /\ CacheLag' \in Nat /\ Lag' \in Nat
  <2>1. errors' \in Nat /\ RefreshEvery \in Nat
    BY CacheAssumption DEF TypeOK, CacheTypeOK
  <2>4. PutOff' \in Nat
    BY <2>1 DEF PutOff
  <2>2. CacheLag' = RefreshEvery + 2 * FetchTime + PutOff' /\ Lag' = RefreshEvery + CacheLag'
    BY <1>3, <2>1, <2>4 DEF CacheLag, Lag, PutOff
  <2>3. CacheLag = RefreshEvery + 2 * FetchTime + PutOff /\ Lag = RefreshEvery + CacheLag
    BY TimeTypes
  <2>5. CacheLag' \in Nat /\ Lag' \in Nat
    BY <1>3, <2>2, <2>4
  <2>6. PICK later \in Nat : later = PutOff'
    BY <2>4
  <2>7. later >= PutOff
    BY <2>6
  <2>8. /\ RefreshEvery + 2 * FetchTime + later >= CacheLag
        /\ RefreshEvery + (RefreshEvery + 2 * FetchTime + later) >= Lag
    BY <1>3, <2>3, <2>7
  <2> QED BY <2>2, <2>4, <2>5, <2>6, <2>8
<1>5. FirstLoad(s) /\ FilterAge(s)
  BY DEF TimeInv, FiltersInv
<1>6. FirstLoad(s)'
  BY <1>3, <1>4, <1>5 DEF FirstLoad
<1>7. Coming(s)' = Coming(s)
  BY DEF Coming
<1>8. \A p \in Providers : Differ(Coming(s), p)' <=> Differ(Coming(s), p)
  BY <1>1, <1>7 DEF Differ
<1>9. \A p \in Providers : ChangedAt(p) \in Nat
  BY TimeTypes
<1>10. FilterAge(s)'
  BY <1>1, <1>3, <1>4, <1>5, <1>8, <1>9 DEF FilterAge
<1> QED BY <1>6, <1>10

(* A list stored in the cache differs from the database for a read at most.  *)
LEMMA StoredIsFresh ==
  ASSUME TypeOK, FetchesAreFresh, CacheAge, NEW r \in Readers, fetch[r] # NoList,
         NEW p \in Providers, Differ(fetch[r], p)
  PROVE  /\ ChangedAt(p) + FetchTime >= now
         /\ ChangedAt(p) + PutOff + RefreshEvery + FetchTime >= refreshDue
<1>1. ChangedAt(p) >= fetchedAt[r] /\ now <= fetchedAt[r] + FetchTime
      /\ refreshDue <= now + RefreshEvery
  BY DEF FetchesAreFresh, CacheAge
<1> QED BY <1>1, TimeTypes

LEMMA RefreshAllTime ==
  ASSUME TypeOK, TypeOK', TimeInv, RefreshAllUsers,
         UNCHANGED <<now, kind, phase, filterVars, openedAt>>
  PROVE  TimeInv'
<1> USE DEF filterVars
<1>1. /\ now >= refreshDue /\ fetch[Refresher] = NoList
      /\ refreshDue' = now + RefreshEvery /\ UNCHANGED <<cache, rowVars>>
  BY DEF RefreshAllUsers
<1>2. /\ \A p : ChangedAt(p)' = ChangedAt(p)
      /\ UNCHANGED active
  BY <1>1, SameRows
<1>3. \/ ReadActive(Refresher)
      \/ ReadFails
      \/ cache = NoList /\ UNCHANGED <<fetch, fetchedAt, errors>>
  BY DEF RefreshAllUsers, CachedUser
<1>4. Refresher \in Readers /\ V2' = V2 /\ Refresher \notin V2 /\ V2 \subseteq Readers
      /\ V2 \subseteq Sessions
  BY CacheAssumption DEF Readers, V2
<1>5. /\ fetch \in [Readers -> (SUBSET Providers) \union {NoList}]
      /\ fetchedAt \in [Readers -> 0..MaxTime]
  BY DEF TypeOK, CacheTypeOK
<1>6. PutOff' >= PutOff
  <2>1. CASE ReadFails
    <3>1. PutOff' = PutOff + RefreshEvery
      BY <2>1, FailurePutsOff
    <3>2. PutOff + RefreshEvery >= PutOff
      BY TimeTypes
    <3> QED BY <3>1, <3>2
  <2>2. CASE UNCHANGED errors
    <3>1. PutOff' = PutOff
      BY <2>2 DEF PutOff
    <3>2. PutOff >= PutOff
      BY TimeTypes
    <3> QED BY <3>1, <3>2
  <2> QED BY <1>3, <2>1, <2>2 DEF ReadActive
<1>7. FetchesAreFresh'
  <2>1. CASE ReadActive(Refresher)
    <3>1. /\ fetch' = [fetch EXCEPT ![Refresher] = active]
          /\ fetchedAt' = [fetchedAt EXCEPT ![Refresher] = now]
      BY <2>1 DEF ReadActive, ActiveProviders
    <3>2. now <= now /\ now <= now + FetchTime
      BY TimeTypes
    <3> QED BY <1>2, <1>4, <1>5, <3>1, <3>2 DEF TimeInv, FetchesAreFresh, Differ
  <2>2. CASE UNCHANGED <<fetch, fetchedAt>>
    BY <1>2, <2>2 DEF TimeInv, FetchesAreFresh, Differ
  <2> QED BY <1>3, <2>1, <2>2 DEF ReadFails
<1>8. CacheAge'
  <2>1. /\ now <= now + RefreshEvery /\ now + RefreshEvery <= now + RefreshEvery
        /\ refreshDue = now
    BY <1>1, TimeTypes DEF TimeInv, CacheAge
  <2>2. ASSUME NEW p \in Providers, cache # NoList, Differ(cache, p)
        PROVE  ChangedAt(p) + PutOff + RefreshEvery + FetchTime + RefreshEvery
                 >= now + RefreshEvery
    <3>1. ChangedAt(p) + PutOff + RefreshEvery + FetchTime + 0 >= refreshDue
      BY <1>1, <2>2 DEF TimeInv, CacheAge
    <3> QED BY <2>1, <3>1, TimeTypes
  <2>3. CASE ReadActive(Refresher)
    <3>1. /\ fetch'[Refresher] = active /\ active # NoList
          /\ fetchedAt'[Refresher] = now /\ PutOff' = PutOff
      BY <1>4, <1>5, <2>3, CacheAssumption
         DEF ReadActive, ActiveProviders, PutOff, TypeOK, CacheTypeOK
    <3> QED BY <1>1, <1>2, <2>1, <2>2, <3>1 DEF CacheAge, Differ
  <2>4. CASE ReadFails
    <3>1. UNCHANGED fetch /\ PutOff' = PutOff + RefreshEvery
      BY <2>4, FailurePutsOff DEF ReadFails
    <3>2. \A p \in Providers : cache # NoList /\ Differ(cache, p) =>
            ChangedAt(p) + (PutOff + RefreshEvery) + RefreshEvery + FetchTime + 0
              >= now + RefreshEvery
      BY <2>1, <2>2, TimeTypes
    <3>3. PICK later : later = PutOff + RefreshEvery
      OBVIOUS
    <3>4. PutOff' = later /\ fetch'[Refresher] = NoList
      BY <1>1, <3>1, <3>3
    <3>5. \A p \in Providers : cache' # NoList /\ Differ(cache, p)' =>
            ChangedAt(p)' + PutOff' + RefreshEvery + FetchTime + 0 >= refreshDue'
      <4>1. \A p \in Providers : cache # NoList /\ Differ(cache, p) =>
              ChangedAt(p) + later + RefreshEvery + FetchTime + 0 >= refreshDue'
        BY <1>1, <3>2, <3>3, TimeTypes
      <4> QED BY <1>1, <1>2, <3>4, <4>1 DEF Differ
    <3> QED BY <1>1, <2>1, <3>4, <3>5 DEF CacheAge
  <2>5. CASE cache = NoList /\ UNCHANGED <<fetch, fetchedAt, errors>>
    BY <1>1, <2>1, <2>5 DEF CacheAge
  <2> QED BY <1>3, <2>3, <2>4, <2>5
<1>9. ASSUME NEW s \in V2 PROVE FirstLoad(s)' /\ FilterAge(s)'
  <2>1. fetch'[s] = fetch[s] /\ fetchedAt'[s] = fetchedAt[s]
    BY <1>3, <1>4, <1>5 DEF ReadActive, ReadFails
  <2> QED BY <1>1, <1>6, <2>1, OtherSessions
<1> QED BY <1>4, <1>7, <1>8, <1>9 DEF TimeInv, FiltersInv

LEMMA StoreRefreshedTime ==
  ASSUME TypeOK, TypeOK', TimeInv, StoreRefreshed,
         UNCHANGED <<now, kind, phase, filterVars, openedAt>>
  PROVE  TimeInv'
<1> USE DEF filterVars
<1>1. /\ fetch[Refresher] # NoList /\ cache' = fetch[Refresher]
      /\ fetch' = [fetch EXCEPT ![Refresher] = NoList]
      /\ UNCHANGED <<fetchedAt, refreshDue, errors, rowVars>>
  BY DEF StoreRefreshed, StoreFetched
<1>2. /\ \A p : ChangedAt(p)' = ChangedAt(p)
      /\ UNCHANGED active
  BY <1>1, SameRows
<1>3. Refresher \in Readers /\ V2' = V2 /\ Refresher \notin V2 /\ V2 \subseteq Readers
      /\ V2 \subseteq Sessions
  BY CacheAssumption DEF Readers, V2
<1>4. fetch \in [Readers -> (SUBSET Providers) \union {NoList}]
  BY DEF TypeOK, CacheTypeOK
<1>5. PutOff' = PutOff /\ PutOff >= PutOff
  BY <1>1, TimeTypes DEF PutOff
<1>6. FetchesAreFresh'
  BY <1>1, <1>2, <1>3, <1>4 DEF TimeInv, FetchesAreFresh, Differ
<1>7. CacheAge'
  <2>1. \A p \in Providers : Differ(fetch[Refresher], p) =>
          ChangedAt(p) + PutOff + RefreshEvery + FetchTime + 0 >= refreshDue
    BY <1>1, <1>3, StoredIsFresh, TimeTypes DEF TimeInv
  <2>2. fetch'[Refresher] = NoList
    BY <1>1, <1>3, <1>4
  <2> QED BY <1>1, <1>2, <1>5, <2>1, <2>2 DEF TimeInv, CacheAge, Differ
<1>8. ASSUME NEW s \in V2 PROVE FirstLoad(s)' /\ FilterAge(s)'
  <2>1. fetch'[s] = fetch[s] /\ fetchedAt'[s] = fetchedAt[s]
    BY <1>1, <1>3, <1>4
  <2>2. PutOff' >= PutOff
    BY <1>5
  <2> QED BY <1>1, <2>1, <2>2, OtherSessions
<1> QED BY <1>3, <1>6, <1>7, <1>8 DEF TimeInv, FiltersInv

LEMMA LoadFilterTime ==
  ASSUME TypeOK, TypeOK', TimeInv, NEW s \in Sessions, LoadFilter(s)
  PROVE  TimeInv'
<1> DEFINE due == now + RefreshEvery
<1>1. /\ s \in V2 /\ LoadDue(s) /\ fetch[s] = NoList /\ filling[s] = NoList
      /\ filterDue' = [filterDue EXCEPT ![s] = due]
      /\ UNCHANGED <<cache, refreshDue, now, rowVars, kind, openedAt>>
  BY DEF LoadFilter, Running, historyVars
<1>2. \/ cache # NoList /\ Rebuild(s, cache) /\ UNCHANGED <<phase, fetch, fetchedAt, errors>>
      \/ cache = NoList /\ ReadActive(s) /\ UNCHANGED <<phase, filter, filling>>
      \/ cache = NoList /\ ReadFails /\ phase' = [phase EXCEPT ![s] = "pumping"]
           /\ UNCHANGED <<filter, filling>>
  BY DEF LoadFilter
<1>3. /\ \A p : ChangedAt(p)' = ChangedAt(p)
      /\ UNCHANGED active
  BY <1>1, SameRows
<1>4. Refresher \in Readers /\ V2' = V2 /\ Refresher \notin V2 /\ V2 \subseteq Readers
      /\ V2 \subseteq Sessions /\ Refresher # s /\ s \in Readers
  BY <1>1, CacheAssumption DEF Readers, V2
<1>5. /\ fetch \in [Readers -> (SUBSET Providers) \union {NoList}]
      /\ fetchedAt \in [Readers -> 0..MaxTime]
      /\ filter \in [Sessions -> SUBSET Providers]
      /\ filling \in [Sessions -> (SUBSET Providers) \union {NoList}]
      /\ filterDue \in [Sessions -> Nat]
      /\ phase \in [Sessions -> {"new", "loading", "pumping", "leaving", "unregistered", "gone"}]
      /\ active # NoList /\ now \in Nat
  <2>1. active \in SUBSET Providers /\ active # NoList /\ now \in Nat
    BY CacheAssumption, TimeTypes DEF TypeOK, CacheTypeOK
  <2> QED BY <2>1 DEF TypeOK, CacheTypeOK
<1>6. PutOff' >= PutOff
  <2>1. CASE ReadFails
    <3>1. PutOff' = PutOff + RefreshEvery
      BY <2>1, FailurePutsOff
    <3>2. PutOff + RefreshEvery >= PutOff
      BY TimeTypes
    <3> QED BY <3>1, <3>2
  <2>2. CASE UNCHANGED errors
    <3>1. PutOff' = PutOff
      BY <2>2 DEF PutOff
    <3>2. PutOff >= PutOff
      BY TimeTypes
    <3> QED BY <3>1, <3>2
  <2> QED BY <1>2, <2>1, <2>2 DEF ReadActive
<1>7. FetchesAreFresh'
  <2>1. CASE ReadActive(s)
    <3>1. /\ fetch' = [fetch EXCEPT ![s] = active]
          /\ fetchedAt' = [fetchedAt EXCEPT ![s] = now]
      BY <2>1 DEF ReadActive, ActiveProviders
    <3>2. now <= now /\ now <= now + FetchTime
      BY TimeTypes
    <3> QED BY <1>1, <1>3, <1>4, <1>5, <3>1, <3>2 DEF TimeInv, FetchesAreFresh, Differ
  <2>2. CASE UNCHANGED <<fetch, fetchedAt>>
    BY <1>1, <1>3, <2>2 DEF TimeInv, FetchesAreFresh, Differ
  <2> QED BY <1>2, <2>1, <2>2 DEF ReadFails
<1>8. CacheAge'
  <2>1. fetch'[Refresher] = fetch[Refresher] /\ fetchedAt'[Refresher] = fetchedAt[Refresher]
    BY <1>2, <1>4, <1>5 DEF ReadActive, ReadFails
  <2>2. CASE cache = NoList
    BY <1>1, <2>1, <2>2 DEF TimeInv, CacheAge
  <2>3. CASE cache # NoList
    <3>1. PutOff' = PutOff
      BY <1>2, <2>3 DEF PutOff
    <3> QED BY <1>1, <1>3, <2>1, <3>1 DEF TimeInv, CacheAge, Differ
  <2> QED BY <2>2, <2>3
<1>9. ASSUME NEW t \in V2, t # s PROVE FirstLoad(t)' /\ FilterAge(t)'
  <2>1. /\ fetch'[t] = fetch[t] /\ fetchedAt'[t] = fetchedAt[t] /\ phase'[t] = phase[t]
        /\ filter'[t] = filter[t] /\ filling'[t] = filling[t] /\ filterDue'[t] = filterDue[t]
    BY <1>1, <1>2, <1>4, <1>5, <1>9 DEF ReadActive, ReadFails, Rebuild
  <2> QED BY <1>1, <1>6, <2>1, OtherSessions
<1>10. /\ phase[s] = "loading" \/ (phase[s] = "pumping" /\ now >= filterDue[s])
       /\ filterDue'[s] = due /\ due \in Nat /\ due <= due /\ due >= now /\ now <= due
  BY <1>1, <1>4, <1>5, TimeTypes DEF LoadDue
<1>11. FirstLoad(s)
  BY <1>1 DEF TimeInv, FiltersInv
<1>12. CASE cache # NoList /\ Rebuild(s, cache) /\ UNCHANGED <<phase, fetch, fetchedAt, errors>>
  <2>1. filter'[s] = {} /\ filling'[s] = cache
    BY <1>4, <1>5, <1>12 DEF Rebuild, NoEntries
  <2>2. Coming(s)' = cache
    BY <1>12, <2>1 DEF Coming
  <2>3. FirstLoad(s)'
    BY <1>1, <1>10, <1>12, <2>1 DEF FirstLoad
  <2>4. \A p \in Providers : Differ(cache, p) =>
          ChangedAt(p) + CacheLag >= now /\ ChangedAt(p) + Lag >= now /\ ChangedAt(p) + Lag >= due
    <3>1. \A p \in Providers : Differ(cache, p) => ChangedAt(p) + CacheLag >= now
      BY <1>12, CacheIsFresh DEF TimeInv
    <3> QED BY <3>1, TimeTypes
  <2>5. CacheLag' = CacheLag /\ Lag' = Lag
    BY <1>12 DEF CacheLag, Lag, PutOff
  <2>6. FilterAge(s)'
    BY <1>1, <1>3, <1>10, <2>2, <2>4, <2>5 DEF FilterAge, Differ
  <2> QED BY <1>4, <1>7, <1>8, <1>9, <2>3, <2>6 DEF TimeInv, FiltersInv
<1>13. CASE cache = NoList /\ ReadActive(s) /\ UNCHANGED <<phase, filter, filling>>
  <2>1. /\ fetch'[s] = active /\ fetchedAt'[s] = now /\ UNCHANGED errors
        /\ filter'[s] = {} /\ filling'[s] = NoList
    BY <1>1, <1>4, <1>5, <1>11, <1>13 DEF ReadActive, ActiveProviders, FirstLoad
  <2>2. phase[s] = "pumping" => openedAt[s] + PutOff >= now
    <3>1. phase[s] = "pumping" => openedAt[s] + PutOff >= filterDue[s] /\ now >= filterDue[s]
                                  /\ now <= filterDue[s]
      BY <1>1, <1>10, <1>11, <1>13 DEF FirstLoad
    <3> QED BY <1>1, <1>4, <3>1, TimeTypes
  <2>3. PutOff' = PutOff /\ CacheLag' = CacheLag /\ Lag' = Lag
    BY <2>1 DEF CacheLag, Lag, PutOff
  <2>4. FirstLoad(s)'
    BY <1>1, <1>5, <1>10, <1>13, <2>1, <2>2, <2>3 DEF FirstLoad
  <2>5. Coming(s)' = {}
    BY <2>1 DEF Coming
  <2>6. phase[s] = "pumping" => openedAt[s] + Lag >= due /\ openedAt[s] + Lag >= now
    BY <1>4, <2>2, TimeTypes
  <2>7. FilterAge(s)'
    BY <1>1, <1>3, <1>10, <1>13, <2>1, <2>3, <2>5, <2>6 DEF FilterAge, Differ
  <2> QED BY <1>4, <1>7, <1>8, <1>9, <2>4, <2>7 DEF TimeInv, FiltersInv
<1>14. CASE cache = NoList /\ ReadFails /\ phase' = [phase EXCEPT ![s] = "pumping"]
              /\ UNCHANGED <<filter, filling>>
  <2>1. /\ fetch'[s] = NoList /\ filter'[s] = {} /\ filling'[s] = NoList /\ phase'[s] = "pumping"
    BY <1>1, <1>4, <1>5, <1>11, <1>14 DEF ReadFails, FirstLoad
  <2>2. openedAt[s] + PutOff >= now
    <3>1. CASE phase[s] = "loading"
      <4>1. now = openedAt[s]
        BY <1>1, <1>11, <3>1 DEF FirstLoad
      <4> QED BY <1>4, <4>1, TimeTypes
    <3>2. CASE phase[s] = "pumping"
      <4>1. openedAt[s] + PutOff >= filterDue[s] /\ now <= filterDue[s]
        BY <1>1, <1>11, <1>14, <3>2 DEF FirstLoad
      <4> QED BY <1>4, <4>1, TimeTypes
    <3> QED BY <1>10, <3>1, <3>2
  <2>3. PICK later : later = PutOff + RefreshEvery
    OBVIOUS
  <2>4. /\ PutOff' = later /\ CacheLag' = RefreshEvery + 2 * FetchTime + PutOff'
        /\ Lag' = 2 * RefreshEvery + 2 * FetchTime + PutOff'
    BY <1>14, <2>3, FailurePutsOff DEF CacheLag, Lag, PutOff
  <2>5. /\ openedAt[s] + later >= due
        /\ openedAt[s] + (2 * RefreshEvery + 2 * FetchTime + later) >= due
        /\ openedAt[s] + (2 * RefreshEvery + 2 * FetchTime + later) >= now
    BY <1>4, <2>2, <2>3, TimeTypes
  <2>6. openedAt[s] + PutOff' >= due /\ openedAt[s] + Lag' >= due /\ openedAt[s] + Lag' >= now
    BY <2>4, <2>5
  <2>7. FirstLoad(s)'
    BY <1>1, <1>10, <2>1, <2>6 DEF FirstLoad
  <2>8. Coming(s)' = {}
    BY <2>1 DEF Coming
  <2>9. FilterAge(s)'
    BY <1>1, <1>3, <1>10, <2>1, <2>6, <2>8 DEF FilterAge, Differ
  <2> QED BY <1>4, <1>7, <1>8, <1>9, <2>7, <2>9 DEF TimeInv, FiltersInv
<1> QED BY <1>2, <1>12, <1>13, <1>14

LEMMA StoreOwnTime ==
  ASSUME TypeOK, TypeOK', TimeInv, NEW s \in Sessions, StoreOwn(s)
  PROVE  TimeInv'
<1>1. /\ s \in V2 /\ fetch[s] # NoList /\ cache' = fetch[s]
      /\ fetch' = [fetch EXCEPT ![s] = NoList] /\ Rebuild(s, fetch[s])
      /\ UNCHANGED <<phase, filterDue, fetchedAt, refreshDue, errors, now, rowVars, kind, openedAt>>
  BY DEF StoreOwn, StoreFetched, Running, historyVars
<1>2. /\ \A p : ChangedAt(p)' = ChangedAt(p)
      /\ UNCHANGED active
  BY <1>1, SameRows
<1>3. V2' = V2 /\ Refresher \notin V2 /\ V2 \subseteq Readers
      /\ V2 \subseteq Sessions /\ Refresher # s /\ s \in Readers
  BY <1>1, CacheAssumption DEF Readers, V2
<1>4. /\ fetch \in [Readers -> (SUBSET Providers) \union {NoList}]
      /\ filter \in [Sessions -> SUBSET Providers]
      /\ filling \in [Sessions -> (SUBSET Providers) \union {NoList}]
  BY DEF TypeOK, CacheTypeOK
<1>5. PutOff' = PutOff /\ CacheLag' = CacheLag /\ Lag' = Lag /\ PutOff >= PutOff
  BY <1>1, TimeTypes DEF CacheLag, Lag, PutOff
<1>6. FetchesAreFresh'
  BY <1>1, <1>2, <1>3, <1>4 DEF TimeInv, FetchesAreFresh, Differ
<1>7. \A p \in Providers : Differ(fetch[s], p) =>
        /\ ChangedAt(p) + CacheLag >= now /\ ChangedAt(p) + Lag >= now
        /\ ChangedAt(p) + PutOff + RefreshEvery + FetchTime + 0 >= refreshDue
        /\ ChangedAt(p) + PutOff + RefreshEvery + FetchTime + RefreshEvery >= refreshDue
        /\ ChangedAt(p) + Lag >= fetchedAt[s] + RefreshEvery
  <2>1. \A p \in Providers : Differ(fetch[s], p) =>
          /\ ChangedAt(p) >= fetchedAt[s] /\ ChangedAt(p) + FetchTime >= now
          /\ ChangedAt(p) + PutOff + RefreshEvery + FetchTime >= refreshDue
    BY <1>1, <1>3, StoredIsFresh DEF TimeInv, FetchesAreFresh
  <2> QED BY <1>3, <2>1, TimeTypes
<1>8. CacheAge'
  <2>1. fetch'[Refresher] = fetch[Refresher]
    BY <1>1, <1>3, <1>4
  <2> QED BY <1>1, <1>2, <1>5, <1>7, <2>1 DEF TimeInv, CacheAge, Differ
<1>9. ASSUME NEW t \in V2, t # s PROVE FirstLoad(t)' /\ FilterAge(t)'
  <2>1. /\ fetch'[t] = fetch[t] /\ fetchedAt'[t] = fetchedAt[t]
        /\ filter'[t] = filter[t] /\ filling'[t] = filling[t]
    BY <1>1, <1>3, <1>4, <1>9 DEF Rebuild
  <2>2. PutOff' >= PutOff /\ (cache' = NoList => cache = NoList)
    BY <1>1, <1>5
  <2> QED BY <1>1, <2>1, <2>2, OtherSessions
<1>10. filter'[s] = {} /\ filling'[s] = fetch[s] /\ fetch'[s] = NoList
  BY <1>1, <1>3, <1>4 DEF Rebuild, NoEntries
<1>11. FirstLoad(s) /\ FilterAge(s)
  BY <1>1 DEF TimeInv, FiltersInv
<1>12. FirstLoad(s)'
  BY <1>1, <1>10, <1>11 DEF FirstLoad
<1>13. Coming(s)' = fetch[s]
  BY <1>1, <1>10 DEF Coming
<1>14. phase[s] = "pumping" => filterDue[s] = fetchedAt[s] + RefreshEvery
  BY <1>1, <1>11 DEF FirstLoad
<1>15. FilterAge(s)'
  BY <1>1, <1>2, <1>5, <1>7, <1>11, <1>13, <1>14 DEF FilterAge, Differ
<1> QED BY <1>3, <1>6, <1>8, <1>9, <1>12, <1>15 DEF TimeInv, FiltersInv

LEMMA FillOneTime ==
  ASSUME TypeOK, TypeOK', TimeInv, NEW s \in Sessions, FillOne(s)
  PROVE  TimeInv'
<1> DEFINE due == now + RefreshEvery
<1>1. filling[s] # NoList /\ UNCHANGED <<cacheSide, kind, openedAt>>
  BY DEF FillOne, Running, historyVars
<1> USE DEF cacheSide, cacheVars, rowVars
<1>2. /\ \A p : ChangedAt(p)' = ChangedAt(p)
      /\ UNCHANGED active
  BY <1>1, SameRows
<1>3. V2' = V2 /\ V2 \subseteq Sessions
  BY <1>1 DEF V2
<1>4. /\ filter \in [Sessions -> SUBSET Providers]
      /\ filling \in [Sessions -> (SUBSET Providers) \union {NoList}]
      /\ filterDue \in [Sessions -> Nat]
      /\ phase \in [Sessions -> {"new", "loading", "pumping", "leaving", "unregistered", "gone"}]
  BY DEF TypeOK
<1>5. PutOff' = PutOff /\ CacheLag' = CacheLag /\ Lag' = Lag /\ PutOff >= PutOff
  BY <1>1, TimeTypes DEF CacheLag, Lag, PutOff
<1>6. FetchesAreFresh' /\ CacheAge'
  BY <1>1, <1>2, <1>5 DEF TimeInv, FetchesAreFresh, CacheAge, Differ
<1>7. \/ /\ \E p \in filling[s] :
              /\ filter' = [filter EXCEPT ![s] = @ \union {p}]
              /\ filling' = [filling EXCEPT ![s] = @ \ {p}]
         /\ UNCHANGED <<phase, filterDue>>
      \/ /\ filling[s] = {} /\ filling' = [filling EXCEPT ![s] = NoList]
         /\ PumpStarts(s) /\ UNCHANGED filter
  BY DEF FillOne
<1>8. ASSUME NEW t \in V2, t # s PROVE FirstLoad(t)' /\ FilterAge(t)'
  <2>1. /\ filter'[t] = filter[t] /\ filling'[t] = filling[t] /\ filterDue'[t] = filterDue[t]
        /\ phase'[t] = phase[t]
    BY <1>3, <1>4, <1>7, <1>8 DEF PumpStarts
  <2>2. PutOff' >= PutOff
    BY <1>5
  <2> QED BY <1>1, <2>1, <2>2, OtherSessions
<1>9. ASSUME s \in V2 PROVE FirstLoad(s)' /\ FilterAge(s)'
  <2>1. FirstLoad(s) /\ FilterAge(s) /\ cache # NoList /\ fetch[s] = NoList
        /\ phase[s] # "new"
    BY <1>1, <1>9 DEF TimeInv, FiltersInv, FirstLoad
  <2>2. CASE /\ \E p \in filling[s] :
                  /\ filter' = [filter EXCEPT ![s] = @ \union {p}]
                  /\ filling' = [filling EXCEPT ![s] = @ \ {p}]
             /\ UNCHANGED <<phase, filterDue>>
    <3>1. PICK p \in filling[s] : /\ filter' = [filter EXCEPT ![s] = @ \union {p}]
                                  /\ filling' = [filling EXCEPT ![s] = @ \ {p}]
      BY <2>2
    <3>2. /\ filter'[s] = filter[s] \union {p} /\ filling'[s] = filling[s] \ {p}
          /\ filling[s] \in SUBSET Providers
      BY <1>1, <1>4, <3>1
    <3>3. filling'[s] # NoList
      BY <3>2, CacheAssumption
    <3>4. Coming(s)' = Coming(s)
      BY <1>1, <3>1, <3>2, <3>3 DEF Coming
    <3>5. FirstLoad(s)'
      BY <1>1, <2>1, <2>2, <3>3 DEF FirstLoad
    <3>6. FilterAge(s)'
      BY <1>1, <1>2, <1>5, <2>1, <2>2, <3>4 DEF FilterAge, Differ
    <3> QED BY <3>5, <3>6
  <2>3. CASE /\ filling[s] = {} /\ filling' = [filling EXCEPT ![s] = NoList]
             /\ PumpStarts(s) /\ UNCHANGED filter
    <3>1. filling'[s] = NoList
      BY <1>4, <2>3
    <3>2. Coming(s)' = Coming(s)
      BY <1>1, <2>3, <3>1 DEF Coming
    <3>3. \/ phase[s] = "loading" /\ phase'[s] = "pumping" /\ filterDue'[s] = due
          \/ phase[s] # "loading" /\ UNCHANGED <<phase, filterDue>>
      BY <1>4, <2>3 DEF PumpStarts
    <3>4. FirstLoad(s)'
      <4>1. due <= due
        BY TimeTypes
      <4> QED BY <1>1, <2>1, <3>1, <3>3, <4>1 DEF FirstLoad
    <3>5. \A p \in Providers : Differ(Coming(s), p) =>
            ChangedAt(p) + Lag >= due /\ ChangedAt(p) + Lag >= now
      <4>1. \A p \in Providers : Differ(Coming(s), p) => ChangedAt(p) + CacheLag >= now
        BY <1>1, <2>1 DEF FilterAge
      <4> QED BY <4>1, TimeTypes
    <3>6. FilterAge(s)'
      BY <1>1, <1>2, <1>5, <2>1, <3>1, <3>2, <3>3, <3>5 DEF FilterAge, Differ
    <3> QED BY <3>4, <3>6
  <2> QED BY <1>7, <2>2, <2>3
<1> QED BY <1>3, <1>6, <1>8, <1>9 DEF TimeInv, FiltersInv

LEMMA TickTime ==
  ASSUME TypeOK, TypeOK', TimeInv, Tick
  PROVE  TimeInv'
<1>1. /\ CacheOnTime /\ now' = now + 1
      /\ \A s \in V2 : (LoadDue(s) => fetch[s] # NoList) /\ filling[s] = NoList
      /\ UNCHANGED <<rowVars, cacheVars, phase, filterVars, kind, openedAt>>
  BY DEF Tick, Running, historyVars
<1> USE DEF cacheVars, filterVars
<1>2. /\ \A p : ChangedAt(p)' = ChangedAt(p)
      /\ UNCHANGED active
  BY <1>1, SameRows
<1>3. V2' = V2 /\ V2 \subseteq Sessions /\ V2 \subseteq Readers
  BY <1>1 DEF V2, Readers
<1>4. PutOff' = PutOff /\ CacheLag' = CacheLag /\ Lag' = Lag
  BY <1>1 DEF CacheLag, Lag, PutOff
<1>5. PICK next \in Nat : next = now + 1 /\ next = now'
  BY <1>1, TimeTypes
<1>6. FetchesAreFresh'
  <2>1. ASSUME NEW r \in Readers, fetch[r] # NoList
        PROVE  fetchedAt[r] <= next /\ next <= fetchedAt[r] + FetchTime
    <3>1. fetchedAt[r] <= now /\ now < fetchedAt[r] + FetchTime
      BY <1>1, <2>1 DEF TimeInv, FetchesAreFresh, CacheOnTime
    <3> QED BY <1>5, <3>1, TimeTypes
  <2> QED BY <1>1, <1>2, <1>5, <2>1 DEF TimeInv, FetchesAreFresh, Differ
<1>7. CacheAge'
  <2>1. next <= refreshDue /\ refreshDue <= next + RefreshEvery
    <3>1. refreshDue > now /\ refreshDue <= now + RefreshEvery
      BY <1>1 DEF TimeInv, CacheAge, CacheOnTime
    <3> QED BY <1>5, <3>1, TimeTypes
  <2> QED BY <1>1, <1>2, <1>4, <1>5, <2>1 DEF TimeInv, CacheAge, Differ
<1>8. ASSUME NEW s \in V2 PROVE FirstLoad(s)'
  <2>1. FirstLoad(s) /\ s \in Sessions /\ s \in Readers
    BY <1>3 DEF TimeInv, FiltersInv
  <2>2. phase[s] = "pumping" /\ fetch[s] = NoList => next <= filterDue[s]
    <3>1. phase[s] = "pumping" /\ fetch[s] = NoList => now < filterDue[s]
      BY <1>1, <2>1, TimeTypes DEF LoadDue
    <3> QED BY <1>5, <2>1, <3>1, TimeTypes
  <2>3. phase[s] = "pumping" => filterDue[s] <= next + RefreshEvery
    <3>1. phase[s] = "pumping" => filterDue[s] <= now + RefreshEvery
      BY <2>1 DEF FirstLoad
    <3> QED BY <1>5, <2>1, <3>1, TimeTypes
  <2> QED BY <1>1, <1>4, <1>5, <2>1, <2>2, <2>3 DEF FirstLoad, LoadDue
<1>9. ASSUME NEW s \in V2 PROVE FilterAge(s)'
  <2>1. FirstLoad(s) /\ FilterAge(s) /\ s \in Sessions /\ s \in Readers /\ filling[s] = NoList
    BY <1>1, <1>3 DEF TimeInv, FiltersInv
  <2>2. Coming(s)' = Coming(s)
    BY <1>1 DEF Coming
  <2>4. ASSUME NEW p \in Providers, phase[s] = "pumping", Differ(Coming(s), p)
        PROVE  \/ ChangedAt(p) + Lag >= next
               \/ p \in active /\ openedAt[s] + Lag >= next
    <3>1. CASE fetch[s] = NoList
      <4>1. now < filterDue[s]
        BY <1>1, <2>1, <2>4, <3>1, TimeTypes DEF LoadDue
      <4>2. \/ ChangedAt(p) + Lag >= filterDue[s]
            \/ p \in active /\ openedAt[s] + Lag >= filterDue[s]
        BY <2>1, <2>4 DEF FilterAge
      <4> QED BY <1>5, <2>1, <4>1, <4>2, TimeTypes
    <3>2. CASE fetch[s] # NoList
      <4>1. p \in active
        BY <2>1, <2>4, <3>2 DEF FirstLoad, Coming, Differ
      <4>2. openedAt[s] + PutOff >= fetchedAt[s] /\ now < fetchedAt[s] + FetchTime
        BY <1>1, <2>1, <2>4, <3>2 DEF FirstLoad, CacheOnTime
      <4> QED BY <1>5, <2>1, <4>1, <4>2, TimeTypes
    <3> QED BY <3>1, <3>2
  <2> QED BY <1>1, <1>2, <1>4, <1>5, <2>1, <2>2, <2>4 DEF FilterAge, Differ
<1> QED BY <1>3, <1>6, <1>7, <1>8, <1>9 DEF TimeInv, FiltersInv

LEMMA ConnectTime ==
  ASSUME TypeOK, TypeOK', TimeInv, NEW s \in Sessions, Connect(s)
  PROVE  TimeInv'
<1>1. /\ UNCHANGED <<cacheSide, filterVars, kind>> /\ phase[s] = "new"
      /\ phase' = [phase EXCEPT ![s] = IF s \in V2 THEN "loading" ELSE "pumping"]
      /\ openedAt' = [openedAt EXCEPT ![s] = now]
  BY DEF Connect, Running
<1> USE DEF cacheSide, cacheVars, rowVars, filterVars
<1>2. \A p : ChangedAt(p)' = ChangedAt(p)
  BY <1>1 DEF ChangedAt
<1>3. V2' = V2 /\ V2 \subseteq Sessions
  BY <1>1 DEF V2
<1>4. /\ openedAt \in [Sessions -> 0..MaxTime]
      /\ phase \in [Sessions -> {"new", "loading", "pumping", "leaving", "unregistered", "gone"}]
  BY DEF TypeOK
<1>5. PutOff' = PutOff /\ CacheLag' = CacheLag /\ Lag' = Lag /\ PutOff >= PutOff
  BY <1>1, TimeTypes DEF CacheLag, Lag, PutOff
<1>6. FetchesAreFresh' /\ CacheAge'
  BY <1>1, <1>2, <1>5 DEF TimeInv, FetchesAreFresh, CacheAge, Differ
<1>7. ASSUME NEW t \in V2, t # s PROVE FirstLoad(t)' /\ FilterAge(t)'
  <2>1. phase'[t] = phase[t] /\ openedAt'[t] = openedAt[t]
    BY <1>1, <1>3, <1>4, <1>7
  <2>2. PutOff' >= PutOff
    BY <1>5
  <2> QED BY <1>1, <2>1, <2>2, OtherSessions
<1>8. ASSUME s \in V2 PROVE FirstLoad(s)' /\ FilterAge(s)'
  <2>1. phase'[s] = "loading" /\ openedAt'[s] = now
    BY <1>1, <1>4, <1>8
  <2>2. FirstLoad(s)
    BY <1>8 DEF TimeInv, FiltersInv
  <2>3. FirstLoad(s)'
    BY <1>1, <2>1, <2>2 DEF FirstLoad
  <2>4. filling'[s] = NoList
    BY <1>1, <2>2 DEF FirstLoad
  <2>5. FilterAge(s)'
    BY <2>1, <2>4 DEF FilterAge
  <2> QED BY <2>3, <2>5
<1> QED BY <1>3, <1>6, <1>7, <1>8 DEF TimeInv, FiltersInv

LEMMA TimeKept ==
  ASSUME TypeOK, TypeOK', TimeInv, [Next]_vars
  PROVE  TimeInv'
<1>1. ASSUME NEW p \in Providers, (Subscribe(p) \/ Unsubscribe(p)) /\ OutsideStreams
      PROVE  TimeInv'
  BY <1>1, RowsChange DEF OutsideStreams, Running, historyVars
<1>2. CASE RefreshAllUsers /\ OutsideStreams
  BY <1>2, RefreshAllTime DEF OutsideStreams, Running, historyVars
<1>3. CASE StoreRefreshed /\ OutsideStreams
  BY <1>3, StoreRefreshedTime DEF OutsideStreams, Running, historyVars
<1>4. ASSUME \/ \E id \in NodeIds : Receive(id)
             \/ \E s \in Sessions : Visit(s)
             \/ Send
             \/ NextRange
             \/ UNCHANGED vars
      PROVE  FiltersStand
  BY <1>4 DEF Receive, Visit, Send, NextRange, Running, historyVars, vars, streamVars,
              FiltersStand
<1>5. ASSUME NEW s \in Sessions, Pump(s) \/ Unregister(s) \/ CloseChannel(s)
      PROVE  FiltersStand
  <2>1. phase \in [Sessions -> {"new", "loading", "pumping", "leaving", "unregistered", "gone"}]
    BY DEF TypeOK
  <2>2. \/ UNCHANGED phase
        \/ \E to \in {"leaving", "unregistered", "gone"} : phase' = [phase EXCEPT ![s] = to]
    BY <1>5 DEF Pump, Skip, Write, MapRace, Unregister, CloseChannel
  <2>3. \A t \in Sessions :
          phase'[t] = phase[t] \/ phase'[t] \notin {"new", "loading", "pumping"}
    BY <2>1, <2>2
  <2>4. UNCHANGED <<cacheSide, filterVars, kind, openedAt>>
    BY <1>5 DEF Pump, Unregister, CloseChannel, Running, historyVars
  <2> QED BY <2>3, <2>4 DEF FiltersStand
<1> QED BY <1>1, <1>2, <1>3, <1>4, <1>5, StandingFilters, LoadFilterTime, StoreOwnTime,
           FillOneTime, TickTime, ConnectTime
        DEF Next

-----------------------------------------------------------------------------
(* The theorems.                                                             *)
HubPart == TypeOK /\ RegisteredWhileServed /\ HubInv /\ StreamsInv
StreamInv == HubPart /\ TimeInv

LEMMA StreamInitInv == Init => StreamInv
<1> SUFFICES ASSUME Init PROVE StreamInv
  OBVIOUS
<1>1. TypeOK
  BY InitTypeOK
<1>2. RegisteredWhileServed /\ HubInv
  BY DEF Init, RegisteredWhileServed, Served, HubInv, Idle
<1>3. \A s \in Sessions : Stream(s) = <<>> /\ ~StillToCome(s)
  BY StreamAssumption DEF Init, Stream, StillToCome, Idle
<1>4. StreamsInv
  BY <1>3 DEF Init, StreamsInv, InOrder, Complete
<1>5. FetchesAreFresh
  BY DEF Init, CacheInit, FetchesAreFresh
<1>6. CacheAge
  BY CacheAssumption DEF Init, CacheInit, CacheAge, Readers
<1>7. FiltersInv
  BY DEF Init, CacheInit, FiltersInv, FirstLoad, FilterAge, V2, Readers
<1> QED BY <1>1, <1>2, <1>4, <1>5, <1>6, <1>7 DEF StreamInv, HubPart, TimeInv

LEMMA StreamNextInv == StreamInv /\ [Next]_vars => StreamInv'
BY TypesKept, RegisteredKept, HubInvKept, StreamsKept, TimeKept DEF StreamInv, HubPart

LEMMA SendPanicKept ==
  ASSUME HubPart, SendPanicsOnlyOnLeaver, [Next]_vars
  PROVE  SendPanicsOnlyOnLeaver'
<1>1. CASE Send
  <2>1. \/ UNCHANGED crashed
        \/ /\ fanout.held \in closed
           /\ crashed' = [by |-> "send", over |-> fanout.held]
    <3>1. CASE fanout.held \in closed
      BY <1>1, <3>1 DEF Send
    <3>2. CASE fanout.held \notin closed
      BY <1>1, <3>2 DEF Send
    <3> QED BY <3>1, <3>2
  <2>2. crashed = NoCrash /\ UNCHANGED leftDuringFanout /\ fanout.held # Nobody
    BY <1>1 DEF Send, Running
  <2>3. fanout.held \in closed => fanout.held \in leftDuringFanout
    BY <2>2 DEF HubPart, HubInv, RegisteredWhileServed, Served
  <2> QED BY <2>1, <2>2, <2>3 DEF SendPanicsOnlyOnLeaver
<1>2. ASSUME NEW s \in Sessions, Pump(s) PROVE SendPanicsOnlyOnLeaver'
  <2>1. crashed = NoCrash /\ (UNCHANGED crashed
          \/ crashed' = [by |-> "map", over |-> s] \/ crashed' = [by |-> "ping", over |-> s])
    BY <1>2 DEF Pump, Running, Skip, Write, MapRace
  <2> QED BY <2>1 DEF SendPanicsOnlyOnLeaver
<1>3. CASE UNCHANGED vars
  BY <1>3 DEF vars, streamVars, historyVars, SendPanicsOnlyOnLeaver
<1>4. ASSUME crashed = NoCrash, UNCHANGED crashed PROVE SendPanicsOnlyOnLeaver'
  BY <1>4 DEF SendPanicsOnlyOnLeaver
<1>5. CASE Next /\ ~Send /\ ~\E s \in Sessions : Pump(s)
  BY <1>4, <1>5
     DEF Next, Running, Receive, Visit, NextRange, Connect, LoadFilter, StoreOwn,
         FillOne, Unregister, CloseChannel, OutsideStreams, Tick
<1> QED BY <1>1, <1>2, <1>3, <1>5

(* Every variable of the hub, its sessions and the cache keeps its type, for *)
(* any sessions, providers, channel capacity and intervals (streamHub,       *)
(* SubscriptionCache).                                                       *)
THEOREM StreamTypeCorrect == Spec => []TypeOK
<1>1. StreamInv => TypeOK
  BY DEF StreamInv, HubPart
<1> QED BY <1>1, StreamInitInv, StreamNextInv, PTL DEF Spec

(* streamHub.run gives every session its events in order, each once, and     *)
(* one that is served misses none that spells the node id as it did, but by  *)
(* a full channel or by a session that used its address.                     *)
THEOREM StreamsComplete == Spec => []StreamComplete
<1>1. StreamInv => StreamComplete
  <2> SUFFICES ASSUME StreamInv PROVE StreamComplete
    OBVIOUS
  <2>1. \A s \in Sessions : \A i, j \in DOMAIN Stream(s) : i < j => Stream(s)[i] < Stream(s)[j]
    BY DEF StreamInv, HubPart, StreamsInv, InOrder
  <2>2. ASSUME NEW s \in Sessions, phase[s] \in {"loading", "pumping"},
               s \notin displaced, fanout.at = "idle",
               NEW n \in joined[s]..Len(emitted), Wildcard(s) \/ Listens(s, emitted[n])
        PROVE  n \in Range(Stream(s)) \union dropped[s]
    <3>1. ~StillToCome(s)
      BY <2>2, StreamAssumption DEF StreamInv, HubPart, HubInv, Idle, StillToCome
    <3>2. s \in registered
      BY <2>2 DEF StreamInv, HubPart, RegisteredWhileServed, Served
    <3> QED BY <2>2, <3>1, <3>2 DEF StreamInv, HubPart, StreamsInv, Complete, Offered
  <2> QED BY <2>1, <2>2 DEF StreamComplete
<1> QED BY <1>1, StreamInitInv, StreamNextInv, PTL DEF Spec

(* The hub panics on a closed channel only when the client left during the   *)
(* very fan-out (unsub deletes before it closes).                            *)
THEOREM StreamSendPanics == Spec => []SendPanicsOnlyOnLeaver
<1>1. Init => SendPanicsOnlyOnLeaver
  BY DEF Init, SendPanicsOnlyOnLeaver
<1>2. StreamInv /\ SendPanicsOnlyOnLeaver /\ [Next]_vars => SendPanicsOnlyOnLeaver'
  BY SendPanicKept DEF StreamInv
<1> QED BY <1>1, <1>2, StreamInitInv, StreamNextInv, PTL DEF Spec

LEMMA FiltersLagLittle == StreamInv => AccessEnds /\ SubscribersServed
<1> SUFFICES ASSUME StreamInv PROVE AccessEnds /\ SubscribersServed
  OBVIOUS
<1>1. TypeOK /\ V2 \subseteq Sessions
  BY DEF StreamInv, HubPart, V2
<1>2. ASSUME NEW s \in V2, NEW p \in filter[s] \ active, phase[s] = "pumping"
      PROVE  now - activeUntil[p] <= Lag
  <2>1. p \in Providers
    BY <1>1, <1>2 DEF TypeOK
  <2>2. ChangedAt(p) + Lag >= now /\ ChangedAt(p) = activeUntil[p]
    BY <1>2, <2>1 DEF StreamInv, TimeInv, FiltersInv, FilterAge, Differ, Coming, ChangedAt
  <2> QED BY <1>1, <2>1, <2>2, TimeTypes
<1>3. ASSUME NEW s \in V2, NEW id \in NodeIds, id.provider \in active, ~Passes(s, id),
             phase[s] = "pumping", filling[s] = NoList, id.spelled = "lower"
      PROVE  now - activeSince[id.provider] <= Lag \/ now - openedAt[s] <= Lag
  <2> DEFINE p == id.provider
  <2>1. p \in Providers /\ s \in Sessions /\ p \in active \ filter[s]
    BY <1>1, <1>3 DEF NodeIds, Passes
  <2> HIDE DEF p
  <2>2. ChangedAt(p) + Lag >= now \/ openedAt[s] + Lag >= now
    BY <1>3, <2>1 DEF StreamInv, TimeInv, FiltersInv, FilterAge, Differ, Coming
  <2>3. ChangedAt(p) = activeSince[p]
    BY <2>1 DEF ChangedAt
  <2>4. now - activeSince[p] <= Lag \/ now - openedAt[s] <= Lag
    BY <1>1, <2>1, <2>2, <2>3, TimeTypes
  <2> QED BY <2>4 DEF p
<1> QED BY <1>2, <1>3 DEF AccessEnds, SubscribersServed

(* A session goes on receiving a provider whose subscription has ended for   *)
(* two refresh intervals and two reads at most, and an interval more for     *)
(* each read that failed (fetchAndCacheProviders, refreshProviders).         *)
THEOREM StreamAccessEnds == Spec => []AccessEnds
BY FiltersLagLittle, StreamInitInv, StreamNextInv, PTL DEF Spec

(* The pump lets the events of a subscription through within the same time,  *)
(* from the subscription or from the opening of the session, whichever came  *)
(* later, if their node ids are spelled in lower case and no fill of the     *)
(* filter is in hand (fetchAndCacheProviders, handleV2Stream).               *)
THEOREM StreamServesSubscribers == Spec => []SubscribersServed
BY FiltersLagLittle, StreamInitInv, StreamNextInv, PTL DEF Spec
=============================================================================
