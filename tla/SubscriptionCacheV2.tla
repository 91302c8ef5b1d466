------------------------ MODULE SubscriptionCacheV2 ------------------------
(***************************************************************************)
(* The subscription cache of the V2 stream: what the database says about   *)
(* one user (users are independent), the cached copy, and the reads of the *)
(* database that are under way.  A read and the store that follows it are  *)
(* two steps: neither takes a lock.  The handlers that subscribe and       *)
(* unsubscribe write the database only: nothing calls InvalidateUser, so a *)
(* change is seen at the next refresh.                                     *)
(***************************************************************************)
EXTENDS Integers, FiniteSets

CONSTANTS
    Providers,
    Sessions,           \* V2 streams and others, see SignalStream
    Refresher,          \* the goroutine of refreshLoop
    NoList,             \* no provider list
    RefreshEvery,       \* both refresh intervals: 5 minutes in the code
    FetchTime,          \* the longest a database read may take
    MaxErrors,          \* bound on failed reads of the database
    MaxTime             \* bound on the clock

ASSUME CacheAssumption ==
    /\ RefreshEvery \in Nat \ {0} /\ FetchTime \in Nat
    /\ MaxErrors \in Nat /\ MaxTime \in Nat
    /\ Refresher \notin Sessions
    /\ \A list \in SUBSET Providers : NoList # list

VARIABLES
    now,
    active,             \* rows with end_time > NOW()
    cache,              \* the user's entry
    fetch,              \* what each reader has read and not stored yet
    fetchedAt,          \* when it read it
    refreshDue,         \* when refreshLoop's ticker fires next
    errors,             \* reads that failed
    activeSince,        \* history: when the provider's row became active
    activeUntil         \* history: when it was last seen active

cacheVars == <<cache, fetch, fetchedAt, refreshDue, errors>>
rowVars == <<active, activeSince, activeUntil>>

Readers == Sessions \union {Refresher}

CacheTypeOK ==
    /\ now \in 0..MaxTime
    /\ active \in SUBSET Providers
    /\ cache \in (SUBSET Providers) \union {NoList}
    /\ fetch \in [Readers -> (SUBSET Providers) \union {NoList}]
    /\ fetchedAt \in [Readers -> 0..MaxTime]
    /\ refreshDue \in Nat
    /\ errors \in 0..MaxErrors
    /\ activeSince \in [Providers -> 0..MaxTime]
    /\ activeUntil \in [Providers -> 0..MaxTime]

CacheInit ==
    /\ now = 0
    /\ active \in SUBSET Providers
    /\ cache = NoList
    /\ fetch = [r \in Readers |-> NoList]
    /\ fetchedAt = [r \in Readers |-> 0]
    /\ refreshDue = RefreshEvery
    /\ errors = 0
    /\ activeSince = [p \in Providers |-> 0]
    /\ activeUntil = [p \in Providers |-> 0]

-----------------------------------------------------------------------------
(* handleV2Subscribe and handleV2Unsubscribe; a row also ends by itself *)

Subscribe(p) ==
    /\ p \notin active
    /\ active' = active \union {p}
    /\ activeSince' = [activeSince EXCEPT ![p] = now]
    /\ UNCHANGED <<activeUntil, cacheVars>>

Unsubscribe(p) ==
    /\ p \in active
    /\ active' = active \ {p}
    /\ activeUntil' = [activeUntil EXCEPT ![p] = now]
    /\ UNCHANGED <<activeSince, cacheVars>>

-----------------------------------------------------------------------------
(* The reads *)

\* fetchAndCacheProviders, first half: the query
ActiveProviders == active
ReadActive(r) ==
    /\ fetch' = [fetch EXCEPT ![r] = ActiveProviders]
    /\ fetchedAt' = [fetchedAt EXCEPT ![r] = now]
    /\ UNCHANGED errors

\* the query failed: the entry stays as it is
ReadFails ==
    /\ errors < MaxErrors
    /\ errors' = errors + 1
    /\ UNCHANGED <<fetch, fetchedAt>>

\* fetchAndCacheProviders, second half: the entry is replaced whatever has been
\* stored in the meantime
StoreFetched(r) ==
    /\ fetch[r] # NoList
    /\ cache' = fetch[r]
    /\ fetch' = [fetch EXCEPT ![r] = NoList]

\* refreshAllUsers: the users that have an entry; a slow round swallows ticks
SubscribedUser == cache # NoList /\ cache # {}
CachedUser == cache # NoList
RefreshAllUsers ==
    /\ now >= refreshDue /\ fetch[Refresher] = NoList
    /\ refreshDue' = now + RefreshEvery
    /\ IF CachedUser
       THEN ReadActive(Refresher) \/ ReadFails
       ELSE UNCHANGED <<fetch, fetchedAt, errors>>
    /\ UNCHANGED <<cache, rowVars>>

StoreRefreshed ==
    /\ StoreFetched(Refresher)
    /\ UNCHANGED <<fetchedAt, refreshDue, errors, rowVars>>

\* neither the ticker nor a read is late when the clock moves
CacheOnTime ==
    /\ refreshDue > now
    /\ \A r \in Readers : fetch[r] # NoList => now < fetchedAt[r] + FetchTime
=============================================================================
