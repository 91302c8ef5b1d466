# A verification development for the Ogruns verification layer

This directory models the signal-verification system of the repository in TLA+,
checks the models with TLC and proves theorems about them with TLAPS. Paths
below are relative to the repository; `VL` stands for `src/verification-layer`.

## 1. The system

Signal providers (nodes) submit signed trading signals. The Go service in
`VL/cmd/verifier` validates them, waits until each signal's expiry, fetches one
price, judges the signal, updates the node's reputation, pushes the score to a
smart contract and pays points to the provider. Users deposit into a vault,
receive points and spend them on subscriptions to providers; providers withdraw
points as tokens. A trading agent, the sentinel (`src/sentinel`, TypeScript), is
the platform's own client: it subscribes to the signal stream and trades what
passes its filters on GMX, or on paper.

| Component | Source | State it keeps | Operations | Talks to |
|---|---|---|---|---|
| API server, rate limiter | `VL/internal/api/server.go`, `VL/internal/ratelimit` | request windows, recent hashes, the submit queue (10000) | submit, statistics | sequencer by the queue |
| Stream hub, subscription cache | `VL/internal/api/server.go`, `subscription_v2.go` | two client maps, a channel of 64 events per client, cached provider lists, a filter per V2 session | receive, fan out, connect, pump, leave, refresh | sequencer and handler by the event channel; database |
| L2 sequencer | `VL/internal/ingester/scheduler_batcher.go` | `signals` waiting for a batch | accept, flush every 24 h, save every 2 min, restore, shut down | scheduler, encrypted store, 0G Storage, event channel |
| Signal scheduler | `VL/internal/scheduler/scheduler.go` | map id -> signal with timer | add, timer, analyse, force, stop | price source, result handler |
| Result handler | `VL/internal/scheduler/handler.go` | none of its own | record, evaluate, push the score, credit points | scorer, AI service, contracts, allocator, event channel |
| Scorer and persistence | `VL/internal/scorer` | closed signals, node stats, AI proofs, state file | record, compute, save, load | handler, API |
| Encrypted store, 0G client | `VL/internal/crypto/encryption.go`, `VL/internal/ingester/client.go` | `active_signals.enc` | save, load, upload | disk, 0G Storage |
| Point allocator | `VL/internal/points/allocator.go` | none | points of a result | database |
| Deposit listener | `VL/internal/vault/listener.go` | last processed block (database) | poll, credit, record | chain, database |
| Repositories and schema | `VL/internal/database` | tables with constraints | credit, debit, subscribe, record | PostgreSQL |
| V2 handlers and vault client | `VL/internal/api/handlers_v2.go`, `VL/internal/vault/vault_contract.go` | none | subscribe, withdraw | database, vault contract |
| Contracts | `src/contracts/src/*.sol` | registry, scores, subscriptions, balances | register, link, score, subscribe, route, withdraw | each other |
| Sentinel: consumer | `src/sentinel/src/signals/consumer.ts` | socket, reconnect attempts and timer, node statistics | connect, receive, reconnect, filter | stream and REST API of the platform |
| Sentinel: executors | `src/sentinel/src/gmx/executor.ts`, `paper-executor.ts` | positions, history, virtual balance, timers | execute, poll, close | GMX router, keeper, RPC node |
| Sentinel: agent and dashboard | `src/sentinel/src/index.ts`, `web/server.ts`, `core/config.ts` | counters, configuration, approvals on chain | start, ask for scheduled signals, handle a signal, exit | all of the above |
| Solvency prover, older tick-driven engine (`cmd/platform`), agent template, bots, frontend | see `PROJECT.json` | | | |

What is hard about it:

* **Concurrency.** An analysis releases the scheduler's mutex for the price
  request; every closed signal has its own `HandleResult` goroutine, with two
  more for the score and the points; HTTP handlers of one user or provider run
  in parallel; the sequencer loop runs beside all of them. The stream hub, the
  sessions' handlers and their refresh goroutines share maps and channels
  without a lock. The sentinel has one thread, but every `await` of a handler
  lets the next message in.
* **Failure.** The process may crash anywhere. Three things survive it, each in
  its own way: an encrypted file overwritten in place, a state file renamed
  atomically, and database transactions. Uploads, saves, database calls, sends
  and receipts fail separately. The sentinel keeps nothing on disk: what
  survives it is on chain.
* **Ordering.** Shutdown does not wait for the sequencer; transactions settle
  in any order; blocks are scanned again after a crash; a read of the database
  may be stored in a cache after a newer one.
* **Delivery.** Full channels lose events; sockets close and are opened again
  without a catch-up; a session from the same address takes another's place in
  the hub; the platform streams a signal again that it forgot in a restart; the
  keeper answers late or never.
* **Arithmetic.** Points, shares of a payment, tiers and scores are computed by
  different programs on different grids.

What makes it correct: a signal is analysed exactly once per registration and
never twice across restarts; it misses the audit trail only in a batch that is
given up; a node's history counts each signal once and never shrinks; a deposit
is credited once, only when confirmed, and never passed over silently; points
and wei are conserved; the links between agents and tokens agree; the verdict,
the score and the reward of a signal tell the same story; a subscriber's stream
lacks only what the client was too slow for and lags behind the subscriptions by
a bounded time; the sentinel's positions, books and counters agree with what it
ordered, and it trades each signal it should, once, or for a stated reason.

## 2. The modules

Each module names the source it translates in its head comment, and `map` in
`PROJECT.json` gives the lines of every definition.

### SignalScheduler (scheduler.go)

One action per operation: `AddSignal`, `TimerFires` (the `time.AfterFunc`
callback), `ForceAnalyze`, `Stop`, and an analysis split where the code takes
and releases the mutex: `Lookup`, `FetchPrice`, `Finalize`, `HandlerReturns`. A
`*scheduledSignal` is a registration number, so the object a timer belongs to
and the object the map holds under the same id later are told apart. `object`
and `results` are history. A price error leads to `Finalize` like a price does.

*Checked* (run `SignalScheduler`): `ExactlyOneResult`, `EventuallyAnalysed`.
*Proved*: `ExactlyOneResult`, `AnalysisOnItsWay`.

### SchedulerBatcher (scheduler_batcher.go, main.go), SignalLifecycle

`SchedulerBatcher` EXTENDS `SignalScheduler` and adds the sequencer's select
loop as one control variable `loop`, with the operations that do I/O split
before and after it: a flush takes the queue (`FlushBegins`) and ends with
`BundleUploaded`, with `UploadFails`, which puts the batch back, or in one of
the two ways in which `flushTo0G` gives the batch up: it cannot be written
(`DropBundle`), or its transfer fails behind a precomputed root
(`TransferFails`). What was uploaded and what was given up are counted apart
(`gone`, `lost`). A start may find the store's file unreadable, and removes it
then (`Load`). A save takes its image (`SaveBegins`) and ends with
`SaveSucceeds` or `SaveFails`, which may truncate the file. Accepting a
submission is two steps, scheduling and queueing, because an analysis can finish
between them. `Cancel`, `Exit`, `Crash` and `Boot` are the process around it:
`Exit` is possible as soon as the context is cancelled, since `main` waits for
nothing else. A slice of envelopes is a count per envelope.

`SignalLifecycle` is the promise per signal: idle, scheduled while its expiry
is ahead, closed once the expiry has come, and closed for good. A restart may
forget a scheduled signal. `ImplementsLifecycle` is the refinement, with `phase`
computed from the scheduler's map and the results.

### NodeScoring (handler.go, scorer.go, persistence.go)

`RecordClosed` is its two critical sections, `RecordAppend` and `RecordStore`;
the goroutine that credits points is `Earn` of `ProviderWithdrawal`. Stats are
represented by the number of signals they were computed from. The scorer's maps
are keyed by the node id as the signal spells it (`Nodes`), the chain by the
address it stands for (`AddressOf`): verification ignores the case. Saves, the
final save, reading the file (or failing to) and the end of the process are
actions. The final save is taken before the scheduler stops, so `RecordAppend`
may follow it: with the history variables `sinceSave` and `forgone`,
`ClosedAreCounted` says that this, a crash between two saves and a start that
cannot read the file are the only ways to lose a closed signal. That a signal
enters only once is what `OneResultPerEnvelope` of `SchedulerBatcher` says.

The goroutine that pushes the score is a sender among others: vault calls and
batch uploads are signed with the same key. A sender reads the pending nonce
(`ReadNonce`) and sends later (`SendTx`, `SendFails`); the node appends the
transaction, refuses it, or replaces the one that has its nonce, and the chain
takes them in nonce order (`Mine`), also after the process has ended.
`contended` and `disturbed` record why a score may never arrive or be overtaken;
`OracleCurrent` says that there is no other reason. Of a provider that spells
its id in several ways the scorer keeps several histories, and the oracle shows
the score of one of them.

*Checked and proved*: `ClosedAreCounted`, `StaleOnlyAfterOverlap`,
`OracleCurrent`, `DurableHistoryGrows`.

### PointLedger (listener.go, repos.go, handleV2Subscribe)

A poll scans a range of confirmed blocks and processes one event at a time:
check, credit (one transaction under the `UNIQUE` key), record, then the block
pointer. Any database call may fail and the process may stop at every step.
Subscriptions check the balance and pay in a later transaction under the
`CHECK` constraint. The deposits include two events in one transaction and one
for an account the `users` table does not have.

### ProviderWithdrawal (handlers_v2.go, vault_contract.go)

`handleV2ProviderWithdraw` with one step per external call: read, debit, send,
receipt, refund, record. The vault is asked for wei and the points are an
integer of their own: both are cut from one float, so a payout may be worth up
to a point more or less than its debit, and an amount may be negative, which the
handler does not refuse. A debit of a negative amount grants points, and the
refund of one is never taken back (the table's CHECK). Sends may fail after the
node took the transaction; the receipt is asked for once; the chain settles a
transaction, or reverts it, at its own time. `answer` is what the client was
told.

*Checked and proved*: `ColumnsAgree`, `PaidWithinRewards`, `NothingEvaporates`,
`RowsAreOnChain`.

### AgentRegistry, SubscriptionEconomy (contracts)

`AgentRegistry` has every state-changing function of the contract and both
paginated getters, beside transfers of the ERC-7857 tokens and changes of the
token contract. `SubscriptionEconomy` EXTENDS it with the oracle, the
subscription manager and the fee router: a transaction that reverts is no step.

### RateLimiter (limiter.go)

`Check` is one critical section with four outcomes, translated as `Refuse`
(three reasons, each leaving the slices it looked at filtered) and `Admit`. The
`cleanup` goroutine may run between any two checks, which is more than its
ticker allows. A request has a node id and a signal of its own, as in the
handler: the hash is of the envelope alone. The handler's non-blocking send
after `Check` changes nothing the limiter reads.

The loop of `filterAfter` is `Keep` of `Slices`, which `AgentRegistry` uses for
its list of verified agents too.

*Checked and proved*: `WindowsRespected`, `DuplicatesApart`, `RetryHonoured`.

### SubscriptionCacheV2, SignalStream (server.go, subscription_v2.go, handlers_v2.go)

`SubscriptionCacheV2` is one user's rows in the database, the cached list and
the reads that are under way. A read and the store that follows it are two
steps (`ReadActive`, `StoreFetched`), because neither holds a lock that spans
them; the handlers that subscribe and unsubscribe write only the rows, since
nothing calls `InvalidateUser`. The clock waits for tickers that are due and for
reads that have taken `FetchTime`.

`SignalStream` adds the hub and the sessions. The fan-out of an event is as many
steps as it is in the code: the hub walks the node's map and then the wildcard
map (`Visit`, `NextRange`), holding a channel between the moment `Range` yields
it and the send (`Send`), while sessions connect and leave (`Connect`,
`Unregister`, `CloseChannel`). `sync.Map.Range` visits every key that is there
all along, each at most once, and may or may not visit the others. The refresh
of a V2 session replaces its filter by an empty map and fills it entry by entry
(`FillOne`), beside the pump that reads it. Where the code races, the outcomes
the build can produce are the alternatives: a send on a closed channel panics, a
read of the map while it is written may abort the process (`MapRace`), a ping
that meets a write may panic. A session that asks for one node's stream is in
the map of the id as it spelled it (`Listens`). The maps are keyed by the
client's address: a session that connects from an address whose old session has
not left takes its entry, and either of them deletes the other's when it leaves
(`SameEntry`, `PutOutBy`); `displaced` records whom.

*Checked and proved*: `StreamComplete`, `SendPanicsOnlyOnLeaver`, `AccessEnds`,
`SubscribersServed`.

### The sentinel: SentinelTypes, TradeExecution, GMXExecutor, PaperExecutor, SignalConsumer, SentinelAgent

* `SentinelTypes`: signals, nodes and the configuration. `MAX_POSITION_USD`,
  `MAX_OPEN_POSITIONS` and `MIN_TRUST_SCORE` may be `NaN`, which passes
  `validateConfig`; every comparison with it is false.
* `TradeExecution`: what both executors share. A call of `handleSignal` is the
  event of the stream that it handles, a signal and a number, with a stage `pc`,
  a result and an entry in the history.
* `GMXExecutor`: `executeSignal` in the awaits it is made of (`Admit`,
  `SendOrder`, `Poll`, ...), `waitForOrderExecution` as its polling loop, and
  the keeper, which executes or cancels an order at any time or never
  (`KeeperSettles`). A send may throw after the order has reached the chain.
* `PaperExecutor`: the virtual balance, the map of positions by signal, and the
  timers that close them.
* `SignalConsumer`: the platform's side as one agent sees it (`Publish`, which
  may meet a full event channel, `FanOut`, which may meet a full client channel
  or none, `HubSubscribes`, `CloseSignal`, `PlatformRestarts`, after which a
  forgotten signal may be published again), the socket with its messages, the
  reconnect chain, and the filter.
* `SentinelAgent` composes them: `start()` from the approvals to the request for
  the scheduled signals, the stream's handler, the second half of `handleSignal`
  (`Resume`), the dashboard's counters, exits, crashes and restarts. The request
  brings nothing to handle: a scheduled signal is in state PENDING until it is
  closed, and `processExistingSignals` handles ACTIVE ones only (section 6).
  Promises that are resolved are resumed before anything else happens
  (`LoopTurn`), as microtasks are.

`unheard`, `forgotten`, `handed` and `peak` are history: they record why a
signal may have been missed or traded twice, and how far calls overlapped.

*Checked* (run `SentinelAgent`): `OvershootBoundedByRace`,
`PositionsAccountedFor`, `DashboardAgrees`, `HandledTwiceExplained`,
`MissedExplained`, `HandlersSettle`, `StreamRecovers`. *Proved*: the first five,
and `OrdersAreApproved`.

### SignalEvaluation (scheduler.go, scorer.go, allocator.go, signal.go)

The verdict (`Evaluate`), the scorer's own measure of the same signal, and the
points, on integers: prices on a half-percent grid around the entry price,
profits in hundredths of a percent, scores in ten-thousandths. `evaluateSignal`
has a branch for longs and one for shorts, written by hand, and so has the model
(`EvaluateLong`, `EvaluateShort`). Levels are any of those `Validate` accepts,
on either side of the entry or absent; the weight, which scales the scorer's
return and nothing validates, is of any sign. The scorer's ratios are rounded
away from zero (`Ratio`), so that they have the sign of the floats they stand
for: the scorer counts a signal by that sign. `JudgedAlike` says that the two
branches mirror each other, and exactly for which directions and weights the
scorer counts a signal as the price does. *Checked and proved*: `JudgedAlike`,
`BetterNeverWorse`.

## 3. The runs

| Run | Instance | What it shows |
|---|---|---|
| SignalScheduler | 3 envelopes (2 share an id), 2 ids, 2 goroutines, 3 registrations | every interleaving of timers, forced analyses, Stop and re-submission: one result each, none orphaned, each eventually analysed |
| SchedulerBatcher | 3 envelopes (2 share an id), 3 registrations, 2 process runs, expiries 1 and 2 | crashes, shutdowns, failed uploads and saves: lifecycle, one result per envelope, one batch per run and none missed but the two ways it is given up, nothing scheduled for ever |
| NodeScoring | 1 provider, its node id in 2 spellings, 3 signals, 1 other sender, nonces to 2, 2 process runs | overlapping results, saves, reloads and shared nonces: counted once and never lost without a reason, stats current, the oracle current, durable history grows |
| PointLedger | 4 deposits in 3 transactions, 2 requests, 5 blocks, 2 errors | no double, early or missing credit; balanced books; every event settled |
| ProviderWithdrawal | 1 provider, 4 requests: one whose half point is cut off, one too small for a point, one negative, one queued; 2 points rewarded | columns agree, what is paid comes out of the rewards, points vanish only at a fault or by a revert after the answer, rows are on chain |
| AgentRegistry | 3 agents, tokens 0 and 1 | links, list and pages stay consistent |
| SubscriptionEconomy | 1 user, 2 agents, 2 payments, 1 change of settings | solvency, access paid for, tiers not inflated |
| RateLimiter | 4 requests, 3 signals, 2 nodes, 8 seconds, windows of 2, 3 and 4 | limits hold in every window, duplicates stay apart, the announced wait suffices |
| SignalEvaluation | 53 prices, 7 x 7 levels, both directions, weights -50, 0 and 80 | longs and shorts judged as mirror images, whom the scorer counts as right, monotone scores and rewards |
| SentinelAgent | 1 signal streamed up to twice, 6 configurations (2 with `NaN`), 4 answers about its node or none, both modes, 2 spenders, 2 polls, 2 reconnect attempts, 2 lives | positions, virtual money, counters and handled signals stay accounted for through crashes and restarts on either side, dropped events, lost sockets and silent keepers; handlers end; a lost stream returns or is given up |
| SignalStream | 2 sessions in 4 configurations, one of them from one address, 1 provider in 2 spellings, channels of 1, 3 events, 5 time units, 1 failed read | what a session misses, when a send can panic, how far a filter lags behind the subscriptions, which events the pump holds back |
| MaxOpenPositions | 2 signals, 4 calls, room for 1 position | the configured limit is exceeded by calls that overlap (section 6) |

Bounds. `MaxClock`, `MaxRegistrations`, `MaxRuns`, `MaxBlock`, `MaxErrors`,
`MaxRewards`, `MaxTime`, `MaxPayments`, `MaxChanges`, `MaxEvents`, `MaxPolls`,
`MaxNonce`, `MaxPublished`, `MaxReconnectAttempts` and `MaxLives` bound counters
and are named in the modules. They leave room for the cases that matter: a
signal that is scheduled, forgotten in a crash, scheduled again and closed,
beside another under the same id; three overlapping results of one node across a
restart, and two of them in the pool beside a third sender that holds a nonce; a
range scanned, interrupted and scanned again beside two requests; withdrawals
that round in either direction, one that grants points, and a queued one, which
the balance does not cover together; a renewal before and after the end with a
change of duration in between. Two goroutines and two runs of the process are
enough because the hazards are between two parties. Runs whose counters end, or
whose process stays down after its last run, say `CHECK_DEADLOCK FALSE`.

In `SentinelAgent` one signal is enough for the hazards of delivery, since the
platform can stream it a second time after a restart and its two calls overlap
(`MaxPublished` is 2; `MaxOpenPositions` streams two signals once). Two signals
meet only at the executor's limit and in the counters: the first is the run
`MaxOpenPositions` and, for any number, the theorem `GMXSafety`; the second is
`AgentDashboardAgrees`. The code's three spenders are two here: what matters is
a crash between two approvals. In `SignalStream` the questions do not need the
same sessions, so four configurations each get the events their question needs:
two streams of one user race for the cache entry, one V2 stream filters, a
stream of one provider, which may spell its id as the session did or otherwise,
beside a public one fills channels and leaves, and of two public streams the
second comes from the address of the first. With `RefreshEvery` and `FetchTime`
of 1 the bound of `AccessEnds` and `SubscribersServed`, two refresh intervals,
two reads and one interval per failed read, fits into the 5 time units with room
to be exceeded. Symmetry is declared only in runs without liveness properties,
over sets whose members are interchangeable.

Fairness. Time passes. A timer whose time has come fires: the Go runtime never
drops one. A started analysis proceeds: the price request has an HTTP timeout
and the mutex is never held across I/O in this path. After `cancel()`, `main`
returns. In `PointLedger` the chain grows and the poll ticker keeps polling;
errors are finitely many (`MaxErrors`). In `SentinelAgent` timers fire, a
connection attempt and a pending request end one way or the other, and a
resolved promise resumes its awaiter; nothing is assumed of the platform, of the
keeper, of a socket once it is open, or of who restarts the agent. Nothing else
is assumed: in particular the sequencer's loop, uploads and restarts are never
required to make progress.

Mutants. For every property `PROJECT.json` names a changed definition, one a
plausible bug would produce, that makes the run fail. The variants are
operators beside the one they would replace (`EntryKept` beside
`EntryDeleted`) and are used nowhere else.

## 4. The proofs

Each theorem is about the specification its run checks, for every value of the
constants that the module's assumption admits: any sets, any bounds, any number
of failures and restarts. Every proof has the shape `Init => Inv`,
`Inv /\ [Next]_vars => Inv'`, `Inv => property`, with one lemma for each kind of
step.

| Module | Theorem | Property | Assumes |
|---|---|---|---|
| SchedulerBatcherProofs | SchedulerTypeCorrect | `SchedTypeOK` | `SchedulerAssumption` |
| | SchedulerExactlyOneResult | `ExactlyOneResult` | |
| | SchedulerAnalysisOnItsWay | `AnalysisOnItsWay` | |
| | BatcherOneResultPerEnvelope | `OneResultPerEnvelope` | `SchedulerAssumption` |
| | BatcherImplementsLifecycle | `ImplementsLifecycle` | |
| | BatcherTypeCorrect | `TypeOK` | and `BatcherAssumption` |
| | BatcherBatchedAtMostOnce | `BatchedAtMostOnce` | |
| | BatcherScheduledIsBatched | `ScheduledIsBatched` | |
| ScoringProofs | ScoringClosedAreCounted | `ClosedAreCounted` | `ScoringAssumption` |
| | ScoringOracleCurrent | `OracleCurrent` | |
| | ScoringStaleOnlyAfterOverlap | `StaleOnlyAfterOverlap` | |
| | ScoringDurableHistoryGrows | `DurableHistoryGrows` | |
| | EvaluationJudgedAlike | `JudgedAlike` | `EvaluationAssumption` |
| | EvaluationBetterNeverWorse | `BetterNeverWorse` | |
| PointLedgerProofs | LedgerTypeCorrect | `TypeOK` | `LedgerAssumption` |
| | LedgerCreditedAtMostOnce | `CreditedAtMostOnce` | |
| | LedgerProcessedImpliesCredited | `ProcessedImpliesCredited` | |
| | LedgerBooksBalance | `BooksBalance` | |
| PaymentsProofs | WithdrawalTypeCorrect | `WithdrawalTypeOK` | `WithdrawalAssumption` |
| | WithdrawalColumnsAgree | `ColumnsAgree` | |
| | WithdrawalRowsAreOnChain | `RowsAreOnChain` | |
| | WithdrawalPaidWithinRewards | `PaidWithinRewards` | |
| | WithdrawalNothingEvaporates | `NothingEvaporates` | |
| | RegistryTypeCorrect | `RegistryTypeOK` | `RegistryAssumption` |
| | RegistryLinksAgree | `LinksAgree` | |
| | RegistryListedOnce | `ListedOnce` | |
| | RegistryPagesCoverLists | `PagesCoverLists` | |
| | EconomyTypeCorrect | `TypeOK` | and `EconomyAssumption` |
| | EconomyAccessCoversPayments | `AccessCoversPayments` | |
| | EconomyTierNotInflated | `TierNotInflated` | |
| | EconomyRouterSolvent | `RouterSolvent` | |
| RateLimiterProofs | LimiterTypeCorrect | `TypeOK` | `LimiterAssumption` |
| | LimiterDuplicatesApart | `DuplicatesApart` | |
| | LimiterWindowsRespected | `WindowsRespected` | |
| | LimiterRetryHonoured | `RetryHonoured` | |
| SentinelProofs | GMXSafety | `OvershootBoundedByRace`, `PositionsMatchOrders`, `HistoryComplete` | `SignalsAssumption`, `ConfigAssumption`, `MaxPollsAssumption` |
| | AgentOvershootBounded | `OvershootBoundedByRace` | and `PaperAssumption` |
| | AgentAccountsForPositions | `PositionsAccountedFor` | |
| | AgentDashboardAgrees | `DashboardAgrees` | |
| | AgentRepeatsExplained | `HandledTwiceExplained` | |
| | AgentMissesExplained | `MissedExplained` | |
| | AgentLinksAndApprovals | `OrdersAreApproved`, the reconnect timer | |
| SignalStreamProofs | StreamTypeCorrect | `TypeOK` | `CacheAssumption`, `StreamAssumption` |
| | StreamsComplete | `StreamComplete` | |
| | StreamSendPanics | `SendPanicsOnlyOnLeaver` | |
| | StreamAccessEnds | `AccessEnds` | |
| | StreamServesSubscribers | `SubscribersServed` | |

Every safety property a run checks, invariant or action property, has a theorem.

`ConfigAssumption` is as weak as the code: the size of a position, the limit on
their number and the trust threshold are integers of any sign or `NaN`. A limit
that is `NaN` is never reached, so `OvershootBoundedByRace` speaks of limits
that are numbers. `WithdrawalAssumption` is what the handler computes: the worth
of the points differs from the wei by at most a point, and the two have one
sign. `Requests`, `Deposits` and `Agents` are assumed finite where points, wei
or passes are summed over them: at any time only finitely many exist, and their
number is not bounded. The other assumptions say what type a constant has.

`DataTheorems` holds what the proofs need about data. The provers take no
induction rule that has an operator as a parameter, so it states its induction
principles about sets. The property to be proved becomes the set `C` of the
values that have it: if `C` holds a subset of a finite set whenever it holds all
smaller ones, it holds every subset (`SubsetInduction`, from the minimal
counterexample `MinimalSubset` finds); the same for numbers, through the
intervals from 0, and for sequences that are appended to, through their lengths
(`NumberInduction`, `AppendInduction`). From these follow the laws of
`SumFunctionOnSet`: the sum over a set is the sum over the rest of it plus one
value, whichever is taken out first (`SumRemove`; `SumOneChanged`, `SumSmaller`,
`SumScaled` and the others come from it), although the community module sums in
the order a `CHOOSE` picks. In the same way `KeepAppend`, `KeepElements`,
`KeepTwice` and `KeepDrops` say what the loop of `Slices` keeps, and
`FlattenLast` of `PaymentsProofs` what `FlattenSeq` does. The provers cannot
expand `SelectSeq`, so `Slices` has the loop of `filterAfter` and
`getVerifiedAgents` itself, as a recursive function over the indices.

Why the properties are not inductive alone, and what strengthens them:

* **Scheduler.** That finalizing one signal leaves the other registrations'
  counts right needs the map to be injective on objects: `MapWellFormed` (the
  entry of an id is an allocated object of that id), and no object beyond `nreg`
  is anywhere. `AnalysisOnItsWay` needs the same, since an action touches the
  timer of an object and the entry of its id.
* **Sequencer, closing.** A restart forgets what was scheduled, and the same
  signal may be submitted again. It is not scored twice because `AddSignal`
  takes only what has not expired, while a result is given only to what has
  (`ResultsAreDue`). Without `ForceAnalyze`, which the sequencer never calls, an
  analysis starts from a timer alone, so the signal it will finalize is in the
  map, due, without a timer and nobody else's (`AnalysedIsDue`,
  `AnalysedByOne`, `TimersRegistered`). The refinement uses the same invariant,
  `SchedPart`: every step is a step of `SignalLifecycle` under the mapping of
  `phase`, or leaves all phases alone.
* **Sequencer, batching.** `TakenOnce` ties the scheduler's map to the queue: an
  envelope taken in this run stays scheduled until its expiry, so a second
  submission of it is refused as a duplicate id. The one gap is the restore
  loop, which has to schedule what it loaded. There, an id may be held by
  another envelope only if the store held two envelopes of one id; it never does
  (`Savable`), because a save keeps only what is alive, hence scheduled, and the
  map has one entry for an id. The argument goes through the file and back.
* **Scoring.** `HistoryIsClosed`: what a history holds was closed and never
  opens again, so the signal `RecordClosed` appends is new to it, also after a
  reload. `AloneIsCurrent`: while no two calls of a node overlap, the one under
  way has the whole history, and what it publishes is current.
  `LoadedCoversFile`: a run that read the file holds at least what the file
  holds, so no save shrinks it. `LossInv`: a signal that nothing excuses is in
  memory while the process runs, and in the file unless it waits for the next
  save.
* **Score on the chain.** `NonceInv`: an uncontended sender still has the next
  nonce, and what another sender's nonce could replace is contended, so a
  transaction without excuse is neither refused nor replaced. `FileInv`: a node
  none of whose results is lost or unsaved has the same history in memory and in
  the file, so neither a start nor the end of the process moves what the chain
  is compared with. `OracleInv`: the chain has the score of that history, or the
  one result in flight brings it, under the node id that result was recorded
  for.
* **Deposits.** `RecordsTheCredited`: the event about to be recorded has been
  credited, so a transaction cannot be marked first.
* **Books of the ledger.** A user's deposited points are a sum over the
  deposits; `BooksBalance` is inductive beside the types: a credit changes one
  summand and that user's balance (`SumOneChanged`), a subscription moves points
  from what the user has to what is spent, and the CHECK keeps the balance from
  going below 0.
* **Withdrawals.** `RecordedAfterReceipt`: a queued withdrawal is recorded only
  after its receipt, and the row is the last thing its handler does. Immediate
  ones are never recorded, which is the table's CHECK. The sums need two facts
  that no property states. `Traces`: a request has been debited before it leaves
  one trace of itself, a transaction or a refund, and when it has been debited
  for good it is in hand, met a fault, or was answered with a transaction out.
  `Books`: what the provider was rewarded and no longer has is the points taken
  by those debits less the points granted by negative ones (`Taken`, `Spent`,
  `Granted`). `PaidWithinRewards` then compares the payouts with the points of
  the same requests, each within one point of the other (`SumScaled`), and
  `NothingEvaporates` the points with the requests that account for them.
* **Registry.** `VerifiedAreRegistered`: an agent is verified only after it
  registered, so `_registerAgent`, which overwrites the record, cuts no link.
  `PagesCoverLists` needs no state: after n pages of a size the list is covered
  up to n times the size (`PagesAreTheList`), for any list, hence for
  `agentList` and for the verified agents in it.
* **Payments.** `AccessCounted` tells a user who has paid from one who has
  bought something, which differ when the duration is 0: the first payment
  fixes where access is counted from. `RouterInv`: a payment adds the creator's
  share, rounded down, to one summand of what is owed, and all but the rest,
  which goes to the platform at once, to the balance; the two agree because the
  rest is a difference and not a second rounding.
* **Live executor.** `OvershootBoundedByRace` bounds the positions and the calls
  in flight together by the limit and `peak`, the most calls that were ever in
  flight at once; it is inductive beside the types and `HistoryComplete`, since
  only a position moves from one side of the sum to the other.
  `OrdersFollowCalls`: a call has no order before it sends one.
* **Paper executor.** `PaperBooksBalance` is balance plus money in positions,
  the ones overwritten in the map included; `OpenPositionsWillClose` gives each
  position its timer. `NothingTradedOnNaN` keeps the arithmetic away from a
  configuration that is no number.
* **Agent.** `EachEventOnce`: an event is in one place of the channel, the wire
  and the agent, once. `Numbered`: nobody has an event that was not published,
  and the channel holds only the last one of a signal. `RepeatsExplained` says
  what a second event of a signal can come from before there is one, `Covered`
  that the last event of every scheduled signal is handled, on its way or
  unheard, whether the agent is connected or not. `DashboardInv` relates the
  counters to the calls that have finished. The invariant of the executors is
  carried through `ExecutorsStep`: each action of the agent is one of the few
  things that can happen to them.
* **Stream hub, events.** `RegisteredWhileServed`: who is registered has a
  handler that runs and a channel that is open, and a session that is served and
  not registered was displaced. `HubInv`: the one channel the hub
  may hold beside those is that of a session that left during the fan-out under
  way. `InOrder` and `Complete` relate what a session has taken, holds in its
  channel and lost to what was broadcast since it joined; `StillToCome` says
  whether the event of the fan-out under way has been offered to it already.
* **Stream hub, filters.** `Differ` says that a list read some time ago and the
  database disagree about a provider only if it changed since. `FetchesAreFresh`
  bounds the age of a read under way by `FetchTime`; `CacheAge` ties a cached
  list to the time it is due to be refreshed, which every failed read puts off
  by `RefreshEvery`; `FirstLoads` and `FilterAge` carry this to the filters,
  through what a session is about to put into its filter (`Coming`).
* **Rate limiter.** `CacheRemembers`: the cache holds the latest time a signal
  passed and forgets it only after a whole window, so an admission finds every
  earlier pass a window ago. `WindowsRespected` speaks of every window ever, the
  slices only of the latest. `Covered` closes the gap: from the start of the
  current window on, and from every later instant, a slice still holds at least
  one timestamp for every pass, whatever a refusal or the cleanup has trimmed
  (`KeepTwice`: an earlier, weaker cutoff changes nothing). So the window that
  ends now is bounded by the length of the slice, and a window that ended before
  is not touched by a pass at a later time. In the second the pass is recorded
  in, the window ends now. `RetryAccounted` remembers, for each refusal, why it
  will be over: from the time it names, the filtered slice has lost its head and
  is shorter than the limit, for any later cutoff too.
* **Evaluation.** `EvaluationInv` says where the result and the class came from,
  which is all the strengthening there is. The work is arithmetic for any entry
  and any levels: `x \div y` is monotone in `x` and has its sign (`DivMonotone`,
  `DivSign`), which gives the partial score between the levels, and the
  reflection at the entry turns each branch of `evaluateSignal` into the other.

TLC finds each strengthened invariant to hold on the instance of the run.

Model-checked only: liveness (`EventuallyAnalysed`, `LeavesSchedule`,
`EventuallySettled`, `HandlersSettle`, `StreamRecovers`), which rests on
fairness and ENABLED and is out of the prover's reach.

## 5. What is not modelled

The older tick-driven path (`internal/engine`, `internal/aggregator`,
`ingester/poller.go`, `ingester/batcher.go`), which only `cmd/platform` and test
commands start; the bounded submit queue; the V1 subscription gate, which checks
a signature and an on-chain view once per connection; the solvency prover. These
are planned (section 7). Not planned: cryptography, the AI
service's answer, HTTP decoding, analytics (read-only), the database connection,
the example agents, bots and the sentinel's operator scripts (sequential), the
deployment script.

In the modelled parts, averages and ratios of `compute` and the streak query are
data. The sentinel's wallet is not counted: what matters of `getBalances` is
which of its answers comes; prices, sizes and slippage of orders are left out,
and so are the lists and the push channel of its dashboard, which only repeat
what the counters and calls say. The encrypted store exists only when a private
key is configured; the model has it. `PointVault` is not in the repository: it
is external, as are the chain, 0G Storage, PostgreSQL, GMX and its keeper.

Most lines of TypeScript in the repository have no behaviour to model.
Some 4600 are bindings generated from the contracts
(`src/contracts/typechain-types`) and some 5000 are a component template
(`src/frontend/components/ui`). The frontend's own pages fetch and render: the
state of each widget is the last answer to one request, with no write path and
no interaction between widgets. The TypeScript that holds state and reacts to
events is the sentinel, and its agent is modelled whole. The Go service and the
contracts hold the rest of the system's logic.

## 6. Where the code and what is said of it part

Shown by a run:

* `MaxOpenPositions`: the live executor asks for room before its awaits and
  records the position after them, so calls that overlap exceed the limit
  (`src/sentinel/src/gmx/executor.ts:351`, against "Maximum open positions at
  once", `src/sentinel/.env.example:36`). `OvershootBoundedByRace` says by how
  much.

Met while modelling, each visible in a model although no run is spent on it:

* A save leaves out signals still scheduled once they have been batched
  (`VL/internal/ingester/scheduler_batcher.go:178`, action `SaveBegins`),
  against "saves current active signals" (`:168`).
* Overlapping results push their scores in any order, and a push that reads the
  same pending nonce as another sender is refused or replaces it, with no retry
  (`VL/internal/scheduler/handler.go:178`, actions `ReadNonce` and `SendTx`),
  against "the authoritative score" (`:176`). `OracleCurrent` says when the two
  agree.
* A vault call that failed after sending is refunded and may still pay
  (`VL/internal/api/handlers_v2.go:380`), against "Refund points on failure"
  (`:379`).
* `main` returns without waiting for the sequencer's last save (`Exit`), against
  "graceful shutdown save" (`VL/docs/ISSUES_AND_SOLUTIONS.md:27`).
* Batches hold unexpired signals (`FlushBegins`), against "After expiry, signals
  uploaded" (`VL/docs/ISSUES_AND_SOLUTIONS.md:22`).
* A batch is lost when it cannot be written, or when its transfer fails behind a
  returned root (`DropBundle`, `TransferFails`).
* An unreadable signal file is removed, also when the error was a passing one
  (`VL/internal/crypto/encryption.go:188`, `Load`).
* A withdrawal pays wei and debits points that were cut off on their own: an
  amount below a point is paid for nothing, and a negative one credits points
  (`VL/internal/api/handlers_v2.go:299`; `WithdrawalAssumption`).
* Overlapping `RecordClosed` calls leave stats that miss a signal
  (`StaleOnlyAfterOverlap` says this is the only way).
* An unreadable state file starts an empty history that the next save writes
  (`Boot`; `DurableHistoryGrows` holds only for runs that read the file).
* The second Deposit event of a transaction is skipped as processed
  (`CheckEvent`).
* An immediate withdrawal is answered as completed before it is mined, and its
  row is always rejected by the table's CHECK (`Status`, `AllowedStatus`). When
  it reverts, its points are gone (`RevertedAfterAnswer`).
* `linkAgenticId` accepts token 0, which elsewhere means "not verified".
* The scorer's tier thresholds are a point above the oracle's table
  (`TierNotInflated` says in which direction).
* The scorer compares the direction with `"LONG"`
  (`VL/internal/scorer/scorer.go:243`) while the validator admits `"long"` only,
  so a long that expired in profit counts as a loss (`ExpiredReturn`), unless
  its weight is negative: nothing validates `weight_pct`, which scales that
  return (`SlipsCancel` names the cases in which the scorer is right).
* Node ids are compared without regard to case when a signature is verified
  (`VL/internal/crypto/verify.go:64`) and to the letter in the scorer, in the
  hub and in its filters (`OracleCurrent`, `StreamComplete`,
  `SubscribersServed`).
* A submission is recorded by the rate limiter before the queue is tried
  (`VL/internal/api/server.go:474`); after a 503 the retry is refused as a
  duplicate for the rest of the window. Duplicates are refused for 5 minutes
  (`VL/internal/ratelimit/limiter.go:48`), against "Don't submit duplicate
  signals within 2 hours" and "API will reject duplicates anyway"
  (`src/docs/providers/getting-started.md:427`).
* A refused submission whose node id is shorter than 16 bytes panics in the log
  line after the check (`VL/internal/api/server.go:483`), when the limiter has
  already done its part; `Refuse` stands for both answers.
* A long without a take profit is a win at any price (`HitTP`).
* A V2 stream filters by the envelope's node id as its sender spelled it, while
  the filter holds lower-case addresses (`Passes` of `SignalStream`): a provider
  that signs with a checksummed id reaches no subscriber.
* `InvalidateUser` says it forces a fresh lookup, and nothing calls it
  (`VL/internal/api/subscription_v2.go:72`): a change is seen at the next
  refresh (`Lag`).
* "This allows newly connected agents to catch up on signals they missed"
  (`VL/internal/api/server.go:274`), but the signals it returns
  (`VL/cmd/verifier/main.go:196`) are in state PENDING from the moment they are
  scheduled (`VL/internal/scheduler/scheduler.go:95`), and the agent's "Fetch
  any existing active signals we might have missed"
  (`src/sentinel/src/index.ts:110`) handles only those that are ACTIVE
  (`src/sentinel/src/signals/consumer.ts:92`): no agent catches up on anything
  (`Running`; `MissedExplained` says what it misses).
* `MAX_OPEN_POSITIONS` that is not a number turns the limit off
  (`src/sentinel/src/core/config.ts:38`, `LimitReached`).
* A V1 or public session that is opened from the address of one that has not
  ended takes its place in the hub, and loses its own when that one ends
  (`VL/internal/api/server.go:93` and `:96`; `displaced`).
* The sentinel's set of active positions only grows: once it holds the limit the
  live agent refuses every further signal until it is restarted (`Refuse` of
  `GMXExecutor`; `src/sentinel/src/gmx/executor.ts:279` and `:443`).
* The dashboard's connection flag is set at the start and never cleared
  (`src/sentinel/src/index.ts:108`, action `Connect`).
* In paper mode the dashboard always shows no positions
  (`src/sentinel/src/index.ts:179`), and in live mode an RPC error looks like
  none (`src/sentinel/src/gmx/executor.ts:271`).

Read, in parts that are not modelled:

* Analytics compares the direction with `"LONG"`
  (`VL/internal/api/analytics.go:301`) and so counts every long as a short.
* Analytics answers `avg_pnl_percent` and `total_pnl_percent`
  (`VL/internal/api/analytics.go:52`), the frontend reads `avg_pnl` and
  `total_pnl` (`src/frontend/lib/types.ts:77`).
* One of the frontend's requests sends `X-Subscriber-Signature-Timestamp`
  (`src/frontend/lib/api-client.ts:119`) where the server reads
  `X-Subscriber-Timestamp`.
* The sentinel's automatic stop loss and take profit are read, checked and
  printed, and used in no order (`src/sentinel/src/index.ts:125`).

## 7. Plan

Built so far, in this order: the scheduler and the sequencer with the lifecycle
they implement, scoring, deposits, withdrawals, the registry, the economy of the
contracts, the evaluation of a signal, the rate limiter, the stream hub with the
subscription cache, the sentinel; and the proofs of section 4. Next:

1. A composition of sequencer and scoring, to derive from the sequencer that
   each signal enters the scoring once, also one restored while its earlier
   result is in a state file.
2. The bounded submit queue with the limiter before it; the solvency snapshot
   over the ledger (`VL/internal/solvency/prover.go:143`).
3. The points goroutine of a result, which a crash cuts off
   (`VL/internal/scheduler/handler.go:194`), beside the ledger it credits.
4. The tick-driven engine with its price trackers (`internal/engine`,
   `internal/aggregator`, `ingester/poller.go`, `ingester/batcher.go`).
