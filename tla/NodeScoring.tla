---------------------------- MODULE NodeScoring ----------------------------
(***************************************************************************)
(* What happens to a closed signal: AnalysisHandler.HandleResult            *)
(* (internal/scheduler/handler.go), the Scorer it feeds with its state file *)
(* (internal/scorer), and the goroutine it starts to push the score on      *)
(* chain.  One HandleResult goroutine runs per closed signal, several at a  *)
(* time for one node.  The other goroutine it starts, which credits points, *)
(* is Earn of ProviderWithdrawal.                                           *)
(*                                                                          *)
(* The scheduler closes a signal at most once, across restarts too          *)
(* (OneResultPerEnvelope of SchedulerBatcher), so each signal enters once.  *)
(* NodeStats is a function of the closed signals it was computed from and   *)
(* of the time: it is represented by their number.  Webhooks and the AI     *)
(* evaluation change no state kept here; the AI call is only a delay        *)
(* between storing the stats and starting the goroutines.                   *)
(*                                                                          *)
(* All transactions of the verifier are signed with one key.  Each sender   *)
(* asks the node for the pending nonce and sends later, with no lock in     *)
(* between.                                                                 *)
(***************************************************************************)
EXTENDS Integers, Sequences, SequencesExt

CONSTANTS
  Signals,   \* closed signals
  Nodes,     \* node ids as their signals spell them
  NodeOf,    \* the node id of a signal
  Addresses, \* providers
  AddressOf, \* the provider a node id spells: VerifySignature ignores the case
  Others,    \* transactions of other senders: vault calls, batch roots
  MaxRuns,   \* times the process is started (bound)
  MaxNonce   \* the nonce after which other senders stop (bound)

ASSUME ScoringAssumption ==
  /\ NodeOf \in [Signals -> Nodes]
  /\ AddressOf \in [Nodes -> Addresses]
  /\ Others \intersect Signals = {}
  /\ MaxRuns \in Nat /\ MaxNonce \in Nat

VARIABLES
  up,        \* "down", "up", or "saved" once main has taken the final save
  runs,      \* process starts so far
  pc,        \* the HandleResult goroutine of each signal
  snap,      \* length of the slice RecordClosed computed from
  closed,    \* s.closedSignals
  stats,     \* s.nodeStats
  pushing,   \* sendTransaction calls that have not sent yet
  nonce,     \* the nonce such a call has read, 0 before it reads one
  disk,      \* scorer_state.json; NoFile before the first save
  chain,     \* ReputationOracle: the history a provider's score was computed
             \* from, <<node id, signals>>; <<>> before the first (external)
  pool,      \* the key's pending transactions, in nonce order (external)
  mined,     \* the nonce the chain takes next (external)
  loaded,    \* history: this run read the state file without error
  raced,     \* history: nodes two of whose RecordClosed overlapped in this run
  sinceSave, \* history: signals recorded after this run's last save
  forgone,   \* history: signals whose record a crash, a shutdown or a start
             \* without the file may have lost
  contended, \* history: transactions between whose nonce and sending another
             \* sender of the key had a nonce in hand, too
  disturbed  \* history: providers with two results on their way to the chain
             \* at the same time, or with a push that failed or was cut off

Txs == Signals \cup Others

scorerVars == <<pc, snap, closed, stats, loaded, raced>>
senderVars == <<pushing, nonce, contended>>
chainVars == <<chain, pool, mined>>
lossVars == <<sinceSave, forgone>>
vars == <<up, runs, disk, scorerVars, senderVars, chainVars, lossVars, disturbed>>

NoFile == [closed |-> [n \in Nodes |-> <<>>], stats |-> [n \in Nodes |-> 0]]

Init ==
  /\ up = "down"
  /\ runs = 0
  /\ pc = [s \in Signals |-> "open"]
  /\ snap = [s \in Signals |-> 0]
  /\ closed = NoFile.closed
  /\ stats = NoFile.stats
  /\ pushing = {}
  /\ nonce = [t \in Txs |-> 0]
  /\ disk = NoFile
  /\ chain = [p \in Addresses |-> <<>>]
  /\ pool = <<>>
  /\ mined = 1
  /\ loaded = FALSE
  /\ raced = {}
  /\ sinceSave = {}
  /\ forgone = {}
  /\ contended = {}
  /\ disturbed = {}

Computing(n) == {s \in Signals : NodeOf[s] = n /\ pc[s] = "compute"}

ProviderOf(s) == AddressOf[NodeOf[s]]

(* Results of a provider whose score has not reached the chain yet.         *)
InFlight(p) ==
  {s \in Signals : /\ ProviderOf(s) = p
                   /\ \/ pc[s] \in {"compute", "evaluate"}
                      \/ s \in pushing
                      \/ s \in Range(pool)}

----------------------------------------------------------------------------
(* What a successful LoadState installs.                                    *)
HistoryDropped == NoFile.closed
HistoryLoaded == disk.closed
StatsLoaded == disk.stats

(* NewScorer and LoadState; a missing or unparsable file is a fresh start,  *)
(* and so, after a logged warning, is one that cannot be read.              *)
Boot ==
  /\ up = "down"
  /\ runs < MaxRuns
  /\ runs' = runs + 1
  /\ up' = "up"
  /\ \/ /\ loaded' = TRUE
        /\ closed' = HistoryLoaded
        /\ stats' = StatsLoaded
        /\ UNCHANGED forgone
     \/ /\ loaded' = FALSE
        /\ forgone' = {s \in Signals : pc[s] # "open"}
        /\ UNCHANGED <<closed, stats>>
  /\ UNCHANGED <<disk, pc, snap, raced, senderVars, chainVars, sinceSave, disturbed>>

(* The scheduler calls HandleResult; RecordClosed appends under the lock,   *)
(* to the history of the node id as spelled, and keeps the slice it will    *)
(* compute from.                                                            *)
RecordAppend(s) ==
  LET n == NodeOf[s]
      p == ProviderOf(s)
  IN /\ up # "down"
     /\ pc[s] = "open"
     /\ closed' = [closed EXCEPT ![n] = Append(@, s)]
     /\ snap' = [snap EXCEPT ![s] = Len(closed[n]) + 1]
     /\ pc' = [pc EXCEPT ![s] = "compute"]
     /\ raced' = IF Computing(n) # {} THEN raced \cup {n} ELSE raced
     /\ sinceSave' = sinceSave \cup {s}
     /\ disturbed' = IF InFlight(p) # {} THEN disturbed \cup {p} ELSE disturbed
     /\ UNCHANGED <<up, runs, disk, stats, loaded, senderVars, chainVars, forgone>>

(* RecordClosed takes the lock again to publish what it computed.           *)
StatsOnlyFirst(s) ==
  IF stats[NodeOf[s]] = 0 THEN [stats EXCEPT ![NodeOf[s]] = snap[s]] ELSE stats
StatsPublished(s) == [stats EXCEPT ![NodeOf[s]] = snap[s]]

RecordStore(s) ==
  /\ pc[s] = "compute"
  /\ stats' = StatsPublished(s)
  /\ pc' = [pc EXCEPT ![s] = "evaluate"]
  /\ UNCHANGED <<up, runs, disk, snap, closed, loaded, raced, senderVars, chainVars,
                lossVars, disturbed>>

(* The rest of HandleResult: AI evaluation (up to 20 s), webhooks, then a   *)
(* goroutine that pushes this call's own score.                             *)
HandleReturns(s) ==
  /\ pc[s] = "evaluate"
  /\ pc' = [pc EXCEPT ![s] = "done"]
  /\ pushing' = pushing \cup {s}
  /\ UNCHANGED <<up, runs, disk, snap, closed, stats, loaded, raced, nonce, contended,
                chainVars, lossVars, disturbed>>

----------------------------------------------------------------------------
(* sendTransaction.  The node keeps what it accepts, in nonce order; the    *)
(* pending nonce follows it.                                                *)
MinedNonce == mined
PendingNonce == mined + Len(pool)

Holding == {t \in pushing : nonce[t] # 0}

(* A vault call or the upload of a batch starts to send.                    *)
OtherSends(o) ==
  /\ up # "down"
  /\ o \notin pushing \cup Range(pool)
  /\ PendingNonce < MaxNonce
  /\ pushing' = pushing \cup {o}
  /\ UNCHANGED <<up, runs, disk, scorerVars, nonce, contended, chainVars, lossVars, disturbed>>

ReadNonce(t) ==
  /\ t \in pushing /\ nonce[t] = 0
  /\ nonce' = [nonce EXCEPT ![t] = PendingNonce]
  /\ contended' = IF Holding = {} THEN contended ELSE contended \cup Holding \cup {t}
  /\ UNCHANGED <<up, runs, disk, scorerVars, pushing, chainVars, lossVars, disturbed>>

(* SendTransaction: a new nonce is appended; one that is pending already is *)
(* refused, or replaces the earlier transaction if the gas price rose; a    *)
(* nonce that has been mined is refused.  An error is only logged.          *)
SendTx(t) ==
  LET i == nonce[t] - mined + 1
  IN /\ t \in Holding
     /\ pushing' = pushing \ {t}
     /\ nonce' = [nonce EXCEPT ![t] = 0]
     /\ \/ i = Len(pool) + 1 /\ pool' = Append(pool, t)
        \/ i \in DOMAIN pool /\ pool' = [pool EXCEPT ![i] = t]
        \/ i <= Len(pool) /\ UNCHANGED pool
     /\ UNCHANGED <<up, runs, disk, scorerVars, contended, chain, mined, lossVars, disturbed>>

(* Any other error before the transaction is out, the 30 s timeout included.*)
SendFails(t) ==
  /\ t \in pushing
  /\ pushing' = pushing \ {t}
  /\ nonce' = [nonce EXCEPT ![t] = 0]
  /\ disturbed' = disturbed \cup {ProviderOf(s) : s \in Signals \intersect {t}}
  /\ UNCHANGED <<up, runs, disk, scorerVars, contended, chainVars, lossVars>>

(* What UpdateNodeScore packs: the score of the goroutine's own result, for *)
(* the address the node id spells.                                          *)
PushedScore(s) == <<NodeOf[s], snap[s]>>

(* The chain takes the next transaction; a score update may revert.  The    *)
(* goroutine that waits for the receipt only logs it.                       *)
Mine ==
  /\ pool # <<>>
  /\ pool' = Tail(pool)
  /\ mined' = mined + 1
  /\ LET t == Head(pool)
     IN \/ t \in Others /\ UNCHANGED <<chain, disturbed>>
        \/ /\ t \in Signals
           /\ chain' = [chain EXCEPT ![ProviderOf(t)] = PushedScore(t)]
           /\ UNCHANGED disturbed
        \/ /\ t \in Signals
           /\ disturbed' = disturbed \cup {ProviderOf(t)}
           /\ UNCHANGED chain
  /\ UNCHANGED <<up, runs, disk, scorerVars, senderVars, lossVars>>

----------------------------------------------------------------------------
(* SaveState that reaches its atomic rename, under the read lock.  One that *)
(* fails earlier leaves the old file.                                       *)
SavedStatsOnly == disk' = [disk EXCEPT !.stats = stats]
Saved == disk' = [closed |-> closed, stats |-> stats]

AutoSave ==
  /\ up = "up"
  /\ Saved
  /\ sinceSave' = {}
  /\ UNCHANGED <<up, runs, scorerVars, senderVars, chainVars, forgone, disturbed>>

(* main on SIGTERM: close(stopCh) and wait for the final save, while the    *)
(* scheduler and its handlers are still running.  Nothing is saved later.   *)
FinalSave ==
  /\ up = "up"
  /\ up' = "saved"
  /\ \/ Saved /\ sinceSave' = {}
     \/ UNCHANGED <<disk, sinceSave>>
  /\ UNCHANGED <<runs, scorerVars, senderVars, chainVars, forgone, disturbed>>

(* The end of the process, by returning from main or by a crash at any      *)
(* point.  Handlers and goroutines disappear with the scorer; their signals *)
(* will not be closed again, but a transaction already sent may be mined.   *)
ProcessEnds ==
  /\ up # "down"
  /\ up' = "down"
  /\ pc' = [s \in Signals |-> IF pc[s] = "open" THEN "open" ELSE "done"]
  /\ pushing' = {}
  /\ nonce' = [t \in Txs |-> 0]
  /\ snap' = [s \in Signals |-> IF s \in Range(pool) THEN snap[s] ELSE 0]
  /\ closed' = NoFile.closed
  /\ stats' = NoFile.stats
  /\ loaded' = FALSE
  /\ raced' = {}
  /\ forgone' = forgone \cup sinceSave
  /\ sinceSave' = {}
  /\ disturbed' = disturbed \cup
       {ProviderOf(s) : s \in {q \in Signals : pc[q] \in {"compute", "evaluate"} \/ q \in pushing}}
  /\ UNCHANGED <<runs, disk, chainVars, contended>>

Next ==
  \/ Boot
  \/ \E s \in Signals :
       RecordAppend(s) \/ RecordStore(s) \/ HandleReturns(s)
  \/ \E o \in Others : OtherSends(o)
  \/ \E t \in Txs : ReadNonce(t) \/ SendTx(t) \/ SendFails(t)
  \/ Mine
  \/ AutoSave \/ FinalSave \/ ProcessEnds

Spec == Init /\ [][Next]_vars

----------------------------------------------------------------------------
Files == [closed : [Nodes -> Seq(Signals)], stats : [Nodes -> Nat]]

(* Every variable has its type.                                             *)
TypeOK ==
  /\ up \in {"down", "up", "saved"}
  /\ runs \in 0 .. MaxRuns
  /\ pc \in [Signals -> {"open", "compute", "evaluate", "done"}]
  /\ snap \in [Signals -> Nat]
  /\ closed \in [Nodes -> Seq(Signals)]
  /\ stats \in [Nodes -> Nat]
  /\ pushing \in SUBSET Txs /\ nonce \in [Txs -> Nat]
  /\ disk \in Files
  /\ chain \in [Addresses -> {<<>>} \cup (Nodes \X Nat)] /\ pool \in Seq(Txs) /\ mined \in Nat
  /\ loaded \in BOOLEAN
  /\ raced \in SUBSET Nodes
  /\ sinceSave \in SUBSET Signals
  /\ forgone \in SUBSET Signals
  /\ contended \in SUBSET Txs
  /\ disturbed \in SUBSET Addresses

(* No signal is counted twice in a node's reputation, in memory or in the   *)
(* file, whatever crashes and reloads come between its closing and a save.  *)
CountedOnce ==
  \A n \in Nodes : IsInjective(closed[n]) /\ IsInjective(disk.closed[n])

(* Every closed signal is counted once and stays counted: it is in the      *)
(* file, or waits in memory for the next save.  One is lost only because it *)
(* closed after the last save of a run that ended, and the save at shutdown *)
(* is taken while the scheduler still closes signals, or because a run that *)
(* could not read the file saves over it.                                   *)
ClosedAreCounted ==
  /\ CountedOnce
  /\ \A s \in Signals : pc[s] # "open" /\ s \notin forgone =>
       s \in Range((IF s \in sinceSave THEN closed ELSE disk.closed)[NodeOf[s]])

(* Once a RecordClosed of this run has published, the node's stats cover    *)
(* its whole history unless another RecordClosed of the node is under way   *)
(* or two of them have overlapped: overlap is the only way to lag behind.   *)
StaleOnlyAfterOverlap ==
  \A n \in Nodes :
    /\ n \notin raced
    /\ Computing(n) = {}
    /\ \E s \in Signals : NodeOf[s] = n /\ pc[s] = "evaluate"
    => stats[n] = Len(closed[n])

(* Once the results of a provider have settled, the oracle has the score of *)
(* a whole history of the provider, unless results overlapped or a push     *)
(* failed, a transaction of the key took its nonce between reading and      *)
(* sending, or the record of a result was lost.  It is the provider's only  *)
(* history if all its signals spelled the node id alike; a provider that    *)
(* spelled it in several ways has a history for each, and the oracle shows  *)
(* one of them.  Nothing else lets the two disagree, whatever else the key  *)
(* sends and whenever the process ends.                                     *)
Settled(p) == InFlight(p) = {} /\ p \notin disturbed

Recorded(n) == Len((IF up = "down" THEN disk.closed ELSE closed)[n])
Used(p) == {n \in Nodes : AddressOf[n] = p /\ Recorded(n) > 0}

OracleCurrent ==
  \A p \in Addresses :
    Settled(p) /\ {s \in Signals : ProviderOf(s) = p} \intersect (forgone \cup contended) = {}
      => IF Used(p) = {} THEN chain[p] = <<>>
         ELSE \E n \in Used(p) : chain[p] = <<n, Recorded(n)>>

(* As long as each start manages to read the file, no save ever drops or    *)
(* reorders a node's durable history.                                       *)
DurableHistoryGrows ==
  [][loaded => \A n \in Nodes : IsPrefix(disk.closed[n], disk'.closed[n])]_vars
=============================================================================
