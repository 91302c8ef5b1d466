--------------------------- MODULE ScoringProofs ---------------------------
(* Proofs about a node's history, in memory and in the state file, for any  *)
(* signals, nodes and number of process starts, with crashes at any point;  *)
(* and about the judgement of one signal, for any entry, prices and levels. *)
EXTENDS NodeScoring, SignalEvaluation, TLAPS

(* What is in a history was closed, for the node it is counted for; a       *)
(* signal that is closed never opens again.                                 *)
HistoryIsClosed ==
  \A n \in Nodes :
    /\ \A i \in DOMAIN closed[n] : NodeOf[closed[n][i]] = n /\ pc[closed[n][i]] # "open"
    /\ \A i \in DOMAIN disk.closed[n] :
         NodeOf[disk.closed[n][i]] = n /\ pc[disk.closed[n][i]] # "open"

(* No handler of an earlier run is left when the process is down.           *)
DownIsQuiet ==
  /\ up = "down" => ~loaded /\ \A s \in Signals : pc[s] \in {"open", "done"}
  /\ loaded => up # "down"

(* While no two RecordClosed of a node overlap, the one under way has the   *)
(* node's whole history.                                                    *)
AloneIsCurrent ==
  \A n \in Nodes : n \notin raced =>
    \A s \in Computing(n) :
      /\ snap[s] = Len(closed[n])
      /\ \A t \in Computing(n) : t = s

(* A run that read the file holds at least what the file holds.             *)
LoadedCoversFile ==
  loaded => \A n \in Nodes : IsPrefix(disk.closed[n], closed[n])

(* What has no excuse to be lost is in memory while the process runs, and   *)
(* in the file once it has been saved.                                      *)
LossInv ==
  /\ up = "down" => sinceSave = {}
  /\ \A s \in Signals : pc[s] # "open" /\ s \notin forgone =>
       /\ up # "down" => s \in Range(closed[NodeOf[s]])
       /\ s \notin sinceSave => s \in Range(disk.closed[NodeOf[s]])

(* A transaction whose nonce nobody else could take still has the next one; *)
(* one that a sender with a nonce in hand could replace has been overlapped.*)
NonceInv ==
  /\ \A t \in Txs : nonce[t] # 0 => t \in pushing
  /\ up = "down" => pushing = {}
  /\ \A t \in Holding : t \notin contended => nonce[t] = PendingNonce /\ Holding = {t}
  /\ \A t \in Holding, i \in DOMAIN pool : mined + i > nonce[t] => pool[i] \in contended

(* A node of whose results none is lost has them all in the file after a    *)
(* save.                                                                    *)
Of(n) == {s \in Signals : NodeOf[s] = n}
By(p) == {s \in Signals : ProviderOf(s) = p}

FileInv ==
  /\ up = "down" => closed = NoFile.closed
  /\ \A s \in forgone \cup sinceSave : pc[s] # "open"
  /\ up # "down" => \A n \in Nodes :
       Of(n) \intersect (forgone \cup sinceSave) = {} => disk.closed[n] = closed[n]

(* The chain has the score of a whole history, or the one result in flight  *)
(* brings it.                                                               *)
Undisturbed(p) == p \notin disturbed /\ By(p) \intersect (forgone \cup contended) = {}

Current(p) ==
  IF Used(p) = {} THEN chain[p] = <<>> ELSE \E n \in Used(p) : chain[p] = <<n, Recorded(n)>>

OracleAt(p) ==
  Undisturbed(p) =>
    /\ InFlight(p) = {} => Current(p)
    /\ \A s \in InFlight(p) :
         snap[s] > 0 /\ snap[s] = Recorded(NodeOf[s]) /\ InFlight(p) = {s}

OracleInv == \A p \in Addresses : OracleAt(p)

ScoringInv ==
  /\ TypeOK
  /\ HistoryIsClosed
  /\ DownIsQuiet
  /\ AloneIsCurrent
  /\ LoadedCoversFile
  /\ CountedOnce
  /\ StaleOnlyAfterOverlap

----------------------------------------------------------------------------
(* Lists                                                                    *)

LEMMA AppendFresh ==
  ASSUME NEW S, NEW list \in Seq(S), NEW x \in S,
         IsInjective(list), \A i \in DOMAIN list : list[i] # x
  PROVE  IsInjective(Append(list, x))
<1> DEFINE more == Append(list, x)
           k == Len(list)
<1>1. /\ DOMAIN list = 1 .. k /\ k \in Nat
      /\ DOMAIN more = 1 .. k + 1
      /\ more[k + 1] = x
      /\ \A i \in 1 .. k : more[i] = list[i]
  OBVIOUS
<1> HIDE DEF more, k
<1>2. ASSUME NEW i \in DOMAIN more, NEW j \in DOMAIN more, more[i] = more[j]
      PROVE  i = j
  <2>1. CASE i \in 1 .. k /\ j \in 1 .. k
    <3>1. list[i] = list[j]
      BY <1>1, <1>2, <2>1
    <3> QED BY <1>1, <2>1, <3>1 DEF IsInjective
  <2>2. CASE i = k + 1 /\ j \in 1 .. k
    BY <1>1, <1>2, <2>2
  <2>3. CASE j = k + 1 /\ i \in 1 .. k
    BY <1>1, <1>2, <2>3
  <2>4. CASE i = k + 1 /\ j = k + 1
    BY <2>4
  <2> QED BY <1>1, <2>1, <2>2, <2>3, <2>4
<1> QED BY <1>2 DEF IsInjective, more

LEMMA PrefixOfAppend ==
  ASSUME NEW S, NEW s \in Seq(S), NEW t \in Seq(S), NEW x \in S, IsPrefix(s, t)
  PROVE  IsPrefix(s, Append(t, x))
BY DEF IsPrefix

LEMMA OneReplaced ==
  ASSUME NEW S, NEW q \in Seq(S), NEW x \in S, NEW i \in DOMAIN q
  PROVE  /\ [q EXCEPT ![i] = x] \in Seq(S)
         /\ Len([q EXCEPT ![i] = x]) = Len(q)
<1> DEFINE k == Len(q)
           other == [q EXCEPT ![i] = x]
<1>1. k \in Nat /\ q \in [1..k -> S]
  OBVIOUS
<1> HIDE DEF k
<1>2. other \in [1..k -> S]
  BY <1>1
<1> HIDE DEF other
<1> QED BY <1>1, <1>2 DEF other, k

LEMMA PrefixOfItself == ASSUME NEW S, NEW s \in Seq(S) PROVE IsPrefix(s, s)
BY DEF IsPrefix

LEMMA PrefixOfNothing == ASSUME NEW S, NEW s \in Seq(S) PROVE IsPrefix(<<>>, s)
BY DEF IsPrefix

----------------------------------------------------------------------------
(* The first start has no file and no history.                              *)
LEMMA ScoringInitInv == Init => ScoringInv
<1> SUFFICES ASSUME Init PROVE ScoringInv
  OBVIOUS
<1> USE ScoringAssumption DEF Init, NoFile
<1>1. TypeOK
  <2>1. NoFile \in Files
    BY DEF Files
  <2>2. closed \in [Nodes -> Seq(Signals)] /\ stats \in [Nodes -> Nat] /\ disk \in Files
    BY <2>1 DEF Files
  <2>3. /\ up \in {"down", "up", "saved"} /\ runs \in 0 .. MaxRuns
        /\ pc \in [Signals -> {"open", "compute", "evaluate", "done"}]
    OBVIOUS
  <2>4. snap \in [Signals -> Nat] /\ chain \in [Addresses -> {<<>>} \cup (Nodes \X Nat)]
    OBVIOUS
  <2>5. /\ pushing \in SUBSET Txs /\ loaded \in BOOLEAN /\ raced \in SUBSET Nodes
        /\ sinceSave \in SUBSET Signals /\ forgone \in SUBSET Signals
        /\ contended \in SUBSET Txs /\ disturbed \in SUBSET Addresses
    OBVIOUS
  <2>6. nonce \in [Txs -> Nat] /\ pool \in Seq(Txs) /\ mined \in Nat
    OBVIOUS
  <2> QED BY <2>2, <2>3, <2>4, <2>5, <2>6 DEF TypeOK
<1>2. HistoryIsClosed /\ DownIsQuiet /\ AloneIsCurrent /\ LoadedCoversFile
  BY DEF HistoryIsClosed, DownIsQuiet, AloneIsCurrent, LoadedCoversFile, Computing
<1>3. CountedOnce /\ StaleOnlyAfterOverlap
  BY DEF CountedOnce, StaleOnlyAfterOverlap, IsInjective
<1> QED BY <1>1, <1>2, <1>3 DEF ScoringInv

(* A signal that closes now is in no history yet.                           *)
LEMMA AppendInv ==
  ASSUME ScoringInv, NEW s \in Signals, RecordAppend(s) PROVE ScoringInv'
<1> DEFINE n == NodeOf[s]
<1>1. /\ n \in Nodes /\ pc[s] = "open" /\ up # "down"
      /\ closed \in [Nodes -> Seq(Signals)] /\ disk \in Files
      /\ pc \in [Signals -> {"open", "compute", "evaluate", "done"}]
      /\ snap \in [Signals -> Nat] /\ raced \in SUBSET Nodes
      /\ closed' = [closed EXCEPT ![n] = Append(closed[n], s)]
      /\ snap' = [snap EXCEPT ![s] = Len(closed[n]) + 1]
      /\ pc' = [pc EXCEPT ![s] = "compute"]
      /\ raced' = IF Computing(n) # {} THEN raced \cup {n} ELSE raced
      /\ sinceSave' = sinceSave \cup {s}
      /\ disturbed' \in SUBSET Addresses
      /\ UNCHANGED <<up, runs, disk, stats, loaded, pushing, nonce, contended, chain, pool,
                    mined, forgone>>
  BY ScoringAssumption DEF ScoringInv, TypeOK, RecordAppend, ProviderOf, senderVars, chainVars
<1> HIDE DEF n
<1>2. /\ closed[n] \in Seq(Signals) /\ closed'[n] = Append(closed[n], s)
      /\ Len(closed'[n]) = Len(closed[n]) + 1
      /\ \A m \in Nodes : m # n => closed'[m] = closed[m]
      /\ pc'[s] = "compute" /\ \A t \in Signals : t # s => pc'[t] = pc[t]
      /\ snap'[s] = Len(closed[n]) + 1 /\ \A t \in Signals : t # s => snap'[t] = snap[t]
  BY <1>1
<1>3. TypeOK'
  BY <1>1, <1>2 DEF ScoringInv, TypeOK
<1>4. \A i \in DOMAIN closed[n] : closed[n][i] # s
  BY <1>1 DEF ScoringInv, HistoryIsClosed
<1>5. HistoryIsClosed'
  <2>1. ASSUME NEW m \in Nodes, NEW i \in DOMAIN closed'[m]
        PROVE  NodeOf[closed'[m][i]] = m /\ pc'[closed'[m][i]] # "open"
    <3>1. CASE m = n /\ i = Len(closed[n]) + 1
      <4>1. closed'[m][i] = s
        BY <1>2, <3>1
      <4> QED BY <1>2, <3>1, <4>1 DEF n
    <3>2. CASE ~(m = n /\ i = Len(closed[n]) + 1)
      <4>1. /\ i \in DOMAIN closed[m] /\ closed'[m][i] = closed[m][i]
            /\ closed[m][i] \in Signals
        BY <1>1, <1>2, <2>1, <3>2
      <4>2. NodeOf[closed[m][i]] = m /\ pc[closed[m][i]] # "open"
        BY <4>1 DEF ScoringInv, HistoryIsClosed
      <4> QED BY <1>2, <4>1, <4>2
    <3> QED BY <3>1, <3>2
  <2>2. ASSUME NEW m \in Nodes, NEW i \in DOMAIN disk.closed[m]
        PROVE  NodeOf[disk.closed[m][i]] = m /\ pc'[disk.closed[m][i]] # "open"
    <3>1. disk.closed[m][i] \in Signals
      BY <1>1, <2>2 DEF Files
    <3>2. NodeOf[disk.closed[m][i]] = m /\ pc[disk.closed[m][i]] # "open"
      BY <2>2 DEF ScoringInv, HistoryIsClosed
    <3> QED BY <1>2, <3>1, <3>2
  <2> QED BY <1>1, <2>1, <2>2 DEF HistoryIsClosed
<1>6. DownIsQuiet'
  BY <1>1 DEF ScoringInv, DownIsQuiet
<1>7. /\ Computing(n)' = Computing(n) \cup {s}
      /\ \A m \in Nodes : m # n => Computing(m)' = Computing(m)
  BY <1>1, <1>2 DEF Computing, n
<1>8. AloneIsCurrent'
  <2> SUFFICES ASSUME NEW m \in Nodes, m \notin raced', NEW t \in Computing(m)'
               PROVE  /\ snap'[t] = Len(closed'[m])
                      /\ \A u \in Computing(m)' : u = t
    BY DEF AloneIsCurrent
  <2>1. CASE m = n
    <3>1. Computing(n) = {}
      BY <1>1, <2>1
    <3> QED BY <1>2, <1>7, <2>1, <3>1
  <2>2. CASE m # n
    <3>1. t \in Computing(m) /\ t # s /\ t \in Signals /\ m \notin raced
      BY <1>1, <1>7, <2>2 DEF Computing
    <3> QED BY <1>2, <1>7, <2>2, <3>1 DEF ScoringInv, AloneIsCurrent
  <2> QED BY <2>1, <2>2
<1>9. LoadedCoversFile'
  <2> SUFFICES ASSUME loaded, NEW m \in Nodes PROVE IsPrefix(disk.closed[m], closed'[m])
    BY <1>1 DEF LoadedCoversFile
  <2>1. IsPrefix(disk.closed[m], closed[m]) /\ disk.closed[m] \in Seq(Signals)
    BY <1>1 DEF ScoringInv, LoadedCoversFile, Files
  <2>2. CASE m = n
    BY <1>2, <2>1, <2>2, PrefixOfAppend
  <2>3. CASE m # n
    BY <1>2, <2>1, <2>3
  <2> QED BY <2>2, <2>3
<1>10. CountedOnce'
  <2>1. \A m \in Nodes : IsInjective(closed[m]) /\ IsInjective(disk.closed[m])
    BY DEF ScoringInv, CountedOnce
  <2>2. IsInjective(closed'[n])
    BY <1>1, <1>2, <1>4, <2>1, AppendFresh
  <2>3. ASSUME NEW m \in Nodes PROVE IsInjective(closed'[m]) /\ IsInjective(disk'.closed[m])
    <3>1. CASE m = n
      BY <1>1, <2>1, <2>2, <3>1
    <3>2. CASE m # n
      BY <1>1, <1>2, <2>1, <3>2
    <3> QED BY <3>1, <3>2
  <2> QED BY <2>3 DEF CountedOnce
<1>11. StaleOnlyAfterOverlap'
  <2> SUFFICES ASSUME NEW m \in Nodes, m \notin raced', Computing(m)' = {},
                      NEW t \in Signals, NodeOf[t] = m, pc'[t] = "evaluate"
               PROVE  stats'[m] = Len(closed'[m])
    BY DEF StaleOnlyAfterOverlap
  <2>1. m # n /\ m \notin raced /\ Computing(m) = {} /\ pc[t] = "evaluate"
    BY <1>1, <1>2, <1>7
  <2>2. stats[m] = Len(closed[m])
    BY <2>1 DEF ScoringInv, StaleOnlyAfterOverlap
  <2> QED BY <1>1, <1>2, <2>1, <2>2
<1> QED BY <1>3, <1>5, <1>6, <1>8, <1>9, <1>10, <1>11 DEF ScoringInv

(* Publishing: the only RecordClosed under way leaves current stats behind. *)
LEMMA StoreInv ==
  ASSUME ScoringInv, NEW s \in Signals, RecordStore(s) PROVE ScoringInv'
<1> DEFINE n == NodeOf[s]
<1>1. /\ n \in Nodes /\ pc[s] = "compute"
      /\ pc \in [Signals -> {"open", "compute", "evaluate", "done"}]
      /\ stats \in [Nodes -> Nat] /\ snap \in [Signals -> Nat]
      /\ stats' = [stats EXCEPT ![n] = snap[s]]
      /\ pc' = [pc EXCEPT ![s] = "evaluate"]
      /\ UNCHANGED <<up, runs, disk, snap, closed, loaded, raced, pushing, nonce, contended,
                    chain, pool, mined, sinceSave, forgone, disturbed>>
  BY ScoringAssumption
  DEF ScoringInv, TypeOK, RecordStore, StatsPublished, senderVars, chainVars, lossVars
<1> HIDE DEF n
<1>2. pc'[s] = "evaluate" /\ \A t \in Signals : t # s => pc'[t] = pc[t]
  BY <1>1
<1>3. TypeOK'
  BY <1>1 DEF ScoringInv, TypeOK
<1>4. HistoryIsClosed'
  <2>1. \A t \in Signals : pc'[t] = "open" <=> pc[t] = "open"
    BY <1>1, <1>2
  <2>2. ASSUME NEW m \in Nodes
        PROVE  /\ \A i \in DOMAIN closed[m] : closed[m][i] \in Signals
               /\ \A i \in DOMAIN disk.closed[m] : disk.closed[m][i] \in Signals
    BY DEF ScoringInv, TypeOK, Files
  <2> QED BY <1>1, <2>1, <2>2 DEF ScoringInv, HistoryIsClosed
<1>5. DownIsQuiet'
  BY <1>1, <1>2 DEF ScoringInv, DownIsQuiet
<1>6. s \in Computing(n) /\ \A m \in Nodes : Computing(m)' = Computing(m) \ {s}
  BY <1>1, <1>2 DEF Computing, n
<1>7. AloneIsCurrent'
  BY <1>1, <1>6 DEF ScoringInv, AloneIsCurrent
<1>8. StaleOnlyAfterOverlap'
  <2> SUFFICES ASSUME NEW m \in Nodes, m \notin raced', Computing(m)' = {},
                      NEW t \in Signals, NodeOf[t] = m, pc'[t] = "evaluate"
               PROVE  stats'[m] = Len(closed'[m])
    BY DEF StaleOnlyAfterOverlap
  <2>1. CASE m = n
    <3>1. snap[s] = Len(closed[n])
      BY <1>1, <1>6, <2>1 DEF ScoringInv, AloneIsCurrent
    <3> QED BY <1>1, <2>1, <3>1
  <2>2. CASE m # n
    <3>1. s \notin Computing(m) /\ t # s
      BY <2>2 DEF Computing, n
    <3>2. Computing(m) = {} /\ pc[t] = "evaluate" /\ m \notin raced
      BY <1>1, <1>2, <1>6, <3>1
    <3>3. stats[m] = Len(closed[m])
      BY <3>2 DEF ScoringInv, StaleOnlyAfterOverlap
    <3> QED BY <1>1, <2>2, <3>3
  <2> QED BY <2>1, <2>2
<1>9. LoadedCoversFile' /\ CountedOnce'
  BY <1>1 DEF ScoringInv, LoadedCoversFile, CountedOnce
<1> QED BY <1>3, <1>4, <1>5, <1>7, <1>8, <1>9 DEF ScoringInv

(* A save of what the run holds; one that fails leaves the file alone.      *)
LEMMA SaveInv ==
  ASSUME ScoringInv, Saved \/ UNCHANGED disk, up # "down", up' \in {"up", "saved"},
         UNCHANGED <<runs, scorerVars, senderVars, chainVars, forgone, disturbed>>,
         sinceSave' \in {{}, sinceSave}
  PROVE  ScoringInv'
<1> USE DEF scorerVars, senderVars, chainVars, ScoringInv
<1>1. /\ closed \in [Nodes -> Seq(Signals)]
      /\ disk' \in Files
      /\ disk'.closed = closed \/ disk'.closed = disk.closed
  BY DEF TypeOK, Files, Saved
<1>2. TypeOK'
  BY <1>1 DEF TypeOK
<1>3. HistoryIsClosed' /\ DownIsQuiet' /\ CountedOnce'
  BY <1>1 DEF HistoryIsClosed, DownIsQuiet, CountedOnce
<1>4. AloneIsCurrent' /\ StaleOnlyAfterOverlap'
  BY DEF AloneIsCurrent, StaleOnlyAfterOverlap, Computing
<1>5. LoadedCoversFile'
  BY <1>1, PrefixOfItself DEF LoadedCoversFile
<1> QED BY <1>2, <1>3, <1>4, <1>5

(* A start finds no handler at work.                                        *)
LEMMA BootInv == ASSUME ScoringInv, Boot PROVE ScoringInv'
<1> USE DEF ScoringInv
<1>1. /\ up = "down" /\ up' = "up" /\ runs < MaxRuns /\ runs' = runs + 1
      /\ loaded' \in BOOLEAN
      /\ (loaded' /\ closed' = disk.closed /\ stats' = disk.stats)
           \/ (~loaded' /\ UNCHANGED <<closed, stats>>)
      /\ forgone' \in SUBSET Signals
      /\ UNCHANGED <<disk, pc, snap, raced, pushing, nonce, contended, chain, pool, mined,
                    sinceSave, disturbed>>
  BY DEF senderVars, chainVars, TypeOK, Boot, HistoryLoaded, StatsLoaded
<1>2. \A n \in Nodes : Computing(n) = {} /\ Computing(n)' = {}
  BY <1>1 DEF DownIsQuiet, Computing
<1>3. TypeOK'
  BY <1>1, ScoringAssumption DEF TypeOK, Files
<1>4. DownIsQuiet' /\ AloneIsCurrent' /\ StaleOnlyAfterOverlap'
  BY <1>1, <1>2 DEF DownIsQuiet, AloneIsCurrent, StaleOnlyAfterOverlap
<1>5. LoadedCoversFile'
  BY <1>1, PrefixOfItself DEF LoadedCoversFile, TypeOK, Files
<1>6. HistoryIsClosed' /\ CountedOnce'
  BY <1>1 DEF HistoryIsClosed, CountedOnce
<1> QED BY <1>3, <1>4, <1>5, <1>6

(* The rest of a handler, and the sending of transactions, leave the history *)
(* alone.                                                                   *)
LEMMA HandlerInv ==
  ASSUME ScoringInv, TypeOK', UNCHANGED <<up, snap, closed, stats, loaded, raced, disk>>,
         \/ pc' = pc
         \/ \E s \in Signals : pc[s] = "evaluate" /\ pc' = [pc EXCEPT ![s] = "done"]
  PROVE  ScoringInv'
<1> USE DEF ScoringInv
<1>1. \A t \in Signals :
        /\ pc'[t] = "open" <=> pc[t] = "open"
        /\ pc'[t] = "compute" <=> pc[t] = "compute"
        /\ pc'[t] = "evaluate" => pc[t] = "evaluate"
        /\ pc[t] = "done" => pc'[t] = "done"
  BY DEF TypeOK
<1>3. HistoryIsClosed'
  <2>1. ASSUME NEW m \in Nodes
        PROVE  /\ \A i \in DOMAIN closed[m] : closed[m][i] \in Signals
               /\ \A i \in DOMAIN disk.closed[m] : disk.closed[m][i] \in Signals
    BY DEF TypeOK, Files
  <2> QED BY <1>1, <2>1 DEF HistoryIsClosed
<1>4. \A m \in Nodes : Computing(m)' = Computing(m)
  BY <1>1 DEF Computing
<1>5. DownIsQuiet' /\ AloneIsCurrent' /\ StaleOnlyAfterOverlap'
  <2>1. DownIsQuiet'
    BY <1>1 DEF DownIsQuiet
  <2>2. AloneIsCurrent'
    BY <1>4 DEF AloneIsCurrent
  <2>3. StaleOnlyAfterOverlap'
    BY <1>1, <1>4 DEF StaleOnlyAfterOverlap
  <2> QED BY <2>1, <2>2, <2>3
<1>6. LoadedCoversFile' /\ CountedOnce'
  BY DEF LoadedCoversFile, CountedOnce
<1> QED BY <1>3, <1>5, <1>6

LEMMA SenderType ==
  ASSUME TypeOK, NEW t \in Txs, ReadNonce(t) \/ SendTx(t) \/ SendFails(t) \/ OtherSends(t)
  PROVE  TypeOK' /\ UNCHANGED <<up, disk, scorerVars>>
<1>1. /\ UNCHANGED <<up, runs, disk, scorerVars, chain, mined, lossVars>>
      /\ pushing \in SUBSET Txs /\ nonce \in [Txs -> Nat] /\ mined \in Nat
      /\ pool \in Seq(Txs) /\ contended \in SUBSET Txs /\ disturbed \in SUBSET Addresses
  BY DEF ReadNonce, SendTx, SendFails, OtherSends, chainVars, TypeOK
<1>2. pushing' \in SUBSET Txs
  BY <1>1 DEF ReadNonce, SendTx, SendFails, OtherSends
<1>3. nonce' \in [Txs -> Nat]
  <2>1. PendingNonce \in Nat
    BY <1>1 DEF PendingNonce
  <2> QED BY <1>1, <2>1 DEF ReadNonce, SendTx, SendFails, OtherSends
<1>4. contended' \in SUBSET Txs
  BY <1>1 DEF ReadNonce, SendTx, SendFails, OtherSends, Holding
<1>5. disturbed' \in SUBSET Addresses
  BY <1>1, ScoringAssumption DEF ReadNonce, SendTx, SendFails, OtherSends, ProviderOf
<1>6. pool' \in Seq(Txs)
  <2>1. CASE UNCHANGED pool
    BY <1>1, <2>1
  <2>2. CASE SendTx(t)
    <3>1. \/ pool' = Append(pool, t)
          \/ \E i \in DOMAIN pool : pool' = [pool EXCEPT ![i] = t]
          \/ UNCHANGED pool
      BY <2>2 DEF SendTx
    <3>2. CASE pool' = Append(pool, t)
      BY <1>1, <3>2
    <3>3. CASE \E i \in DOMAIN pool : pool' = [pool EXCEPT ![i] = t]
      BY <1>1, <3>3, OneReplaced
    <3> QED BY <1>1, <3>1, <3>2, <3>3
  <2> QED BY <2>1, <2>2 DEF ReadNonce, SendFails, OtherSends, chainVars
<1> QED BY <1>1, <1>2, <1>3, <1>4, <1>5, <1>6 DEF TypeOK, scorerVars, lossVars

LEMMA MineType == ASSUME TypeOK, Mine PROVE TypeOK' /\ UNCHANGED <<up, disk, scorerVars>>
<1>1. /\ UNCHANGED <<up, runs, disk, scorerVars, senderVars, lossVars>>
      /\ pool \in Seq(Txs) /\ pool # <<>> /\ pool' = Tail(pool)
      /\ mined \in Nat /\ mined' = mined + 1
  BY DEF Mine, TypeOK
<1>2. pool' \in Seq(Txs) /\ mined' \in Nat
  BY <1>1
<1>3. chain' \in [Addresses -> {<<>>} \cup (Nodes \X Nat)] /\ disturbed' \in SUBSET Addresses
  <2>1. \A t \in Signals : PushedScore(t) \in Nodes \X Nat
    BY ScoringAssumption DEF TypeOK, PushedScore
  <2>2. \A t \in Signals : ProviderOf(t) \in Addresses
    BY ScoringAssumption DEF ProviderOf
  <2> QED BY <2>1, <2>2 DEF Mine, TypeOK
<1> QED BY <1>1, <1>2, <1>3 DEF TypeOK, scorerVars, senderVars, lossVars

(* The end of the process forgets the history and every handler.            *)
LEMMA EndInv == ASSUME ScoringInv, ProcessEnds PROVE ScoringInv'
<1> USE DEF ScoringInv
<1>1. /\ up' = "down" /\ ~loaded' /\ loaded' \in BOOLEAN /\ raced' = {}
      /\ pc \in [Signals -> {"open", "compute", "evaluate", "done"}]
      /\ pc' = [s \in Signals |-> IF pc[s] = "open" THEN "open" ELSE "done"]
      /\ snap \in [Signals -> Nat]
      /\ snap' = [s \in Signals |-> IF s \in Range(pool) THEN snap[s] ELSE 0]
      /\ pushing' = {} /\ nonce' = [t \in Txs |-> 0] /\ disturbed' \in SUBSET Addresses
      /\ closed' = [n \in Nodes |-> <<>>] /\ stats' = [n \in Nodes |-> 0]
      /\ sinceSave' \in SUBSET Signals /\ forgone' \in SUBSET Signals
      /\ UNCHANGED <<runs, disk, chain, pool, mined, contended>>
  BY ScoringAssumption DEF ProcessEnds, TypeOK, NoFile, ProviderOf, chainVars
<1>2. \A t \in Signals : pc'[t] \in {"open", "done"} /\ (pc'[t] = "open" <=> pc[t] = "open")
  BY <1>1
<1>3. TypeOK'
  <2>1. snap' \in [Signals -> Nat]
    BY <1>1
  <2>2. pc' \in [Signals -> {"open", "compute", "evaluate", "done"}]
    BY <1>1
  <2>3. closed' \in [Nodes -> Seq(Signals)] /\ stats' \in [Nodes -> Nat]
    BY <1>1
  <2> QED BY <1>1, <2>1, <2>2, <2>3 DEF TypeOK
<1>4. HistoryIsClosed'
  <2>1. \A m \in Nodes : \A i \in DOMAIN disk.closed[m] : disk.closed[m][i] \in Signals
    BY DEF TypeOK, Files
  <2> QED BY <1>1, <1>2, <2>1 DEF HistoryIsClosed
<1>5. \A m \in Nodes : Computing(m)' = {}
  BY <1>2 DEF Computing
<1>6. DownIsQuiet' /\ AloneIsCurrent' /\ StaleOnlyAfterOverlap' /\ LoadedCoversFile'
  BY <1>1, <1>2, <1>5
  DEF DownIsQuiet, AloneIsCurrent, StaleOnlyAfterOverlap, LoadedCoversFile
<1>7. CountedOnce'
  BY <1>1 DEF CountedOnce, IsInjective
<1> QED BY <1>3, <1>4, <1>6, <1>7

(* Every step preserves the invariant.                                      *)
LEMMA ScoringNextInv == ScoringInv /\ [Next]_vars => ScoringInv'
<1> SUFFICES ASSUME ScoringInv, [Next]_vars PROVE ScoringInv'
  OBVIOUS
<1>1. ASSUME NEW s \in Signals, RecordAppend(s) PROVE ScoringInv'
  BY <1>1, AppendInv
<1>2. ASSUME NEW s \in Signals, RecordStore(s) PROVE ScoringInv'
  BY <1>2, StoreInv
<1>3. ASSUME NEW s \in Signals, HandleReturns(s) PROVE ScoringInv'
  <2>1. TypeOK'
    BY <1>3 DEF HandleReturns, chainVars, lossVars, ScoringInv, TypeOK, Txs
  <2> QED BY <1>3, <2>1, HandlerInv DEF HandleReturns
<1>4. CASE Mine \/ \E t \in Txs : ReadNonce(t) \/ SendTx(t) \/ SendFails(t) \/ OtherSends(t)
  <2>1. TypeOK' /\ UNCHANGED <<up, disk, scorerVars>>
    BY <1>4, SenderType, MineType DEF ScoringInv
  <2> QED BY <2>1, HandlerInv DEF scorerVars
<1>5. CASE AutoSave \/ FinalSave
  <2>1. /\ Saved \/ UNCHANGED disk
        /\ up # "down" /\ up' \in {"up", "saved"}
        /\ UNCHANGED <<runs, scorerVars, senderVars, chainVars, forgone, disturbed>>
        /\ sinceSave' \in {{}, sinceSave}
    BY <1>5 DEF AutoSave, FinalSave
  <2> QED BY <2>1, SaveInv
<1>6. CASE Boot
  BY <1>6, BootInv
<1>7. CASE ProcessEnds
  BY <1>7, EndInv
<1>8. CASE UNCHANGED vars
  <2>1. TypeOK'
    BY <1>8 DEF vars, scorerVars, senderVars, chainVars, lossVars, ScoringInv, TypeOK
  <2> QED BY <1>8, <2>1, HandlerInv DEF vars, scorerVars
<1> QED BY <1>1, <1>2, <1>3, <1>4, <1>5, <1>6, <1>7, <1>8 DEF Next, Txs

----------------------------------------------------------------------------
(* Losing records                                                           *)

LEMMA AppendKeeps ==
  ASSUME NEW S, NEW list \in Seq(S), NEW x \in S
  PROVE  x \in Range(Append(list, x)) /\ Range(list) \subseteq Range(Append(list, x))
<1>1. Append(list, x)[Len(list) + 1] = x /\ Len(list) + 1 \in DOMAIN Append(list, x)
  OBVIOUS
<1>2. \A i \in DOMAIN list : i \in DOMAIN Append(list, x) /\ Append(list, x)[i] = list[i]
  OBVIOUS
<1> QED BY <1>1, <1>2 DEF Range

(* A step that records, saves and forgets nothing.                          *)
LEMMA QuietLoss ==
  ASSUME LossInv, UNCHANGED <<up, closed, disk, lossVars>>,
         \A s \in Signals : pc'[s] # "open" => pc[s] # "open"
  PROVE  LossInv'
BY DEF LossInv, lossVars

LEMMA LossNextInv == ScoringInv /\ LossInv /\ [Next]_vars => LossInv'
<1> SUFFICES ASSUME ScoringInv, LossInv, [Next]_vars PROVE LossInv'
  OBVIOUS
<1>1. ASSUME NEW s \in Signals, RecordAppend(s) PROVE LossInv'
  <2> DEFINE n == NodeOf[s]
  <2>1. /\ n \in Nodes /\ up # "down" /\ closed[n] \in Seq(Signals)
        /\ closed' = [closed EXCEPT ![n] = Append(closed[n], s)]
        /\ closed \in [Nodes -> Seq(Signals)]
        /\ \A t \in Signals \ {s} : pc'[t] = pc[t]
        /\ sinceSave' = sinceSave \cup {s}
        /\ UNCHANGED <<up, disk, forgone>>
    BY <1>1, ScoringAssumption DEF RecordAppend, ScoringInv, TypeOK
  <2>2. /\ s \in Range(closed'[n])
        /\ \A m \in Nodes : Range(closed[m]) \subseteq Range(closed'[m])
    BY <2>1, AppendKeeps
  <2> HIDE DEF n
  <2> SUFFICES ASSUME NEW t \in Signals, pc'[t] # "open", t \notin forgone
               PROVE  /\ t \in Range(closed'[NodeOf[t]])
                      /\ t \notin sinceSave' => t \in Range(disk.closed[NodeOf[t]])
    BY <2>1 DEF LossInv
  <2>3. CASE t = s
    BY <2>1, <2>2, <2>3 DEF n
  <2>4. CASE t # s
    <3>1. /\ t \in Range(closed[NodeOf[t]])
          /\ t \notin sinceSave => t \in Range(disk.closed[NodeOf[t]])
      BY <2>1, <2>4 DEF LossInv
    <3> QED BY <2>1, <2>2, <3>1, ScoringAssumption
  <2> QED BY <2>3, <2>4
<1>2. CASE \E s \in Signals : RecordStore(s) \/ HandleReturns(s)
  <2>1. UNCHANGED <<up, closed, disk, lossVars>>
    BY <1>2 DEF RecordStore, HandleReturns
  <2>2. \A s \in Signals : pc'[s] # "open" => pc[s] # "open"
    BY <1>2 DEF RecordStore, HandleReturns, ScoringInv, TypeOK
  <2> QED BY <2>1, <2>2, QuietLoss
<1>7. CASE Mine \/ (\E t \in Txs : ReadNonce(t) \/ SendTx(t) \/ SendFails(t))
             \/ (\E o \in Others : OtherSends(o))
  <2>1. UNCHANGED <<up, pc, closed, disk, lossVars>>
    BY <1>7 DEF Mine, ReadNonce, SendTx, SendFails, OtherSends, scorerVars
  <2> QED BY <2>1, QuietLoss
<1>3. CASE AutoSave \/ FinalSave
  <2>1. /\ up # "down" /\ up' # "down" /\ UNCHANGED <<pc, closed, forgone>>
        /\ disk'.closed = closed \/ UNCHANGED <<disk, sinceSave>>
    BY <1>3 DEF AutoSave, FinalSave, Saved, scorerVars
  <2> QED BY <2>1 DEF LossInv
<1>4. CASE Boot
  <2>1. /\ up = "down" /\ up' = "up" /\ UNCHANGED <<pc, sinceSave, disk>>
        /\ \/ closed' = disk.closed /\ UNCHANGED forgone
           \/ forgone' = {s \in Signals : pc[s] # "open"}
    BY <1>4 DEF Boot, HistoryLoaded
  <2> QED BY <2>1 DEF LossInv
<1>5. CASE ProcessEnds
  <2>1. /\ up' = "down" /\ sinceSave' = {} /\ forgone' = forgone \cup sinceSave
        /\ UNCHANGED disk
        /\ \A s \in Signals : pc'[s] # "open" => pc[s] # "open"
    BY <1>5 DEF ProcessEnds
  <2> QED BY <2>1 DEF LossInv
<1>6. CASE UNCHANGED vars
  BY <1>6, QuietLoss DEF vars, scorerVars, lossVars
<1> QED BY <1>1, <1>2, <1>3, <1>4, <1>5, <1>6, <1>7 DEF Next

----------------------------------------------------------------------------
(* The score on the chain                                                   *)

LEMMA TailRange ==
  ASSUME NEW S, NEW q \in Seq(S), q # <<>>
  PROVE  /\ Head(q) = q[1] /\ 1 \in DOMAIN q
         /\ DOMAIN Tail(q) = 1 .. Len(q) - 1 /\ Len(Tail(q)) = Len(q) - 1
         /\ \A i \in DOMAIN Tail(q) : i + 1 \in DOMAIN q /\ Tail(q)[i] = q[i + 1]
         /\ Range(q) = {Head(q)} \cup Range(Tail(q))
<1>1. /\ Head(q) = q[1] /\ 1 \in DOMAIN q
      /\ DOMAIN Tail(q) = 1 .. Len(q) - 1 /\ Len(Tail(q)) = Len(q) - 1
      /\ \A i \in DOMAIN Tail(q) : i + 1 \in DOMAIN q /\ Tail(q)[i] = q[i + 1]
  OBVIOUS
<1>2. \A i \in DOMAIN q : i = 1 \/ (i - 1 \in DOMAIN Tail(q) /\ q[i] = Tail(q)[i - 1])
  OBVIOUS
<1>3. \A x \in Range(q) : x = Head(q) \/ x \in Range(Tail(q))
  BY <1>1, <1>2 DEF Range
<1>4. \A x \in Range(Tail(q)) : x \in Range(q)
  BY <1>1 DEF Range
<1>5. Head(q) \in Range(q)
  BY <1>1 DEF Range
<1> QED BY <1>1, <1>3, <1>4, <1>5

LEMMA AppendRange ==
  ASSUME NEW S, NEW q \in Seq(S), NEW x \in S
  PROVE  /\ Range(Append(q, x)) = Range(q) \cup {x}
         /\ DOMAIN Append(q, x) = DOMAIN q \cup {Len(q) + 1}
         /\ Append(q, x)[Len(q) + 1] = x
         /\ \A i \in DOMAIN q : Append(q, x)[i] = q[i]
<1>1. /\ DOMAIN Append(q, x) = DOMAIN q \cup {Len(q) + 1}
      /\ Append(q, x)[Len(q) + 1] = x
      /\ \A i \in DOMAIN q : Append(q, x)[i] = q[i]
  OBVIOUS
<1> QED BY <1>1 DEF Range

(* Steps that read, take or give back no nonce.                             *)
LEMMA QuietNonce ==
  ASSUME TypeOK, TypeOK', NonceInv, UNCHANGED <<nonce, contended, pool, mined>>,
         pushing \subseteq pushing', up' = "down" => up = "down" /\ pushing' = pushing
  PROVE  NonceInv'
<1>1. Holding' = Holding
  BY DEF NonceInv, Holding, TypeOK
<1>2. PendingNonce' = PendingNonce
  BY DEF PendingNonce
<1> QED BY <1>1, <1>2 DEF NonceInv

LEMMA NonceNextInv ==
  TypeOK /\ TypeOK' /\ DownIsQuiet /\ NonceInv /\ [Next]_vars => NonceInv'
<1> SUFFICES ASSUME TypeOK, TypeOK', DownIsQuiet, NonceInv, [Next]_vars PROVE NonceInv'
  OBVIOUS
<1> USE DEF senderVars, chainVars
<1>1. CASE \/ Boot \/ AutoSave \/ FinalSave \/ UNCHANGED vars
           \/ \E s \in Signals : RecordAppend(s) \/ RecordStore(s) \/ HandleReturns(s)
           \/ \E o \in Others : OtherSends(o)
  <2>1. /\ UNCHANGED <<nonce, contended, pool, mined>> /\ pushing \subseteq pushing'
        /\ up' = "down" => up = "down"
    BY <1>1 DEF Boot, AutoSave, FinalSave, vars, RecordAppend, RecordStore, HandleReturns,
       OtherSends
  <2>2. up' = "down" => pushing' = pushing
    <3>1. CASE \E s \in Signals : HandleReturns(s)
      <4>1. up # "down"
        BY <3>1 DEF HandleReturns, DownIsQuiet
      <4> QED BY <2>1, <4>1
    <3> QED BY <1>1, <3>1 DEF Boot, AutoSave, FinalSave, vars, RecordAppend, RecordStore,
            OtherSends
  <2> QED BY <2>1, <2>2, QuietNonce
<1>2. ASSUME NEW t \in Txs, ReadNonce(t) PROVE NonceInv'
  <2>1. /\ t \in pushing /\ nonce[t] = 0 /\ nonce' = [nonce EXCEPT ![t] = PendingNonce]
        /\ contended' = IF Holding = {} THEN contended ELSE contended \cup Holding \cup {t}
        /\ UNCHANGED <<up, pushing, pool, mined>>
    BY <1>2 DEF ReadNonce
  <2>2. /\ nonce'[t] = PendingNonce /\ \A u \in Txs \ {t} : nonce'[u] = nonce[u]
        /\ Holding' \subseteq Holding \cup {t} /\ Holding \subseteq Txs
    BY <2>1 DEF TypeOK, Holding
  <2>3. PendingNonce' = PendingNonce
    BY <2>1 DEF PendingNonce
  <2>4. ASSUME NEW u \in Holding', u \notin contended'
        PROVE  nonce'[u] = PendingNonce' /\ Holding' = {u}
    <3>1. Holding = {} /\ u = t
      BY <2>1, <2>2, <2>4
    <3> QED BY <2>2, <2>3, <2>4, <3>1
  <2>5. ASSUME NEW u \in Holding', NEW i \in DOMAIN pool, mined + i > nonce'[u]
        PROVE  pool[i] \in contended'
    <3>1. CASE u = t
      <4>1. mined + i > mined + Len(pool) /\ i <= Len(pool) /\ mined \in Nat /\ i \in Nat
        BY <2>2, <2>5, <3>1 DEF PendingNonce, TypeOK
      <4> QED BY <4>1 DEF TypeOK
    <3>2. CASE u # t
      <4>1. u \in Holding /\ nonce'[u] = nonce[u]
        BY <2>2, <3>2
      <4> QED BY <2>1, <2>5, <4>1 DEF NonceInv
    <3> QED BY <3>1, <3>2
  <2>6. \A u \in Txs : nonce'[u] # 0 => u \in pushing'
    BY <2>1, <2>2 DEF NonceInv
  <2>7. up' = "down" => pushing' = {}
    BY <2>1 DEF NonceInv
  <2> QED BY <2>1, <2>4, <2>5, <2>6, <2>7 DEF NonceInv
<1>3. ASSUME NEW t \in Txs, SendTx(t) \/ SendFails(t) PROVE NonceInv'
  <2>1. /\ t \in pushing /\ pushing' = pushing \ {t} /\ nonce' = [nonce EXCEPT ![t] = 0]
        /\ UNCHANGED <<up, contended, mined>>
    BY <1>3 DEF SendTx, SendFails, Holding
  <2>2. Holding' = Holding \ {t} /\ \A u \in Holding' : nonce'[u] = nonce[u]
    BY <2>1 DEF Holding, TypeOK
  <2>3. ASSUME NEW u \in Holding', u \notin contended
        PROVE  /\ nonce[u] = PendingNonce /\ Holding = {u} /\ Holding' = {u}
               /\ UNCHANGED pool
    <3>1. nonce[u] = PendingNonce /\ Holding = {u} /\ u # t
      BY <2>2, <2>3 DEF NonceInv
    <3>2. ~SendTx(t)
      BY <3>1 DEF SendTx
    <3> QED BY <1>3, <2>2, <3>1, <3>2 DEF SendFails
  <2>4. ASSUME NEW u \in Holding', NEW i \in DOMAIN pool', mined + i > nonce[u]
        PROVE  pool'[i] \in contended
    <3>1. i \in DOMAIN pool => pool[i] \in contended
      BY <2>2, <2>4 DEF NonceInv
    <3>2. CASE SendTx(t)
      <4>1. t \in contended
        BY <2>2, <2>4, <3>2 DEF NonceInv, SendTx
      <4>2. \/ i \in DOMAIN pool /\ pool'[i] = pool[i]
            \/ pool'[i] = t
        <5>1. CASE pool' = Append(pool, t)
          BY <5>1, <2>4, AppendRange DEF TypeOK
        <5>2. CASE \E k \in DOMAIN pool : pool' = [pool EXCEPT ![k] = t]
          BY <5>2, <2>4
        <5>3. CASE UNCHANGED pool
          BY <5>3, <2>4
        <5> QED BY <3>2, <5>1, <5>2, <5>3 DEF SendTx
      <4> QED BY <3>1, <4>1, <4>2
    <3>3. CASE SendFails(t)
      BY <2>4, <3>1, <3>3 DEF SendFails
    <3> QED BY <1>3, <3>2, <3>3
  <2>5. \A u \in Holding' : u \notin contended' => nonce'[u] = PendingNonce' /\ Holding' = {u}
    BY <2>1, <2>2, <2>3 DEF PendingNonce
  <2>6. \A u \in Txs : nonce'[u] # 0 => u \in pushing'
    BY <2>1 DEF NonceInv, TypeOK
  <2>7. up' = "down" => pushing' = {}
    BY <2>1 DEF NonceInv
  <2> QED BY <2>1, <2>2, <2>4, <2>5, <2>6, <2>7 DEF NonceInv
<1>4. CASE Mine
  <2>1. /\ pool # <<>> /\ pool' = Tail(pool) /\ mined' = mined + 1
        /\ UNCHANGED <<up, pushing, nonce, contended>>
    BY <1>4 DEF Mine
  <2>2. Holding' = Holding
    BY <2>1 DEF Holding
  <2>3. PendingNonce' = PendingNonce
    <3>1. mined \in Nat /\ Len(pool) \in Nat /\ Len(pool') = Len(pool) - 1
      BY <2>1 DEF TypeOK
    <3> QED BY <2>1, <3>1 DEF PendingNonce
  <2>4. ASSUME NEW t \in Holding, NEW i \in DOMAIN pool', mined' + i > nonce[t]
        PROVE  pool'[i] \in contended
    <3>1. i + 1 \in DOMAIN pool /\ pool'[i] = pool[i + 1]
      BY <2>1, <2>4, TailRange DEF TypeOK
    <3>2. i \in Nat /\ mined \in Nat
      BY <2>4 DEF TypeOK
    <3>3. mined + (i + 1) > nonce[t]
      <4>1. mined' + i = mined + (i + 1)
        BY <2>1, <3>2
      <4> QED BY <2>4, <4>1
    <3> QED BY <3>1, <3>3 DEF NonceInv
  <2> QED BY <2>1, <2>2, <2>3, <2>4 DEF NonceInv
<1>5. CASE ProcessEnds
  <2>1. pushing' = {} /\ \A t \in Txs : nonce'[t] = 0
    BY <1>5 DEF ProcessEnds
  <2>2. Holding' = {}
    BY <2>1 DEF Holding
  <2> QED BY <2>1, <2>2 DEF NonceInv
<1> QED BY <1>1, <1>2, <1>3, <1>4, <1>5 DEF Next

(* No history of a node that closed no signal.                              *)
LEMMA NothingClosed ==
  ASSUME ScoringInv, NEW n \in Nodes, Of(n) \intersect {s \in Signals : pc[s] # "open"} = {}
  PROVE  disk.closed[n] = <<>>
<1> DEFINE list == disk.closed[n]
<1>1. list \in Seq(Signals)
  BY DEF ScoringInv, TypeOK, Files
<1>2. \A i \in DOMAIN list : list[i] \in Signals /\ NodeOf[list[i]] = n /\ pc[list[i]] # "open"
  BY <1>1 DEF ScoringInv, HistoryIsClosed
<1>3. DOMAIN list = {}
  BY <1>2 DEF Of
<1> HIDE DEF list
<1>4. Len(list) = 0
  BY <1>1, <1>3
<1>5. list = <<>>
  BY <1>1, <1>4
<1> QED BY <1>5 DEF list

(* Steps that record, save and forget nothing.                              *)
LEMMA QuietFile ==
  ASSUME FileInv, UNCHANGED <<up, closed, disk, lossVars>>,
         \A s \in forgone \cup sinceSave : pc[s] # "open" => pc'[s] # "open"
  PROVE  FileInv'
BY DEF FileInv, lossVars

LEMMA FileNextInv == ScoringInv /\ FileInv /\ [Next]_vars => FileInv'
<1> SUFFICES ASSUME ScoringInv, FileInv, [Next]_vars PROVE FileInv'
  OBVIOUS
<1>1. ASSUME NEW s \in Signals, RecordAppend(s) PROVE FileInv'
  <2>1. /\ up # "down" /\ UNCHANGED <<up, disk, forgone>> /\ sinceSave' = sinceSave \cup {s}
        /\ pc' = [pc EXCEPT ![s] = "compute"]
        /\ \A m \in Nodes : m # NodeOf[s] => closed'[m] = closed[m]
    BY <1>1 DEF RecordAppend, ScoringInv, TypeOK
  <2>2. \A q \in (forgone \cup sinceSave)' : pc'[q] # "open"
    BY <2>1 DEF FileInv, ScoringInv, TypeOK
  <2>3. ASSUME NEW m \in Nodes, Of(m) \intersect (forgone \cup sinceSave)' = {}
        PROVE  disk'.closed[m] = closed'[m]
    <3>1. m # NodeOf[s] /\ Of(m) \intersect (forgone \cup sinceSave) = {}
      BY <2>1, <2>3 DEF Of
    <3> QED BY <2>1, <3>1 DEF FileInv
  <2> QED BY <2>1, <2>2, <2>3 DEF FileInv
<1>2. CASE \/ UNCHANGED vars \/ Mine
           \/ \E s \in Signals : RecordStore(s) \/ HandleReturns(s)
           \/ \E o \in Others : OtherSends(o)
           \/ \E t \in Txs : ReadNonce(t) \/ SendTx(t) \/ SendFails(t)
  <2>1. UNCHANGED <<up, closed, disk, lossVars>>
    BY <1>2 DEF vars, Mine, RecordStore, HandleReturns, OtherSends, ReadNonce, SendTx,
       SendFails, scorerVars
  <2>2. \/ UNCHANGED pc
        \/ \E s \in Signals, w \in {"evaluate", "done"} : pc' = [pc EXCEPT ![s] = w]
    BY <1>2 DEF vars, Mine, RecordStore, HandleReturns, OtherSends, ReadNonce, SendTx,
       SendFails, scorerVars
  <2>3. \A s \in forgone \cup sinceSave : pc[s] # "open" => pc'[s] # "open"
    BY <2>2 DEF ScoringInv, TypeOK
  <2> QED BY <2>1, <2>3, QuietFile
<1>3. CASE AutoSave \/ FinalSave
  <2>1. /\ up # "down" /\ up' # "down" /\ UNCHANGED <<pc, closed, forgone>>
        /\ \/ disk'.closed = closed /\ sinceSave' = {}
           \/ UNCHANGED <<disk, sinceSave>>
    BY <1>3 DEF AutoSave, FinalSave, Saved, scorerVars
  <2> QED BY <2>1 DEF FileInv
<1>4. CASE Boot
  <2>1. /\ up = "down" /\ up' = "up" /\ UNCHANGED <<pc, sinceSave, disk>>
        /\ \/ closed' = disk.closed /\ UNCHANGED forgone
           \/ closed' = NoFile.closed /\ forgone' = {s \in Signals : pc[s] # "open"}
    BY <1>4 DEF Boot, HistoryLoaded, FileInv
  <2>2. \A q \in (forgone \cup sinceSave)' : pc'[q] # "open"
    BY <2>1 DEF FileInv
  <2>3. ASSUME NEW m \in Nodes, Of(m) \intersect (forgone \cup sinceSave)' = {}
        PROVE  disk'.closed[m] = closed'[m]
    <3>1. CASE closed' = disk.closed
      BY <2>1, <3>1
    <3>2. CASE closed' = NoFile.closed /\ forgone' = {s \in Signals : pc[s] # "open"}
      <4>1. disk.closed[m] = <<>>
        BY <2>3, <3>2, NothingClosed
      <4> QED BY <2>1, <3>2, <4>1 DEF NoFile
    <3> QED BY <2>1, <3>1, <3>2
  <2> QED BY <2>1, <2>2, <2>3 DEF FileInv
<1>5. CASE ProcessEnds
  <2>1. /\ up' = "down" /\ closed' = NoFile.closed
        /\ (forgone \cup sinceSave)' = forgone \cup sinceSave
        /\ pc' = [s \in Signals |-> IF pc[s] = "open" THEN "open" ELSE "done"]
        /\ forgone \in SUBSET Signals /\ sinceSave \in SUBSET Signals
    BY <1>5 DEF ProcessEnds, ScoringInv, TypeOK
  <2>2. \A q \in (forgone \cup sinceSave)' : pc'[q] # "open"
    BY <2>1 DEF FileInv
  <2> QED BY <2>1, <2>2 DEF FileInv, NoFile
<1> QED BY <1>1, <1>2, <1>3, <1>4, <1>5 DEF Next

(* Steps that change nothing a node's score depends on, or disturb it.      *)
SameHistories(p) == \A n \in Nodes : AddressOf[n] = p => Recorded(n)' = Recorded(n)

LEMMA KeptAt ==
  ASSUME NEW p \in Addresses, OracleAt(p),
         Undisturbed(p)' =>
           /\ Undisturbed(p)
           /\ InFlight(p)' = InFlight(p)
           /\ SameHistories(p)
           /\ chain'[p] = chain[p]
           /\ \A s \in InFlight(p) : snap'[s] = snap[s]
  PROVE  OracleAt(p)'
<1> SUFFICES ASSUME Undisturbed(p)'
             PROVE  /\ InFlight(p)' = {} => Current(p)'
                    /\ \A s \in InFlight(p)' : /\ snap'[s] > 0 /\ snap'[s] = Recorded(NodeOf[s])'
                                              /\ InFlight(p)' = {s}
  BY DEF OracleAt
<1>1. Used(p)' = Used(p)
  BY DEF Used, SameHistories
<1>2. \A n \in Used(p) : Recorded(n)' = Recorded(n)
  BY DEF Used, SameHistories
<1>3. \A s \in InFlight(p) : Recorded(NodeOf[s])' = Recorded(NodeOf[s])
  BY ScoringAssumption DEF InFlight, ProviderOf, SameHistories
<1>4. Current(p)' <=> Current(p)
  BY <1>1, <1>2 DEF Current
<1> QED BY <1>3, <1>4 DEF OracleAt

(* The result that closes brings the score of the history it completes.     *)
LEMMA OracleAppend ==
  ASSUME ScoringInv, OracleInv, NEW s \in Signals, RecordAppend(s), NEW p \in Addresses
  PROVE  OracleAt(p)'
<1>1. /\ up # "down" /\ pc[s] = "open"
      /\ UNCHANGED <<up, disk, chain, pushing, pool, contended, forgone>>
      /\ pc' = [pc EXCEPT ![s] = "compute"]
      /\ pc \in [Signals -> {"open", "compute", "evaluate", "done"}]
      /\ closed' = [closed EXCEPT ![NodeOf[s]] = Append(closed[NodeOf[s]], s)]
      /\ snap' = [snap EXCEPT ![s] = Len(closed[NodeOf[s]]) + 1]
      /\ disturbed' = IF InFlight(ProviderOf(s)) # {}
                      THEN disturbed \cup {ProviderOf(s)} ELSE disturbed
      /\ snap \in [Signals -> Nat] /\ closed \in [Nodes -> Seq(Signals)]
      /\ NodeOf[s] \in Nodes /\ closed[NodeOf[s]] \in Seq(Signals)
  BY ScoringAssumption DEF RecordAppend, senderVars, chainVars, ScoringInv, TypeOK
<1>2. Undisturbed(p)' => Undisturbed(p)
  BY <1>1 DEF Undisturbed
<1>3. \A q \in Signals \ {s} : pc'[q] = pc[q] /\ snap'[q] = snap[q]
  BY <1>1
<1>4. CASE p = ProviderOf(s)
  <2> SUFFICES ASSUME Undisturbed(p)'
               PROVE  /\ InFlight(p)' = {s}
                      /\ snap'[s] > 0 /\ snap'[s] = Recorded(NodeOf[s])'
    BY <1>4 DEF OracleAt
  <2>1. InFlight(p) = {}
    BY <1>1, <1>4 DEF Undisturbed
  <2>2. InFlight(p)' = {s}
    <3>1. pc'[s] = "compute"
      BY <1>1
    <3>2. ASSUME NEW q \in Signals, q # s PROVE q \notin InFlight(p)'
      BY <1>1, <1>3, <2>1, <3>2 DEF InFlight
    <3>3. s \in InFlight(p)'
      BY <1>4, <3>1 DEF InFlight
    <3>4. InFlight(p)' \subseteq Signals
      BY DEF InFlight
    <3> QED BY <3>2, <3>3, <3>4
  <2>3. snap'[s] = Len(closed'[NodeOf[s]]) /\ snap'[s] > 0
    BY <1>1
  <2> QED BY <1>1, <2>2, <2>3 DEF Recorded
<1>5. CASE p # ProviderOf(s)
  <2>1. InFlight(p)' = InFlight(p)
    BY <1>1, <1>3, <1>5 DEF InFlight
  <2>2. SameHistories(p)
    BY <1>1, <1>5 DEF SameHistories, Recorded, ProviderOf
  <2>3. \A q \in InFlight(p) : snap'[q] = snap[q]
    BY <1>3, <1>5 DEF InFlight
  <2> QED BY <1>1, <1>2, <2>1, <2>2, <2>3, KeptAt DEF OracleInv
<1> QED BY <1>4, <1>5

(* Sending puts the result's transaction in the pool, unless another sender *)
(* had the same nonce.                                                      *)
LEMMA OracleSend ==
  ASSUME TypeOK, NonceInv, OracleInv, NEW t \in Txs, SendTx(t), NEW p \in Addresses
  PROVE  OracleAt(p)'
<1>1. /\ t \in Holding /\ pushing' = pushing \ {t} /\ pool \in Seq(Txs) /\ mined \in Nat
      /\ nonce[t] \in Nat
      /\ UNCHANGED <<up, disk, pc, snap, closed, chain, mined, contended, forgone, disturbed>>
  BY DEF SendTx, scorerVars, lossVars, TypeOK
<1> DEFINE i == nonce[t] - mined + 1
<1>2. /\ i \in Int
      /\ \/ i = Len(pool) + 1 /\ pool' = Append(pool, t)
         \/ i \in DOMAIN pool /\ pool' = [pool EXCEPT ![i] = t]
         \/ i <= Len(pool) /\ UNCHANGED pool
  BY <1>1 DEF SendTx
<1>3. i <= Len(pool) => t \in contended
  <2>1. i <= Len(pool) => nonce[t] # PendingNonce
    BY <1>1 DEF PendingNonce
  <2> QED BY <1>1, <2>1 DEF NonceInv, Holding, TypeOK
<1>4. i \in DOMAIN pool => pool[i] \in contended
  <2>1. mined + i > nonce[t]
    BY <1>1
  <2> QED BY <1>1, <2>1 DEF NonceInv
<1> HIDE DEF i
<1>5. \A q \in Txs : q \notin contended =>
        (q \in pushing' \/ q \in Range(pool') <=> q \in pushing \/ q \in Range(pool))
  <2>1. CASE i = Len(pool) + 1 /\ pool' = Append(pool, t)
    <3>1. Range(pool') = Range(pool) \cup {t} /\ t \in pushing
      BY <1>1, <2>1, AppendRange DEF Holding
    <3> QED BY <1>1, <3>1
  <2>2. CASE i \in DOMAIN pool /\ pool' = [pool EXCEPT ![i] = t]
    <3>1. t \in contended /\ pool[i] \in contended
      BY <1>1, <1>2, <1>3, <1>4, <2>2
    <3>2. /\ DOMAIN pool' = DOMAIN pool
          /\ \A j \in DOMAIN pool : pool'[j] = IF j = i THEN t ELSE pool[j]
      BY <2>2
    <3>3. \A q : q \notin contended => (q \in Range(pool') <=> q \in Range(pool))
      BY <3>1, <3>2 DEF Range
    <3> QED BY <1>1, <3>1, <3>3
  <2>3. CASE i <= Len(pool) /\ UNCHANGED pool
    BY <1>1, <1>3, <2>3
  <2> QED BY <1>2, <2>1, <2>2, <2>3
<1>6. Undisturbed(p)' => Undisturbed(p) /\ InFlight(p)' = InFlight(p)
  <2> SUFFICES ASSUME Undisturbed(p)' PROVE Undisturbed(p) /\ InFlight(p)' = InFlight(p)
    OBVIOUS
  <2>1. Undisturbed(p)
    BY <1>1 DEF Undisturbed
  <2>2. \A s \in Signals : ProviderOf(s) = p => s \notin contended /\ s \in Txs
    BY <2>1 DEF Undisturbed, By, Txs
  <2> QED BY <1>1, <1>5, <2>1, <2>2 DEF InFlight
<1>7. SameHistories(p)
  BY <1>1 DEF SameHistories, Recorded
<1> QED BY <1>1, <1>6, <1>7, KeptAt DEF OracleInv

(* A mined result brings its score, a reverted one disturbs its provider.   *)
LEMMA OracleMine ==
  ASSUME TypeOK, OracleInv, Mine, NEW p \in Addresses
  PROVE  OracleAt(p)'
<1>0. PICK t : t = Head(pool)
  OBVIOUS
<1>1. /\ pool # <<>> /\ pool \in Seq(Txs) /\ pool' = Tail(pool)
      /\ DOMAIN chain = Addresses
      /\ UNCHANGED <<up, disk, pc, snap, closed, pushing, contended, forgone>>
      /\ \/ t \in Others /\ UNCHANGED <<chain, disturbed>>
         \/ /\ t \in Signals /\ chain' = [chain EXCEPT ![ProviderOf(t)] = PushedScore(t)]
            /\ UNCHANGED disturbed
         \/ t \in Signals /\ disturbed' = disturbed \cup {ProviderOf(t)} /\ UNCHANGED chain
  BY <1>0 DEF Mine, scorerVars, senderVars, lossVars, TypeOK
<1>2. Range(pool) = {t} \cup Range(pool')
  BY <1>0, <1>1, TailRange
<1>3. Undisturbed(p)' => Undisturbed(p)
  BY <1>1 DEF Undisturbed
<1>4. SameHistories(p)
  BY <1>1 DEF SameHistories, Recorded
<1>5. CASE t \in Others \/ (t \in Signals /\ ProviderOf(t) # p)
  <2>1. InFlight(p)' = InFlight(p)
    BY <1>1, <1>2, <1>5, ScoringAssumption DEF InFlight
  <2>2. chain'[p] = chain[p]
    BY <1>1, <1>5, ScoringAssumption
  <2> QED BY <1>1, <1>3, <1>4, <2>1, <2>2, KeptAt DEF OracleInv
<1>6. CASE t \in Signals /\ ProviderOf(t) = p
  <2> SUFFICES ASSUME Undisturbed(p)'
               PROVE  /\ Current(p)'
                      /\ \A s \in InFlight(p)' : /\ snap'[s] > 0 /\ snap'[s] = Recorded(NodeOf[s])'
                                                /\ InFlight(p)' = {s}
    BY DEF OracleAt
  <2>1. chain'[p] = <<NodeOf[t], snap[t]>>
    BY <1>1, <1>6, ScoringAssumption DEF Undisturbed, PushedScore
  <2>2. t \in InFlight(p) /\ InFlight(p)' \subseteq InFlight(p)
    BY <1>1, <1>2, <1>6 DEF InFlight
  <2>3. /\ snap[t] > 0 /\ snap[t] = Recorded(NodeOf[t]) /\ InFlight(p) = {t}
    BY <1>3, <2>2 DEF OracleInv, OracleAt
  <2>4. NodeOf[t] \in Used(p)' /\ chain'[p] = <<NodeOf[t], Recorded(NodeOf[t])'>>
    <3>1. NodeOf[t] \in Nodes /\ AddressOf[NodeOf[t]] = p
      BY <1>6, ScoringAssumption DEF ProviderOf
    <3>2. Recorded(NodeOf[t])' = Recorded(NodeOf[t])
      BY <1>4, <3>1 DEF SameHistories
    <3> QED BY <2>1, <2>3, <3>1, <3>2 DEF Used
  <2>5. ASSUME NEW s \in InFlight(p)'
        PROVE  snap'[s] > 0 /\ snap'[s] = Recorded(NodeOf[s])' /\ InFlight(p)' = {s}
    <3>1. s = t /\ InFlight(p)' = {t}
      BY <2>2, <2>3, <2>5
    <3>2. NodeOf[t] \in Nodes /\ AddressOf[NodeOf[t]] = p
      BY <1>6, ScoringAssumption DEF ProviderOf
    <3> QED BY <1>1, <1>4, <2>3, <3>1, <3>2 DEF SameHistories
  <2>6. Current(p)'
    BY <2>4 DEF Current
  <2> QED BY <2>5, <2>6
<1> QED BY <1>1, <1>5, <1>6

(* A start finds the history of the last save, or none of the node.         *)
LEMMA OracleBoot ==
  ASSUME ScoringInv, FileInv, OracleInv, Boot, NEW p \in Addresses
  PROVE  OracleAt(p)'
<1>1. /\ up = "down" /\ up' = "up"
      /\ UNCHANGED <<disk, pc, snap, chain, pool, pushing, contended, disturbed>>
      /\ \/ closed' = disk.closed /\ UNCHANGED forgone
         \/ closed' = NoFile.closed /\ forgone' = {s \in Signals : pc[s] # "open"}
  BY DEF Boot, HistoryLoaded, FileInv, senderVars, chainVars
<1>2. InFlight(p)' = InFlight(p)
  BY <1>1 DEF InFlight
<1>3. CASE closed' = disk.closed /\ UNCHANGED forgone
  <2>1. SameHistories(p)
    BY <1>1, <1>3 DEF SameHistories, Recorded
  <2>2. Undisturbed(p)' => Undisturbed(p)
    BY <1>1, <1>3 DEF Undisturbed
  <2> QED BY <1>1, <1>2, <2>1, <2>2, KeptAt DEF OracleInv
<1>4. CASE closed' = NoFile.closed /\ forgone' = {s \in Signals : pc[s] # "open"}
  <2> SUFFICES ASSUME Undisturbed(p)' PROVE Undisturbed(p) /\ SameHistories(p)
    BY <1>1, <1>2, KeptAt DEF OracleInv
  <2>1. By(p) \intersect {s \in Signals : pc[s] # "open"} = {}
    BY <1>4 DEF Undisturbed
  <2>2. Undisturbed(p)
    <3>1. By(p) \intersect forgone = {}
      BY <2>1 DEF FileInv, By
    <3> QED BY <1>1, <3>1 DEF Undisturbed
  <2>3. ASSUME NEW n \in Nodes, AddressOf[n] = p PROVE Recorded(n)' = Recorded(n)
    <3>1. Of(n) \intersect {s \in Signals : pc[s] # "open"} = {}
      BY <2>1, <2>3 DEF Of, By, ProviderOf
    <3>2. disk.closed[n] = <<>>
      BY <3>1, NothingClosed
    <3>3. closed'[n] = <<>>
      BY <1>4 DEF NoFile
    <3> QED BY <1>1, <3>2, <3>3 DEF Recorded
  <2> QED BY <2>2, <2>3 DEF SameHistories
<1> QED BY <1>1, <1>3, <1>4

(* The end of the process disturbs the provider of each result it cuts off. *)
LEMMA OracleEnd ==
  ASSUME TypeOK, FileInv, OracleInv, ProcessEnds, NEW p \in Addresses
  PROVE  OracleAt(p)'
<1>1. /\ up # "down" /\ up' = "down" /\ UNCHANGED <<disk, chain, pool, contended>>
      /\ pushing' = {} /\ forgone' = forgone \cup sinceSave
      /\ \A s \in Signals : pc'[s] \in {"open", "done"}
      /\ \A s \in Signals : s \in Range(pool) => snap'[s] = snap[s]
      /\ disturbed' = disturbed \cup
           {ProviderOf(s) :
              s \in {q \in Signals : pc[q] \in {"compute", "evaluate"} \/ q \in pushing}}
  BY DEF ProcessEnds, chainVars
<1> SUFFICES ASSUME Undisturbed(p)'
             PROVE  /\ Undisturbed(p)
                    /\ InFlight(p)' = InFlight(p) /\ SameHistories(p)
                    /\ \A s \in InFlight(p) : snap'[s] = snap[s]
  BY <1>1, KeptAt DEF OracleInv
<1>2. Undisturbed(p) /\ By(p) \intersect (forgone \cup sinceSave) = {}
  BY <1>1 DEF Undisturbed
<1>3. \A s \in Signals : ProviderOf(s) = p =>
        pc[s] \notin {"compute", "evaluate"} /\ s \notin pushing
  BY <1>1 DEF Undisturbed
<1>4. InFlight(p)' = InFlight(p) /\ \A s \in InFlight(p) : s \in Range(pool)
  BY <1>1, <1>3 DEF InFlight
<1>5. SameHistories(p)
  <2> SUFFICES ASSUME NEW n \in Nodes, AddressOf[n] = p PROVE Recorded(n)' = Recorded(n)
    BY DEF SameHistories
  <2>1. Of(n) \intersect (forgone \cup sinceSave) = {}
    BY <1>2 DEF Of, By, ProviderOf
  <2>2. disk.closed[n] = closed[n]
    BY <1>1, <2>1 DEF FileInv
  <2> QED BY <1>1, <2>2 DEF Recorded
<1>6. InFlight(p) \subseteq Signals
  BY DEF InFlight
<1> QED BY <1>1, <1>2, <1>4, <1>5, <1>6

LEMMA OracleNextInv ==
  ScoringInv /\ NonceInv /\ FileInv /\ OracleInv /\ [Next]_vars => OracleInv'
<1> SUFFICES ASSUME ScoringInv, NonceInv, FileInv, OracleInv, [Next]_vars, NEW p \in Addresses
             PROVE  OracleAt(p)'
  BY DEF OracleInv
<1> USE DEF scorerVars, senderVars, chainVars, lossVars
<1>1. ASSUME NEW s \in Signals, RecordAppend(s) PROVE OracleAt(p)'
  BY <1>1, OracleAppend
<1>2. ASSUME NEW s \in Signals, RecordStore(s) \/ HandleReturns(s) PROVE OracleAt(p)'
  <2>1. /\ UNCHANGED <<up, disk, snap, closed, chain, pool, contended, forgone, disturbed>>
        /\ \/ pc[s] = "compute" /\ pc' = [pc EXCEPT ![s] = "evaluate"] /\ UNCHANGED pushing
           \/ /\ pc[s] = "evaluate" /\ pc' = [pc EXCEPT ![s] = "done"]
              /\ pushing' = pushing \cup {s}
        /\ pc \in [Signals -> {"open", "compute", "evaluate", "done"}]
    BY <1>2 DEF RecordStore, HandleReturns, ScoringInv, TypeOK
  <2>2. InFlight(p)' = InFlight(p)
    BY <2>1 DEF InFlight
  <2>3. Undisturbed(p)' = Undisturbed(p) /\ SameHistories(p)
    BY <2>1 DEF Undisturbed, SameHistories, Recorded
  <2> QED BY <2>1, <2>2, <2>3, KeptAt DEF OracleInv
<1>3. ASSUME NEW o \in Others, OtherSends(o) PROVE OracleAt(p)'
  <2>1. /\ UNCHANGED <<up, disk, pc, snap, closed, chain, pool, contended, forgone, disturbed>>
        /\ pushing' = pushing \cup {o} /\ o \notin Signals
    BY <1>3, ScoringAssumption DEF OtherSends
  <2>2. InFlight(p)' = InFlight(p)
    BY <2>1 DEF InFlight
  <2>3. Undisturbed(p)' = Undisturbed(p) /\ SameHistories(p)
    BY <2>1 DEF Undisturbed, SameHistories, Recorded
  <2> QED BY <2>1, <2>2, <2>3, KeptAt DEF OracleInv
<1>4. ASSUME NEW t \in Txs, ReadNonce(t) PROVE OracleAt(p)'
  <2>1. /\ UNCHANGED <<up, disk, pc, snap, closed, chain, pool, pushing, forgone, disturbed>>
        /\ contended \subseteq contended'
    BY <1>4 DEF ReadNonce
  <2>2. InFlight(p)' = InFlight(p) /\ SameHistories(p)
    BY <2>1 DEF InFlight, SameHistories, Recorded
  <2>3. Undisturbed(p)' => Undisturbed(p)
    BY <2>1 DEF Undisturbed
  <2> QED BY <2>1, <2>2, <2>3, KeptAt DEF OracleInv
<1>5. ASSUME NEW t \in Txs, SendTx(t) PROVE OracleAt(p)'
  BY <1>5, OracleSend DEF ScoringInv
<1>6. ASSUME NEW t \in Txs, SendFails(t) PROVE OracleAt(p)'
  <2>1. /\ UNCHANGED <<up, disk, pc, snap, closed, chain, pool, contended, forgone>>
        /\ pushing' = pushing \ {t}
        /\ disturbed' = disturbed \cup {ProviderOf(s) : s \in Signals \intersect {t}}
    BY <1>6 DEF SendFails
  <2>2. SameHistories(p)
    BY <2>1 DEF SameHistories, Recorded
  <2>3. Undisturbed(p)' => Undisturbed(p) /\ InFlight(p)' = InFlight(p)
    BY <2>1 DEF Undisturbed, InFlight
  <2> QED BY <2>1, <2>2, <2>3, KeptAt DEF OracleInv
<1>7. CASE Mine
  BY <1>7, OracleMine DEF ScoringInv
<1>8. CASE AutoSave \/ FinalSave \/ UNCHANGED vars
  <2>1. /\ UNCHANGED <<pc, snap, closed, chain, pool, pushing, contended, forgone, disturbed>>
        /\ UNCHANGED <<up, disk>> \/ (up # "down" /\ up' # "down")
    BY <1>8 DEF AutoSave, FinalSave, vars
  <2>2. /\ InFlight(p)' = InFlight(p) /\ SameHistories(p)
        /\ Undisturbed(p)' = Undisturbed(p)
    BY <2>1 DEF InFlight, SameHistories, Recorded, Undisturbed
  <2> QED BY <2>1, <2>2, KeptAt DEF OracleInv
<1>9. CASE Boot
  BY <1>9, OracleBoot
<1>10. CASE ProcessEnds
  BY <1>10, OracleEnd DEF ScoringInv
<1> QED BY <1>1, <1>2, <1>3, <1>4, <1>5, <1>6, <1>7, <1>8, <1>9, <1>10 DEF Next

LEMMA ScoringAlways == Spec => []ScoringInv
  BY ScoringInitInv, ScoringNextInv, PTL DEF Spec

(* A closed signal is counted once and stays counted, unless it closed      *)
(* after the last save of its run or a run that could not read the file     *)
(* saved over it (RecordClosed, SaveState, LoadState, main's shutdown).     *)
THEOREM ScoringClosedAreCounted == Spec => []ClosedAreCounted
<1>1. Init => LossInv
  BY DEF Init, LossInv
<1>2. ScoringInv /\ LossInv => ClosedAreCounted
  <2> SUFFICES ASSUME LossInv, CountedOnce PROVE ClosedAreCounted
    BY DEF ScoringInv
  <2>1. ASSUME NEW s \in Signals, pc[s] # "open", s \notin forgone
        PROVE  s \in Range((IF s \in sinceSave THEN closed ELSE disk.closed)[NodeOf[s]])
    <3>1. CASE s \in sinceSave
      BY <2>1, <3>1 DEF LossInv
    <3>2. CASE s \notin sinceSave
      BY <2>1, <3>2 DEF LossInv
    <3> QED BY <3>1, <3>2
  <2> QED BY <2>1 DEF ClosedAreCounted
<1> QED BY <1>1, <1>2, LossNextInv, ScoringAlways, PTL DEF Spec

(* Once the results of a provider have settled, the oracle has the score of *)
(* the whole history of one of the node ids it used, of its only one if it  *)
(* spelled them alike, unless results overlapped or a push failed, a        *)
(* transaction took its nonce while another was about to be sent, or a      *)
(* record was lost (HandleResult's push goroutine and sendTransaction's     *)
(* pending nonce).                                                          *)
THEOREM ScoringOracleCurrent == Spec => []OracleCurrent
<1>1. Init => NonceInv /\ FileInv /\ OracleInv
  <2> SUFFICES ASSUME Init PROVE NonceInv /\ FileInv /\ OracleInv
    OBVIOUS
  <2>1. Holding = {} /\ (\A p \in Addresses : InFlight(p) = {})
        /\ (\A n \in Nodes : Recorded(n) = 0)
    BY DEF Init, Holding, InFlight, Range, Recorded, NoFile
  <2>2. \A p \in Addresses : Current(p)
    BY <2>1 DEF Init, Current, Used
  <2> QED BY <2>1, <2>2 DEF Init, NonceInv, FileInv, OracleInv, OracleAt
<1>2. ScoringInv /\ ScoringInv' => TypeOK /\ TypeOK' /\ DownIsQuiet
  BY DEF ScoringInv
<1>3. OracleInv => OracleCurrent
  BY DEF OracleInv, OracleAt, OracleCurrent, Current, Undisturbed, Settled, By
<1> QED BY <1>1, <1>2, <1>3, NonceNextInv, FileNextInv, OracleNextInv, ScoringAlways,
        PTL DEF Spec

(* A node's published stats lag behind its history only after two           *)
(* RecordClosed calls of the node overlapped.                               *)
THEOREM ScoringStaleOnlyAfterOverlap == Spec => []StaleOnlyAfterOverlap
<1>1. ScoringInv => StaleOnlyAfterOverlap
  BY DEF ScoringInv
<1> QED BY <1>1, ScoringAlways, PTL

(* A run that read the state file never drops or reorders what it holds.    *)
THEOREM ScoringDurableHistoryGrows == Spec => DurableHistoryGrows
<1>1. ASSUME ScoringInv, [Next]_vars
      PROVE  [loaded => \A n \in Nodes : IsPrefix(disk.closed[n], disk'.closed[n])]_vars
  <2> SUFFICES ASSUME Next, loaded, NEW n \in Nodes
               PROVE  IsPrefix(disk.closed[n], disk'.closed[n])
    BY <1>1
  <2>1. /\ IsPrefix(disk.closed[n], closed[n])
        /\ disk.closed[n] \in Seq(Signals)
    BY <1>1 DEF ScoringInv, LoadedCoversFile, TypeOK, Files
  <2>2. disk' = disk \/ disk'.closed = closed
    <3>1. Saved \/ disk' = disk
      BY DEF Next, Boot, RecordAppend, RecordStore, HandleReturns, OtherSends, ReadNonce,
         SendTx, SendFails, Mine, AutoSave, FinalSave, ProcessEnds
    <3> QED BY <3>1 DEF Saved
  <2> QED BY <2>1, <2>2, PrefixOfItself
<1> QED BY <1>1, ScoringAlways, PTL DEF Spec, DurableHistoryGrows

----------------------------------------------------------------------------
(* The judgement of one signal *)

(* Division rounds down and is monotone.                                    *)
LEMMA DivBounds ==
  ASSUME NEW a \in Int, NEW d \in Nat \ {0}
  PROVE  a \div d \in Int /\ d * (a \div d) <= a /\ a < d * (a \div d) + d
OBVIOUS

LEMMA TimesNext ==
  ASSUME NEW q \in Int, NEW r \in Int, NEW d \in Nat \ {0}, q < r
  PROVE  d * q + d <= d * r
OBVIOUS

LEMMA DivMonotone ==
  ASSUME NEW a \in Int, NEW b \in Int, NEW d \in Nat \ {0}, a <= b
  PROVE  a \div d \in Int /\ b \div d \in Int /\ a \div d <= b \div d
<1>1. PICK q, r : q = a \div d /\ r = b \div d
  OBVIOUS
<1>2. /\ q \in Int /\ r \in Int
      /\ d * q <= a /\ b < d * r + d
  BY <1>1, DivBounds
<1>3. SUFFICES ASSUME r < q PROVE FALSE
  BY <1>1, <1>2
<1>4. d * r + d <= d * q
  BY <1>2, <1>3, TimesNext
<1>5. PICK x, y : x = d * r /\ y = d * q /\ x \in Int /\ y \in Int
  BY <1>2
<1> QED BY <1>2, <1>4, <1>5

LEMMA DivSign ==
  ASSUME NEW a \in Int, NEW d \in Nat \ {0}
  PROVE  /\ a \div d \in Int
         /\ a < 0 => a \div d < 0
         /\ a = 0 => a \div d = 0
         /\ a >= 0 => a \div d >= 0
OBVIOUS

(* A ratio has the sign of its numerator.                                   *)
LEMMA RatioSign ==
  ASSUME NEW a \in Int, NEW d \in Nat \ {0}
  PROVE  /\ Ratio(a, d) > 0 <=> a > 0
         /\ Ratio(a, d) < 0 <=> a < 0
<1>1. PICK m, n : m = -a * 10000 /\ n = a * 10000
  OBVIOUS
<1>2. PICK q, r : q = m \div d /\ r = n \div d
  OBVIOUS
<1>3. m \in Int /\ n \in Int
  BY <1>1
<1>4. /\ q \in Int /\ (m < 0 => q < 0)
      /\ r \in Int /\ (n < 0 => r < 0) /\ (n = 0 => r = 0)
  BY <1>2, <1>3, DivSign
<1>5. Ratio(a, d) = IF a > 0 THEN -q ELSE r
  BY <1>1, <1>2 DEF Ratio
<1>6. (a > 0 => m < 0) /\ (a < 0 => n < 0) /\ (a = 0 => n = 0)
  BY <1>1
<1> QED BY <1>4, <1>5, <1>6

(* The pnl is a whole number of basis points.                               *)
LEMMA PnLIsInt ==
  ASSUME NEW s \in Payloads, NEW p \in Nat
  PROVE  PnL(s.direction, p) \in Int
  BY EvaluationAssumption DEF PnL, LongPnL, ShortPnL

(* The result is what evaluateSignal makes of the price at expiry, and the  *)
(* class what the scorer makes of the result.                               *)
EvaluationInv ==
  /\ payload \in Payloads
  /\ price \in Nat
  /\ result.pnl \in Int
  /\ stage # "active" /\ price > 0 => result = Evaluate(payload, price)
  /\ stage = "scored" =>
       /\ scored.ret = ScorerReturn(payload, result.outcome, price)
       /\ scored.class = ScorerClass(result.outcome, scored.ret, price)

LEMMA EvaluationInitInv == EvaluationInit => EvaluationInv
  BY EvaluationAssumption DEF EvaluationInit, EvaluationInv, NoResult

LEMMA EvaluationNextInv == EvaluationInv /\ [EvaluationNext]_evaluationVars => EvaluationInv'
<1> SUFFICES ASSUME EvaluationInv, [EvaluationNext]_evaluationVars PROVE EvaluationInv'
  OBVIOUS
<1> USE DEF EvaluationInv
<1>1. CASE Analyze
  <2>1. UNCHANGED <<payload, price>> /\ stage' = "closed"
    BY <1>1 DEF Analyze
  <2>2. price > 0 => result' = Evaluate(payload, price)
    BY <1>1 DEF Analyze
  <2>3. Evaluate(payload, price)' = Evaluate(payload', price')
    BY <2>1 DEF Evaluate, EvaluateLong, EvaluateShort, ShortStopped, LongPnL, ShortPnL,
       LongPartial, ShortPartial
  <2>4. result'.pnl \in Int
    <3>1. Evaluate(payload, price).pnl = PnL(payload.direction, price)
      BY DEF Evaluate, EvaluateLong, EvaluateShort, PnL
    <3>2. result' = Evaluate(payload, price) \/ result'.pnl = 0
      BY <1>1 DEF Analyze
    <3> QED BY <3>1, <3>2, PnLIsInt
  <2> QED BY <2>1, <2>2, <2>3, <2>4
<1>2. CASE Score
  BY <1>2 DEF Score
<1>3. CASE Reward
  BY <1>3 DEF Reward
<1>4. CASE UNCHANGED evaluationVars
  BY <1>4 DEF evaluationVars
<1> QED BY <1>1, <1>2, <1>3, <1>4 DEF EvaluationNext

LEMMA EvaluationInvariant == EvaluationSpec => []EvaluationInv
  BY EvaluationInitInv, EvaluationNextInv, PTL DEF EvaluationSpec

(* A payload's levels and weight are integers.                              *)
LEMMA PayloadType ==
  ASSUME NEW s \in Payloads
  PROVE  /\ Entry \in Nat \ {0} /\ s.tp \in Nat /\ s.sl \in Nat /\ s.weight \in Int
         /\ s.direction = "long" \/ s.direction = "short"
<1>1. Entry \in Nat \ {0} /\ (\A x \in Optional : x \in Nat) /\ \A x \in Weights : x \in Int
  BY EvaluationAssumption DEF Optional
<1>2. /\ s.direction \in {"long", "short"}
      /\ s.tp \in Optional /\ s.sl \in Optional /\ s.weight \in Weights
  BY DEF Payloads
<1> QED BY <1>1, <1>2

(* JudgedAlike: evaluateSignal's branch for shorts gives a reflected long's *)
(* judgement, whatever the entry, levels and prices; and the scorer         *)
(* classifies a signal as the price did, whatever its weight, in the named  *)
(* cases and no others.                                                     *)
LEMMA ReflectionJudgedAlike ==
  ASSUME NEW s \in Payloads, NEW p \in Nat
  PROVE  Evaluate(Mirrored(s), 2 * Entry - p) = Evaluate(s, p)
<1> PICK t : t = Mirrored(s)
  OBVIOUS
<1> PICK q : q = 2 * Entry - p
  OBVIOUS
<1>1. /\ Entry \in Int /\ p \in Int /\ s.tp \in Int /\ s.sl \in Int
      /\ s.direction = "long" \/ s.direction = "short"
  BY PayloadType
<1>2. /\ t.direction = (IF s.direction = "long" THEN "short" ELSE "long")
      /\ t.tp = 2 * Entry - s.tp /\ t.sl = 2 * Entry - s.sl
  BY DEF Mirrored, Payloads
<1>3. /\ q - Entry = Entry - p /\ Entry - q = p - Entry
      /\ (q > Entry <=> p < Entry) /\ (q < Entry <=> p > Entry)
  BY <1>1
<1>4. /\ (q >= t.tp <=> p <= s.tp) /\ (q <= t.tp <=> p >= s.tp)
      /\ (q >= t.sl <=> p <= s.sl) /\ (q <= t.sl <=> p >= s.sl)
  BY <1>1, <1>2
<1>5. Abs(t.tp - Entry) = Abs(s.tp - Entry) /\ Abs(t.sl - Entry) = Abs(s.sl - Entry)
  BY <1>1, <1>2 DEF Abs
<1>6. LongPnL(q) = ShortPnL(p) /\ ShortPnL(q) = LongPnL(p)
  BY <1>3 DEF LongPnL, ShortPnL
<1>7. LongPartial(t, q) = ShortPartial(s, p) /\ ShortPartial(t, q) = LongPartial(s, p)
  BY <1>3, <1>5 DEF LongPartial, ShortPartial
<1>8. EvaluateLong(t, q) = EvaluateShort(s, p) /\ EvaluateShort(t, q) = EvaluateLong(s, p)
  BY <1>4, <1>6, <1>7 DEF EvaluateLong, EvaluateShort, ShortStopped
<1> QED BY <1>1, <1>2, <1>8 DEF Evaluate

(* The sign of a product.                                                   *)
LEMMA ProductSign ==
  ASSUME NEW a \in Int, NEW b \in Int
  PROVE  /\ a * b > 0 <=> (a > 0 /\ b > 0) \/ (a < 0 /\ b < 0)
         /\ a * b < 0 <=> (a > 0 /\ b < 0) \/ (a < 0 /\ b > 0)
OBVIOUS

(* A ratio is an integer.                                                   *)
LEMMA RatioType ==
  ASSUME NEW a \in Int, NEW d \in Nat \ {0}
  PROVE  Ratio(a, d) \in Int
  BY DEF Ratio

LEMMA ClassAgrees == EvaluationInv => ScorerAgreement
<1> SUFFICES ASSUME EvaluationInv, stage = "scored", price > 0, Proper(payload)
             PROVE  ScorerAgrees <=> \/ result.outcome # "EXPIRED"
                                     \/ price = Entry
                                     \/ SlipsCancel(payload)
  BY DEF ScorerAgreement
<1> PICK tp, sl, w, d : /\ tp = payload.tp /\ sl = payload.sl
                        /\ w = payload.weight /\ d = payload.direction
  OBVIOUS
<1> PICK g : g = Gain(d, price)
  OBVIOUS
<1>1. /\ Entry \in Nat \ {0} /\ price \in Nat /\ tp \in Nat /\ sl \in Nat /\ w \in Int
      /\ d = "long" \/ d = "short"
  BY PayloadType DEF EvaluationInv
<1>2. g = (IF d = "long" THEN price - Entry ELSE Entry - price) /\ g \in Int
  BY <1>1 DEF Gain
<1>3. IF d = "long" THEN tp > Entry /\ sl < Entry ELSE tp < Entry /\ sl > Entry
  BY <1>1 DEF Proper, Gain
<1>4. result.outcome = (IF d = "long"
                        THEN IF price >= tp THEN "CLOSED_WIN"
                             ELSE IF price <= sl THEN "CLOSED_LOSS" ELSE "EXPIRED"
                        ELSE IF price <= tp THEN "CLOSED_WIN"
                             ELSE IF price >= sl THEN "CLOSED_LOSS" ELSE "EXPIRED")
  BY DEF EvaluationInv, Evaluate, EvaluateLong, EvaluateShort, ShortStopped
<1>5. /\ scored.ret = ScorerReturn(payload, result.outcome, price)
      /\ scored.class = ScorerClass(result.outcome, scored.ret, price)
  BY DEF EvaluationInv
<1>6. ScorerAgrees <=> (scored.class = "win" <=> g > 0) /\ (scored.class = "loss" <=> g < 0)
  BY DEF ScorerAgrees
<1>7. CASE result.outcome = "CLOSED_WIN"
  <2>1. scored.class = "win"
    BY <1>5, <1>7 DEF ScorerClass
  <2>2. g > 0
    BY <1>1, <1>2, <1>3, <1>4, <1>7
  <2> QED BY <1>2, <1>6, <1>7, <2>1, <2>2
<1>8. CASE result.outcome = "CLOSED_LOSS"
  <2>1. scored.class = "loss"
    BY <1>5, <1>8 DEF ScorerClass
  <2>2. g < 0
    BY <1>1, <1>2, <1>3, <1>4, <1>8
  <2> QED BY <1>2, <1>6, <1>8, <2>1, <2>2
<1>9. CASE result.outcome = "EXPIRED"
  <2> PICK r, m : r = Ratio(Entry - price, Entry) /\ m = w * r
    OBVIOUS
  <2>1. r \in Int /\ (r > 0 <=> Entry - price > 0) /\ (r < 0 <=> Entry - price < 0)
    BY <1>1, RatioSign, RatioType
  <2>2. ExpiredReturn(payload, price) = r
    BY <1>1 DEF ExpiredReturn
  <2>3. scored.ret = m
    BY <1>5, <1>9, <2>2 DEF ScorerReturn
  <2>4. /\ m \in Int
        /\ m > 0 <=> (w > 0 /\ r > 0) \/ (w < 0 /\ r < 0)
        /\ m < 0 <=> (w > 0 /\ r < 0) \/ (w < 0 /\ r > 0)
    BY <1>1, <2>1, ProductSign
  <2>5. scored.class = ScorerClass("EXPIRED", m, price)
    BY <1>5, <1>9, <2>3
  <2>6. scored.class = (IF m > 0 THEN "win" ELSE IF m < 0 THEN "loss" ELSE "neutral")
    BY <2>5 DEF ScorerClass
  <2>7. SlipsCancel(payload) <=> (d = "short" /\ w > 0) \/ (d = "long" /\ w < 0)
    BY DEF SlipsCancel
  <2>8. CASE price = Entry
    BY <1>1, <1>2, <1>6, <2>1, <2>4, <2>6, <2>8
  <2>9. CASE price # Entry /\ d = "long"
    BY <1>1, <1>2, <1>6, <1>9, <2>1, <2>4, <2>6, <2>7, <2>9
  <2>10. CASE price # Entry /\ d = "short"
    BY <1>1, <1>2, <1>6, <1>9, <2>1, <2>4, <2>6, <2>7, <2>10
  <2> QED BY <1>1, <2>8, <2>9, <2>10
<1> QED BY <1>4, <1>7, <1>8, <1>9

THEOREM EvaluationJudgedAlike == EvaluationSpec => []JudgedAlike
<1>1. EvaluationInv => LongShortSymmetry
  <2> SUFFICES ASSUME EvaluationInv, Judged
               PROVE  Evaluate(Mirrored(payload), 2 * Entry - price) = result
    BY DEF LongShortSymmetry
  <2> QED BY ReflectionJudgedAlike DEF EvaluationInv, Judged
<1>2. EvaluationInv => JudgedAlike
  BY <1>1, ClassAgrees DEF JudgedAlike
<1> QED BY <1>2, EvaluationInvariant, PTL

(* BetterNeverWorse: the score of a signal with its levels on their proper  *)
(* sides never falls as the price at expiry gets better, across the five    *)
(* branches of evaluateSignal, and neither do the points for its pnl.       *)
LEMMA ClampMonotone ==
  ASSUME NEW x \in Int, NEW y \in Int, x <= y
  PROVE  /\ Clamp(x) \in Int /\ Clamp(y) \in Int
         /\ Clamp(x) <= Clamp(y) /\ 0 <= Clamp(x) /\ Clamp(y) <= 10000
  BY SMT DEF Clamp

LEMMA BetterPriceScoresMore ==
  ASSUME NEW s \in Payloads, Proper(s), NEW p \in Nat, NEW q \in Nat,
         Gain(s.direction, q) >= Gain(s.direction, p)
  PROVE  Evaluate(s, q).score >= Evaluate(s, p).score
<1> PICK g, h, T, L : /\ g = Gain(s.direction, p) /\ h = Gain(s.direction, q)
                      /\ T = Gain(s.direction, s.tp) /\ L = Gain(s.direction, s.sl)
  OBVIOUS
<1>1. /\ Entry \in Int /\ s.tp \in Int /\ s.sl \in Int
      /\ s.direction = "long" \/ s.direction = "short"
  BY PayloadType
<1>2. /\ g \in Int /\ h \in Int /\ T \in Int /\ L \in Int
      /\ g <= h /\ L < 0 /\ 0 < T
  BY <1>1 DEF Gain, Proper
<1>4. Abs(s.tp - Entry) = T /\ Abs(s.sl - Entry) = -L
  BY <1>1, <1>2 DEF Gain, Abs
<1> PICK u, v : u = g * 5000 /\ v = h * 5000
  OBVIOUS
<1> PICK um, vm : um = (-g) * 5000 /\ vm = (-h) * 5000
  OBVIOUS
<1>5. /\ u \in Int /\ v \in Int /\ u <= v /\ um \in Int /\ vm \in Int /\ vm <= um
      /\ (h > 0 => v >= 0) /\ (g <= 0 => um >= 0)
  BY <1>2
<1> PICK ut, vt, ul, vl : /\ ut = u \div T /\ vt = v \div T
                          /\ ul = um \div (-L) /\ vl = vm \div (-L)
  OBVIOUS
<1>6. T \in Nat \ {0} /\ -L \in Nat \ {0}
  BY <1>2
<1>7. ut \in Int /\ vt \in Int /\ ul \in Int /\ vl \in Int /\ ut <= vt /\ vl <= ul
  <2>1. PICK d, e : d = T /\ e = -L
    OBVIOUS
  <2>2. ut \in Int /\ vt \in Int /\ ut <= vt
    BY <1>5, <1>6, <2>1, DivMonotone
  <2>3. ul \in Int /\ vl \in Int /\ vl <= ul
    BY <1>5, <1>6, <2>1, DivMonotone
  <2> QED BY <2>2, <2>3
<1>8. (um >= 0 => ul >= 0) /\ (v >= 0 => vt >= 0)
  BY <1>5, <1>6, <1>7, DivSign
<1> PICK x, y : x = (IF g > 0 THEN 5000 + ut ELSE 5000 - ul)
                /\ y = (IF h > 0 THEN 5000 + vt ELSE 5000 - vl)
  OBVIOUS
<1>10. x \in Int /\ y \in Int /\ x <= y
  BY <1>2, <1>5, <1>7, <1>8
<1> PICK cx, cy : cx = Clamp(x) /\ cy = Clamp(y)
  OBVIOUS
<1>11. cx \in Int /\ cy \in Int /\ cx <= cy /\ 0 <= cx /\ cy <= 10000
  BY <1>10, ClampMonotone
<1>12. /\ Evaluate(s, p).score = (IF g >= T THEN 10000 ELSE IF g <= L THEN 0 ELSE cx)
       /\ Evaluate(s, q).score = (IF h >= T THEN 10000 ELSE IF h <= L THEN 0 ELSE cy)
  <2>1. CASE s.direction = "long"
    <3>1. /\ g = p - Entry /\ h = q - Entry /\ -g = Entry - p /\ -h = Entry - q
          /\ T = s.tp - Entry /\ L = s.sl - Entry
      BY <1>1, <2>1 DEF Gain
    <3>2. LongPartial(s, p) = x /\ LongPartial(s, q) = y
      BY <1>1, <1>4, <3>1 DEF LongPartial
    <3>3. /\ (p >= s.tp <=> g >= T) /\ (q >= s.tp <=> h >= T)
          /\ (p <= s.sl <=> g <= L) /\ (q <= s.sl <=> h <= L)
      BY <1>1, <3>1
    <3> QED BY <2>1, <3>2, <3>3 DEF Evaluate, EvaluateLong
  <2>2. CASE s.direction = "short"
    <3>1. /\ g = Entry - p /\ h = Entry - q /\ -g = p - Entry /\ -h = q - Entry
          /\ T = Entry - s.tp /\ L = Entry - s.sl
      BY <1>1, <2>2 DEF Gain
    <3>2. ShortPartial(s, p) = x /\ ShortPartial(s, q) = y
      BY <1>1, <1>4, <3>1 DEF ShortPartial
    <3>3. /\ (p <= s.tp <=> g >= T) /\ (q <= s.tp <=> h >= T)
          /\ (p >= s.sl <=> g <= L) /\ (q >= s.sl <=> h <= L)
      BY <1>1, <3>1
    <3> QED BY <2>2, <3>2, <3>3 DEF Evaluate, EvaluateShort, ShortStopped
  <2> QED BY <1>1, <2>1, <2>2
<1> QED BY <1>2, <1>11, <1>12, SMT

LEMMA OutcomeMultiplierMonotone ==
  ASSUME NEW m \in Int, NEW n \in Int, m <= n
  PROVE  /\ OutcomeMultiplier(m) \in Nat /\ OutcomeMultiplier(n) \in Nat
         /\ OutcomeMultiplier(m) <= OutcomeMultiplier(n)
  BY SMT DEF OutcomeMultiplier

LEMMA TimesMonotone ==
  ASSUME NEW b \in Nat, NEW m \in Nat, NEW n \in Nat, m <= n
  PROVE  b * m \in Int /\ b * n \in Int /\ b * m <= b * n
OBVIOUS

LEMMA PointsForMonotone ==
  ASSUME NEW base \in Nat, NEW m \in Int, NEW n \in Int, m <= n
  PROVE  PointsFor(base, n) >= PointsFor(base, m)
<1> PICK i, j : i = OutcomeMultiplier(m) /\ j = OutcomeMultiplier(n)
  OBVIOUS
<1>1. i \in Nat /\ j \in Nat /\ i <= j
  BY OutcomeMultiplierMonotone
<1> PICK k, l : k = base * i /\ l = base * j
  OBVIOUS
<1>2. k \in Int /\ l \in Int /\ k <= l
  BY <1>1, TimesMonotone
<1>3. (k + 5) \div 10 <= (l + 5) \div 10 /\ (k + 5) \div 10 \in Int /\ (l + 5) \div 10 \in Int
  BY <1>2
<1> QED BY <1>3 DEF PointsFor

THEOREM EvaluationBetterNeverWorse == EvaluationSpec => []BetterNeverWorse
<1>1. EvaluationInv => ScoreMonotone
  <2> SUFFICES ASSUME EvaluationInv, Judged, Proper(payload), NEW p \in Prices,
                      Gain(payload.direction, p) >= Gain(payload.direction, price)
               PROVE  Evaluate(payload, p).score >= result.score
    BY DEF ScoreMonotone
  <2>1. result = Evaluate(payload, price) /\ payload \in Payloads /\ price \in Nat
    BY DEF EvaluationInv, Judged
  <2>2. p \in Nat
    BY EvaluationAssumption
  <2> QED BY <2>1, <2>2, BetterPriceScoresMore
<1>2. EvaluationInv => RewardMonotone
  <2> SUFFICES ASSUME EvaluationInv, NEW base \in Bases, NEW p \in Prices,
                      points = PointsFor(base, result.pnl),
                      PnL(payload.direction, p) >= result.pnl
               PROVE  PointsFor(base, PnL(payload.direction, p)) >= points
    BY DEF RewardMonotone
  <2> PICK n : n = PnL(payload.direction, p)
    OBVIOUS
  <2>1. n \in Int /\ result.pnl \in Int /\ base \in Nat /\ result.pnl <= n
    BY EvaluationAssumption, PnLIsInt DEF EvaluationInv
  <2> QED BY <2>1, PointsForMonotone
<1> QED BY <1>1, <1>2, EvaluationInvariant, PTL DEF BetterNeverWorse

=============================================================================
