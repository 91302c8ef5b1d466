----------------------- MODULE SchedulerBatcherProofs -----------------------
(* Proofs about the scheduler alone, with forced analyses, stops and        *)
(* re-used ids, and about the whole process, for every set of envelopes,    *)
(* ids and goroutines and any number of crashes, shutdowns and restarts:    *)
(* closing is final, and every run implements the lifecycle of a signal.    *)
EXTENDS SchedulerBatcher, TLAPS

(* The scheduler alone *)

(* Objects are allocated in order, and only allocated objects have timers.  *)
ObjectsAllocated ==
  /\ \A r \in Regs : r <= nreg => object[r] \in Envelopes
  /\ \A r \in timers : r <= nreg

(* A goroutine inside analyzeSignal or finalizeSignal carries an id.        *)
AnalysesHaveIds ==
  \A w \in Workers :
    worker[w].pc \in {"lookup", "fetch", "finalize"} => worker[w].id \in Ids

SchedInv ==
  /\ SchedTypeOK
  /\ ObjectsAllocated
  /\ AnalysesHaveIds
  /\ MapWellFormed
  /\ ExactlyOneResult
  /\ AnalysisOnItsWay

(* The records of idle and busy goroutines have their type.                 *)
LEMMA WorkerRecords ==
  /\ Idle \in WorkerStates
  /\ \A i \in Ids, r \in Regs :
       [pc |-> "handle", id |-> i, closed |-> r] \in WorkerStates
BY DEF Idle, WorkerStates

(* Nothing is registered at the start.                                      *)
LEMMA SchedInitInv == SchedInit => SchedInv
<1> SUFFICES ASSUME SchedInit PROVE SchedInv
  OBVIOUS
<1> USE SchedulerAssumption DEF SchedInit, SchedInv, Regs
<1>1. SchedTypeOK
  <2>1. worker \in [Workers -> WorkerStates]
    BY WorkerRecords
  <2>2. nreg \in 0 .. MaxRegistrations /\ clock \in Nat
    OBVIOUS
  <2> QED BY <2>1, <2>2 DEF SchedTypeOK
<1>2. ObjectsAllocated /\ AnalysesHaveIds
  BY DEF ObjectsAllocated, AnalysesHaveIds, Idle
<1>3. MapWellFormed /\ ExactlyOneResult /\ AnalysisOnItsWay
  BY DEF MapWellFormed, ExactlyOneResult, AnalysisOnItsWay
<1> QED BY <1>1, <1>2, <1>3

(* AddSignal allocates a fresh object: older registrations of the same id   *)
(* are already out of the map and stay out.                                 *)
LEMMA AddSignalInv ==
  ASSUME SchedInv, NEW e \in Envelopes, AddSignal(e)
  PROVE  SchedInv'
<1> USE SchedulerAssumption DEF SchedInv, AddSignal, Regs
<1>1. nreg + 1 \in Regs /\ nreg + 1 # None /\ IdOf[e] \in Ids
  BY DEF SchedTypeOK
<1>2. SchedTypeOK'
  BY <1>1 DEF SchedTypeOK
<1>3. ObjectsAllocated' /\ AnalysesHaveIds'
  BY <1>1 DEF SchedTypeOK, ObjectsAllocated, AnalysesHaveIds
<1>4. MapWellFormed'
  BY <1>1 DEF SchedTypeOK, MapWellFormed
<1>5. ExactlyOneResult'
  <2> SUFFICES ASSUME NEW r \in Regs
               PROVE results'[r] = IF r <= nreg' /\ ~(Registered(r)') THEN 1 ELSE 0
    BY DEF ExactlyOneResult
  <2>1. CASE r = nreg + 1
    BY <2>1, <1>1 DEF SchedTypeOK, ExactlyOneResult, Registered
  <2>2. CASE r # nreg + 1 /\ r <= nreg
    <3>1. Registered(r)' <=> Registered(r)
      BY <2>2, <1>1 DEF SchedTypeOK, ObjectsAllocated, Registered
    <3> QED BY <3>1, <2>2 DEF SchedTypeOK, ExactlyOneResult
  <2>3. CASE r # nreg + 1 /\ ~(r <= nreg)
    BY <2>3 DEF SchedTypeOK, ExactlyOneResult
  <2> QED BY <2>1, <2>2, <2>3
<1>6. AnalysisOnItsWay'
  BY <1>1 DEF SchedTypeOK, AnalysisOnItsWay
<1> QED BY <1>2, <1>3, <1>4, <1>5, <1>6

(* Starting a goroutine, by the timer or by force, moves the duty to close  *)
(* the signal from the timer to the goroutine.                              *)
LEMMA StartAnalysisInv ==
  ASSUME SchedInv, NEW w \in Workers,
         \/ \E r \in Regs : TimerFires(w, r)
         \/ \E i \in Ids : ForceAnalyze(w, i)
  PROVE  SchedInv'
<1> USE SchedulerAssumption DEF SchedInv, Regs
<1>1. ASSUME NEW r \in Regs, TimerFires(w, r)
      PROVE  SchedInv'
  <2> USE <1>1 DEF TimerFires
  <2>1. IdOf[object[r]] \in Ids
    BY DEF SchedTypeOK, ObjectsAllocated
  <2>2. SchedTypeOK'
    BY <2>1 DEF SchedTypeOK, WorkerStates
  <2>3. ObjectsAllocated' /\ MapWellFormed' /\ AnalysesHaveIds'
    BY <2>1 DEF ObjectsAllocated, MapWellFormed, AnalysesHaveIds, SchedTypeOK
  <2>4. ExactlyOneResult'
    BY DEF ExactlyOneResult, Registered
  <2>5. AnalysisOnItsWay'
    BY <2>1 DEF SchedTypeOK, AnalysisOnItsWay, MapWellFormed, WorkerStates, Idle
  <2> QED BY <2>2, <2>3, <2>4, <2>5
<1>2. ASSUME NEW i \in Ids, ForceAnalyze(w, i)
      PROVE  SchedInv'
  <2> USE <1>2 DEF ForceAnalyze
  <2>1. SchedTypeOK'
    BY DEF SchedTypeOK, WorkerStates
  <2>2. ObjectsAllocated' /\ MapWellFormed' /\ AnalysesHaveIds'
    BY DEF ObjectsAllocated, MapWellFormed, AnalysesHaveIds, SchedTypeOK
  <2>3. ExactlyOneResult'
    BY DEF ExactlyOneResult, Registered
  <2>4. AnalysisOnItsWay'
    BY DEF SchedTypeOK, AnalysisOnItsWay, MapWellFormed, WorkerStates, Idle
  <2> QED BY <2>1, <2>2, <2>3, <2>4
<1> QED BY <1>1, <1>2

(* Only Finalize touches the map, and it counts a result for the object it  *)
(* removes and for no other.                                                *)
LEMMA AnalysisInv ==
  ASSUME SchedInv, NEW w \in Workers, Analysis(w)
  PROVE  SchedInv'
<1> USE SchedulerAssumption DEF SchedInv, Regs
<1>1. CASE Lookup(w)
  <2> USE <1>1 DEF Lookup
  <2>1. worker[w].id \in Ids
    BY DEF AnalysesHaveIds
  <2>2. SchedTypeOK'
    BY DEF SchedTypeOK, WorkerStates, Idle
  <2>3. AnalysesHaveIds' /\ ObjectsAllocated' /\ MapWellFormed' /\ ExactlyOneResult'
    BY DEF SchedTypeOK, Idle, AnalysesHaveIds, ObjectsAllocated, MapWellFormed,
       ExactlyOneResult, Registered
  <2>4. AnalysisOnItsWay'
    BY <2>1 DEF SchedTypeOK, WorkerStates, Idle, AnalysisOnItsWay
  <2> QED BY <2>2, <2>3, <2>4
<1>2. CASE FetchPrice(w)
  <2> USE <1>2 DEF FetchPrice
  <2>1. SchedTypeOK'
    BY DEF SchedTypeOK, WorkerStates
  <2>2. AnalysesHaveIds' /\ ObjectsAllocated' /\ MapWellFormed' /\ ExactlyOneResult'
    BY DEF SchedTypeOK, AnalysesHaveIds, ObjectsAllocated, MapWellFormed,
       ExactlyOneResult, Registered
  <2>3. AnalysisOnItsWay'
    BY DEF SchedTypeOK, WorkerStates, AnalysisOnItsWay
  <2> QED BY <2>1, <2>2, <2>3
<1>3. CASE HandlerReturns(w)
  <2> USE <1>3 DEF HandlerReturns
  <2>1. SchedTypeOK'
    BY DEF SchedTypeOK, WorkerStates, Idle
  <2>2. AnalysesHaveIds' /\ ObjectsAllocated' /\ MapWellFormed' /\ ExactlyOneResult'
    BY DEF SchedTypeOK, Idle, AnalysesHaveIds, ObjectsAllocated, MapWellFormed,
       ExactlyOneResult, Registered
  <2>3. AnalysisOnItsWay'
    BY DEF SchedTypeOK, WorkerStates, Idle, AnalysisOnItsWay
  <2> QED BY <2>1, <2>2, <2>3
<1>4. CASE Finalize(w)
  <2> DEFINE i == worker[w].id
             r == signals[i]
  <2>0. i \in Ids
    BY <1>4 DEF Finalize, AnalysesHaveIds
  <2>1. CASE r = None
    <3>1. /\ worker' = [worker EXCEPT ![w] = Idle]
          /\ UNCHANGED <<clock, signals, timers, cancelled, nreg, object, results>>
      BY <1>4, <2>1 DEF Finalize
    <3>2. SchedTypeOK'
      BY <3>1, WorkerRecords DEF SchedTypeOK
    <3>3. AnalysesHaveIds' /\ ObjectsAllocated' /\ MapWellFormed' /\ ExactlyOneResult'
      BY <3>1 DEF SchedTypeOK, Idle, AnalysesHaveIds, ObjectsAllocated,
         MapWellFormed, ExactlyOneResult, Registered
    <3>4. AnalysisOnItsWay'
      BY <2>0, <2>1, <3>1 DEF SchedTypeOK, Idle, AnalysisOnItsWay
    <3> QED BY <3>2, <3>3, <3>4
  <2>2. CASE r # None
    <3>0. /\ signals' = [signals EXCEPT ![i] = None]
          /\ results' = [results EXCEPT ![r] = @ + 1]
          /\ worker' = [worker EXCEPT ![w] =
                          [pc |-> "handle", id |-> i, closed |-> r]]
          /\ UNCHANGED <<clock, timers, cancelled, nreg, object>>
      BY <1>4, <2>2 DEF Finalize, EntryDeleted
    <3> HIDE DEF i, r
    <3> USE <2>0, <2>2, <3>0
    <3>1. r \in Regs /\ r <= nreg /\ object[r] \in Envelopes /\ IdOf[object[r]] = i
      BY DEF SchedTypeOK, MapWellFormed, i, r
    <3>2. SchedTypeOK'
      BY <3>1, WorkerRecords DEF SchedTypeOK
    <3>3. AnalysesHaveIds' /\ ObjectsAllocated' /\ MapWellFormed'
      BY <3>1 DEF SchedTypeOK, AnalysesHaveIds, ObjectsAllocated, MapWellFormed
    <3>4. ExactlyOneResult'
      <4> SUFFICES ASSUME NEW q \in Regs
                   PROVE results'[q] = IF q <= nreg' /\ ~(Registered(q)') THEN 1 ELSE 0
        BY DEF ExactlyOneResult
      <4>1. CASE q = r
        <5>1. Registered(q) /\ ~(Registered(q)')
          BY <3>1, <4>1 DEF r, SchedTypeOK, Registered
        <5>2. results[q] = 0 /\ results'[q] = 1
          BY <3>1, <4>1, <5>1 DEF SchedTypeOK, ExactlyOneResult
        <5> QED BY <4>1, <5>1, <5>2, <3>1
      <4>2. CASE q # r /\ q <= nreg
        <5>1. IdOf[object[q]] \in Ids
          BY <4>2 DEF ObjectsAllocated
        <5>2. Registered(q)' <=> Registered(q)
          BY <4>2, <5>1, <3>1 DEF r, SchedTypeOK, Registered
        <5> QED BY <4>2, <5>2, <3>1 DEF SchedTypeOK, ExactlyOneResult
      <4>3. CASE ~(q <= nreg)
        BY <4>3, <3>1 DEF SchedTypeOK, ExactlyOneResult
      <4> QED BY <4>1, <4>2, <4>3
    <3>5. AnalysisOnItsWay'
      <4> SUFFICES ASSUME NEW j \in Ids, signals'[j] # None, ~cancelled
                   PROVE  \/ signals'[j] \in timers
                          \/ \E v \in Workers :
                               /\ worker'[v].id = j
                               /\ worker'[v].pc \in {"lookup", "fetch", "finalize"}
        BY DEF AnalysisOnItsWay
      <4>1. j # i /\ signals'[j] = signals[j]
        BY DEF SchedTypeOK
      <4>2. ASSUME NEW v \in Workers, worker[v].id = j
            PROVE  worker'[v] = worker[v]
        BY <4>1, <4>2 DEF i, SchedTypeOK
      <4> QED BY <4>1, <4>2 DEF AnalysisOnItsWay
    <3> QED BY <3>2, <3>3, <3>4, <3>5
  <2> QED BY <2>1, <2>2
<1> QED BY <1>1, <1>2, <1>3, <1>4 DEF Analysis

(* Every step preserves the invariant.                                      *)
LEMMA SchedNextInv == SchedInv /\ [SchedNext]_schedVars => SchedInv'
<1> SUFFICES ASSUME SchedInv, [SchedNext]_schedVars PROVE SchedInv'
  OBVIOUS
<1> USE SchedulerAssumption DEF SchedInv
<1>1. CASE Tick
  BY <1>1 DEF Tick, SchedTypeOK, ObjectsAllocated, AnalysesHaveIds, MapWellFormed,
     ExactlyOneResult, Registered, AnalysisOnItsWay
<1>2. CASE Stop
  BY <1>2 DEF Stop, SchedTypeOK, ObjectsAllocated, AnalysesHaveIds, MapWellFormed,
     ExactlyOneResult, Registered, AnalysisOnItsWay
<1>3. ASSUME NEW e \in Envelopes, AddSignal(e) PROVE SchedInv'
  BY <1>3, AddSignalInv
<1>4. ASSUME NEW w \in Workers,
             (\E r \in Regs : TimerFires(w, r)) \/ (\E i \in Ids : ForceAnalyze(w, i))
      PROVE  SchedInv'
  BY <1>4, StartAnalysisInv
<1>5. ASSUME NEW w \in Workers, Analysis(w) PROVE SchedInv'
  BY <1>5, AnalysisInv
<1>6. CASE UNCHANGED schedVars
  BY <1>6 DEF schedVars, SchedTypeOK, ObjectsAllocated, AnalysesHaveIds,
     MapWellFormed, ExactlyOneResult, Registered, AnalysisOnItsWay
<1> QED BY <1>1, <1>2, <1>3, <1>4, <1>5, <1>6 DEF SchedNext

(* Every variable of the scheduler keeps its type.                          *)
THEOREM SchedulerTypeCorrect == SchedSpec => []SchedTypeOK
<1>1. SchedSpec => []SchedInv
  BY SchedInitInv, SchedNextInv, PTL DEF SchedSpec
<1>2. SchedInv => SchedTypeOK
  BY DEF SchedInv
<1> QED BY <1>1, <1>2, PTL

(* For every interleaving of timer goroutines, forced analyses and           *)
(* re-submissions under the same id, finalizeSignal gives each accepted      *)
(* registration one result and no more.                                      *)
THEOREM SchedulerExactlyOneResult == SchedSpec => []ExactlyOneResult
<1>1. SchedSpec => []SchedInv
  BY SchedInitInv, SchedNextInv, PTL DEF SchedSpec
<1>2. SchedInv => ExactlyOneResult
  BY DEF SchedInv
<1> QED BY <1>1, <1>2, PTL

(* Until Stop, no registered signal is left with neither an armed timer nor  *)
(* a goroutine that will finalize it.                                        *)
THEOREM SchedulerAnalysisOnItsWay == SchedSpec => []AnalysisOnItsWay
<1>1. SchedSpec => []SchedInv
  BY SchedInitInv, SchedNextInv, PTL DEF SchedSpec
<1>2. SchedInv => AnalysisOnItsWay
  BY DEF SchedInv
<1> QED BY <1>1, <1>2, PTL

-----------------------------------------------------------------------------
(* The whole process *)

Analysing(w) == worker[w].pc \in {"lookup", "fetch", "finalize"}

(* An armed timer belongs to a signal that is in the map.                   *)
TimersRegistered == \A r \in timers : Registered(r)

(* ForceAnalyze apart, only a timer starts an analysis.  Its signal is then *)
(* in the map, due, without a timer, and nobody else's.                     *)
AnalysedIsDue ==
  \A w \in Workers : Analysing(w) =>
    /\ signals[worker[w].id] # None
    /\ signals[worker[w].id] \notin timers
    /\ Expiry[object[signals[worker[w].id]]] <= clock

AnalysedByOne ==
  \A v, w \in Workers : Analysing(v) /\ Analysing(w) /\ worker[v].id = worker[w].id => v = w

(* A result is given to an allocated object whose expiry has been reached.  *)
ResultsAreDue ==
  \A r \in Regs : results[r] > 0 => r <= nreg /\ Expiry[object[r]] <= clock

(* What is in the map has not been closed, under any registration.          *)
RegisteredNotClosed ==
  \A i \in Ids : signals[i] # None =>
    \A q \in Regs : object[q] = object[signals[i]] => results[q] = 0

SchedPart ==
  /\ SchedTypeOK
  /\ ObjectsAllocated
  /\ AnalysesHaveIds
  /\ MapWellFormed
  /\ TimersRegistered
  /\ AnalysedIsDue
  /\ AnalysedByOne
  /\ ResultsAreDue
  /\ RegisteredNotClosed
  /\ OneResultPerEnvelope

(* Nothing is registered at the start.                                      *)
LEMMA SchedPartInit == SchedInit => SchedPart
<1> SUFFICES ASSUME SchedInit PROVE SchedPart
  OBVIOUS
<1> USE SchedulerAssumption DEF SchedInit, Regs
<1>1. SchedTypeOK
  <2>1. worker \in [Workers -> WorkerStates]
    BY WorkerRecords
  <2>2. nreg \in 0 .. MaxRegistrations /\ clock \in Nat
    OBVIOUS
  <2> QED BY <2>1, <2>2 DEF SchedTypeOK
<1>2. ObjectsAllocated /\ AnalysesHaveIds /\ MapWellFormed /\ TimersRegistered
  BY DEF ObjectsAllocated, AnalysesHaveIds, MapWellFormed, TimersRegistered, Idle
<1>3. AnalysedIsDue /\ AnalysedByOne
  BY DEF AnalysedIsDue, AnalysedByOne, Analysing, Idle
<1>4. ResultsAreDue /\ RegisteredNotClosed /\ OneResultPerEnvelope
  BY DEF ResultsAreDue, RegisteredNotClosed, OneResultPerEnvelope
<1> QED BY <1>1, <1>2, <1>3, <1>4 DEF SchedPart

(* AddSignal accepts only what has not expired, hence was never closed.     *)
LEMMA AddSignalPart ==
  ASSUME SchedPart, NEW e \in Envelopes, AddSignal(e)
  PROVE  SchedPart'
<1> USE SchedulerAssumption DEF SchedPart, Regs
<1>1. /\ nreg + 1 \in Regs /\ nreg + 1 # None /\ IdOf[e] \in Ids
      /\ nreg \in Nat /\ nreg' = nreg + 1 /\ clock' = clock /\ clock < Expiry[e]
      /\ object' = [object EXCEPT ![nreg + 1] = e]
      /\ signals' = [signals EXCEPT ![IdOf[e]] = nreg + 1]
      /\ signals[IdOf[e]] = None
      /\ timers' = timers \cup {nreg + 1}
      /\ cancelled' = cancelled /\ worker' = worker /\ results' = results
  BY DEF SchedTypeOK, AddSignal, Alive
<1>2. SchedTypeOK'
  BY <1>1 DEF SchedTypeOK
<1>3. ObjectsAllocated' /\ AnalysesHaveIds'
  BY <1>1 DEF SchedTypeOK, ObjectsAllocated, AnalysesHaveIds
<1>4. MapWellFormed'
  BY <1>1 DEF SchedTypeOK, MapWellFormed
<1>5. TimersRegistered'
  <2> SUFFICES ASSUME NEW r \in timers' PROVE signals'[IdOf[object'[r]]] = r
    BY DEF TimersRegistered, Registered
  <2>1. CASE r = nreg + 1
    BY <2>1, <1>1 DEF SchedTypeOK
  <2>2. CASE r # nreg + 1
    <3>1. r \in timers /\ r \in Regs /\ r <= nreg /\ object'[r] = object[r]
      BY <2>2, <1>1 DEF SchedTypeOK, ObjectsAllocated
    <3>2. signals[IdOf[object[r]]] = r /\ object[r] \in Envelopes /\ r # None
      BY <3>1 DEF TimersRegistered, Registered, ObjectsAllocated
    <3>3. IdOf[object[r]] \in Ids /\ IdOf[object[r]] # IdOf[e]
      BY <3>2, <1>1
    <3> QED BY <3>1, <3>2, <3>3, <1>1 DEF SchedTypeOK
  <2> QED BY <2>1, <2>2
<1>6. AnalysedIsDue'
  <2> SUFFICES ASSUME NEW w \in Workers, Analysing(w)
               PROVE  /\ signals'[worker[w].id] # None
                      /\ signals'[worker[w].id] \notin timers'
                      /\ Expiry[object'[signals'[worker[w].id]]] <= clock
    BY <1>1 DEF AnalysedIsDue, Analysing
  <2>1. worker[w].id \in Ids
    BY DEF AnalysesHaveIds, Analysing
  <2>2. /\ signals[worker[w].id] # None /\ signals[worker[w].id] \notin timers
        /\ Expiry[object[signals[worker[w].id]]] <= clock
    BY DEF AnalysedIsDue
  <2>3. signals[worker[w].id] \in Regs /\ signals[worker[w].id] <= nreg
    BY <2>1, <2>2 DEF SchedTypeOK, MapWellFormed
  <2>4. worker[w].id # IdOf[e] /\ signals'[worker[w].id] = signals[worker[w].id]
    BY <2>1, <2>2, <1>1 DEF SchedTypeOK
  <2>5. object'[signals[worker[w].id]] = object[signals[worker[w].id]]
    BY <2>3, <1>1 DEF SchedTypeOK
  <2> QED BY <2>2, <2>3, <2>4, <2>5, <1>1
<1>7. AnalysedByOne'
  BY <1>1 DEF AnalysedByOne, Analysing
<1>8. ResultsAreDue'
  BY <1>1 DEF SchedTypeOK, ResultsAreDue
<1>9. ASSUME NEW q \in Regs, object'[q] = e PROVE results[q] = 0
  <2>1. CASE q = nreg + 1
    BY <2>1, <1>1 DEF ResultsAreDue, SchedTypeOK
  <2>2. CASE q # nreg + 1
    <3>1. object[q] = e /\ results[q] \in Nat /\ clock \in Nat /\ Expiry[e] \in Nat
      BY <2>2, <1>1, <1>9 DEF SchedTypeOK
    <3> QED BY <3>1, <1>1 DEF ResultsAreDue
  <2> QED BY <2>1, <2>2
<1>10. RegisteredNotClosed'
  <2> SUFFICES ASSUME NEW i \in Ids, signals'[i] # None,
                      NEW q \in Regs, object'[q] = object'[signals'[i]]
               PROVE  results[q] = 0
    BY <1>1 DEF RegisteredNotClosed
  <2>1. CASE i = IdOf[e]
    <3>1. object'[signals'[i]] = e
      BY <2>1, <1>1 DEF SchedTypeOK
    <3> QED BY <3>1, <1>9
  <2>2. CASE i # IdOf[e]
    <3>1. signals'[i] = signals[i] /\ signals[i] \in Regs /\ signals[i] <= nreg
      BY <2>2, <1>1 DEF SchedTypeOK, MapWellFormed
    <3>2. object'[signals[i]] = object[signals[i]]
      BY <3>1, <1>1 DEF SchedTypeOK
    <3>3. CASE q = nreg + 1
      BY <3>3, <1>1, <1>9 DEF SchedTypeOK
    <3>4. CASE q # nreg + 1
      BY <3>1, <3>2, <3>4, <1>1 DEF SchedTypeOK, RegisteredNotClosed
    <3> QED BY <3>3, <3>4
  <2> QED BY <2>1, <2>2
<1>11. OneResultPerEnvelope'
  <2> SUFFICES ASSUME NEW r \in Regs, NEW q \in Regs, results[r] > 0, results[q] > 0,
                      object'[r] = object'[q]
               PROVE  r = q /\ results[r] = 1
    BY <1>1 DEF OneResultPerEnvelope
  <2>1. r <= nreg /\ q <= nreg
    BY DEF ResultsAreDue
  <2>2. object'[r] = object[r] /\ object'[q] = object[q]
    BY <2>1, <1>1 DEF SchedTypeOK
  <2> QED BY <2>2 DEF OneResultPerEnvelope
<1> QED BY <1>2, <1>3, <1>4, <1>5, <1>6, <1>7, <1>8, <1>10, <1>11

(* A timer that fires starts the only analysis of a due signal.             *)
LEMMA TimerFiresPart ==
  ASSUME SchedPart, NEW w \in Workers, NEW r \in Regs, TimerFires(w, r)
  PROVE  SchedPart'
<1> USE SchedulerAssumption DEF SchedPart, Regs
<1> DEFINE i == IdOf[object[r]]
<1>1. /\ r \in timers /\ r \in Nat /\ clock >= Expiry[object[r]] /\ worker[w] = Idle
      /\ timers' = timers \ {r}
      /\ worker' = [worker EXCEPT ![w] = [pc |-> "lookup", id |-> i, closed |-> None]]
      /\ UNCHANGED <<clock, signals, cancelled, nreg, object, results>>
  BY DEF TimerFires
<1>2. /\ object[r] \in Envelopes /\ i \in Ids /\ Expiry[object[r]] \in Nat
      /\ signals[i] = r /\ r # None
  BY <1>1 DEF SchedTypeOK, ObjectsAllocated, TimersRegistered, Registered
<1> HIDE DEF i
<1>3. worker'[w].pc = "lookup" /\ worker'[w].id = i /\ ~Analysing(w)
  BY <1>1 DEF SchedTypeOK, Analysing, Idle
<1>4. \A v \in Workers : v # w => worker'[v] = worker[v]
  BY <1>1 DEF SchedTypeOK
<1>5. SchedTypeOK'
  BY <1>1, <1>2 DEF SchedTypeOK, WorkerStates
<1>6. ObjectsAllocated' /\ AnalysesHaveIds' /\ MapWellFormed' /\ TimersRegistered'
  BY <1>1, <1>2, <1>3, <1>4 DEF ObjectsAllocated, AnalysesHaveIds, MapWellFormed,
     TimersRegistered, Registered
<1>7. AnalysedIsDue'
  <2> SUFFICES ASSUME NEW v \in Workers, Analysing(v)'
               PROVE  /\ signals[worker'[v].id] # None
                      /\ signals[worker'[v].id] \notin timers'
                      /\ Expiry[object[signals[worker'[v].id]]] <= clock
    BY <1>1 DEF AnalysedIsDue
  <2>1. CASE v = w
    BY <2>1, <1>1, <1>2, <1>3 DEF SchedTypeOK
  <2>2. CASE v # w
    BY <2>2, <1>1, <1>4 DEF Analysing, AnalysedIsDue
  <2> QED BY <2>1, <2>2
<1>8. AnalysedByOne'
  <2>1. ASSUME NEW v \in Workers, v # w, Analysing(v) PROVE worker[v].id # i
    BY <2>1, <1>1, <1>2 DEF AnalysedIsDue
  <2> QED BY <2>1, <1>3, <1>4 DEF AnalysedByOne, Analysing
<1>9. ResultsAreDue' /\ RegisteredNotClosed' /\ OneResultPerEnvelope'
  BY <1>1 DEF ResultsAreDue, RegisteredNotClosed, OneResultPerEnvelope
<1> QED BY <1>5, <1>6, <1>7, <1>8, <1>9

(* The analysis steps that leave the map alone.                             *)
LEMMA WorkerStepPart ==
  ASSUME SchedPart, NEW w \in Workers, Lookup(w) \/ FetchPrice(w) \/ HandlerReturns(w)
  PROVE  SchedPart'
<1> USE SchedulerAssumption DEF SchedPart, Regs
<1>1. /\ UNCHANGED <<clock, signals, timers, cancelled, nreg, object, results>>
      /\ \A v \in Workers : v # w => worker'[v] = worker[v]
      /\ Analysing(w)' => Analysing(w) /\ worker'[w].id = worker[w].id
  BY DEF Lookup, FetchPrice, HandlerReturns, SchedTypeOK, Analysing, Idle, WorkerStates
<1>2. SchedTypeOK'
  <2>1. worker' \in [Workers -> WorkerStates]
    <3>1. CASE Lookup(w)
      <4>1. [worker[w] EXCEPT !.pc = "fetch"] \in WorkerStates
        BY DEF SchedTypeOK, WorkerStates
      <4> QED BY <3>1, <4>1, WorkerRecords DEF Lookup, SchedTypeOK
    <3>2. CASE FetchPrice(w)
      BY <3>2 DEF FetchPrice, SchedTypeOK, WorkerStates
    <3>3. CASE HandlerReturns(w)
      BY <3>3, WorkerRecords DEF HandlerReturns, SchedTypeOK
    <3> QED BY <3>1, <3>2, <3>3
  <2> QED BY <2>1, <1>1 DEF SchedTypeOK
<1>3. ASSUME NEW v \in Workers, Analysing(v)'
      PROVE  Analysing(v) /\ worker'[v].id = worker[v].id
  BY <1>1, <1>3 DEF Analysing
<1>4. AnalysesHaveIds' /\ AnalysedIsDue' /\ AnalysedByOne'
  <2>1. AnalysesHaveIds'
    BY <1>3 DEF AnalysesHaveIds, Analysing
  <2>2. AnalysedIsDue'
    BY <1>1, <1>3 DEF AnalysedIsDue
  <2>3. AnalysedByOne'
    BY <1>3 DEF AnalysedByOne
  <2> QED BY <2>1, <2>2, <2>3
<1>5. /\ ObjectsAllocated' /\ MapWellFormed' /\ TimersRegistered'
      /\ ResultsAreDue' /\ RegisteredNotClosed' /\ OneResultPerEnvelope'
  BY <1>1 DEF ObjectsAllocated, MapWellFormed, TimersRegistered, Registered,
     ResultsAreDue, RegisteredNotClosed, OneResultPerEnvelope
<1> QED BY <1>2, <1>4, <1>5

(* What Finalize does: the signal it deletes is due, and no registration of *)
(* its envelope has a result yet.                                           *)
LEMMA FinalizeCloses ==
  ASSUME SchedPart, NEW w \in Workers, Finalize(w)
  PROVE  LET i == worker[w].id
             r == signals[i]
         IN /\ i \in Ids /\ r \in Regs /\ r # None /\ r \notin timers
            /\ object[r] \in Envelopes /\ IdOf[object[r]] = i
            /\ r <= nreg /\ Expiry[object[r]] <= clock
            /\ \A q \in Regs : object[q] = object[r] => results[q] = 0
            /\ signals' = [signals EXCEPT ![i] = None]
            /\ results' = [results EXCEPT ![r] = @ + 1]
            /\ worker' = [worker EXCEPT ![w] = [pc |-> "handle", id |-> i, closed |-> r]]
            /\ UNCHANGED <<clock, timers, cancelled, nreg, object>>
<1> DEFINE i == worker[w].id
           r == signals[i]
<1>1. Analysing(w)
  BY DEF Finalize, Analysing
<1>2. i \in Ids /\ r # None /\ r \notin timers /\ Expiry[object[r]] <= clock
  BY <1>1 DEF SchedPart, AnalysesHaveIds, Analysing, AnalysedIsDue
<1>3. /\ r \in Regs /\ r <= nreg /\ object[r] \in Envelopes /\ IdOf[object[r]] = i
      /\ \A q \in Regs : object[q] = object[r] => results[q] = 0
  BY <1>2 DEF SchedPart, SchedTypeOK, MapWellFormed, RegisteredNotClosed
<1>4. /\ signals' = [signals EXCEPT ![i] = None]
      /\ results' = [results EXCEPT ![r] = @ + 1]
      /\ worker' = [worker EXCEPT ![w] = [pc |-> "handle", id |-> i, closed |-> r]]
      /\ UNCHANGED <<clock, timers, cancelled, nreg, object>>
  BY <1>2 DEF Finalize, EntryDeleted
<1> QED BY <1>2, <1>3, <1>4

(* Finalizing preserves the invariant: what it closes is due.               *)
LEMMA FinalizePart ==
  ASSUME SchedPart, NEW w \in Workers, Finalize(w)
  PROVE  SchedPart'
<1> USE SchedulerAssumption DEF SchedPart, Regs
<1> DEFINE i == worker[w].id
           r == signals[i]
<1>0. i \in Ids /\ r \in Regs /\ r = signals[i] /\ i = worker[w].id /\ Analysing(w)
  BY FinalizeCloses DEF Finalize, Analysing
<1>1. /\ i \in Ids /\ r \in Regs /\ r # None /\ r \notin timers
      /\ object[r] \in Envelopes /\ IdOf[object[r]] = i
      /\ r <= nreg /\ Expiry[object[r]] <= clock
      /\ \A q \in Regs : object[q] = object[r] => results[q] = 0
      /\ signals' = [signals EXCEPT ![i] = None]
      /\ results' = [results EXCEPT ![r] = @ + 1]
      /\ worker' = [worker EXCEPT ![w] = [pc |-> "handle", id |-> i, closed |-> r]]
      /\ UNCHANGED <<clock, timers, cancelled, nreg, object>>
  BY FinalizeCloses
<1> HIDE DEF i, r
<1>2. /\ signals'[i] = None /\ \A j \in Ids : j # i => signals'[j] = signals[j]
      /\ results'[r] = 1 /\ \A q \in Regs : q # r => results'[q] = results[q]
      /\ ~(Analysing(w)') /\ \A v \in Workers : v # w => worker'[v] = worker[v]
  BY <1>1 DEF SchedTypeOK, Analysing
<1>3. SchedTypeOK'
  BY <1>1, WorkerRecords DEF SchedTypeOK
<1>4. ObjectsAllocated' /\ MapWellFormed'
  BY <1>1, <1>2 DEF SchedTypeOK, ObjectsAllocated, MapWellFormed
<1>5. TimersRegistered'
  <2> SUFFICES ASSUME NEW q \in timers PROVE signals'[IdOf[object[q]]] = q
    BY <1>1 DEF TimersRegistered, Registered
  <2>1. q \in Regs /\ q <= nreg /\ signals[IdOf[object[q]]] = q
    BY DEF SchedTypeOK, ObjectsAllocated, TimersRegistered, Registered
  <2>2. IdOf[object[q]] \in Ids
    BY <2>1 DEF ObjectsAllocated
  <2>3. IdOf[object[q]] # i
    BY <2>1, <1>0, <1>1
  <2> QED BY <2>1, <2>2, <2>3, <1>2
<1>6. ASSUME NEW v \in Workers, Analysing(v)'
      PROVE  Analysing(v) /\ v # w /\ worker'[v] = worker[v] /\ worker[v].id # i
             /\ worker[v].id \in Ids
  <2>1. v # w /\ worker'[v] = worker[v]
    BY <1>2, <1>6
  <2>2. Analysing(v)
    BY <2>1, <1>6 DEF Analysing
  <2>3. worker[v].id # i
    BY <2>1, <2>2, <1>0 DEF AnalysedByOne
  <2> QED BY <2>1, <2>2, <2>3 DEF AnalysesHaveIds, Analysing
<1>7. AnalysesHaveIds' /\ AnalysedByOne'
  <2>1. AnalysesHaveIds'
    BY <1>6 DEF AnalysesHaveIds, Analysing
  <2>2. AnalysedByOne'
    BY <1>6 DEF AnalysedByOne
  <2> QED BY <2>1, <2>2
<1>8. AnalysedIsDue'
  BY <1>1, <1>2, <1>6 DEF AnalysedIsDue
<1>9. ResultsAreDue'
  BY <1>1, <1>2 DEF ResultsAreDue
<1>10. RegisteredNotClosed'
  <2> SUFFICES ASSUME NEW j \in Ids, signals'[j] # None,
                      NEW q \in Regs, object[q] = object[signals'[j]]
               PROVE  results'[q] = 0
    BY <1>1 DEF RegisteredNotClosed
  <2>1. j # i /\ signals'[j] = signals[j]
    BY <1>2
  <2>2. IdOf[object[signals[j]]] = j
    BY <2>1 DEF MapWellFormed
  <2>3. q # r
    BY <2>1, <2>2, <1>1
  <2> QED BY <2>1, <2>3, <1>2 DEF RegisteredNotClosed
<1>11. OneResultPerEnvelope'
  <2> SUFFICES ASSUME NEW p \in Regs, NEW q \in Regs, results'[p] > 0, results'[q] > 0,
                      object[p] = object[q]
               PROVE  p = q /\ results'[p] = 1
    BY <1>1 DEF OneResultPerEnvelope
  <2>1. CASE object[p] = object[r]
    <3>1. results[p] = 0 /\ results[q] = 0
      BY <2>1, <1>1
    <3>2. p = r /\ q = r
      BY <3>1, <1>2
    <3> QED BY <3>2, <1>2
  <2>2. CASE object[p] # object[r]
    <3>1. results'[p] = results[p] /\ results'[q] = results[q]
      BY <2>2, <1>2
    <3> QED BY <3>1 DEF OneResultPerEnvelope
  <2> QED BY <2>1, <2>2
<1> QED BY <1>3, <1>4, <1>5, <1>7, <1>8, <1>9, <1>10, <1>11

(* The end of the process clears the scheduler and keeps the history.       *)
LEMMA ProcessEndsPart ==
  ASSUME SchedPart, ProcessEnds
  PROVE  SchedPart'
<1> USE SchedulerAssumption DEF SchedPart, Regs
<1>1. /\ signals' = [i \in Ids |-> None] /\ timers' = {} /\ cancelled' = FALSE
      /\ worker' = [w \in Workers |-> Idle]
      /\ UNCHANGED <<clock, nreg, object, results>>
  BY DEF ProcessEnds
<1>2. SchedTypeOK'
  BY <1>1, WorkerRecords DEF SchedTypeOK
<1>3. \A w \in Workers : ~(Analysing(w)')
  BY <1>1 DEF Analysing, Idle
<1>4. AnalysesHaveIds' /\ AnalysedIsDue' /\ AnalysedByOne'
  BY <1>3 DEF AnalysesHaveIds, AnalysedIsDue, AnalysedByOne, Analysing
<1>5. ObjectsAllocated' /\ MapWellFormed' /\ TimersRegistered' /\ RegisteredNotClosed'
  BY <1>1 DEF ObjectsAllocated, MapWellFormed, TimersRegistered, RegisteredNotClosed
<1>6. ResultsAreDue' /\ OneResultPerEnvelope'
  BY <1>1 DEF ResultsAreDue, OneResultPerEnvelope
<1> QED BY <1>2, <1>4, <1>5, <1>6

(* Time, Stop and everything the loop does beside the scheduler.            *)
LEMMA OtherPart ==
  ASSUME SchedPart, Tick \/ Stop \/ UNCHANGED schedVars
  PROVE  SchedPart'
<1> USE SchedulerAssumption DEF SchedPart, Regs
<1>1. /\ clock \in Nat /\ clock' \in Nat /\ clock <= clock'
      /\ timers' \subseteq timers /\ cancelled' \in BOOLEAN
      /\ UNCHANGED <<signals, worker, nreg, object, results>>
  <2>1. CASE Tick
    BY <2>1 DEF Tick, SchedTypeOK
  <2>2. CASE Stop
    BY <2>2 DEF Stop, SchedTypeOK
  <2>3. CASE UNCHANGED schedVars
    BY <2>3 DEF schedVars, SchedTypeOK
  <2> QED BY <2>1, <2>2, <2>3
<1>2. SchedTypeOK' /\ ObjectsAllocated' /\ AnalysesHaveIds' /\ MapWellFormed'
  BY <1>1 DEF SchedTypeOK, ObjectsAllocated, AnalysesHaveIds, MapWellFormed
<1>3. TimersRegistered' /\ AnalysedByOne' /\ RegisteredNotClosed' /\ OneResultPerEnvelope'
  BY <1>1 DEF TimersRegistered, Registered, AnalysedByOne, Analysing, RegisteredNotClosed,
     OneResultPerEnvelope
<1>4. AnalysedIsDue'
  <2> SUFFICES ASSUME NEW w \in Workers, Analysing(w)
               PROVE  /\ signals[worker[w].id] # None
                      /\ signals[worker[w].id] \notin timers'
                      /\ Expiry[object[signals[worker[w].id]]] <= clock'
    BY <1>1 DEF AnalysedIsDue, Analysing
  <2>1. /\ signals[worker[w].id] # None /\ signals[worker[w].id] \notin timers
        /\ Expiry[object[signals[worker[w].id]]] <= clock
        /\ worker[w].id \in Ids
    BY DEF AnalysedIsDue, AnalysesHaveIds, Analysing
  <2>2. Expiry[object[signals[worker[w].id]]] \in Nat
    BY <2>1 DEF MapWellFormed
  <2> QED BY <2>1, <2>2, <1>1
<1>5. ResultsAreDue'
  <2> SUFFICES ASSUME NEW r \in Regs, results[r] > 0
               PROVE  r <= nreg /\ Expiry[object[r]] <= clock'
    BY <1>1 DEF ResultsAreDue
  <2>1. r <= nreg /\ Expiry[object[r]] <= clock /\ Expiry[object[r]] \in Nat
    BY DEF ResultsAreDue, ObjectsAllocated
  <2> QED BY <2>1, <1>1
<1> QED BY <1>2, <1>3, <1>4, <1>5

(* What a step of the process does to the scheduler.                        *)
SchedMove ==
  \/ \E e \in Envelopes : AddSignal(e)
  \/ \E w \in Workers, r \in Regs : TimerFires(w, r)
  \/ \E w \in Workers : Lookup(w) \/ FetchPrice(w) \/ HandlerReturns(w)
  \/ \E w \in Workers : Finalize(w)
  \/ ProcessEnds
  \/ Tick \/ Stop \/ UNCHANGED schedVars

(* What a step of the process does to the scheduler's variables.            *)
LEMMA StepsMove == [Next]_vars => SchedMove
<1> SUFFICES ASSUME [Next]_vars PROVE SchedMove
  OBVIOUS
<1>1. CASE SchedulerStep
  BY <1>1 DEF SchedulerStep, Analysis, SchedMove
<1>2. ASSUME NEW e \in Envelopes, Restore(e) \/ ProcessIncomingSignal(e) PROVE SchedMove
  BY <1>2 DEF Restore, ProcessIncomingSignal, SchedMove
<1>3. CASE \/ RestoreDone \/ QueueForBatching \/ FlushBegins \/ FlushEmpty
           \/ BundleUploaded \/ DropBundle \/ TransferFails \/ UploadFails
           \/ SaveBegins \/ SaveSucceeds \/ SaveFails
           \/ Boot \/ Cancel
  <2>1. UNCHANGED schedVars
    BY <1>3 DEF RestoreDone, QueueForBatching, FlushBegins, FlushEmpty, BundleUploaded, BundleLost, DropBundle, TransferFails,
       UploadFails, FlushReturns, SaveBegins, SaveSucceeds, SaveFails, SaveReturns,
       Boot, Cancel
  <2> QED BY <2>1 DEF SchedMove
<1>4. CASE StopLoop
  BY <1>4 DEF StopLoop, SchedMove
<1>5. CASE Exit \/ Crash
  BY <1>5 DEF Exit, Crash, SchedMove
<1>6. CASE UNCHANGED vars
  BY <1>6 DEF vars, SchedMove
<1> QED BY <1>1, <1>2, <1>3, <1>4, <1>5, <1>6 DEF Next, LoopStep

(* Every step of the process preserves the invariant.                       *)
LEMMA SchedPartNext == SchedPart /\ [Next]_vars => SchedPart'
  BY StepsMove, AddSignalPart, TimerFiresPart, WorkerStepPart, FinalizePart,
     ProcessEndsPart, OtherPart DEF SchedMove

(* The invariant holds throughout.                                          *)
LEMMA SchedPartInvariant == Spec => []SchedPart
<1>1. Init => SchedPart
  BY SchedPartInit DEF Init
<1> QED BY <1>1, SchedPartNext, PTL DEF Spec

(* Across crashes, restarts and re-submissions no envelope is handed to the *)
(* result handler twice.                                                    *)
THEOREM BatcherOneResultPerEnvelope == Spec => []OneResultPerEnvelope
<1>1. SchedPart => OneResultPerEnvelope
  BY DEF SchedPart
<1> QED BY <1>1, SchedPartInvariant, PTL

----------------------------------------------------------------------------
(* The refinement: `phase' of SignalLifecycle under the mapping.            *)
Phase ==
  [e \in Envelopes |-> IF Pending(e) THEN "scheduled" ELSE IF Closed(e) THEN "closed" ELSE "idle"]

(* Every signal starts idle.                                                *)
LEMMA PhaseInit == Init => clock = 0 /\ Phase = [e \in Envelopes |-> "idle"]
<1> SUFFICES ASSUME Init PROVE clock = 0 /\ Phase = [e \in Envelopes |-> "idle"]
  OBVIOUS
<1> USE SchedulerAssumption DEF Init, SchedInit
<1>1. \A e \in Envelopes : ~Pending(e) /\ ~Closed(e)
  BY DEF Pending, Closed
<1> QED BY <1>1 DEF Phase

(* Registering an envelope moves it, and it alone, from idle to scheduled.  *)
LEMMA AddSignalSchedules ==
  ASSUME SchedPart, NEW e \in Envelopes, AddSignal(e)
  PROVE  Phase[e] = "idle" /\ clock < Expiry[e] /\ clock' = clock
         /\ Phase' = [Phase EXCEPT ![e] = "scheduled"]
<1> USE SchedulerAssumption DEF SchedPart, Regs
<1>1. /\ nreg + 1 \in Regs /\ nreg + 1 # None /\ IdOf[e] \in Ids
      /\ nreg \in Nat /\ clock' = clock /\ clock < Expiry[e]
      /\ clock \in Nat /\ Expiry[e] \in Nat
      /\ object' = [object EXCEPT ![nreg + 1] = e]
      /\ signals' = [signals EXCEPT ![IdOf[e]] = nreg + 1]
      /\ signals[IdOf[e]] = None /\ results' = results
  BY DEF SchedTypeOK, AddSignal, Alive
<1>2. ~Pending(e) /\ ~Closed(e) /\ Pending(e)'
  BY <1>1 DEF SchedTypeOK, Pending, Closed, ResultsAreDue
<1>3. ASSUME NEW f \in Envelopes, f # e
      PROVE  (Pending(f)' <=> Pending(f)) /\ (Closed(f)' <=> Closed(f))
  <2>0. IdOf[f] \in Ids
    OBVIOUS
  <2>1. Pending(f)' <=> Pending(f)
    <3>1. CASE IdOf[f] = IdOf[e]
      BY <3>1, <1>1, <1>3 DEF SchedTypeOK, Pending
    <3>2. CASE IdOf[f] # IdOf[e]
      <4>1. signals'[IdOf[f]] = signals[IdOf[f]]
        BY <3>2, <1>1, <2>0 DEF SchedTypeOK
      <4>2. ASSUME signals[IdOf[f]] # None
            PROVE  object'[signals[IdOf[f]]] = object[signals[IdOf[f]]]
        BY <4>2, <1>1, <2>0 DEF SchedTypeOK, MapWellFormed
      <4> QED BY <4>1, <4>2 DEF Pending
    <3> QED BY <3>1, <3>2
  <2>2. Closed(f)' <=> Closed(f)
    <3>1. results[nreg + 1] = 0
      BY <1>1 DEF SchedTypeOK, ResultsAreDue
    <3>2. \A r \in Regs : r # nreg + 1 => object'[r] = object[r]
      BY <1>1 DEF SchedTypeOK
    <3> QED BY <1>1, <3>1, <3>2 DEF Closed
  <2> QED BY <2>1, <2>2
<1> QED BY <1>1, <1>2, <1>3 DEF Phase

(* Finalize moves one envelope, now due, from scheduled to closed.          *)
LEMMA FinalizeClosesOne ==
  ASSUME SchedPart, NEW w \in Workers, Finalize(w)
  PROVE  \E e \in Envelopes :
           /\ Phase[e] = "scheduled" /\ clock >= Expiry[e] /\ clock' = clock
           /\ Phase' = [Phase EXCEPT ![e] = "closed"]
<1> USE SchedulerAssumption
<1>1. PICK i \in Ids, r \in Regs, e \in Envelopes :
      /\ r # None /\ r = signals[i] /\ IdOf[e] = i /\ e = object[r]
      /\ Expiry[e] <= clock
      /\ \A q \in Regs : object[q] = e => results[q] = 0
      /\ signals' = [signals EXCEPT ![i] = None]
      /\ results' = [results EXCEPT ![r] = @ + 1]
      /\ clock' = clock /\ object' = object
      /\ clock \in Nat /\ Expiry[e] \in Nat
      /\ signals \in [Ids -> Regs \cup {None}] /\ results \in [Regs -> Nat]
  BY FinalizeCloses DEF SchedPart, SchedTypeOK
<1>2. Pending(e) /\ ~(Pending(e)') /\ Closed(e)'
  BY <1>1 DEF Pending, Closed
<1>3. ASSUME NEW f \in Envelopes, f # e
      PROVE  (Pending(f)' <=> Pending(f)) /\ (Closed(f)' <=> Closed(f))
  <2>1. Pending(f)' <=> Pending(f)
    <3>1. CASE IdOf[f] = i
      BY <3>1, <1>1, <1>3 DEF Pending
    <3>2. CASE IdOf[f] # i
      BY <3>2, <1>1 DEF Pending
    <3> QED BY <3>1, <3>2
  <2>2. \A q \in Regs : object[q] = f => results'[q] = results[q]
    BY <1>1, <1>3
  <2>3. Closed(f)' <=> Closed(f)
    BY <2>2, <1>1 DEF Closed
  <2> QED BY <2>1, <2>3
<1>4. Phase' = [Phase EXCEPT ![e] = "closed"] /\ Phase[e] = "scheduled"
  BY <1>2, <1>3 DEF Phase
<1> QED BY <1>1, <1>4

(* The end of the process forgets what was scheduled, none of it closed.    *)
LEMMA ProcessEndsForgets ==
  ASSUME SchedPart, ProcessEnds
  PROVE  clock' = clock
         /\ Phase' = [e \in Envelopes |-> IF Phase[e] = "scheduled" THEN "idle" ELSE Phase[e]]
<1> USE SchedulerAssumption
<1>1. /\ signals' = [i \in Ids |-> None]
      /\ UNCHANGED <<clock, object, results>>
  BY DEF ProcessEnds
<1>2. ASSUME NEW e \in Envelopes
      PROVE  ~(Pending(e)') /\ (Closed(e)' <=> Closed(e)) /\ ~(Pending(e) /\ Closed(e))
  <2>1. ~(Pending(e)') /\ (Closed(e)' <=> Closed(e))
    BY <1>1 DEF Pending, Closed
  <2>2. ~(Pending(e) /\ Closed(e))
    BY DEF SchedPart, RegisteredNotClosed, Pending, Closed
  <2> QED BY <2>1, <2>2
<1> QED BY <1>1, <1>2 DEF Phase

(* The phases depend on three variables only.                               *)
LEMMA PhaseStays ==
  ASSUME UNCHANGED <<signals, object, results>>
  PROVE  Phase' = Phase
  BY DEF Phase, Pending, Closed

(* Every step is a step of the lifecycle or leaves the phases alone.        *)
LEMMA StepsImplement == SchedPart /\ [Next]_vars => [Lifecycle!LifeNext]_(Lifecycle!lifeVars)
<1> SUFFICES ASSUME SchedPart, SchedMove
             PROVE  Lifecycle!LifeNext \/ UNCHANGED Lifecycle!lifeVars
  BY StepsMove
<1> USE DEF Lifecycle!LifeNext, Lifecycle!lifeVars
<1>1. ASSUME NEW e \in Envelopes, AddSignal(e) PROVE Lifecycle!LifeNext
  <2>1. Lifecycle!Schedule(e)
    BY <1>1, AddSignalSchedules DEF Lifecycle!Schedule, Phase
  <2> QED BY <2>1
<1>2. ASSUME NEW w \in Workers, Finalize(w) PROVE Lifecycle!LifeNext
  <2>1. PICK e \in Envelopes :
          /\ Phase[e] = "scheduled" /\ clock >= Expiry[e] /\ clock' = clock
          /\ Phase' = [Phase EXCEPT ![e] = "closed"]
    BY <1>2, FinalizeClosesOne
  <2>2. Lifecycle!Close(e)
    BY <2>1 DEF Lifecycle!Close, Phase
  <2> QED BY <2>2
<1>3. CASE ProcessEnds
  <2>1. Lifecycle!Forget
    BY <1>3, ProcessEndsForgets DEF Lifecycle!Forget, Phase
  <2> QED BY <2>1
<1>4. CASE Tick
  <2>1. clock' = clock + 1 /\ Phase' = Phase
    BY <1>4, PhaseStays DEF Tick
  <2>2. Lifecycle!TimePasses
    BY <2>1 DEF Lifecycle!TimePasses, Phase
  <2> QED BY <2>2
<1>5. ASSUME UNCHANGED <<clock, signals, object, results>>
      PROVE  UNCHANGED Lifecycle!lifeVars
  BY <1>5, PhaseStays DEF Phase
<1>6. CASE \/ \E w \in Workers, r \in Regs : TimerFires(w, r)
           \/ \E w \in Workers : Lookup(w) \/ FetchPrice(w) \/ HandlerReturns(w)
           \/ Stop \/ UNCHANGED schedVars
  BY <1>5, <1>6 DEF TimerFires, Lookup, FetchPrice, HandlerReturns, Stop, schedVars
<1> QED BY <1>1, <1>2, <1>3, <1>4, <1>6 DEF SchedMove

(* The process, with its crashes and restarts, implements SignalLifecycle:  *)
(* scheduled only before the expiry, closed only at or after it, and for    *)
(* good.                                                                    *)
THEOREM BatcherImplementsLifecycle == Spec => ImplementsLifecycle
<1>1. Init => Lifecycle!LifeInit
  BY PhaseInit DEF Lifecycle!LifeInit, Phase
<1> QED BY <1>1, StepsImplement, SchedPartInvariant, PTL
        DEF Spec, ImplementsLifecycle, Lifecycle!LifeSpec

-----------------------------------------------------------------------------
(* The audit trail of the sequencer: within one run of the process no       *)
(* signal enters two batches, and none that is scheduled misses them, for   *)
(* any set of envelopes and any failures of uploads and saves.              *)

LoopTypeOK ==
  /\ loop \in {"down", "restore", "select", "accept", "upload", "save", "lastSave",
               "lastFlush", "lastUpload", "stop", "stopped"}
  /\ restoring \in SUBSET Envelopes
  /\ accepted \in Envelopes \cup {None}
  /\ queue \in Slices /\ bundle \in Slices /\ image \in Slices
  /\ store \in Slices /\ gone \in Slices /\ lost \in Slices
  /\ ctxDone \in BOOLEAN
  /\ runs \in 0 .. MaxRuns

(* Which variable is in use where the loop is.                              *)
LoopShape ==
  /\ accepted # None <=> loop = "accept"
  /\ loop \notin {"upload", "lastUpload"} => bundle = Empty
  /\ loop = "down" => queue = Empty /\ \A i \in Ids : signals[i] = None
  /\ loop \in {"down", "restore"} => gone = Empty /\ lost = Empty
  /\ loop # "restore" => restoring = {}

Total(e) == queue[e] + bundle[e] + gone[e] + lost[e]
Taken(e) == accepted = e \/ Total(e) > 0

(* What may be written to the store: no envelope twice, no two of one id.   *)
Savable(s) ==
  /\ \A e \in Envelopes : s[e] <= 1
  /\ \A e, f \in Envelopes : s[e] > 0 /\ s[f] > 0 /\ IdOf[e] = IdOf[f] => e = f

(* An envelope taken in this run stays scheduled until its expiry, so       *)
(* processIncomingSignal cannot take it again; the exception is the restore *)
(* loop, which still has to schedule what it loaded.                        *)
TakenOnce ==
  \A e \in Envelopes :
    /\ Total(e) <= 1 /\ (accepted = e => Total(e) = 0)
    /\ Pending(e) => Taken(e)
    /\ Taken(e) /\ Alive(e) /\ e \notin restoring => Pending(e)

RestoresSavable ==
  loop = "restore" => Savable(queue) /\ \A e \in restoring : queue[e] > 0

AuditPart ==
  /\ LoopTypeOK
  /\ LoopShape
  /\ TakenOnce
  /\ RestoresSavable
  /\ Savable(store)
  /\ Savable(image)

AuditInv == SchedPart /\ AuditPart

(* An empty slice can be saved.                                             *)
LEMMA EmptySlice == Empty \in Slices /\ Savable(Empty) /\ \A e \in Envelopes : Empty[e] = 0
  BY DEF Empty, Slices, Savable

(* Nothing is scheduled, queued or stored at the start.                     *)
LEMMA AuditInitInv == Init => AuditInv
<1> SUFFICES ASSUME Init PROVE AuditInv
  OBVIOUS
<1> USE SchedulerAssumption, BatcherAssumption
<1>1. SchedPart
  BY SchedPartInit DEF Init
<1>2. /\ loop = "down" /\ restoring = {} /\ accepted = None /\ queue = Empty
      /\ bundle = Empty /\ image = Empty /\ store = Empty /\ gone = Empty /\ lost = Empty
      /\ ctxDone = FALSE /\ runs = 0 /\ signals = [i \in Ids |-> None]
  BY DEF Init, SchedInit
<1>3. LoopTypeOK /\ Savable(store) /\ Savable(image)
  <2>1. runs \in 0 .. MaxRuns
    BY <1>2
  <2> QED BY <1>2, <2>1, EmptySlice DEF LoopTypeOK
<1>4. LoopShape /\ RestoresSavable
  BY <1>2 DEF LoopShape, RestoresSavable
<1>5. TakenOnce
  <2> SUFFICES ASSUME NEW e \in Envelopes
               PROVE  /\ Total(e) <= 1 /\ accepted # e /\ ~Pending(e)
                      /\ ~(Total(e) > 0)
    BY DEF TakenOnce, Taken
  <2>1. queue[e] = 0 /\ bundle[e] = 0 /\ gone[e] = 0 /\ lost[e] = 0
    BY <1>2, EmptySlice
  <2>2. Total(e) = 0
    BY <2>1 DEF Total
  <2>3. accepted # e
    BY <1>2
  <2>4. ~Pending(e)
    BY <1>2 DEF Pending
  <2> QED BY <2>2, <2>3, <2>4
<1> QED BY <1>1, <1>3, <1>4, <1>5 DEF AuditInv, AuditPart

----------------------------------------------------------------------------
(* How the scheduler's steps move Pending: a signal leaves the map only     *)
(* when it is due.                                                          *)
LEMMA PendingUntilDue ==
  ASSUME SchedPart, NEW e \in Envelopes,
         SchedulerStep \/ Stop \/ UNCHANGED schedVars
  PROVE  /\ Pending(e)' => Pending(e)
         /\ Alive(e)' => Alive(e)
         /\ Pending(e) /\ Alive(e)' => Pending(e)'
<1> USE SchedulerAssumption
<1>1. clock \in Nat /\ Expiry[e] \in Nat
  BY DEF SchedPart, SchedTypeOK
<1>2. ASSUME clock' \in {clock, clock + 1}, UNCHANGED <<signals, object>>
      PROVE  /\ Pending(e)' => Pending(e)
             /\ Alive(e)' => Alive(e)
             /\ Pending(e) /\ Alive(e)' => Pending(e)'
  BY <1>1, <1>2 DEF Pending, Alive
<1>3. CASE Tick \/ Stop \/ UNCHANGED schedVars
  BY <1>2, <1>3 DEF Tick, Stop, schedVars
<1>4. ASSUME NEW w \in Workers, NEW r \in Regs, TimerFires(w, r)
      PROVE  clock' \in {clock, clock + 1} /\ UNCHANGED <<signals, object>>
  BY <1>4 DEF TimerFires
<1>5. ASSUME NEW w \in Workers, Lookup(w) \/ FetchPrice(w) \/ HandlerReturns(w)
      PROVE  clock' \in {clock, clock + 1} /\ UNCHANGED <<signals, object>>
  BY <1>5 DEF Lookup, FetchPrice, HandlerReturns
<1>6. ASSUME NEW w \in Workers, Finalize(w)
      PROVE  /\ Pending(e)' => Pending(e)
             /\ Alive(e)' => Alive(e)
             /\ Pending(e) /\ Alive(e)' => Pending(e)'
  <2>1. PICK i \in Ids, r \in Regs :
          /\ r = signals[i] /\ r # None /\ Expiry[object[r]] <= clock
          /\ signals' = [signals EXCEPT ![i] = None]
          /\ clock' = clock /\ object' = object
          /\ signals \in [Ids -> Regs \cup {None}]
    BY <1>6, FinalizeCloses DEF SchedPart, SchedTypeOK
  <2>2. CASE IdOf[e] = i
    BY <2>1, <2>2, <1>1 DEF Pending, Alive
  <2>3. CASE IdOf[e] # i
    BY <2>1, <2>3, <1>1 DEF Pending, Alive
  <2> QED BY <2>2, <2>3
<1> QED BY <1>2, <1>3, <1>4, <1>5, <1>6 DEF SchedulerStep, Analysis

(* AddSignal schedules one envelope, not scheduled before, and no other.    *)
LEMMA AddSignalPending ==
  ASSUME SchedPart, NEW e \in Envelopes, AddSignal(e)
  PROVE  /\ Alive(e) /\ ~Pending(e) /\ Pending(e)'
         /\ \A f \in Envelopes : /\ Alive(f)' <=> Alive(f)
                                 /\ f # e => (Pending(f)' <=> Pending(f))
<1> USE SchedulerAssumption
<1>1. /\ nreg + 1 \in Regs /\ nreg + 1 # None /\ IdOf[e] \in Ids
      /\ nreg \in Nat /\ clock' = clock
      /\ object \in [Regs -> Envelopes \cup {None}]
      /\ object' = [object EXCEPT ![nreg + 1] = e]
      /\ signals \in [Ids -> Regs \cup {None}]
      /\ signals' = [signals EXCEPT ![IdOf[e]] = nreg + 1]
      /\ signals[IdOf[e]] = None
  BY DEF SchedPart, SchedTypeOK, AddSignal, Alive, Regs
<1>2. Alive(e) /\ ~Pending(e) /\ Pending(e)'
  BY <1>1 DEF AddSignal, Pending
<1>3. ASSUME NEW f \in Envelopes, f # e
      PROVE  Pending(f)' <=> Pending(f)
  <2>0. IdOf[f] \in Ids
    OBVIOUS
  <2>1. CASE IdOf[f] = IdOf[e]
    BY <2>1, <1>1, <1>3 DEF Pending
  <2>2. CASE IdOf[f] # IdOf[e]
    <3>1. signals'[IdOf[f]] = signals[IdOf[f]]
      BY <2>2, <1>1, <2>0
    <3>2. ASSUME signals[IdOf[f]] # None
          PROVE  object'[signals[IdOf[f]]] = object[signals[IdOf[f]]]
      BY <3>2, <1>1, <2>0 DEF SchedPart, MapWellFormed
    <3> QED BY <3>1, <3>2 DEF Pending
  <2> QED BY <2>1, <2>2
<1> QED BY <1>1, <1>2, <1>3 DEF Alive

(* Whatever changes neither what is taken nor how it is split keeps         *)
(* TakenOnce as long as Pending ends only at the expiry.                    *)
LEMMA TakenOnceKept ==
  ASSUME TakenOnce, LoopTypeOK,
         \A e \in Envelopes :
           /\ Total(e)' = Total(e)
           /\ Pending(e)' => Pending(e)
           /\ Alive(e)' => Alive(e)
           /\ Pending(e) /\ Alive(e)' => Pending(e)',
         accepted' = accepted, restoring' = restoring
  PROVE  TakenOnce'
  BY DEF TakenOnce, Taken

(* The parts of the sum are natural numbers.                                *)
LEMMA TotalsAreNat ==
  ASSUME LoopTypeOK
  PROVE  \A e \in Envelopes :
           queue[e] \in Nat /\ bundle[e] \in Nat /\ gone[e] \in Nat /\ lost[e] \in Nat /\ Total(e) \in Nat
  BY DEF LoopTypeOK, Slices, Total

(* TakenOnce for one envelope, with the bounds arithmetic needs.            *)
LEMMA TakenOnceAt ==
  ASSUME TakenOnce, LoopTypeOK, NEW e \in Envelopes
  PROVE  /\ queue[e] \in Nat /\ bundle[e] \in Nat /\ gone[e] \in Nat /\ lost[e] \in Nat /\ Total(e) \in {0, 1}
         /\ queue[e] <= Total(e)
         /\ accepted = e => Total(e) = 0
         /\ Pending(e) => Taken(e)
         /\ Taken(e) /\ Alive(e) /\ e \notin restoring => Pending(e)
<1>1. /\ Total(e) <= 1 /\ (accepted = e => Total(e) = 0)
      /\ Pending(e) => Taken(e)
      /\ Taken(e) /\ Alive(e) /\ e \notin restoring => Pending(e)
  BY DEF TakenOnce
<1>2. queue[e] \in Nat /\ bundle[e] \in Nat /\ gone[e] \in Nat /\ lost[e] \in Nat /\ Total(e) \in Nat
  BY TotalsAreNat
<1>3. Total(e) = queue[e] + bundle[e] + gone[e] + lost[e]
  BY DEF Total
<1>4. Total(e) \in {0, 1} /\ queue[e] <= Total(e)
  BY <1>1, <1>2, <1>3
<1> QED BY <1>1, <1>2, <1>4

(* A sum of natural numbers is zero only when each of them is.              *)
LEMMA ZeroSum ==
  ASSUME NEW a \in Nat, NEW b \in Nat, NEW c \in Nat, NEW d \in Nat, a + b + c + d = 0
  PROVE  a = 0 /\ b = 0 /\ c = 0 /\ d = 0
  OBVIOUS

(* An envelope that counts zero is nowhere.                                 *)
LEMMA NothingTaken ==
  ASSUME LoopTypeOK, NEW e \in Envelopes, Total(e) = 0
  PROVE  queue[e] = 0 /\ bundle[e] = 0 /\ gone[e] = 0 /\ lost[e] = 0
<1>1. queue[e] \in Nat /\ bundle[e] \in Nat /\ gone[e] \in Nat /\ lost[e] \in Nat
  BY TotalsAreNat
<1>2. queue[e] + bundle[e] + gone[e] + lost[e] = 0
  BY DEF Total
<1> QED BY <1>1, <1>2, ZeroSum

(* Steps that keep each sum and only let the scheduler run keep TakenOnce.  *)
LEMMA SplitKept ==
  ASSUME AuditInv, SchedulerStep \/ Stop \/ UNCHANGED schedVars,
         accepted' = accepted, restoring' = restoring,
         \A e \in Envelopes : Total(e)' = Total(e)
  PROVE  TakenOnce'
  BY PendingUntilDue, TakenOnceKept DEF AuditInv, AuditPart

(* The map is not filled while there is no process.                         *)
LEMMA MapOnlyEmptied ==
  ASSUME SchedPart, SchedulerStep, NEW i \in Ids, signals[i] = None
  PROVE  signals'[i] = None
<1>1. ASSUME NEW w \in Workers, Finalize(w) PROVE signals'[i] = None
  BY <1>1 DEF Finalize, EntryDeleted, SchedPart, SchedTypeOK
<1> QED BY <1>1 DEF SchedulerStep, Analysis, Tick, TimerFires, Lookup, FetchPrice,
                    HandlerReturns

(* The scheduler's goroutines do not touch the loop's variables.            *)
LEMMA SchedulerStepAudit ==
  ASSUME AuditInv, SchedulerStep
  PROVE  AuditPart'
<1>1. UNCHANGED <<loop, restoring, accepted, queue, bundle, image, ctxDone, gone, lost, store, runs>>
  BY DEF SchedulerStep, loopVars, diskVars
<1>2. TakenOnce'
  BY <1>1, SplitKept DEF Total
<1>3. LoopTypeOK'
  BY <1>1 DEF AuditInv, AuditPart, LoopTypeOK
<1>4. LoopShape'
  BY <1>1, MapOnlyEmptied DEF AuditInv, AuditPart, LoopShape
<1>5. RestoresSavable' /\ Savable(store)' /\ Savable(image)'
  BY <1>1 DEF AuditInv, AuditPart, RestoresSavable, Savable
<1> QED BY <1>2, <1>3, <1>4, <1>5 DEF AuditPart

(* These steps only move the loop on.                                       *)
LEMMA ControlAudit ==
  ASSUME AuditInv, RestoreDone \/ FlushEmpty \/ StopLoop \/ Cancel \/ UNCHANGED vars
  PROVE  AuditPart'
<1> USE DEF RestoreDone, FlushEmpty, StopLoop, Cancel, vars, schedVars, loopVars, diskVars
<1>1. UNCHANGED <<restoring, accepted, queue, bundle, image, gone, lost, store, runs, signals>>
  BY DEF Stop
<1>2. TakenOnce'
  BY <1>1, SplitKept DEF Total
<1>3. LoopTypeOK'
  BY <1>1 DEF AuditInv, AuditPart, LoopTypeOK
<1>4. LoopShape'
  BY <1>1 DEF AuditInv, AuditPart, LoopShape
<1>5. RestoresSavable' /\ Savable(store)' /\ Savable(image)'
  BY <1>1 DEF AuditInv, AuditPart, RestoresSavable, Savable
<1> QED BY <1>2, <1>3, <1>4, <1>5 DEF AuditPart

----------------------------------------------------------------------------
(* Flushing moves envelopes between the queue, the bundle, the batches that *)
(* were uploaded and those that were given up, and keeps their sum.                                     *)
LEMMA ConcatSlices ==
  ASSUME NEW s \in Slices, NEW t \in Slices
  PROVE  Concat(s, t) \in Slices /\ \A e \in Envelopes : Concat(s, t)[e] = s[e] + t[e]
  BY DEF Concat, Slices

(* A flush keeps every sum, whether it succeeds or fails.                   *)
LEMMA FlushAudit ==
  ASSUME AuditInv, FlushBegins \/ BundleUploaded \/ BundleLost \/ UploadFails
  PROVE  AuditPart'
<1> USE DEF AuditInv, AuditPart
<1>1. /\ UNCHANGED <<schedVars, restoring, accepted, image, store, runs, ctxDone>>
      /\ loop \notin {"down", "restore", "accept"} /\ loop' \notin {"down", "restore", "accept"}
  BY DEF FlushBegins, BundleUploaded, BundleLost, UploadFails, FlushReturns, diskVars
<1>2. /\ queue' \in Slices /\ bundle' \in Slices /\ gone' \in Slices /\ lost' \in Slices
      /\ \A e \in Envelopes : queue'[e] + bundle'[e] + gone'[e] + lost'[e]
                               = queue[e] + bundle[e] + gone[e] + lost[e]
  <2>1. queue \in Slices /\ bundle \in Slices /\ gone \in Slices /\ lost \in Slices
    BY DEF LoopTypeOK
  <2>2. \A e \in Envelopes : queue[e] \in Nat /\ bundle[e] \in Nat /\ gone[e] \in Nat /\ lost[e] \in Nat
    BY TotalsAreNat
  <2>3. CASE FlushBegins
    <3>1. bundle = Empty /\ bundle' = queue /\ queue' = Empty /\ gone' = gone /\ lost' = lost
      BY <2>3 DEF FlushBegins, QueueEmptied, LoopShape
    <3> QED BY <3>1, <2>1, <2>2, EmptySlice
  <2>4. CASE BundleUploaded
    <3>1. bundle' = Empty /\ queue' = queue /\ gone' = Concat(gone, bundle) /\ lost' = lost
      BY <2>4 DEF BundleUploaded, FlushReturns
    <3> QED BY <3>1, <2>1, <2>2, EmptySlice, ConcatSlices
  <2>6. CASE BundleLost
    <3>1. bundle' = Empty /\ queue' = queue /\ gone' = gone /\ lost' = Concat(lost, bundle)
      BY <2>6 DEF BundleLost, FlushReturns
    <3> QED BY <3>1, <2>1, <2>2, EmptySlice, ConcatSlices
  <2>5. CASE UploadFails
    <3>1. bundle' = Empty /\ queue' = Concat(bundle, queue) /\ gone' = gone /\ lost' = lost
      BY <2>5 DEF UploadFails, FlushReturns, Requeued
    <3> QED BY <3>1, <2>1, <2>2, EmptySlice, ConcatSlices
  <2> QED BY <2>3, <2>4, <2>5, <2>6
<1>3. TakenOnce'
  BY <1>1, <1>2, SplitKept DEF Total
<1>4. LoopTypeOK'
  BY <1>1, <1>2 DEF LoopTypeOK, FlushBegins, BundleUploaded, BundleLost, UploadFails, FlushReturns
<1>5. LoopShape'
  <2>1. loop' \notin {"upload", "lastUpload"} => bundle' = Empty
    BY DEF FlushBegins, BundleUploaded, BundleLost, UploadFails, FlushReturns
  <2>2. accepted = None /\ restoring = {}
    BY <1>1 DEF LoopShape
  <2> QED BY <1>1, <2>1, <2>2 DEF LoopShape
<1>6. RestoresSavable' /\ Savable(store)' /\ Savable(image)'
  BY <1>1 DEF RestoresSavable, Savable
<1> QED BY <1>3, <1>4, <1>5, <1>6

(* What is saved is alive, hence scheduled: one envelope of an id, once.    *)
LEMMA SaveBeginsAudit ==
  ASSUME AuditInv, SaveBegins
  PROVE  AuditPart'
<1> USE SchedulerAssumption DEF AuditInv, AuditPart
<1>1. /\ UNCHANGED <<schedVars, restoring, accepted, queue, bundle, gone, lost, store, runs, ctxDone>>
      /\ loop = "select" /\ loop' \in {"save", "lastSave"}
      /\ image' = [e \in Envelopes |-> IF Alive(e) THEN queue[e] ELSE 0]
  BY DEF SaveBegins, diskVars
<1>2. TakenOnce'
  BY <1>1, SplitKept DEF Total
<1>3. ASSUME NEW e \in Envelopes
      PROVE  queue[e] \in Nat /\ queue[e] <= 1 /\ (queue[e] > 0 => Total(e) > 0)
  BY TakenOnceAt
<1>4. image' \in Slices
  BY <1>1, <1>3 DEF Slices
<1>5. LoopTypeOK' /\ LoopShape' /\ RestoresSavable' /\ Savable(store)'
  BY <1>1, <1>4 DEF LoopTypeOK, LoopShape, RestoresSavable, Savable
<1>6. ASSUME NEW e \in Envelopes PROVE image'[e] <= 1 /\ (image'[e] > 0 => Pending(e))
  <2>1. CASE Alive(e)
    <3>1. image'[e] = queue[e]
      BY <2>1, <1>1
    <3>2. queue[e] > 0 => Taken(e) /\ e \notin restoring
      BY <1>1, <1>3 DEF Taken, LoopShape
    <3>3. queue[e] > 0 => Pending(e)
      BY <3>2, <2>1, TakenOnceAt
    <3> QED BY <3>1, <3>3, <1>3
  <2>2. CASE ~Alive(e)
    BY <2>2, <1>1
  <2> QED BY <2>1, <2>2
<1>7. Savable(image)'
  <2>1. ASSUME NEW e \in Envelopes, NEW f \in Envelopes,
               image'[e] > 0, image'[f] > 0, IdOf[e] = IdOf[f]
        PROVE  e = f
    BY <2>1, <1>6 DEF Pending
  <2> QED BY <1>6, <2>1 DEF Savable
<1> QED BY <1>2, <1>5, <1>7

(* What is read back is the old store, the saved image or nothing.          *)
LEMMA SaveReturnsAudit ==
  ASSUME AuditInv, SaveSucceeds \/ SaveFails
  PROVE  AuditPart'
<1> USE DEF AuditInv, AuditPart
<1>1. /\ UNCHANGED <<schedVars, restoring, accepted, queue, bundle, gone, lost, runs, ctxDone>>
      /\ loop \in {"save", "lastSave"} /\ loop' \in {"select", "lastFlush"}
      /\ image' = Empty /\ store' \in {store, image, Empty}
  BY DEF SaveSucceeds, SaveFails, SaveReturns
<1>2. TakenOnce'
  BY <1>1, SplitKept DEF Total
<1>3. store' \in Slices /\ image' \in Slices /\ Savable(store') /\ Savable(image')
  BY <1>1, EmptySlice DEF LoopTypeOK
<1>4. LoopTypeOK' /\ LoopShape' /\ RestoresSavable'
  BY <1>1, <1>3 DEF LoopTypeOK, LoopShape, RestoresSavable
<1>5. Savable(store)' /\ Savable(image)'
  BY <1>3 DEF Savable
<1> QED BY <1>2, <1>4, <1>5

----------------------------------------------------------------------------
(* Rescheduling a loaded envelope: when its id is held already, the holder  *)
(* was loaded too, and the store held one envelope of that id.              *)
LEMMA RestoreAudit ==
  ASSUME AuditInv, NEW e \in Envelopes, Restore(e)
  PROVE  AuditPart'
<1> USE SchedulerAssumption DEF AuditInv, AuditPart
<1>1. /\ UNCHANGED <<loop, accepted, queue, bundle, image, gone, lost, store, runs, ctxDone>>
      /\ loop = "restore" /\ e \in restoring /\ restoring' = restoring \ {e}
      /\ accepted = None /\ bundle = Empty /\ gone = Empty /\ lost = Empty
  BY DEF Restore, diskVars, LoopShape
<1>2. Savable(queue) /\ queue[e] > 0
  BY <1>1 DEF RestoresSavable
<1>3. ASSUME NEW f \in Envelopes, f # e
      PROVE  (Pending(f)' <=> Pending(f)) /\ (Alive(f)' <=> Alive(f))
  BY <1>3, AddSignalPending DEF Restore, schedVars, Pending, Alive
<1>4. Total(e) > 0
  BY <1>2, TakenOnceAt
<1>5. Alive(e)' => Pending(e)'
  <2>1. CASE AddSignal(e)
    BY <2>1, AddSignalPending
  <2>2. CASE (~Alive(e) \/ signals[IdOf[e]] # None) /\ UNCHANGED schedVars
    <3> SUFFICES ASSUME Alive(e), signals[IdOf[e]] # None
                 PROVE  Pending(e)
      BY <2>2 DEF Alive, Pending, schedVars
    <3>1. PICK g \in Envelopes : object[signals[IdOf[e]]] = g /\ IdOf[g] = IdOf[e]
      BY DEF SchedPart, MapWellFormed
    <3>2. Pending(g)
      BY <3>1 DEF Pending
    <3>3. accepted # g
      BY <1>1
    <3>4. Total(g) > 0
      BY <3>2, <3>3, TakenOnceAt DEF Taken
    <3>5. queue[g] > 0
      <4>1. bundle[g] = 0 /\ gone[g] = 0 /\ lost[g] = 0 /\ queue[g] \in Nat
        BY <1>1, EmptySlice, TakenOnceAt
      <4> QED BY <4>1, <3>4 DEF Total
    <3>6. g = e
      BY <3>1, <3>5, <1>2 DEF Savable
    <3> QED BY <3>2, <3>6
  <2> QED BY <2>1, <2>2 DEF Restore
<1>6. TakenOnce'
  <2>1. ASSUME NEW f \in Envelopes
        PROVE  /\ Total(f) <= 1 /\ accepted # f
               /\ Pending(f)' => Total(f) > 0
               /\ Total(f) > 0 /\ Alive(f)' /\ f \notin restoring' => Pending(f)'
    <3>1. accepted # f /\ Total(f) <= 1
      BY <1>1, TakenOnceAt
    <3>2. CASE f = e
      BY <3>1, <3>2, <1>4, <1>5
    <3>3. CASE f # e
      <4>1. (Pending(f)' <=> Pending(f)) /\ (Alive(f)' <=> Alive(f))
        BY <3>3, <1>3
      <4>2. f \notin restoring' => f \notin restoring
        BY <3>3, <1>1
      <4>3. Pending(f) => Total(f) > 0
        BY <3>1, TakenOnceAt DEF Taken
      <4>4. Total(f) > 0 /\ Alive(f) /\ f \notin restoring => Pending(f)
        BY TakenOnceAt DEF Taken
      <4> QED BY <3>1, <4>1, <4>2, <4>3, <4>4
    <3> QED BY <3>2, <3>3
  <2>2. accepted' = accepted /\ \A f \in Envelopes : Total(f)' = Total(f)
    BY <1>1 DEF Total
  <2> QED BY <2>1, <2>2 DEF TakenOnce, Taken
<1>7. LoopTypeOK' /\ LoopShape' /\ RestoresSavable' /\ Savable(store)' /\ Savable(image)'
  BY <1>1 DEF LoopTypeOK, LoopShape, RestoresSavable, Savable
<1> QED BY <1>6, <1>7

(* A submission is accepted only while its id is free: a signal still alive *)
(* that is taken already is scheduled, so this is its first time.           *)
LEMMA ProcessIncomingAudit ==
  ASSUME AuditInv, NEW e \in Envelopes, ProcessIncomingSignal(e)
  PROVE  AuditPart'
<1> USE SchedulerAssumption DEF AuditInv, AuditPart
<1>1. /\ UNCHANGED <<restoring, queue, bundle, image, gone, lost, store, runs, ctxDone>>
      /\ loop = "select" /\ loop' = "accept" /\ accepted' = e /\ AddSignal(e)
      /\ accepted = None /\ restoring = {}
  BY DEF ProcessIncomingSignal, diskVars, LoopShape
<1>2. /\ Alive(e) /\ ~Pending(e) /\ Pending(e)'
      /\ \A f \in Envelopes : /\ Alive(f)' <=> Alive(f)
                              /\ f # e => (Pending(f)' <=> Pending(f))
  BY <1>1, AddSignalPending
<1>3. Total(e) = 0
  <2>1. ~(Total(e) > 0)
    BY <1>1, <1>2, TakenOnceAt DEF Taken
  <2> QED BY <2>1, TakenOnceAt
<1>4. TakenOnce'
  <2>1. ASSUME NEW f \in Envelopes
        PROVE  /\ Total(f) <= 1 /\ (e = f => Total(f) = 0)
               /\ Pending(f)' => e = f \/ Total(f) > 0
               /\ (e = f \/ Total(f) > 0) /\ Alive(f)' => Pending(f)'
    <3>1. CASE f = e
      BY <3>1, <1>2, <1>3
    <3>2. CASE f # e
      <4>1. (Pending(f)' <=> Pending(f)) /\ (Alive(f)' <=> Alive(f))
        BY <3>2, <1>2
      <4>2. Total(f) <= 1 /\ accepted # f
        BY <1>1, TakenOnceAt
      <4>3. Pending(f) => Total(f) > 0
        BY <4>2, TakenOnceAt DEF Taken
      <4>4. Total(f) > 0 /\ Alive(f) => Pending(f)
        BY <1>1, TakenOnceAt DEF Taken
      <4> QED BY <3>2, <4>1, <4>2, <4>3, <4>4
    <3> QED BY <3>1, <3>2
  <2>2. \A f \in Envelopes : Total(f)' = Total(f)
    BY <1>1 DEF Total
  <2> QED BY <2>1, <2>2, <1>1 DEF TakenOnce, Taken
<1>5. LoopTypeOK' /\ LoopShape' /\ RestoresSavable' /\ Savable(store)' /\ Savable(image)'
  BY <1>1 DEF LoopTypeOK, LoopShape, RestoresSavable, Savable
<1> QED BY <1>4, <1>5

(* The accepted envelope counts zero before it is queued, and one after.    *)
LEMMA QueueForBatchingAudit ==
  ASSUME AuditInv, QueueForBatching
  PROVE  AuditPart'
<1> USE SchedulerAssumption DEF AuditInv, AuditPart
<1>1. /\ UNCHANGED <<schedVars, restoring, bundle, image, gone, lost, store, runs, ctxDone>>
      /\ loop = "accept" /\ loop' = "select" /\ accepted' = None /\ restoring = {}
      /\ accepted \in Envelopes /\ queue \in Slices /\ bundle = Empty
      /\ queue' = [queue EXCEPT ![accepted] = @ + 1]
  BY DEF QueueForBatching, diskVars, LoopShape, LoopTypeOK
<1>2. queue' \in Slices
  BY <1>1 DEF Slices
<1>3. TakenOnce'
  <2>1. ASSUME NEW f \in Envelopes
        PROVE  /\ Total(f)' <= 1 /\ accepted' # f
               /\ Pending(f) => Total(f)' > 0
               /\ Total(f)' > 0 /\ Alive(f) => Pending(f)
    <3>1. queue[f] \in Nat /\ bundle[f] \in Nat /\ gone[f] \in Nat /\ lost[f] \in Nat /\ accepted' # f
      BY <1>1, TakenOnceAt
    <3>2. CASE f = accepted
      <4>1. Total(f) = 0 /\ queue'[f] = queue[f] + 1 /\ bundle' = bundle /\ gone' = gone /\ lost' = lost
        BY <3>2, <1>1, TakenOnceAt DEF Slices
      <4>2. Total(f)' = 1
        <5>1. queue[f] = 0 /\ bundle[f] = 0 /\ gone[f] = 0 /\ lost[f] = 0
          BY <4>1, NothingTaken
        <5>2. queue'[f] = 1 /\ bundle'[f] = 0 /\ gone'[f] = 0 /\ lost'[f] = 0
          BY <4>1, <5>1
        <5> QED BY <5>2 DEF Total
      <4>3. Alive(f) => Pending(f)
        BY <3>2, <1>1, TakenOnceAt DEF Taken
      <4> QED BY <3>1, <4>2, <4>3
    <3>3. CASE f # accepted
      <4>1. Total(f)' = Total(f)
        BY <3>3, <1>1 DEF Total, Slices
      <4>2. Total(f) <= 1
        BY TakenOnceAt
      <4>3. Pending(f) => Total(f) > 0
        BY <3>3, TakenOnceAt DEF Taken
      <4>4. Total(f) > 0 /\ Alive(f) => Pending(f)
        BY <1>1, TakenOnceAt DEF Taken
      <4> QED BY <3>1, <4>1, <4>2, <4>3, <4>4
    <3> QED BY <3>2, <3>3
  <2>2. \A f \in Envelopes : (Pending(f)' <=> Pending(f)) /\ (Alive(f)' <=> Alive(f))
    BY <1>1 DEF schedVars, Pending, Alive
  <2> QED BY <2>1, <2>2 DEF TakenOnce, Taken
<1>4. LoopTypeOK' /\ LoopShape' /\ RestoresSavable' /\ Savable(store)' /\ Savable(image)'
  BY <1>1, <1>2 DEF LoopTypeOK, LoopShape, RestoresSavable, Savable
<1> QED BY <1>3, <1>4

(* A new process holds what the store holds, and nothing is scheduled yet.  *)
LEMMA BootAudit ==
  ASSUME AuditInv, Boot
  PROVE  AuditPart'
<1> USE SchedulerAssumption, BatcherAssumption DEF AuditInv, AuditPart
<1>0. PICK loaded \in Load(store) :
             queue' = Concat(queue, loaded.read) /\ restoring' = In(loaded.read)
             /\ store' = loaded.left
  BY DEF Boot
<1> DEFINE file == loaded.read
<1>a. file \in {store, Empty} /\ store' \in {store, Empty}
  BY <1>0 DEF Load
<1>b. file \in Slices /\ Savable(file) /\ store' \in Slices /\ Savable(store')
  BY <1>a, EmptySlice DEF LoopTypeOK
<1>1. /\ UNCHANGED <<schedVars, accepted, bundle, image, gone, lost, ctxDone>>
      /\ loop = "down" /\ loop' = "restore" /\ restoring' = In(file)
      /\ accepted = None /\ bundle = Empty /\ gone = Empty /\ lost = Empty /\ queue = Empty
      /\ queue' = Concat(queue, file)
      /\ runs < MaxRuns /\ runs' = runs + 1 /\ runs \in 0 .. MaxRuns
      /\ \A i \in Ids : signals[i] = None
  BY <1>0 DEF Boot, LoopShape, LoopTypeOK
<1> HIDE DEF file
<1>2. queue' \in Slices /\ \A e \in Envelopes : queue'[e] = file[e] /\ file[e] \in Nat
  <2>1. queue' \in Slices /\ \A e \in Envelopes : queue'[e] = 0 + file[e]
    BY <1>1, <1>b, EmptySlice, ConcatSlices
  <2> QED BY <1>1, <1>b, <2>1 DEF Slices
<1>3. ASSUME NEW e \in Envelopes
      PROVE  /\ Total(e)' <= 1 /\ accepted' # e /\ ~Pending(e)'
             /\ Total(e)' > 0 => e \in restoring'
  <2>1. bundle'[e] = 0 /\ gone'[e] = 0 /\ lost'[e] = 0 /\ accepted' # e
    BY <1>1, EmptySlice
  <2>2. Total(e)' = file[e]
    BY <2>1, <1>2 DEF Total
  <2>3. file[e] <= 1 /\ (file[e] > 0 => e \in restoring')
    BY <1>1, <1>b DEF Savable, In
  <2>4. ~Pending(e)'
    BY <1>1 DEF schedVars, Pending
  <2> QED BY <2>1, <2>2, <2>3, <2>4
<1>4. TakenOnce'
  BY <1>3 DEF TakenOnce, Taken
<1>5. RestoresSavable'
  <2>1. Savable(queue)'
    BY <1>2, <1>b DEF Savable
  <2>2. \A e \in restoring' : queue'[e] > 0
    BY <1>1, <1>2 DEF In
  <2> QED BY <2>1, <2>2 DEF RestoresSavable
<1>6. LoopTypeOK' /\ LoopShape' /\ Savable(store)' /\ Savable(image)'
  <2>1. runs' \in 0 .. MaxRuns /\ restoring' \in SUBSET Envelopes
    BY <1>1 DEF In
  <2> QED BY <1>1, <1>2, <1>b, <2>1 DEF LoopTypeOK, LoopShape, Savable
<1> QED BY <1>4, <1>5, <1>6

(* The memory is empty, and the store is one of three savable slices.       *)
LEMMA ProcessEndsAudit ==
  ASSUME AuditInv, ProcessEnds
  PROVE  AuditPart'
<1> USE SchedulerAssumption DEF AuditInv, AuditPart
<1>1. /\ loop' = "down" /\ restoring' = {} /\ accepted' = None /\ queue' = Empty
      /\ bundle' = Empty /\ image' = Empty /\ gone' = Empty /\ lost' = Empty /\ ctxDone' = FALSE
      /\ store' \in {store, image, Empty} /\ runs' = runs
      /\ signals' = [i \in Ids |-> None]
  BY DEF ProcessEnds
<1>2. store' \in Slices /\ Savable(store') /\ Savable(image')
  BY <1>1, EmptySlice DEF LoopTypeOK
<1>3. ASSUME NEW e \in Envelopes
      PROVE  Total(e)' = 0 /\ accepted' # e /\ ~Pending(e)'
  <2>1. queue'[e] = 0 /\ bundle'[e] = 0 /\ gone'[e] = 0 /\ lost'[e] = 0
    BY <1>1, EmptySlice
  <2>2. Total(e)' = 0
    BY <2>1 DEF Total
  <2> QED BY <1>1, <2>2 DEF Pending
<1>4. TakenOnce'
  <2> SUFFICES ASSUME NEW e \in Envelopes
               PROVE  /\ Total(e)' <= 1 /\ accepted' # e /\ ~Pending(e)'
                      /\ ~(Total(e)' > 0)
    BY DEF TakenOnce, Taken
  <2> QED BY <1>3
<1>5. LoopTypeOK' /\ LoopShape' /\ RestoresSavable'
  BY <1>1, <1>2, EmptySlice DEF LoopTypeOK, LoopShape, RestoresSavable
<1>6. Savable(store)' /\ Savable(image)'
  BY <1>2 DEF Savable
<1> QED BY <1>4, <1>5, <1>6

(* Every step preserves the invariant.                                      *)
LEMMA AuditInvNext == AuditInv /\ [Next]_vars => AuditInv'
<1> SUFFICES ASSUME AuditInv, [Next]_vars PROVE AuditPart'
  BY SchedPartNext DEF AuditInv
<1>1. CASE SchedulerStep
  BY <1>1, SchedulerStepAudit
<1>2. CASE LoopStep
  BY <1>2, RestoreAudit, ProcessIncomingAudit, QueueForBatchingAudit, ControlAudit,
     FlushAudit, SaveBeginsAudit, SaveReturnsAudit DEF LoopStep, DropBundle, TransferFails
<1>3. CASE Boot
  BY <1>3, BootAudit
<1>4. CASE Cancel \/ UNCHANGED vars
  BY <1>4, ControlAudit
<1>5. CASE Exit \/ Crash
  BY <1>5, ProcessEndsAudit DEF Exit, Crash
<1> QED BY <1>1, <1>2, <1>3, <1>4, <1>5 DEF Next

(* The invariant holds throughout.                                          *)
LEMMA AuditInvariant == Spec => []AuditInv
  BY AuditInitInv, AuditInvNext, PTL DEF Spec

(* Every variable of the sequencer keeps its type.                          *)
THEOREM BatcherTypeCorrect == Spec => []TypeOK
<1>1. AuditInv => TypeOK
  BY DEF AuditInv, AuditPart, SchedPart, LoopTypeOK, TypeOK
<1> QED BY <1>1, AuditInvariant, PTL

(* flushTo0G never puts an envelope into two batches of one run, whatever   *)
(* uploads fail and whatever is submitted again meanwhile.                  *)
THEOREM BatcherBatchedAtMostOnce == Spec => []BatchedAtMostOnce
<1>1. AuditInv => BatchedAtMostOnce
  BY DEF AuditInv, AuditPart, TakenOnce, Total, BatchedAtMostOnce
<1> QED BY <1>1, AuditInvariant, PTL

(* A signal in the scheduler's map is being accepted, or is once in the     *)
(* queue, in the batch under way, in an uploaded one, or in one that        *)
(* flushTo0G gave up in one of its two ways.                                *)
THEOREM BatcherScheduledIsBatched == Spec => []ScheduledIsBatched
<1>1. ASSUME AuditInv PROVE ScheduledIsBatched
  <2> SUFFICES ASSUME NEW e \in Envelopes, Pending(e)
               PROVE  accepted = e \/ queue[e] + bundle[e] + gone[e] + lost[e] = 1
    BY DEF ScheduledIsBatched
  <2>1. Total(e) \in {0, 1} /\ Taken(e)
    BY <1>1, TakenOnceAt DEF AuditInv, AuditPart
  <2> QED BY <2>1 DEF Taken, Total
<1> QED BY <1>1, AuditInvariant, PTL

============================================================================
