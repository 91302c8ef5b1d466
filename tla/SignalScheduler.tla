-------------------------- MODULE SignalScheduler --------------------------
(***************************************************************************)
(* The in-memory scheduler of internal/scheduler/scheduler.go: a map from   *)
(* signal id to a scheduledSignal object, one timer per object, and the     *)
(* goroutines that analyse a signal when its timer fires.  An analysis      *)
(* looks the signal up under the mutex, releases it to fetch a price, and   *)
(* takes it again to finalize, so anything may happen in between.           *)
(*                                                                          *)
(* Each *scheduledSignal the program allocates is a registration number in  *)
(* Regs; `object' and `results' are the history of those objects.           *)
(***************************************************************************)
EXTENDS Naturals

CONSTANTS
  Envelopes,         \* signed submissions (types.SignalEnvelope)
  Ids,               \* "<node>_<timestamp>" keys of the signals map
  IdOf,              \* the id of an envelope
  Expiry,            \* payload.ExpiryTime of an envelope
  Workers,           \* goroutines that may analyse at the same time (bound)
  None,              \* the nil pointer
  MaxClock,          \* last instant modelled (bound)
  MaxRegistrations   \* scheduledSignal objects ever allocated (bound)

ASSUME SchedulerAssumption ==
  /\ IdOf \in [Envelopes -> Ids]
  /\ Expiry \in [Envelopes -> Nat]
  /\ MaxClock \in Nat
  /\ MaxRegistrations \in Nat
  /\ None \notin Envelopes \cup Ids \cup Nat

Regs == 1 .. MaxRegistrations

VARIABLES
  clock,       \* time.Now().Unix()
  signals,     \* s.signals: id -> registration or None
  timers,      \* registrations whose time.AfterFunc is still armed
  cancelled,   \* s.ctx has been cancelled by Stop
  worker,      \* the goroutines inside analyzeSignal / finalizeSignal
  nreg,        \* history: registrations made so far
  object,      \* history: the envelope of each registration
  results      \* history: result handler calls made for each registration

schedVars == <<clock, signals, timers, cancelled, worker, nreg, object, results>>

Idle == [pc |-> "idle", id |-> None, closed |-> None]

WorkerStates ==
  [pc : {"idle", "lookup", "fetch", "finalize", "handle"},
   id : Ids \cup {None},
   closed : Regs \cup {None}]

SchedInit ==
  /\ clock = 0
  /\ signals = [i \in Ids |-> None]
  /\ timers = {}
  /\ cancelled = FALSE
  /\ worker = [w \in Workers |-> Idle]
  /\ nreg = 0
  /\ object = [r \in Regs |-> None]
  /\ results = [r \in Regs |-> 0]

Pending(e) == signals[IdOf[e]] # None /\ object[signals[IdOf[e]]] = e

AliveAtExpiry(e) == Expiry[e] >= clock
Alive(e) == Expiry[e] > clock

----------------------------------------------------------------------------
(* AddSignal that succeeds.  A duplicate id or a passed expiry returns an   *)
(* error and changes nothing.                                               *)
AddSignal(e) ==
  /\ signals[IdOf[e]] = None
  /\ Alive(e)
  /\ nreg < MaxRegistrations
  /\ nreg' = nreg + 1
  /\ object' = [object EXCEPT ![nreg + 1] = e]
  /\ signals' = [signals EXCEPT ![IdOf[e]] = nreg + 1]
  /\ timers' = timers \cup {nreg + 1}
  /\ UNCHANGED <<clock, cancelled, worker, results>>

(* time.AfterFunc: the timer of r starts a goroutine at or after the expiry *)
TimerFires(w, r) ==
  /\ r \in timers
  /\ clock >= Expiry[object[r]]
  /\ worker[w] = Idle
  /\ timers' = timers \ {r}
  /\ worker' = [worker EXCEPT ![w] =
                  [pc |-> "lookup", id |-> IdOf[object[r]], closed |-> None]]
  /\ UNCHANGED <<clock, signals, cancelled, nreg, object, results>>

(* ForceAnalyze: the caller's own goroutine stops the timer under the mutex *)
(* and goes on to analyse; a timer that has already fired is not recalled.  *)
ForceAnalyze(w, i) ==
  /\ signals[i] # None
  /\ worker[w] = Idle
  /\ timers' = timers \ {signals[i]}
  /\ worker' = [worker EXCEPT ![w] =
                  [pc |-> "lookup", id |-> i, closed |-> None]]
  /\ UNCHANGED <<clock, signals, cancelled, nreg, object, results>>

(* analyzeSignal, first critical section: return when the id is unknown.    *)
Lookup(w) ==
  /\ worker[w].pc = "lookup"
  /\ worker' = [worker EXCEPT ![w] =
                  IF signals[worker[w].id] = None
                  THEN Idle
                  ELSE [@ EXCEPT !.pc = "fetch"]]
  /\ UNCHANGED <<clock, signals, timers, cancelled, nreg, object, results>>

FetchPriceDroppingErrors(w) ==
  /\ worker[w].pc = "fetch"
  /\ worker' \in {[worker EXCEPT ![w].pc = "finalize"], [worker EXCEPT ![w] = Idle]}
  /\ UNCHANGED <<clock, signals, timers, cancelled, nreg, object, results>>

(* The unlocked price request and, when it answers, evaluateSignal; an      *)
(* error is finalized too (EXPIRED, no price), so both outcomes go on.      *)
FetchPrice(w) ==
  /\ worker[w].pc = "fetch"
  /\ worker' = [worker EXCEPT ![w].pc = "finalize"]
  /\ UNCHANGED <<clock, signals, timers, cancelled, nreg, object, results>>

(* delete(s.signals, id)                                                    *)
EntryKept(i) == signals
EntryDeleted(i) == [signals EXCEPT ![i] = None]

(* finalizeSignal: whoever finds the id still in the map deletes it and,    *)
(* outside the mutex, calls the result handler for the object it found.     *)
Finalize(w) ==
  LET i == worker[w].id
      r == signals[i]
  IN /\ worker[w].pc = "finalize"
     /\ \/ /\ r = None
           /\ worker' = [worker EXCEPT ![w] = Idle]
           /\ UNCHANGED <<signals, results>>
        \/ /\ r # None
           /\ signals' = EntryDeleted(i)
           /\ results' = [results EXCEPT ![r] = @ + 1]
           /\ worker' = [worker EXCEPT ![w] =
                           [pc |-> "handle", id |-> i, closed |-> r]]
     /\ UNCHANGED <<clock, timers, cancelled, nreg, object>>

(* The result handler returns and the goroutine ends.                       *)
HandlerReturns(w) ==
  /\ worker[w].pc = "handle"
  /\ worker' = [worker EXCEPT ![w] = Idle]
  /\ UNCHANGED <<clock, signals, timers, cancelled, nreg, object, results>>

(* Stop cancels the context and disarms every timer still in the map; the   *)
(* entries stay and analyses under way carry on.                            *)
Stop ==
  /\ ~cancelled
  /\ cancelled' = TRUE
  /\ timers' = {r \in timers : signals[IdOf[object[r]]] # r}
  /\ UNCHANGED <<clock, signals, worker, nreg, object, results>>

Tick ==
  /\ clock < MaxClock
  /\ clock' = clock + 1
  /\ UNCHANGED <<signals, timers, cancelled, worker, nreg, object, results>>

Analysis(w) == Lookup(w) \/ FetchPrice(w) \/ Finalize(w) \/ HandlerReturns(w)

SchedNext ==
  \/ Tick
  \/ Stop
  \/ \E e \in Envelopes : AddSignal(e)
  \/ \E w \in Workers, r \in Regs : TimerFires(w, r)
  \/ \E w \in Workers, i \in Ids : ForceAnalyze(w, i)
  \/ \E w \in Workers : Analysis(w)

(* Time passes, an armed timer whose time has come fires (the Go runtime    *)
(* never drops one) and a started goroutine runs to its end: the price      *)
(* request has an HTTP timeout and the mutex is held only briefly.          *)
SchedFairness ==
  /\ WF_schedVars(Tick)
  /\ \A r \in Regs : WF_schedVars(\E w \in Workers : TimerFires(w, r))
  /\ \A w \in Workers : WF_schedVars(Analysis(w))

SchedSpec == SchedInit /\ [][SchedNext]_schedVars

FairSchedSpec == SchedSpec /\ SchedFairness

----------------------------------------------------------------------------
(* Every variable has its type.                                             *)
SchedTypeOK ==
  /\ clock \in Nat
  /\ signals \in [Ids -> Regs \cup {None}]
  /\ timers \in SUBSET Regs
  /\ cancelled \in BOOLEAN
  /\ worker \in [Workers -> WorkerStates]
  /\ nreg \in 0 .. MaxRegistrations
  /\ object \in [Regs -> Envelopes \cup {None}]
  /\ results \in [Regs -> Nat]

(* The map entry of an id is a live object registered under that id.        *)
MapWellFormed ==
  \A i \in Ids : signals[i] # None =>
    /\ signals[i] <= nreg
    /\ object[signals[i]] \in Envelopes
    /\ IdOf[object[signals[i]]] = i

Registered(r) == signals[IdOf[object[r]]] = r

(* However the timer goroutine of a signal, a forced analysis and a new     *)
(* submission under the same id interleave between the two critical         *)
(* sections of analyzeSignal, a registration is either still in the map or  *)
(* has been handed to the result handler exactly once: none is lost and     *)
(* none is scored twice.                                                    *)
ExactlyOneResult ==
  \A r \in Regs :
    results[r] = IF r <= nreg /\ ~Registered(r) THEN 1 ELSE 0

(* No registered signal is orphaned: until Stop, its timer is armed or some *)
(* goroutine is on its way to finalize whatever its id holds.               *)
AnalysisOnItsWay ==
  \A i \in Ids : signals[i] # None /\ ~cancelled =>
    \/ signals[i] \in timers
    \/ \E w \in Workers :
         worker[w].id = i /\ worker[w].pc \in {"lookup", "fetch", "finalize"}

(* A signal that was scheduled gets its result, unless the scheduler is     *)
(* stopped first.                                                           *)
EventuallyAnalysed ==
  \A r \in Regs : r <= nreg ~> (cancelled \/ results[r] > 0)

=============================================================================
