-------------------------- MODULE SchedulerBatcher --------------------------
(***************************************************************************)
(* The L2 sequencer of internal/ingester/scheduler_batcher.go around the    *)
(* scheduler: one select loop that accepts submissions, flushes batches to  *)
(* 0G Storage and saves the encrypted store, run by a process that may      *)
(* crash, be shut down (cmd/verifier/main.go) and be started again.  The    *)
(* scheduler's goroutines run beside the loop at every step.                *)
(*                                                                          *)
(* A []SignalEnvelope is the number of occurrences of each envelope in it.  *)
(* Rejected submissions only log, so they are not steps.  The ACTIVE event  *)
(* sent on acceptance belongs to the event stream and the on-chain anchor   *)
(* of a batch, whose failure is only logged, changes nothing modelled here. *)
(***************************************************************************)
EXTENDS SignalScheduler

CONSTANTS
  MinLead,   \* MinExpiryMinutes: least time to expiry Validate accepts
  MaxLead,   \* MaxExpiryHours: most time to expiry Validate accepts
  MaxRuns    \* times the process is started (bound)

ASSUME BatcherAssumption ==
  /\ MinLead \in Nat /\ MaxLead \in Nat
  /\ MaxRuns \in Nat

VARIABLES
  loop,       \* where the Start goroutine is; "down" when there is no process
  restoring,  \* loaded envelopes Start has not yet rescheduled
  accepted,   \* the submission scheduled but not yet queued, or None
  queue,      \* b.signals
  bundle,     \* the batch being uploaded
  image,      \* the slice being written to the store
  store,      \* active_signals.enc as Load would read it (corrupt reads empty)
  ctxDone,    \* main has cancelled the batcher's context
  runs,       \* process starts so far
  gone,       \* history: times an envelope was uploaded in this run
  lost        \* history: times an envelope was given up in this run, by
              \* DropBundle or TransferFails

loopVars == <<loop, restoring, accepted, queue, bundle, image, ctxDone, gone, lost>>
diskVars == <<store, runs>>
vars == <<schedVars, loopVars, diskVars>>

Slices == [Envelopes -> Nat]
Empty == [e \in Envelopes |-> 0]
In(s) == {e \in Envelopes : s[e] > 0}
Concat(s, t) == [e \in Envelopes |-> s[e] + t[e]]

Init ==
  /\ SchedInit
  /\ loop = "down"
  /\ restoring = {}
  /\ accepted = None
  /\ queue = Empty
  /\ bundle = Empty
  /\ image = Empty
  /\ store = Empty
  /\ ctxDone = FALSE
  /\ runs = 0
  /\ gone = Empty
  /\ lost = Empty

----------------------------------------------------------------------------
(* EncryptedSignalStore.Load: the signals read, and what the file holds     *)
(* afterwards.  A file that cannot be read, were it for a moment, is        *)
(* removed and reads as empty; the removal may fail as well.                *)
Load(file) ==
  {[read |-> file, left |-> file]} \cup
  {[read |-> Empty, left |-> left] : left \in {file, Empty}}

(* NewSchedulerBatcherWithEncryption, then the first lines of Start: load   *)
(* the store into b.signals.                                                *)
Boot ==
  /\ loop = "down"
  /\ runs < MaxRuns
  /\ runs' = runs + 1
  /\ loop' = "restore"
  /\ \E loaded \in Load(store) :
       /\ queue' = Concat(queue, loaded.read)
       /\ restoring' = In(loaded.read)
       /\ store' = loaded.left
  /\ UNCHANGED <<schedVars, accepted, bundle, image, ctxDone, gone, lost>>

(* One turn of the rescheduling loop; AddSignal's error is only logged.     *)
Restore(e) ==
  /\ loop = "restore"
  /\ e \in restoring
  /\ restoring' = restoring \ {e}
  /\ \/ AddSignal(e)
     \/ /\ ~Alive(e) \/ signals[IdOf[e]] # None
        /\ UNCHANGED schedVars
  /\ UNCHANGED <<loop, accepted, queue, bundle, image, ctxDone, gone, lost, diskVars>>

RestoreDone ==
  /\ loop = "restore"
  /\ restoring = {}
  /\ loop' = "select"
  /\ UNCHANGED <<schedVars, restoring, accepted, queue, bundle, image, ctxDone, gone, lost, diskVars>>

(* SignalEnvelope.Validate on the expiry; the signature is valid.           *)
ValidExpiry(e) == Expiry[e] >= clock + MinLead /\ Expiry[e] <= clock + MaxLead

(* processIncomingSignal for a submission that passes every check: it is    *)
(* scheduled first,                                                         *)
ProcessIncomingSignal(e) ==
  /\ loop = "select"
  /\ ValidExpiry(e)
  /\ AddSignal(e)
  /\ loop' = "accept"
  /\ accepted' = e
  /\ UNCHANGED <<restoring, queue, bundle, image, ctxDone, gone, lost, diskVars>>

(* and queued for the batch after the ACTIVE event has been sent.           *)
QueueForBatching ==
  /\ loop = "accept"
  /\ loop' = "select"
  /\ queue' = [queue EXCEPT ![accepted] = @ + 1]
  /\ accepted' = None
  /\ UNCHANGED <<schedVars, restoring, bundle, image, ctxDone, gone, lost, diskVars>>

(* b.signals once flushTo0G has copied it: emptied.                         *)
QueueKept == queue
QueueEmptied == Empty

(* flushTo0G up to the unlock: take the whole queue; nothing to do when it  *)
(* is empty.                                                                *)
FlushBegins ==
  /\ queue # Empty
  /\ \/ loop = "select" /\ loop' = "upload"
     \/ loop = "lastFlush" /\ loop' = "lastUpload"
  /\ bundle' = queue
  /\ queue' = QueueEmptied
  /\ UNCHANGED <<schedVars, restoring, accepted, image, ctxDone, gone, lost, diskVars>>

FlushEmpty ==
  /\ loop = "lastFlush"
  /\ queue = Empty
  /\ loop' = "stop"
  /\ UNCHANGED <<schedVars, restoring, accepted, queue, bundle, image, ctxDone, gone, lost, diskVars>>

FlushReturns ==
  /\ bundle' = Empty
  /\ \/ loop = "upload" /\ loop' = "select"
     \/ loop = "lastUpload" /\ loop' = "stop"
  /\ UNCHANGED <<schedVars, restoring, accepted, image, ctxDone, store, runs>>

(* The transfer ends without an error: UploadFile returns the root of what  *)
(* is in 0G Storage.                                                        *)
BundleUploaded ==
  /\ FlushReturns
  /\ gone' = Concat(gone, bundle)
  /\ UNCHANGED <<queue, lost>>

BundleLost ==
  /\ FlushReturns
  /\ lost' = Concat(lost, bundle)
  /\ UNCHANGED <<queue, gone>>

(* The batch cannot be serialised or written to its temporary file, and     *)
(* flushTo0G returns without it.                                            *)
DropBundle == BundleLost

(* The transfer fails, panics or outlives its context: UploadFile returns   *)
(* the precomputed root without an error, and flushTo0G takes it for done.  *)
TransferFails == BundleLost

(* UploadFile returns an error: the bundle goes back in front of the queue. *)
NotRequeued == queue
Requeued == Concat(bundle, queue)

UploadFails ==
  /\ FlushReturns
  /\ queue' = Requeued
  /\ UNCHANGED <<gone, lost>>

(* persistActiveSignals up to the unlock, on the save ticker or as the      *)
(* first thing after ctx.Done; select chooses freely among ready cases.     *)
SaveBegins ==
  /\ loop = "select"
  /\ \/ loop' = "save"
     \/ ctxDone /\ loop' = "lastSave"
  /\ image' = [e \in Envelopes |-> IF Alive(e) THEN queue[e] ELSE 0]
  /\ UNCHANGED <<schedVars, restoring, accepted, queue, bundle, ctxDone, gone, lost, diskVars>>

SaveReturns ==
  /\ \/ loop = "save" /\ loop' = "select"
     \/ loop = "lastSave" /\ loop' = "lastFlush"
  /\ image' = Empty
  /\ UNCHANGED <<schedVars, restoring, accepted, queue, bundle, ctxDone, gone, lost, runs>>

(* EncryptedSignalStore.Save overwrites the file in place.                  *)
SaveSucceeds ==
  /\ SaveReturns
  /\ store' = image

(* A failed os.WriteFile leaves the old file or a truncated one.            *)
SaveFails ==
  /\ SaveReturns
  /\ store' \in {store, Empty}

StopLoop ==
  /\ loop = "stop"
  /\ Stop
  /\ loop' = "stopped"
  /\ UNCHANGED <<restoring, accepted, queue, bundle, image, ctxDone, gone, lost, diskVars>>

(* main, on SIGINT or SIGTERM.                                              *)
Cancel ==
  /\ loop # "down"
  /\ ~ctxDone
  /\ ctxDone' = TRUE
  /\ UNCHANGED <<schedVars, loop, restoring, accepted, queue, bundle, image, gone, lost, diskVars>>

(* The end of the process: memory is gone, and a save under way may have    *)
(* left the old file, a truncated one or the new one.                       *)
ProcessEnds ==
  /\ loop' = "down"
  /\ signals' = [i \in Ids |-> None]
  /\ timers' = {}
  /\ cancelled' = FALSE
  /\ worker' = [w \in Workers |-> Idle]
  /\ restoring' = {}
  /\ accepted' = None
  /\ queue' = Empty
  /\ bundle' = Empty
  /\ image' = Empty
  /\ ctxDone' = FALSE
  /\ gone' = Empty
  /\ lost' = Empty
  /\ store' \in IF loop \in {"save", "lastSave"} THEN {store, Empty, image} ELSE {store}
  /\ UNCHANGED <<clock, nreg, object, results, runs>>

(* main returns after cancel() without waiting for the batcher goroutine.   *)
Exit == loop # "down" /\ ctxDone /\ ProcessEnds

Crash == loop # "down" /\ ProcessEnds

(* The scheduler's own steps; production code never calls ForceAnalyze.     *)
SchedulerStep ==
  /\ \/ Tick
     \/ \E w \in Workers, r \in Regs : TimerFires(w, r)
     \/ \E w \in Workers : Analysis(w)
  /\ UNCHANGED <<loopVars, diskVars>>

LoopStep ==
  \/ \E e \in Envelopes : Restore(e)
  \/ RestoreDone
  \/ \E e \in Envelopes : ProcessIncomingSignal(e)
  \/ QueueForBatching
  \/ FlushBegins \/ FlushEmpty
  \/ BundleUploaded \/ DropBundle \/ TransferFails \/ UploadFails
  \/ SaveBegins \/ SaveSucceeds \/ SaveFails
  \/ StopLoop

Next == SchedulerStep \/ LoopStep \/ Boot \/ Cancel \/ Exit \/ Crash

Spec == Init /\ [][Next]_vars

(* As in the scheduler; and a main that has cancelled the context returns.  *)
Fairness ==
  /\ WF_vars(SchedulerStep /\ Tick)
  /\ \A r \in Regs : WF_vars(SchedulerStep /\ \E w \in Workers : TimerFires(w, r))
  /\ \A w \in Workers : WF_vars(SchedulerStep /\ Analysis(w))
  /\ WF_vars(Exit)

FairSpec == Spec /\ Fairness

----------------------------------------------------------------------------
(* Every variable has its type.                                             *)
TypeOK ==
  /\ SchedTypeOK
  /\ loop \in {"down", "restore", "select", "accept", "upload", "save", "lastSave",
               "lastFlush", "lastUpload", "stop", "stopped"}
  /\ restoring \in SUBSET Envelopes
  /\ accepted \in Envelopes \cup {None}
  /\ queue \in Slices /\ bundle \in Slices /\ image \in Slices
  /\ store \in Slices /\ gone \in Slices /\ lost \in Slices
  /\ ctxDone \in BOOLEAN
  /\ runs \in 0 .. MaxRuns

(* Across crashes, restarts and re-submissions an envelope is handed to the *)
(* result handler (scored, pushed on chain, paid) at most once.             *)
OneResultPerEnvelope ==
  \A r, q \in Regs :
    results[r] > 0 /\ results[q] > 0 /\ object[r] = object[q] => r = q /\ results[r] = 1

(* Within one run of the process no envelope enters two batches, even when  *)
(* a failed upload is put back while the same signal is submitted again.    *)
BatchedAtMostOnce ==
  \A e \in Envelopes : queue[e] + bundle[e] + gone[e] + lost[e] <= 1

(* A scheduled signal is being accepted, queued, in the batch being         *)
(* uploaded or uploaded.  It escapes the audit trail in the two ways that   *)
(* flushTo0G does not undo, DropBundle and TransferFails, and in no other:  *)
(* not when UploadFile returns an error, nor when it is submitted, saved or *)
(* restored around a flush.                                                 *)
ScheduledIsBatched ==
  \A e \in Envelopes :
    Pending(e) => accepted = e \/ queue[e] + bundle[e] + gone[e] + lost[e] = 1

(* The whole process implements the lifecycle promised for each signal.     *)
Closed(e) == \E r \in Regs : object[r] = e /\ results[r] > 0

Lifecycle == INSTANCE SignalLifecycle WITH
  phase <- [e \in Envelopes |->
              IF Pending(e) THEN "scheduled"
              ELSE IF Closed(e) THEN "closed" ELSE "idle"]

ImplementsLifecycle == Lifecycle!LifeSpec

(* A scheduled signal leaves the schedule: it is closed, or the process     *)
(* ends (in a shutdown that has stopped the timers, main returns).          *)
LeavesSchedule == \A e \in Envelopes : Pending(e) ~> ~Pending(e)
=============================================================================
