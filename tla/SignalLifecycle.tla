-------------------------- MODULE SignalLifecycle --------------------------
(***************************************************************************)
(* What the verification layer promises for one submitted signal, whatever  *)
(* happens to the process: it can be scheduled only while its expiry is in  *)
(* the future, it is closed (priced, scored) only once its expiry has been  *)
(* reached, and closing is final.  A restart may forget that a signal was   *)
(* scheduled; it may then be scheduled again.                               *)
(***************************************************************************)
EXTENDS Naturals

CONSTANTS Envelopes, Expiry

VARIABLES clock, phase

lifeVars == <<clock, phase>>

LifeInit ==
  /\ clock = 0
  /\ phase = [e \in Envelopes |-> "idle"]

Schedule(e) ==
  /\ phase[e] = "idle"
  /\ clock < Expiry[e]
  /\ phase' = [phase EXCEPT ![e] = "scheduled"]
  /\ UNCHANGED clock

Close(e) ==
  /\ phase[e] = "scheduled"
  /\ clock >= Expiry[e]
  /\ phase' = [phase EXCEPT ![e] = "closed"]
  /\ UNCHANGED clock

(* A process that ends forgets what it had only scheduled.                  *)
Forget ==
  /\ phase' = [e \in Envelopes |-> IF phase[e] = "scheduled" THEN "idle" ELSE phase[e]]
  /\ UNCHANGED clock

TimePasses ==
  /\ clock' = clock + 1
  /\ UNCHANGED phase

LifeNext ==
  \/ TimePasses
  \/ Forget
  \/ \E e \in Envelopes : Schedule(e) \/ Close(e)

LifeSpec == LifeInit /\ [][LifeNext]_lifeVars
=============================================================================
