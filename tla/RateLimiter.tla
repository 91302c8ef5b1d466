----------------------------- MODULE RateLimiter -----------------------------
(***************************************************************************)
(* internal/ratelimit/limiter.go, which handleSubmitSignal of               *)
(* internal/api/server.go asks before it queues a submission: two sliding   *)
(* windows and a duplicate cache.  Check holds the limiter's mutex from     *)
(* beginning to end, and the cleanup goroutine runs between any two checks. *)
(* The clock is time.Now().Unix().                                          *)
(***************************************************************************)
EXTENDS Naturals, Sequences, FiniteSets, Functions, Slices

CONSTANTS
  Requests,      \* submit requests a client may send, any number of times
  Signals,       \* their envelopes, as hashSignal tells them apart
  Nodes,
  SignalOf,      \* hashSignal(req.Envelope)
  NodeOf,        \* req.NodeID, which need not be the envelope's
  NodeMaxCount, NodeWindow,
  GlobalMaxCount, GlobalWindow,
  DupWindow,
  Never,         \* no entry in recentSignals
  MaxTime        \* last instant modelled (bound)

ASSUME LimiterAssumption ==
  /\ IsFiniteSet(Requests)
  /\ SignalOf \in [Requests -> Signals]
  /\ NodeOf \in [Requests -> Nodes]
  /\ NodeMaxCount \in Nat \ {0} /\ NodeWindow \in Nat
  /\ GlobalMaxCount \in Nat \ {0} /\ GlobalWindow \in Nat
  /\ DupWindow \in Nat \ {0} /\ MaxTime \in Nat \ {0}
  /\ Never \notin Nat

VARIABLES
  now,
  globalRequests,  \* rl.globalRequests
  nodeRequests,    \* rl.nodeRequests; a missing key is an empty slice
  recentSignals,   \* rl.recentSignals
  admitted,        \* history: when each request passed Check
  refusal          \* history: each request's latest refusal since any passed

limiterVars == <<globalRequests, nodeRequests, recentSignals>>
vars == <<now, limiterVars, admitted, refusal>>

Reasons == {"none", "duplicate_signal", "global_rate_limit", "node_rate_limit"}
NotRefused == [reason |-> "none", until |-> 0]

Init ==
  /\ now = 1
  /\ globalRequests = <<>>
  /\ nodeRequests = [n \in Nodes |-> <<>>]
  /\ recentSignals = [s \in Signals |-> Never]
  /\ admitted = [r \in Requests |-> {}]
  /\ refusal = [r \in Requests |-> NotRefused]

(* now minus a window, on an epoch that is far longer than any window: no   *)
(* timestamp is below 1, so a cutoff below 0 may be taken as 0.             *)
Ago(window) == IF now > window THEN now - window ELSE 0

----------------------------------------------------------------------------
(* filterAfter: the timestamps after the cutoff.                            *)
After(cutoff) == {t \in Nat : t > cutoff}

FilterLate(timestamps, cutoff) == Keep(timestamps, After(cutoff + 1))
FilterAfter(timestamps, cutoff) == Keep(timestamps, After(cutoff))

GlobalWindowed == FilterAfter(globalRequests, Ago(GlobalWindow))
NodeWindowed(n) == FilterAfter(nodeRequests[n], Ago(NodeWindow))

Full(timestamps, maxCount) == Len(timestamps) >= maxCount

(* The answer of Check, in the order of its tests.                          *)
Verdict(r) ==
  LET lastSeen == recentSignals[SignalOf[r]]
  IN IF lastSeen # Never /\ now < lastSeen + DupWindow THEN "duplicate_signal"
     ELSE IF Full(GlobalWindowed, GlobalMaxCount) THEN "global_rate_limit"
     ELSE IF Full(NodeWindowed(NodeOf[r]), NodeMaxCount) THEN "node_rate_limit"
     ELSE "allowed"

(* now + RetryAfterSec of a refusal.                                        *)
RetryFromNow(reason, r) == now + 1
RetryAt(reason, r) ==
  CASE reason = "duplicate_signal" -> recentSignals[SignalOf[r]] + DupWindow
    [] reason = "global_rate_limit" -> Head(GlobalWindowed) + GlobalWindow
    [] reason = "node_rate_limit" -> Head(NodeWindowed(NodeOf[r])) + NodeWindow

(* Check refuses: a test that fails later leaves the slices before it       *)
(* filtered.                                                                *)
Refuse(r) ==
  LET reason == Verdict(r)
      n == NodeOf[r]
  IN /\ reason # "allowed"
     /\ globalRequests' =
          IF reason = "duplicate_signal" THEN globalRequests ELSE GlobalWindowed
     /\ nodeRequests' = IF reason = "node_rate_limit"
          THEN [nodeRequests EXCEPT ![n] = NodeWindowed(n)] ELSE nodeRequests
     /\ refusal' = [refusal EXCEPT ![r] =
          [reason |-> reason, until |-> RetryAt(reason, r)]]
     /\ UNCHANGED <<now, recentSignals, admitted>>

(* Check admits: the request is recorded in both windows and the cache.     *)
Admit(r) ==
  LET n == NodeOf[r]
  IN /\ Verdict(r) = "allowed"
     /\ globalRequests' = Append(GlobalWindowed, now)
     /\ nodeRequests' = [nodeRequests EXCEPT ![n] = Append(NodeWindowed(n), now)]
     /\ recentSignals' = [recentSignals EXCEPT ![SignalOf[r]] = now]
     /\ admitted' = [admitted EXCEPT ![r] = @ \cup {now}]
     /\ refusal' = [q \in Requests |-> NotRefused]
     /\ UNCHANGED now

(* cleanup, on its ticker.                                                  *)
DupCutoffOfNode == Ago(NodeWindow)
DupCutoff == Ago(DupWindow)

Cleanup ==
  /\ globalRequests' = FilterAfter(globalRequests, Ago(GlobalWindow * 2))
  /\ nodeRequests' = [n \in Nodes |-> FilterAfter(nodeRequests[n], Ago(NodeWindow * 2))]
  /\ recentSignals' = [s \in Signals |->
       IF recentSignals[s] # Never /\ recentSignals[s] < DupCutoff THEN Never ELSE recentSignals[s]]
  /\ UNCHANGED <<now, admitted, refusal>>

Tick ==
  /\ now < MaxTime
  /\ now' = now + 1
  /\ UNCHANGED <<limiterVars, admitted, refusal>>

Next ==
  \/ \E r \in Requests : Refuse(r) \/ Admit(r)
  \/ Cleanup
  \/ Tick

Spec == Init /\ [][Next]_vars

----------------------------------------------------------------------------
(* Every variable has its type, and no slice outgrows its limit.            *)
TypeOK ==
  /\ now \in 1 .. MaxTime
  /\ globalRequests \in Seq(1 .. now) /\ Len(globalRequests) <= GlobalMaxCount
  /\ nodeRequests \in [Nodes -> Seq(1 .. now)]
  /\ \A n \in Nodes : Len(nodeRequests[n]) <= NodeMaxCount
  /\ recentSignals \in [Signals -> 1 .. now \cup {Never}]
  /\ admitted \in [Requests -> SUBSET (1 .. now)]
  /\ refusal \in [Requests -> [reason : Reasons, until : Nat]]

(* In no window of time, wherever it starts, does more than the limit get   *)
(* through, under one node id or in all: although refusals and the cleanup  *)
(* trim the slices at other moments than the checks that read them.         *)
Passes(t, window) ==
  [r \in Requests |-> Cardinality({u \in admitted[r] : u <= t /\ u + window > t})]

Within(reqs, t, window) == SumFunctionOnSet(Passes(t, window), reqs)

ReqsOf(n) == {r \in Requests : NodeOf[r] = n}

WindowsRespected ==
  \A t \in 1 .. now :
    /\ Within(Requests, t, GlobalWindow) <= GlobalMaxCount
    /\ \A n \in Nodes : Within(ReqsOf(n), t, NodeWindow) <= NodeMaxCount

(* The same signal passes twice only a whole duplicate window apart, even   *)
(* under another node id, so forgetting old entries lets none through early.*)
DuplicatesApart ==
  \A r, q \in Requests : SignalOf[r] = SignalOf[q] =>
    \A t \in admitted[r], u \in admitted[q] :
      /\ t < u => u >= t + DupWindow
      /\ t = u => r = q

(* The time a refused client is told to come back is long enough: if nobody *)
(* got through meanwhile, it is not refused again for the same reason.      *)
RetryHonoured ==
  \A r \in Requests :
    /\ refusal[r].reason # "none"
    /\ now >= refusal[r].until
    => Verdict(r) # refusal[r].reason
=============================================================================
