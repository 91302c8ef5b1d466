--------------------------- MODULE SentinelProofs ---------------------------
(***************************************************************************)
(* The live executor for any number of signals, any limit and any number   *)
(* of polls: how far overlapping calls may exceed the limit, and that the  *)
(* positions and the history agree with the orders.  Then the trading      *)
(* agent around it for any signals, nodes, configurations and lives: its   *)
(* positions, its dashboard, which signals it trades twice and which it    *)
(* misses.  A limit that is not a number bounds nothing, and nothing is    *)
(* proved of how far it is exceeded.                                       *)
(***************************************************************************)
EXTENDS SentinelAgent, FiniteSetTheorems, TLAPS

-----------------------------------------------------------------------------
(* The live executor by itself *)

\* a call has no order before it sends one
OrdersFollowCalls ==
    \A c \in Calls : pc[c] \in {"idle", "order"} => order[c] = "none"

GMXInv ==
    /\ config \in Configs
    /\ GMXTypeOK
    /\ OrdersFollowCalls
    /\ HistoryComplete
    /\ OvershootBoundedByRace

GMXCall(c) == ExecuteSignal(c) \/ Settle(c) \/ KeeperSettles(c)

-----------------------------------------------------------------------------
(* Counting calls *)

LEMMA CallsFinite == IsFiniteSet(Calls)
<1>1. IsFiniteSet(1..MaxPublished)
    BY FS_Interval, SignalsAssumption
<1> QED  BY <1>1, FS_Product, SignalsAssumption DEF Calls

LEMMA CountsFinite ==
    /\ IsFiniteSet(InFlight) /\ Cardinality(InFlight) \in Nat
    /\ Cardinality(InFlight) <= Cardinality(Calls)
    /\ IsFiniteSet(Executed) /\ Cardinality(Executed) \in Nat
    /\ IsFiniteSet(Failed) /\ Cardinality(Failed) \in Nat
<1>1. InFlight \in SUBSET Calls /\ Executed \in SUBSET Calls
          /\ Failed \in SUBSET Calls
    BY DEF InFlight, Executed, Failed
<1> QED  BY <1>1, CallsFinite, FS_Subset, FS_CardinalityType

\* a call leaves the set of those in flight, joins it, or moves within it
LEMMA FlightChanges ==
    ASSUME ExecTypeOK, NEW c \in Calls, NEW stage \in Stages,
           pc' = [pc EXCEPT ![c] = stage]
    PROVE  /\ IsFiniteSet(InFlight') /\ Cardinality(InFlight') \in Nat
           /\ pc[c] \in Awaiting /\ stage \notin Awaiting
                => Cardinality(InFlight') = Cardinality(InFlight) - 1
           /\ pc[c] \notin Awaiting /\ stage \in Awaiting
                => /\ Cardinality(InFlight') = Cardinality(InFlight) + 1
                   /\ Cardinality(InFlight) + 1 <= Cardinality(Calls)
           /\ (pc[c] \in Awaiting <=> stage \in Awaiting)
                => Cardinality(InFlight') = Cardinality(InFlight)
<1>1. pc \in [Calls -> Stages]
    BY DEF ExecTypeOK
<1>2. InFlight' = IF stage \in Awaiting THEN InFlight \union {c}
                                        ELSE InFlight \ {c}
    BY <1>1 DEF InFlight
<1>3. c \in InFlight <=> pc[c] \in Awaiting
    BY DEF InFlight
<1>4. IsFiniteSet(InFlight) /\ Cardinality(InFlight) \in Nat
    BY CountsFinite
<1>5. InFlight \union {c} \in SUBSET Calls
    BY DEF InFlight
<1>6. Cardinality(InFlight \union {c}) <= Cardinality(Calls)
    BY <1>5, CallsFinite, FS_Subset
<1>7. /\ IsFiniteSet(InFlight \union {c})
      /\ Cardinality(InFlight \union {c}) =
            IF c \in InFlight THEN Cardinality(InFlight)
                              ELSE Cardinality(InFlight) + 1
    BY <1>4, FS_AddElement
<1>8. /\ IsFiniteSet(InFlight \ {c})
      /\ Cardinality(InFlight \ {c}) =
            IF c \in InFlight THEN Cardinality(InFlight) - 1
                              ELSE Cardinality(InFlight)
    BY <1>4, FS_RemoveElement
<1>9. IsFiniteSet(InFlight') /\ Cardinality(InFlight') \in Nat
    BY <1>2, <1>7, <1>8, FS_CardinalityType
<1>a. CASE stage \in Awaiting
  <2>1. InFlight' = InFlight \union {c}
      BY <1>a, <1>2
  <2> QED  BY <1>a, <1>3, <1>6, <1>7, <1>9, <2>1
<1>b. CASE stage \notin Awaiting
  <2>1. InFlight' = InFlight \ {c}
      BY <1>b, <1>2
  <2> QED  BY <1>b, <1>3, <1>8, <1>9, <2>1
<1> QED  BY <1>a, <1>b

\* a call concludes once: its record joins the history
LEMMA ConcludeCounts ==
    ASSUME ExecTypeOK, HistoryComplete, NEW c \in Calls,
           result[c] = "none", NEW r \in {"executed", "failed"}, Conclude(c, r)
    PROVE  ExecTypeOK' /\ HistoryComplete'
<1>1. /\ pc \in [Calls -> Stages] /\ result \in [Calls -> Results]
      /\ history \in [executed : Nat, failed : Nat]
    BY DEF ExecTypeOK
<1>2. pc' = [pc EXCEPT ![c] = "returned"] /\ result' = [result EXCEPT ![c] = r]
    BY DEF Conclude
<1>3. "returned" \in Stages /\ r \in Results
    BY DEF Stages, Results
<1>4. pc' \in [Calls -> Stages] /\ result' \in [Calls -> Results]
    BY <1>1, <1>2, <1>3
<1>5. c \notin Executed /\ c \notin Failed
    BY DEF Executed, Failed
<1>6. \A d \in Calls : pc'[d] \in {"returned", "done"} <=> result'[d] # "none"
    BY <1>1, <1>2 DEF HistoryComplete
<1>7. /\ Cardinality(Executed \union {c}) = Cardinality(Executed) + 1
      /\ Cardinality(Failed \union {c}) = Cardinality(Failed) + 1
    BY <1>5, CountsFinite, FS_AddElement
<1>8. CASE r = "executed"
  <2>1. Executed' = Executed \union {c} /\ Failed' = Failed
      BY <1>1, <1>2, <1>5, <1>8 DEF Executed, Failed
  <2>2. history' = [history EXCEPT !.executed = @ + 1]
      BY <1>8 DEF Conclude
  <2> QED  BY <1>1, <1>4, <1>6, <1>7, <2>1, <2>2 DEF ExecTypeOK, HistoryComplete
<1>9. CASE r = "failed"
  <2>1. Failed' = Failed \union {c} /\ Executed' = Executed
      BY <1>1, <1>2, <1>5, <1>9 DEF Executed, Failed
  <2>2. history' = [history EXCEPT !.failed = @ + 1]
      BY <1>9 DEF Conclude
  <2> QED  BY <1>1, <1>4, <1>6, <1>7, <2>1, <2>2 DEF ExecTypeOK, HistoryComplete
<1> QED  BY <1>8, <1>9
-----------------------------------------------------------------------------
(* The steps of a call *)

LEMMA LimitIsInt == ASSUME config \in Configs, config.maxOpenPositions # NaN
                    PROVE  config.maxOpenPositions \in Int
BY ConfigAssumption

LEMMA PositionsFinite ==
    ASSUME NEW S \in SUBSET Signals
    PROVE  IsFiniteSet(S) /\ Cardinality(S) \in Nat
BY SignalsAssumption, FS_Subset, FS_CardinalityType

\* a conclusion, from any stage, that leaves the positions alone
LEMMA ConcludeInv ==
    ASSUME GMXInv, config' = config, NEW c \in Calls,
           NEW r \in {"executed", "failed"},
           pc[c] \in {"idle", "order", "wait"}, Conclude(c, r),
           order' \in [Calls -> OrderStates],
           \A d \in Calls : d # c => order'[d] = order[d],
           UNCHANGED <<polls, activePositions, peak>>
    PROVE  GMXInv'
<1> USE DEF GMXInv, GMXTypeOK
<1>1. result[c] = "none"
    BY DEF HistoryComplete
<1>2. ExecTypeOK' /\ HistoryComplete'
    BY <1>1, ConcludeCounts
<1>3. pc' = [pc EXCEPT ![c] = "returned"] /\ pc \in [Calls -> Stages]
    BY DEF Conclude, ExecTypeOK
<1>4. OrdersFollowCalls'
    BY <1>3 DEF OrdersFollowCalls
<1>5. /\ Cardinality(InFlight') \in Nat
      /\ Cardinality(InFlight') <= Cardinality(InFlight)
  <2>1. "returned" \in Stages /\ "returned" \notin Awaiting
      BY DEF Stages, Awaiting
  <2>2. Cardinality(InFlight) \in Nat
      BY CountsFinite
  <2>3. CASE pc[c] \in Awaiting
    <3>1. /\ Cardinality(InFlight') \in Nat
          /\ Cardinality(InFlight') = Cardinality(InFlight) - 1
        BY <1>3, <2>1, <2>3, FlightChanges
    <3> QED  BY <2>2, <3>1
  <2>4. CASE pc[c] \notin Awaiting
    <3>1. /\ Cardinality(InFlight') \in Nat
          /\ Cardinality(InFlight') = Cardinality(InFlight)
        BY <1>3, <2>1, <2>4, FlightChanges
    <3> QED  BY <2>2, <3>1
  <2> QED  BY <2>3, <2>4
<1>6. Cardinality(activePositions) \in Nat /\ Cardinality(InFlight) \in Nat
    BY PositionsFinite, CountsFinite
<1>7. OvershootBoundedByRace'
  <2>1. peak \in Int
      BY CallsFinite, FS_CardinalityType
  <2>2. config.maxOpenPositions # NaN => config.maxOpenPositions \in Int
      BY LimitIsInt
  <2> QED  BY <1>5, <1>6, <2>1, <2>2 DEF OvershootBoundedByRace
<1> QED  BY <1>2, <1>4, <1>7

\* a step that leaves the calls where they stand
LEMMA StandStillInv ==
    ASSUME GMXInv, config' = config, UNCHANGED execVars,
           order' \in [Calls -> OrderStates],
           \A d \in Calls : pc[d] \in {"idle", "order"} => order'[d] = order[d],
           polls' \in [Calls -> 0..(MaxPolls - 1)],
           UNCHANGED <<activePositions, peak>>
    PROVE  GMXInv'
<1>1. UNCHANGED <<InFlight, Executed, Failed>>
    BY DEF execVars, InFlight, Executed, Failed
<1> QED  BY <1>1 DEF GMXInv, GMXTypeOK, ExecTypeOK, execVars, HistoryComplete,
                     OrdersFollowCalls, OvershootBoundedByRace

LEMMA AdmitInv ==
    ASSUME GMXInv, config' = config, NEW c \in Calls, Admit(c)
    PROVE  GMXInv'
<1> USE DEF GMXInv, GMXTypeOK
<1>1. /\ pc' = [pc EXCEPT ![c] = "order"] /\ pc \in [Calls -> Stages]
      /\ pc[c] = "idle"
      /\ UNCHANGED <<result, history, order, polls, activePositions>>
    BY DEF Admit, Await, ExecTypeOK
<1>2. /\ Cardinality(InFlight') = Cardinality(InFlight) + 1
      /\ Cardinality(InFlight) + 1 <= Cardinality(Calls)
  <2>1. "order" \in Stages /\ "order" \in Awaiting /\ pc[c] \notin Awaiting
      BY <1>1 DEF Stages, Awaiting
  <2> QED  BY <1>1, <2>1, FlightChanges
<1>3. /\ Cardinality(activePositions) \in Nat /\ Cardinality(InFlight) \in Nat
      /\ config.maxOpenPositions # NaN => config.maxOpenPositions \in Int
      /\ Cardinality(Calls) \in Nat
    BY PositionsFinite, CountsFinite, LimitIsInt, CallsFinite, FS_CardinalityType
<1>4. peak' = IF Cardinality(InFlight) < peak THEN peak
                                              ELSE Cardinality(InFlight) + 1
    BY DEF Admit
<1>5. peak' \in 0..Cardinality(Calls) /\ peak' >= Cardinality(InFlight) + 1
    BY <1>2, <1>3, <1>4
<1>6. config.maxOpenPositions # NaN =>
          Cardinality(activePositions) <= config.maxOpenPositions - 1
    BY <1>3 DEF Admit, LimitReached
<1>7. OvershootBoundedByRace'
    BY <1>1, <1>2, <1>3, <1>5, <1>6 DEF OvershootBoundedByRace
<1>8. ExecTypeOK' /\ HistoryComplete'
  <2>1. UNCHANGED <<Executed, Failed>>
      BY <1>1 DEF Executed, Failed
  <2>2. "order" \in Stages
      BY DEF Stages, Awaiting
  <2> QED  BY <1>1, <2>1, <2>2 DEF ExecTypeOK, HistoryComplete
<1>9. OrdersFollowCalls'
    BY <1>1 DEF OrdersFollowCalls
<1> QED  BY <1>1, <1>5, <1>7, <1>8, <1>9

LEMMA SendOrderInv ==
    ASSUME GMXInv, config' = config, NEW c \in Calls, SendOrder(c)
    PROVE  GMXInv'
<1> USE DEF GMXInv, GMXTypeOK
<1>1. /\ pc' = [pc EXCEPT ![c] = "wait"] /\ pc \in [Calls -> Stages]
      /\ pc[c] = "order"
      /\ order' = [order EXCEPT ![c] = "open"]
      /\ polls' = [polls EXCEPT ![c] = 0]
      /\ UNCHANGED <<result, history, activePositions, peak>>
    BY DEF SendOrder, Await, ExecTypeOK
<1>2. "wait" \in Stages /\ "wait" \in Awaiting /\ pc[c] \in Awaiting
    BY <1>1 DEF Stages, Awaiting
<1>3. Cardinality(InFlight') = Cardinality(InFlight)
    BY <1>1, <1>2, FlightChanges
<1>4. OvershootBoundedByRace'
    BY <1>1, <1>3 DEF OvershootBoundedByRace
<1>5. ExecTypeOK' /\ HistoryComplete'
  <2>1. UNCHANGED <<Executed, Failed>>
      BY <1>1 DEF Executed, Failed
  <2> QED  BY <1>1, <1>2, <2>1 DEF ExecTypeOK, HistoryComplete
<1>6. OrdersFollowCalls'
    BY <1>1 DEF OrdersFollowCalls
<1>7. order' \in [Calls -> OrderStates] /\ polls' \in [Calls -> 0..(MaxPolls - 1)]
    BY <1>1, MaxPollsAssumption DEF OrderStates
<1> QED  BY <1>1, <1>4, <1>5, <1>6, <1>7

\* the position takes the place of the call in flight
LEMMA PollExecutedInv ==
    ASSUME GMXInv, config' = config, NEW c \in Calls, PollExecuted(c)
    PROVE  GMXInv'
<1> USE DEF GMXInv, GMXTypeOK
<1>1. /\ pc' = [pc EXCEPT ![c] = "returned"] /\ pc \in [Calls -> Stages]
      /\ pc[c] = "wait"
      /\ Conclude(c, "executed")
      /\ activePositions' = activePositions \union {SignalOf(c)}
      /\ UNCHANGED <<order, polls, peak>>
    BY DEF PollExecuted, Conclude, ExecTypeOK
<1>2. ExecTypeOK' /\ HistoryComplete'
  <2>1. result[c] = "none"
      BY <1>1 DEF HistoryComplete
  <2> QED  BY <1>1, <2>1, ConcludeCounts
<1>3. Cardinality(InFlight') = Cardinality(InFlight) - 1
          /\ Cardinality(InFlight') \in Nat
  <2>1. "returned" \in Stages /\ "returned" \notin Awaiting /\ pc[c] \in Awaiting
      BY <1>1 DEF Stages, Awaiting
  <2> QED  BY <1>1, <2>1, FlightChanges
<1>4. SignalOf(c) \in Signals
    BY DEF Calls, SignalOf
<1>5. /\ Cardinality(activePositions') <= Cardinality(activePositions) + 1
      /\ Cardinality(activePositions) \in Nat
      /\ Cardinality(activePositions') \in Nat
      /\ activePositions' \subseteq Signals
  <2>1. IsFiniteSet(activePositions) /\ Cardinality(activePositions) \in Nat
      BY PositionsFinite
  <2>2. activePositions' \subseteq Signals
      BY <1>1, <1>4
  <2> QED  BY <1>1, <2>1, <2>2, PositionsFinite, FS_AddElement
<1>6. OvershootBoundedByRace'
  <2>1. /\ Cardinality(InFlight) \in Nat
        /\ config.maxOpenPositions # NaN => config.maxOpenPositions \in Int
      BY CountsFinite, LimitIsInt
  <2>2. peak \in Int
      BY CallsFinite, FS_CardinalityType
  <2> QED  BY <1>1, <1>3, <1>5, <2>1, <2>2 DEF OvershootBoundedByRace
<1>7. OrdersFollowCalls'
    BY <1>1 DEF OrdersFollowCalls
<1> QED  BY <1>1, <1>2, <1>5, <1>6, <1>7

\* Every step of a call, and of the keeper, keeps the invariant.
LEMMA GMXCallInv ==
    ASSUME GMXInv, config' = config, NEW c \in Calls, GMXCall(c)
    PROVE  GMXInv'
<1> USE DEF gmxVars
<1>0. order \in [Calls -> OrderStates] /\ polls \in [Calls -> 0..(MaxPolls - 1)]
    BY DEF GMXInv, GMXTypeOK
<1>1. CASE Refuse(c)
    BY <1>0, <1>1, ConcludeInv DEF Refuse
<1>2. CASE Admit(c)
    BY <1>2, AdmitInv
<1>3. CASE GiveUp(c)
    BY <1>0, <1>3, ConcludeInv DEF GiveUp
<1>4. CASE SendOrder(c)
    BY <1>4, SendOrderInv
<1>5. CASE SendThrows(c)
  <2>1. order' \in [Calls -> OrderStates]
            /\ \A d \in Calls : d # c => order'[d] = order[d]
      BY <1>0, <1>5 DEF SendThrows, OrderStates
  <2> QED  BY <1>5, <2>1, ConcludeInv DEF SendThrows
<1>6. CASE PollExecuted(c)
    BY <1>6, PollExecutedInv
<1>7. CASE PollCancelled(c)
    BY <1>0, <1>7, ConcludeInv DEF PollCancelled
<1>8. CASE PollAgain(c)
  <2>1. polls' \in [Calls -> 0..(MaxPolls - 1)]
      BY <1>0, <1>8, MaxPollsAssumption DEF PollAgain, NextPoll
  <2> QED  BY <1>0, <1>8, <2>1, StandStillInv DEF PollAgain
<1>9. CASE PollTimeout(c)
    BY <1>0, <1>9, ConcludeInv DEF PollTimeout
<1>a. CASE KeeperSettles(c)
  <2>1. order' \in [Calls -> OrderStates]
            /\ \A d \in Calls : pc[d] \in {"idle", "order"} => order'[d] = order[d]
      BY <1>0, <1>a DEF KeeperSettles, OrderStates
  <2> QED  BY <1>0, <1>a, <2>1, StandStillInv DEF KeeperSettles
<1> QED
    BY <1>1, <1>2, <1>3, <1>4, <1>5, <1>6, <1>7, <1>8, <1>9, <1>a
    DEF GMXCall, ExecuteSignal, Settle, Poll
-----------------------------------------------------------------------------
(* Positions and orders *)

\* a call that fails has no filled order, or has used up its polls
LEMMA FailPositions ==
    ASSUME GMXInv, PositionsMatchOrders, NEW c \in Calls,
           pc[c] \in {"idle", "order", "wait"}, Conclude(c, "failed"),
           \A d \in Calls : d # c => order'[d] = order[d],
           order'[c] = "executed" => polls[c] + 1 = MaxPolls,
           UNCHANGED <<polls, activePositions>>
    PROVE  PositionsMatchOrders'
<1>1. result[c] = "none" /\ result \in [Calls -> Results]
    BY DEF GMXInv, GMXTypeOK, ExecTypeOK, HistoryComplete
<1>2. result' = [result EXCEPT ![c] = "failed"]
    BY DEF Conclude
<1>3. Executed' = Executed /\ Failed' = Failed \union {c}
    BY <1>1, <1>2 DEF Executed, Failed
<1>4. c \notin Executed /\ c \notin Failed
    BY <1>1 DEF Executed, Failed
<1>5. Executed \subseteq Calls /\ Failed \subseteq Calls
    BY DEF Executed, Failed
<1> QED  BY <1>3, <1>4, <1>5 DEF PositionsMatchOrders

\* orders change only for calls that have not concluded
LEMMA StandStillPositions ==
    ASSUME GMXInv, PositionsMatchOrders,
           UNCHANGED <<result, activePositions>>,
           \A d \in Calls : result[d] # "none" =>
               order'[d] = order[d] /\ polls'[d] = polls[d]
    PROVE  PositionsMatchOrders'
<1>1. UNCHANGED <<Executed, Failed>>
    BY DEF Executed, Failed
<1> QED  BY <1>1 DEF PositionsMatchOrders, Executed, Failed

\* No step of a call or of the keeper takes positions and orders apart.
LEMMA GMXCallPositions ==
    ASSUME GMXInv, PositionsMatchOrders, NEW c \in Calls, GMXCall(c)
    PROVE  PositionsMatchOrders'
<1> USE DEF gmxVars, execVars
<1>0. /\ order \in [Calls -> OrderStates]
      /\ polls \in [Calls -> 0..(MaxPolls - 1)]
      /\ result \in [Calls -> Results]
    BY DEF GMXInv, GMXTypeOK, ExecTypeOK
<1>1. pc[c] \in {"idle", "order"} => order[c] = "none"
    BY DEF GMXInv, OrdersFollowCalls
<1>2. pc[c] \in {"idle", "order", "wait"} => result[c] = "none"
    BY DEF GMXInv, HistoryComplete
<1>3. CASE Refuse(c)
    BY <1>1, <1>3, FailPositions DEF Refuse
<1>4. CASE Admit(c)
    BY <1>4, StandStillPositions DEF Admit, Await
<1>5. CASE GiveUp(c)
    BY <1>1, <1>5, FailPositions DEF GiveUp
<1>6. CASE SendOrder(c)
  <2>1. \A d \in Calls : result[d] # "none" =>
            order'[d] = order[d] /\ polls'[d] = polls[d]
      BY <1>0, <1>2, <1>6 DEF SendOrder
  <2> QED  BY <1>6, <2>1, StandStillPositions DEF SendOrder, Await
<1>7. CASE SendThrows(c)
    BY <1>0, <1>7, FailPositions DEF SendThrows
<1>8. CASE PollExecuted(c)
  <2>1. /\ result' = [result EXCEPT ![c] = "executed"] /\ result[c] = "none"
        /\ activePositions' = activePositions \union {SignalOf(c)}
        /\ order[c] = "executed" /\ UNCHANGED <<order, polls>>
      BY <1>2, <1>8 DEF PollExecuted, Conclude
  <2>2. Executed' = Executed \union {c} /\ Failed' = Failed
      BY <1>0, <2>1 DEF Executed, Failed
  <2> QED  BY <2>1, <2>2 DEF PositionsMatchOrders
<1>9. CASE PollCancelled(c)
    BY <1>9, FailPositions DEF PollCancelled
<1>a. CASE PollAgain(c)
  <2>1. \A d \in Calls : result[d] # "none" => polls'[d] = polls[d]
      BY <1>0, <1>2, <1>a DEF PollAgain
  <2> QED  BY <1>a, <2>1, StandStillPositions DEF PollAgain
<1>b. CASE PollTimeout(c)
    BY <1>b, FailPositions DEF PollTimeout
<1>c. CASE KeeperSettles(c)
  <2>1. \A d \in Calls : result[d] # "none" => order'[d] = order[d]
      BY <1>0, <1>2, <1>c DEF KeeperSettles
  <2> QED  BY <1>c, <2>1, StandStillPositions DEF KeeperSettles
<1> QED
    BY <1>3, <1>4, <1>5, <1>6, <1>7, <1>8, <1>9, <1>a, <1>b, <1>c
    DEF GMXCall, ExecuteSignal, Settle, Poll

-----------------------------------------------------------------------------
(* The executor by itself *)

LEMMA NothingStarted ==
    config \in Configs /\ ExecInit /\ GMXInit => GMXInv /\ PositionsMatchOrders
<1> SUFFICES ASSUME config \in Configs, ExecInit, GMXInit
             PROVE  GMXInv /\ PositionsMatchOrders
    OBVIOUS
<1> USE DEF ExecInit, GMXInit
<1>1. InFlight = {} /\ Executed = {} /\ Failed = {}
    BY DEF InFlight, Executed, Failed, Awaiting
<1>2. Cardinality({}) = 0 /\ Cardinality(Calls) \in Nat
    BY FS_EmptySet, CallsFinite, FS_CardinalityType
<1>3. GMXTypeOK
    BY <1>2, MaxPollsAssumption
    DEF GMXTypeOK, ExecTypeOK, Stages, Results, OrderStates
<1>4. OrdersFollowCalls /\ HistoryComplete
    BY <1>1, <1>2 DEF OrdersFollowCalls, HistoryComplete
<1>5. OvershootBoundedByRace
    BY <1>1, <1>2 DEF OvershootBoundedByRace
<1>6. PositionsMatchOrders
    BY <1>1 DEF PositionsMatchOrders
<1> QED  BY <1>3, <1>4, <1>5, <1>6 DEF GMXInv

\* For any number of signals calling at the same time, the live executor keeps
\* its types, positions plus calls in flight stay below the limit, if it is a
\* number, plus the largest race there was, positions and orders agree and the
\* history is complete (executor.ts 278-462).
THEOREM GMXSafety ==
    GMXSpec => [](GMXTypeOK /\ OvershootBoundedByRace /\ PositionsMatchOrders
                  /\ HistoryComplete)
<1> DEFINE Inv == GMXInv /\ PositionsMatchOrders
           Step == [GMXNext /\ UNCHANGED config]_<<config, execVars, gmxVars>>
<1>1. config \in Configs /\ ExecInit /\ GMXInit => Inv
    BY NothingStarted
<1>2. Inv /\ Step => Inv'
  <2> SUFFICES ASSUME Inv, Step PROVE Inv'
      OBVIOUS
  <2>1. CASE GMXNext /\ UNCHANGED config
    <3>1. PICK c \in Calls : GMXCall(c)
        BY <2>1 DEF GMXNext, GMXCall
    <3> QED  BY <2>1, <3>1, GMXCallInv, GMXCallPositions
  <2>2. CASE UNCHANGED <<config, execVars, gmxVars>>
    <3>1. UNCHANGED <<InFlight, Executed, Failed>>
        BY <2>2 DEF execVars, InFlight, Executed, Failed
    <3> QED
        BY <2>2, <3>1
        DEF execVars, gmxVars, GMXInv, GMXTypeOK, ExecTypeOK, OrdersFollowCalls,
            HistoryComplete, OvershootBoundedByRace, PositionsMatchOrders
  <2> QED  BY <2>1, <2>2
<1>3. Inv => GMXTypeOK /\ OvershootBoundedByRace /\ PositionsMatchOrders
             /\ HistoryComplete
    BY DEF GMXInv
<1> QED  BY <1>1, <1>2, <1>3, PTL DEF GMXSpec

-----------------------------------------------------------------------------
(* The executors within the agent *)

\* a configuration that is not a number makes every handler throw at once
NothingTradedOnNaN ==
    config.maxPositionUsd = NaN =>
        /\ \A c \in Calls : pc[c] \in {"idle", "threw"}
        /\ paperPositions = {}

ExecutorsInv ==
    /\ GMXInv
    /\ ~paperMode => PositionsMatchOrders
    /\ PaperTypeOK
    /\ PaperBooksBalance
    /\ OpenPositionsWillClose
    /\ NothingTradedOnNaN

\* what a step of the agent may do to its executors
ExecutorsRest == UNCHANGED <<config, execVars, gmxVars, paperVars, paperMode>>
ExecutorsReset == /\ ExecReset /\ GMXReset /\ PaperReset
                  /\ UNCHANGED <<config, paperMode>>
Traded(c) == /\ config.maxPositionUsd # NaN
             /\ \/ paperMode /\ PaperExecuteSignal(c) /\ UNCHANGED gmxVars
                \/ ~paperMode /\ ExecuteSignal(c) /\ UNCHANGED paperVars
             /\ UNCHANGED <<config, paperMode>>
Threw(c) == /\ config.maxPositionUsd = NaN
            /\ Throw(c)
            /\ UNCHANGED <<config, gmxVars, paperVars, paperMode>>
Resumed(c) == /\ pc[c] = "returned"
              /\ pc' = [pc EXCEPT ![c] = "done"]
              /\ UNCHANGED <<result, history, config, gmxVars, paperVars,
                             paperMode>>
Settled(c) == /\ Settle(c) \/ KeeperSettles(c)
              /\ UNCHANGED <<config, paperVars, paperMode>>
Closed(c) == /\ ClosePosition(c)
             /\ UNCHANGED <<config, gmxVars, paperMode>>

ExecutorsStep ==
    \/ ExecutorsRest \/ ExecutorsReset
    \/ \E c \in Calls : Traded(c) \/ Threw(c) \/ Resumed(c) \/ Settled(c)
                        \/ Closed(c)

LEMMA HeadIsCall ==
    ASSUME wire \in Seq(Events), wire # << >>
    PROVE  Head(wire) \in Calls
BY DEF Events, Calls

\* each action of the agent is one of those steps for its executors
LEMMA StepsOfExecutors ==
    ASSUME wire \in Seq(Events), [Next]_vars
    PROVE  ExecutorsStep
<1> USE DEF ExecutorsStep
<1>1. CASE UNCHANGED vars
    BY <1>1 DEF vars, agentVars, ExecutorsRest
<1>2. ASSUME AgentStep, UNCHANGED config PROVE ExecutorsStep
  <2> USE <1>2
  <2>1. CASE Exit
      BY <2>1 DEF Exit, Reset, ExecutorsReset
  <2>2. CASE Restart \/ EnsureApprovals \/ Connect \/ Running
      BY <2>2 DEF Restart, EnsureApprovals, Connect, Running, ExecutorsRest
  <2>3. CASE Receive
    <3> DEFINE c == Head(wire)
    <3>1. c \in Calls
        BY <2>3, HeadIsCall DEF Receive, TakeMessage
    <3>2. CASE Handled(SignalOf(c))
      <4>1. UNCHANGED paperMode /\ (HandleSignal(c) \/ HandlerThrows(c))
          BY <2>3, <3>2 DEF Receive
      <4>2. Traded(c) \/ Threw(c)
          BY <4>1 DEF HandleSignal, HandlerThrows, Traded, Threw
      <4> QED  BY <3>1, <4>2
    <3>3. CASE ~Handled(SignalOf(c))
        BY <2>3, <3>3 DEF Receive, ExecutorsRest
    <3> QED  BY <3>2, <3>3
  <2>6. ASSUME NEW c \in Calls,
               Resume(c) \/ Settles(c) \/ Keeper(c) \/ PaperTimer(c)
        PROVE  ExecutorsStep
    <3>1. Resumed(c) \/ Settled(c) \/ Closed(c)
        BY <2>6 DEF Resume, Settles, Keeper, PaperTimer, agentVars, Resumed,
                    Settled, Closed
    <3> QED  BY <3>1
  <2>7. CASE Platform \/ Socket
      BY <2>7 DEF Platform, Socket, SocketEvent, agentVars, ExecutorsRest
  <2> QED  BY <2>1, <2>2, <2>3, <2>6, <2>7 DEF AgentStep
<1> QED  BY <1>1, <1>2 DEF Next

-----------------------------------------------------------------------------
(* What a step does to the books *)

LEMMA OneMore == ASSUME NEW m \in Int, NEW k \in Nat
                 PROVE  m * (k + 1) = m * k + m
OBVIOUS

LEMMA SizeIsInt == ASSUME config \in Configs, config.maxPositionUsd # NaN
                   PROVE  config.maxPositionUsd \in Int
BY ConfigAssumption

LEMMA NothingStartedInBooks ==
    config \in Configs /\ ExecInit /\ GMXInit /\ PaperInit => ExecutorsInv
<1> SUFFICES ASSUME config \in Configs, ExecInit, GMXInit, PaperInit
             PROVE  ExecutorsInv
    OBVIOUS
<1>1. GMXInv /\ PositionsMatchOrders
    BY NothingStarted
<1>2. PaperTypeOK /\ OpenPositionsWillClose /\ NothingTradedOnNaN
    BY PaperAssumption
    DEF PaperInit, ExecInit, PaperTypeOK, OpenPositionsWillClose,
        NothingTradedOnNaN
<1>3. PaperBooksBalance
  <2> SUFFICES ASSUME config.maxPositionUsd # NaN
               PROVE  virtualBalance
                        + config.maxPositionUsd
                            * (Cardinality(paperPositions) + overwritten)
                      = StartBalance + virtualPnL
      BY DEF PaperBooksBalance
  <2>1. config.maxPositionUsd \in Int
      BY SizeIsInt
  <2>2. Cardinality(paperPositions) + overwritten = 0
      BY FS_EmptySet DEF PaperInit
  <2> QED  BY <2>1, <2>2, PaperAssumption DEF PaperInit
<1> QED  BY <1>1, <1>2, <1>3 DEF ExecutorsInv

\* the money a paper position takes out is found in the position
LEMMA PaperTradeBooks ==
    ASSUME ExecutorsInv, config' = config, NEW c \in Calls, PaperTrade(c),
           config.maxPositionUsd # NaN
    PROVE  PaperTypeOK' /\ PaperBooksBalance' /\ OpenPositionsWillClose'
<1> DEFINE m == config.maxPositionUsd
           n == Cardinality(paperPositions)
<1>1. /\ m \in Int /\ n \in Nat /\ overwritten \in Nat
      /\ virtualBalance \in Int /\ virtualPnL \in Int
      /\ IsFiniteSet(paperPositions) /\ SignalOf(c) \in Signals
      /\ timers \subseteq Calls /\ paperPositions \subseteq Signals
    BY SizeIsInt, PositionsFinite
    DEF ExecutorsInv, GMXInv, PaperTypeOK, SignalOf, Calls
<1>2. /\ virtualBalance' = virtualBalance - m
      /\ paperPositions' = paperPositions \union {SignalOf(c)}
      /\ timers' = timers \union {c}
      /\ overwritten' = IF SignalOf(c) \in paperPositions
                        THEN overwritten + 1 ELSE overwritten
      /\ virtualPnL' = virtualPnL
    BY DEF PaperTrade
<1>3. PaperTypeOK'
    BY <1>1, <1>2 DEF PaperTypeOK
<1>4. OpenPositionsWillClose'
    BY <1>2 DEF ExecutorsInv, OpenPositionsWillClose
<1>5. Cardinality(paperPositions') + overwritten' = (n + overwritten) + 1
  <2>1. Cardinality(paperPositions \union {SignalOf(c)})
          = IF SignalOf(c) \in paperPositions THEN n ELSE n + 1
      BY <1>1, FS_AddElement
  <2>2. CASE SignalOf(c) \in paperPositions
    <3>1. Cardinality(paperPositions') = n /\ overwritten' = overwritten + 1
        BY <1>2, <2>1, <2>2
    <3> QED  BY <1>1, <3>1
  <2>3. CASE SignalOf(c) \notin paperPositions
    <3>1. Cardinality(paperPositions') = n + 1 /\ overwritten' = overwritten
        BY <1>2, <2>1, <2>3
    <3> QED  BY <1>1, <3>1
  <2> QED  BY <2>2, <2>3
<1>6. m * (Cardinality(paperPositions') + overwritten')
        = m * (n + overwritten) + m
    BY <1>1, <1>5, OneMore
<1>7. virtualBalance + m * (n + overwritten) = StartBalance + virtualPnL
    BY DEF ExecutorsInv, PaperBooksBalance
<1>8. m * (n + overwritten) \in Int
    BY <1>1
<1>9. virtualBalance' + m * (Cardinality(paperPositions') + overwritten')
        = StartBalance + virtualPnL'
    BY <1>1, <1>2, <1>6, <1>7, <1>8
<1> QED  BY <1>3, <1>4, <1>9 DEF PaperBooksBalance

\* a timer gives it back, with the profit, when it finds the position
LEMMA CloseBooks ==
    ASSUME ExecutorsInv, config' = config, NEW c \in Calls, ClosePosition(c)
    PROVE  PaperTypeOK' /\ PaperBooksBalance' /\ OpenPositionsWillClose'
               /\ NothingTradedOnNaN'
<1> DEFINE m == config.maxPositionUsd
           n == Cardinality(paperPositions)
<1>0. UNCHANGED <<pc, overwritten>> /\ timers' = timers \ {c}
    BY DEF ClosePosition, execVars
<1>1. /\ n \in Nat /\ overwritten \in Nat
      /\ virtualBalance \in Int /\ virtualPnL \in Int
      /\ IsFiniteSet(paperPositions)
      /\ timers \subseteq Calls /\ paperPositions \subseteq Signals
    BY PositionsFinite DEF ExecutorsInv, GMXInv, PaperTypeOK
<1>2. \A s \in paperPositions' :
          /\ s \in paperPositions
          /\ s # SignalOf(c)
    BY DEF ClosePosition
<1>3. OpenPositionsWillClose'
    BY <1>0, <1>2 DEF ExecutorsInv, OpenPositionsWillClose
<1>4. CASE SignalOf(c) \in paperPositions
  <2>1. m # NaN
      BY <1>4 DEF ExecutorsInv, NothingTradedOnNaN
  <2>2. m \in Int
      BY <2>1, SizeIsInt DEF ExecutorsInv, GMXInv
  <2>3. PICK pnl \in Outcomes : /\ virtualPnL' = virtualPnL + pnl
                                /\ virtualBalance' = virtualBalance + m + pnl
                                /\ paperPositions' = paperPositions \ {SignalOf(c)}
      BY <1>4 DEF ClosePosition, Refunded
  <2>4. pnl \in Int
      BY PaperAssumption
  <2>5. Cardinality(paperPositions') = n - 1 /\ n - 1 \in Nat
    <3>1. /\ IsFiniteSet(paperPositions \ {SignalOf(c)})
          /\ Cardinality(paperPositions \ {SignalOf(c)}) = n - 1
        BY <1>1, <1>4, FS_RemoveElement
    <3>2. Cardinality(paperPositions \ {SignalOf(c)}) \in Nat
        BY <3>1, FS_CardinalityType
    <3> QED  BY <2>3, <3>1, <3>2
  <2>6. m * (n + overwritten) = m * ((n - 1) + overwritten) + m
    <3>1. (n - 1) + overwritten \in Nat
            /\ n + overwritten = ((n - 1) + overwritten) + 1
        BY <1>1, <2>5
    <3> QED  BY <2>2, <3>1, OneMore
  <2>7. m * ((n - 1) + overwritten) \in Int
      BY <1>1, <2>2
  <2>8. virtualBalance + m * (n + overwritten) = StartBalance + virtualPnL
      BY <2>1 DEF ExecutorsInv, PaperBooksBalance
  <2>9. virtualBalance' + m * ((n - 1) + overwritten) = StartBalance + virtualPnL'
      BY <1>1, <2>2, <2>3, <2>4, <2>6, <2>7, <2>8, PaperAssumption
  <2>a. PaperTypeOK'
      BY <1>0, <1>1, <2>2, <2>3, <2>4 DEF PaperTypeOK
  <2>b. PaperBooksBalance'
      BY <1>0, <2>5, <2>9 DEF PaperBooksBalance
  <2>c. NothingTradedOnNaN'
      BY <2>1 DEF NothingTradedOnNaN
  <2> QED  BY <1>3, <2>a, <2>b, <2>c
<1>5. CASE SignalOf(c) \notin paperPositions
  <2>1. UNCHANGED <<virtualPnL, virtualBalance, paperPositions>>
      BY <1>5 DEF ClosePosition
  <2> QED
      BY <1>0, <1>1, <1>3, <2>1
      DEF ExecutorsInv, PaperTypeOK, PaperBooksBalance, NothingTradedOnNaN
<1> QED  BY <1>4, <1>5

\* a paper trade concludes a call and touches no order
LEMMA PaperStepGMX ==
    ASSUME GMXInv, config' = config, NEW c \in Calls, PaperExecuteSignal(c),
           UNCHANGED gmxVars
    PROVE  GMXInv'
<1>1. PICK r \in {"executed", "failed"} : pc[c] = "idle" /\ Conclude(c, r)
    BY DEF PaperExecuteSignal, PaperRefuse, PaperTrade
<1>2. order' \in [Calls -> OrderStates] /\ order' = order
          /\ UNCHANGED <<polls, activePositions, peak>>
    BY DEF gmxVars, GMXInv, GMXTypeOK
<1> QED  BY <1>1, <1>2, ConcludeInv

\* resuming a caller, or throwing before the executor began, concludes nothing
LEMMA StageInv ==
    ASSUME GMXInv, config' = config, NEW c \in Calls, NEW stage \in Stages,
           pc' = [pc EXCEPT ![c] = stage],
           \/ pc[c] \in {"idle", "threw"} /\ stage = "threw"
           \/ pc[c] = "returned" /\ stage = "done",
           UNCHANGED <<result, history, gmxVars>>
    PROVE  GMXInv'
<1> USE DEF gmxVars, GMXInv, GMXTypeOK
<1>1. pc \in [Calls -> Stages]
    BY DEF ExecTypeOK
<1>2. pc[c] \notin Awaiting /\ stage \notin Awaiting
    BY DEF Awaiting
<1>3. Cardinality(InFlight') = Cardinality(InFlight)
    BY <1>2, FlightChanges
<1>4. OvershootBoundedByRace'
    BY <1>3 DEF OvershootBoundedByRace
<1>5. UNCHANGED <<Executed, Failed>>
    BY DEF Executed, Failed
<1>6. ExecTypeOK'
    BY <1>1 DEF ExecTypeOK
<1>7. HistoryComplete'
    BY <1>1, <1>5 DEF HistoryComplete
<1>8. OrdersFollowCalls'
    BY <1>1 DEF OrdersFollowCalls
<1> QED  BY <1>4, <1>6, <1>7, <1>8

LEMMA RestKeepsBooks == ASSUME ExecutorsInv, ExecutorsRest PROVE ExecutorsInv'
<1>1. UNCHANGED <<InFlight, Executed, Failed>>
    BY DEF ExecutorsRest, execVars, InFlight, Executed, Failed
<1> QED
    BY <1>1
    DEF ExecutorsRest, execVars, gmxVars, paperVars, ExecutorsInv, GMXInv,
        GMXTypeOK, ExecTypeOK, OrdersFollowCalls, HistoryComplete,
        OvershootBoundedByRace, PositionsMatchOrders, PaperTypeOK,
        PaperBooksBalance, OpenPositionsWillClose, NothingTradedOnNaN

LEMMA ResetKeepsBooks == ASSUME ExecutorsInv, ExecutorsReset PROVE ExecutorsInv'
<1>1. (config \in Configs /\ ExecInit /\ GMXInit /\ PaperInit)'
    BY DEF ExecutorsInv, GMXInv, ExecutorsReset, ExecReset, GMXReset, PaperReset,
           ExecInit, GMXInit, PaperInit
<1>2. (config \in Configs /\ ExecInit /\ GMXInit /\ PaperInit => ExecutorsInv)'
    BY NothingStartedInBooks, PTL
<1> QED  BY <1>1, <1>2

LEMMA TradeKeepsBooks ==
    ASSUME ExecutorsInv, NEW c \in Calls, Traded(c) PROVE ExecutorsInv'
<1>1. config' = config /\ paperMode' = paperMode /\ config.maxPositionUsd # NaN
          /\ NothingTradedOnNaN'
    BY DEF Traded, NothingTradedOnNaN
<1>2. CASE ~paperMode
  <2>1. GMXCall(c) /\ UNCHANGED paperVars
      BY <1>2 DEF Traded, GMXCall
  <2>2. GMXInv' /\ PositionsMatchOrders'
      BY <1>1, <1>2, <2>1, GMXCallInv, GMXCallPositions DEF ExecutorsInv
  <2>3. PaperTypeOK' /\ PaperBooksBalance' /\ OpenPositionsWillClose'
      BY <1>1, <2>1 DEF paperVars, ExecutorsInv, PaperTypeOK, PaperBooksBalance,
                        OpenPositionsWillClose
  <2> QED  BY <1>1, <2>2, <2>3 DEF ExecutorsInv
<1>3. CASE paperMode
  <2>1. PaperExecuteSignal(c) /\ UNCHANGED gmxVars
      BY <1>3 DEF Traded
  <2>2. GMXInv'
      BY <1>1, <2>1, PaperStepGMX DEF ExecutorsInv
  <2>3. PaperTypeOK' /\ PaperBooksBalance' /\ OpenPositionsWillClose'
    <3>1. CASE PaperTrade(c)
        BY <1>1, <3>1, PaperTradeBooks
    <3>2. CASE PaperRefuse(c)
        BY <1>1, <3>2 DEF PaperRefuse, paperVars, ExecutorsInv, PaperTypeOK,
                          PaperBooksBalance, OpenPositionsWillClose
    <3> QED  BY <2>1, <3>1, <3>2 DEF PaperExecuteSignal
  <2> QED  BY <1>1, <1>3, <2>2, <2>3 DEF ExecutorsInv
<1> QED  BY <1>2, <1>3

LEMMA SettleKeepsBooks ==
    ASSUME ExecutorsInv, NEW c \in Calls, Settled(c) PROVE ExecutorsInv'
<1>1. GMXCall(c) /\ config' = config /\ paperMode' = paperMode
          /\ UNCHANGED paperVars
    BY DEF Settled, GMXCall
<1>2. GMXInv' /\ (~paperMode => PositionsMatchOrders')
    BY <1>1, GMXCallInv, GMXCallPositions DEF ExecutorsInv
<1>3. pc[c] \in {"order", "wait"}
    BY DEF Settled, Settle, KeeperSettles, GiveUp, SendOrder, SendThrows, Poll,
           PollExecuted, PollCancelled, PollAgain, PollTimeout
<1>4. NothingTradedOnNaN'
    BY <1>1, <1>3 DEF ExecutorsInv, NothingTradedOnNaN
<1>5. PaperTypeOK' /\ PaperBooksBalance' /\ OpenPositionsWillClose'
    BY <1>1 DEF paperVars, ExecutorsInv, PaperTypeOK, PaperBooksBalance,
                OpenPositionsWillClose
<1> QED  BY <1>1, <1>2, <1>4, <1>5 DEF ExecutorsInv

\* the steps of a call that trade nothing: Resumed and Threw
LEMMA StageKeepsBooks ==
    ASSUME ExecutorsInv, NEW c \in Calls, Resumed(c) \/ Threw(c)
    PROVE  ExecutorsInv'
<1>1. /\ config' = config /\ paperMode' = paperMode
      /\ UNCHANGED <<result, history, gmxVars, paperVars>>
    BY DEF Resumed, Threw, Throw
<1>2. PICK stage \in {"done", "threw"} :
          /\ pc' = [pc EXCEPT ![c] = stage]
          /\ \/ pc[c] \in {"idle", "threw"} /\ stage = "threw"
             \/ pc[c] = "returned" /\ stage = "done"
    BY DEF Resumed, Threw, Throw, ExecutorsInv, NothingTradedOnNaN
<1>3. GMXInv'
  <2>1. stage \in Stages
      BY DEF Stages
  <2>2. GMXInv /\ config' = config /\ UNCHANGED <<result, history, gmxVars>>
      BY <1>1 DEF ExecutorsInv
  <2> QED  BY <1>2, <2>1, <2>2, StageInv
<1>4. UNCHANGED <<Executed, Failed>>
    BY <1>1 DEF Executed, Failed
<1>5. ~paperMode => PositionsMatchOrders'
    BY <1>1, <1>4 DEF gmxVars, ExecutorsInv, PositionsMatchOrders
<1>6. PaperTypeOK' /\ PaperBooksBalance' /\ OpenPositionsWillClose'
    BY <1>1 DEF paperVars, ExecutorsInv, PaperTypeOK, PaperBooksBalance,
                OpenPositionsWillClose
<1>7. NothingTradedOnNaN'
  <2>1. pc \in [Calls -> Stages]
      BY DEF ExecutorsInv, GMXInv, GMXTypeOK, ExecTypeOK
  <2>2. UNCHANGED <<config, paperPositions>>
      BY <1>1 DEF paperVars
  <2> SUFFICES ASSUME config.maxPositionUsd = NaN
               PROVE  /\ \A d \in Calls : pc'[d] \in {"idle", "threw"}
                      /\ paperPositions = {}
      BY <2>2 DEF NothingTradedOnNaN
  <2>3. /\ \A d \in Calls : pc[d] \in {"idle", "threw"}
        /\ paperPositions = {}
      BY DEF ExecutorsInv, NothingTradedOnNaN
  <2>4. pc' = [pc EXCEPT ![c] = "threw"]
      BY <1>2, <2>3
  <2> QED  BY <2>1, <2>3, <2>4
<1> QED  BY <1>1, <1>3, <1>5, <1>6, <1>7 DEF ExecutorsInv

LEMMA CloseKeepsBooks ==
    ASSUME ExecutorsInv, NEW c \in Calls, Closed(c) PROVE ExecutorsInv'
<1>1. config' = config /\ paperMode' = paperMode /\ ClosePosition(c)
          /\ UNCHANGED <<execVars, gmxVars>>
    BY DEF Closed, ClosePosition
<1>2. UNCHANGED <<InFlight, Executed, Failed>>
    BY <1>1 DEF execVars, InFlight, Executed, Failed
<1>3. GMXInv' /\ (~paperMode => PositionsMatchOrders')
    BY <1>1, <1>2
    DEF execVars, gmxVars, ExecutorsInv, GMXInv, GMXTypeOK, ExecTypeOK,
        OrdersFollowCalls, HistoryComplete, OvershootBoundedByRace,
        PositionsMatchOrders
<1> QED  BY <1>1, <1>3, CloseBooks DEF ExecutorsInv

LEMMA StepsKeepBooks ==
    ASSUME ExecutorsInv, ExecutorsStep PROVE ExecutorsInv'
BY RestKeepsBooks, ResetKeepsBooks, TradeKeepsBooks, SettleKeepsBooks,
   StageKeepsBooks, CloseKeepsBooks DEF ExecutorsStep

-----------------------------------------------------------------------------
(* Queues of events *)

Distinct(queue) == \A i, j \in DOMAIN queue : queue[i] = queue[j] => i = j

LEMMA QueueAppend ==
    ASSUME NEW q \in Seq(Events), NEW e \in Events
    PROVE  /\ Append(q, e) \in Seq(Events)
           /\ Elements(Append(q, e)) = Elements(q) \union {e}
           /\ Distinct(q) /\ e \notin Elements(q) => Distinct(Append(q, e))
<1> DEFINE r == Append(q, e)
<1>1. r \in Seq(Events)
    OBVIOUS
<1>2. /\ DOMAIN q = 1..Len(q) /\ DOMAIN r = 1..(Len(q) + 1)
      /\ Len(q) \in Nat
      /\ \A i \in DOMAIN q : r[i] = q[i]
      /\ r[Len(q) + 1] = e
    OBVIOUS
<1>3. DOMAIN r = DOMAIN q \union {Len(q) + 1}
    BY <1>2
<1>4. Elements(r) = Elements(q) \union {e}
    BY <1>2, <1>3 DEF Elements
<1>5. ASSUME Distinct(q), e \notin Elements(q) PROVE Distinct(r)
  <2>1. \A i \in DOMAIN q : r[i] # e
      BY <1>2, <1>5 DEF Elements
  <2> QED  BY <1>2, <1>3, <1>5, <2>1 DEF Distinct
<1> QED  BY <1>1, <1>4, <1>5

LEMMA QueueTail ==
    ASSUME NEW q \in Seq(Events), q # << >>
    PROVE  /\ Head(q) \in Events /\ Tail(q) \in Seq(Events)
           /\ Elements(q) = Elements(Tail(q)) \union {Head(q)}
           /\ Distinct(q) => Distinct(Tail(q)) /\ Head(q) \notin Elements(Tail(q))
<1> DEFINE r == Tail(q)
<1>1. /\ Head(q) \in Events /\ r \in Seq(Events)
      /\ Len(q) \in Nat \ {0}
      /\ DOMAIN q = 1..Len(q) /\ DOMAIN r = 1..(Len(q) - 1)
      /\ \A i \in DOMAIN r : r[i] = q[i + 1]
      /\ Head(q) = q[1]
    OBVIOUS
<1>2. \A i \in DOMAIN r : i + 1 \in DOMAIN q /\ i + 1 # 1
    BY <1>1
<1>3. Elements(r) \union {Head(q)} \subseteq Elements(q)
    BY <1>1, <1>2 DEF Elements
<1>4. ASSUME NEW e \in Elements(q), e # Head(q) PROVE e \in Elements(r)
  <2>1. PICK i \in DOMAIN q : e = q[i]
      BY DEF Elements
  <2>2. i \in Int /\ i - 1 \in DOMAIN r
      BY <1>1, <1>4, <2>1
  <2>3. r[i - 1] = q[i]
      BY <1>1, <2>2
  <2> QED  BY <2>1, <2>2, <2>3 DEF Elements
<1>5. ASSUME Distinct(q) PROVE Distinct(r) /\ Head(q) \notin Elements(r)
  <2>1. Distinct(r)
    <3> SUFFICES ASSUME NEW i \in DOMAIN r, NEW j \in DOMAIN r, r[i] = r[j]
                 PROVE  i = j
        BY DEF Distinct
    <3>1. i + 1 \in DOMAIN q /\ j + 1 \in DOMAIN q /\ i \in Int /\ j \in Int
        BY <1>1
    <3>2. q[i + 1] = q[j + 1]
        BY <1>1
    <3>3. i + 1 = j + 1
        BY <1>5, <3>1, <3>2 DEF Distinct
    <3> QED  BY <3>1, <3>3
  <2>2. \A i \in DOMAIN r : r[i] # Head(q)
    <3> SUFFICES ASSUME NEW i \in DOMAIN r PROVE q[i + 1] # q[1]
        BY <1>1
    <3>1. i + 1 \in DOMAIN q /\ 1 \in DOMAIN q /\ i + 1 # 1
        BY <1>1, <1>2
    <3> QED  BY <1>5, <3>1 DEF Distinct
  <2> QED  BY <2>1, <2>2 DEF Elements
<1> QED  BY <1>1, <1>3, <1>4, <1>5

LEMMA QueueEmpty == /\ << >> \in Seq(Events) /\ Distinct(<< >>)
                    /\ Elements(<< >>) = {}
BY DEF Distinct, Elements

LEMMA EventParts ==
    ASSUME NEW e \in Events
    PROVE  /\ e[1] \in Signals /\ e[2] \in 1..MaxPublished /\ e = <<e[1], e[2]>>
           /\ SignalOf(e) = e[1]
BY DEF Events, SignalOf

-----------------------------------------------------------------------------
(* Signals handled twice, and signals missed *)

OnItsWay == Elements(eventStream) \union Elements(wire)

SignalsTypeOK ==
    /\ wire \in Seq(Events) /\ eventStream \in Seq(Events)
    /\ signalState \in [Signals -> {"unborn", "active", "closed"}]
    /\ published \in [Signals -> 0..MaxPublished]
    /\ handed \in [Calls -> Nat]

\* an event is in one place, once, until it has been handled
EachEventOnce ==
    /\ Distinct(eventStream) /\ Distinct(wire)
    /\ Elements(eventStream) \intersect Elements(wire) = {}
    /\ \A c \in Calls : handed[c] > 0 => handed[c] = 1 /\ c \notin OnItsWay

\* events are numbered as they are published, and the channel holds none but
\* the last one of a signal: a restart empties it
Numbered ==
    /\ \A c \in Calls : handed[c] > 0 \/ c \in OnItsWay =>
           c[2] <= published[SignalOf(c)]
    /\ \A e \in Elements(eventStream) :
           e = LastEvent(e[1]) /\ signalState[e[1]] # "unborn"

\* what a second event of a signal can come from, before there is one
RepeatsExplained ==
    \A s \in Signals :
        /\ signalState[s] = "active" => published[s] > 0
        /\ published[s] > 1 => s \in forgotten
        /\ published[s] > 0 /\ signalState[s] = "unborn" => s \in forgotten

\* MissedExplained, whether the agent is connected or not
Covered ==
    \A s \in ActiveSignals :
        \/ LastEvent(s) \in OnItsWay
        \/ s \in unheard
        \/ /\ phase \notin {"boot", "exited"}
           /\ ShouldFollowSignal(s) => handed[LastEvent(s)] > 0

SignalsInv ==
    /\ SignalsTypeOK
    /\ EachEventOnce
    /\ Numbered
    /\ RepeatsExplained
    /\ Covered

LEMMA RepeatsAreExplained == SignalsInv => HandledTwiceExplained
<1> SUFFICES ASSUME SignalsInv, NEW c \in Calls, NEW d \in Calls,
                    handed[c] > 0, handed[d] > 0, SignalOf(c) = SignalOf(d)
             PROVE  /\ handed[c] = 1
                    /\ c # d => SignalOf(c) \in forgotten
    BY DEF HandledTwiceExplained
<1>1. handed[c] = 1
    BY DEF SignalsInv, EachEventOnce
<1>2. ASSUME c # d PROVE SignalOf(c) \in forgotten
  <2>1. /\ c[1] = d[1] /\ c[1] \in Signals /\ c[2] # d[2]
        /\ c[2] \in 1..MaxPublished /\ d[2] \in 1..MaxPublished
        /\ SignalOf(c) = c[1]
      BY <1>2 DEF Calls, SignalOf
  <2>2. c[2] <= published[c[1]] /\ d[2] <= published[c[1]]
      BY <2>1 DEF SignalsInv, Numbered, SignalOf
  <2>3. published[c[1]] \in Int
      BY <2>1 DEF SignalsInv, SignalsTypeOK
  <2>4. published[c[1]] > 1
      BY <2>1, <2>2, <2>3, SignalsAssumption
  <2> QED  BY <2>1, <2>4 DEF SignalsInv, RepeatsExplained
<1> QED  BY <1>1, <1>2

SignalsRest ==
    /\ UNCHANGED <<config, wire, signalState, eventStream, published, unheard,
                   forgotten, handed>>
    /\ \/ UNCHANGED <<phase, nodeStatsCache>>
       \/ phase \in {"boot", "exited"}
       \/ phase' = "running" /\ UNCHANGED nodeStatsCache

LEMMA RestKeepsSignals == ASSUME SignalsInv, SignalsRest PROVE SignalsInv'
<1>1. UNCHANGED <<OnItsWay, ActiveSignals>>
    BY DEF SignalsRest, OnItsWay, Elements, ActiveSignals
<1>2. \A s \in Signals : LastEvent(s)' = LastEvent(s)
    BY DEF SignalsRest, LastEvent
<1>3. SignalsTypeOK' /\ RepeatsExplained'
    BY DEF SignalsInv, SignalsRest, SignalsTypeOK, RepeatsExplained
<1>6. EachEventOnce'
    BY <1>1 DEF SignalsInv, SignalsRest, EachEventOnce, Distinct, Elements
<1>4. Numbered'
    BY <1>1 DEF SignalsInv, SignalsRest, Numbered, Elements, LastEvent
<1>5. Covered'
  <2> SUFFICES ASSUME NEW s \in ActiveSignals
               PROVE  (\/ LastEvent(s) \in OnItsWay
                       \/ s \in unheard
                       \/ /\ phase \notin {"boot", "exited"}
                          /\ ShouldFollowSignal(s) => handed[LastEvent(s)] > 0)'
      BY <1>1 DEF Covered
  <2>1. s \in Signals
      BY DEF ActiveSignals
  <2>2. CASE phase \in {"boot", "exited"}
      BY <1>1, <1>2, <2>1, <2>2 DEF SignalsInv, Covered, SignalsRest
  <2>3. CASE /\ UNCHANGED nodeStatsCache
             /\ phase \notin {"boot", "exited"} => phase' \notin {"boot", "exited"}
    <3>1. ShouldFollowSignal(s)' <=> ShouldFollowSignal(s)
        BY <2>3 DEF SignalsRest, ShouldFollowSignal
    <3> QED
        BY <1>1, <1>2, <2>1, <2>3, <3>1 DEF SignalsInv, Covered, SignalsRest
  <2> QED  BY <2>2, <2>3 DEF SignalsRest
<1> QED  BY <1>3, <1>4, <1>5, <1>6 DEF SignalsInv

\* what the agent keeps while the platform or the socket takes a step
AgentRest == UNCHANGED <<config, phase, nodeStatsCache, handed>>

LEMMA SameFilter ==
    ASSUME AgentRest
    PROVE  \A s \in Signals : ShouldFollowSignal(s)' <=> ShouldFollowSignal(s)
BY DEF AgentRest, ShouldFollowSignal

\* what a scheduled signal needs
CoveredBy(s) ==
    \/ LastEvent(s) \in OnItsWay
    \/ s \in unheard
    \/ /\ phase \notin {"boot", "exited"}
       /\ ShouldFollowSignal(s) => handed[LastEvent(s)] > 0

LEMMA CoveredOneByOne == Covered <=> \A s \in ActiveSignals : CoveredBy(s)
BY DEF Covered, CoveredBy

LEMMA StillCovered ==
    ASSUME AgentRest, NEW s \in Signals, CoveredBy(s),
           published'[s] = published[s],
           LastEvent(s) \in OnItsWay =>
               LastEvent(s) \in OnItsWay' \/ s \in unheard',
           s \in unheard => s \in unheard' \/ LastEvent(s) \in OnItsWay'
    PROVE  CoveredBy(s)'
<1>1. LastEvent(s)' = LastEvent(s)
    BY DEF LastEvent
<1>2. ShouldFollowSignal(s)' <=> ShouldFollowSignal(s)
    BY SameFilter
<1> QED  BY <1>1, <1>2 DEF CoveredBy, AgentRest

LEMMA PublishKeepsSignals ==
    ASSUME SignalsInv, NEW s \in Signals, Publish(s), AgentRest
    PROVE  SignalsInv'
<1> DEFINE n == published[s] + 1
           e == <<s, n>>
<1> USE DEF SignalsInv, SignalsTypeOK
<1>1. /\ signalState[s] = "unborn" /\ published[s] < MaxPublished
      /\ signalState' = [signalState EXCEPT ![s] = "active"]
      /\ published' = [published EXCEPT ![s] = n]
      /\ UNCHANGED <<wire, forgotten>>
      /\ \/ eventStream' = Append(eventStream, e) /\ unheard' = unheard
         \/ unheard' = unheard \union {s} /\ eventStream' = eventStream
    BY DEF Publish
<1>2. /\ published[s] \in Nat /\ n \in 1..MaxPublished
      /\ n = published[s] + 1
      /\ e \in Events /\ e \in Calls /\ e[1] = s /\ e[2] = n
    BY <1>1, SignalsAssumption DEF Events, Calls
<1> HIDE DEF n, e
<1>3. e \notin OnItsWay /\ ~(handed[e] > 0)
  <2>1. SignalOf(e) = s /\ ~(n <= published[s])
      BY <1>2 DEF SignalOf
  <2> QED  BY <1>2, <2>1 DEF Numbered
<1>4. \A d \in Elements(eventStream) : d[1] # s
    BY <1>1 DEF Numbered
<1>5. /\ eventStream' \in Seq(Events)
      /\ Distinct(eventStream) => Distinct(eventStream)'
      /\ \/ /\ Elements(eventStream)' = Elements(eventStream) \union {e}
            /\ UNCHANGED unheard
         \/ /\ Elements(eventStream)' = Elements(eventStream)
            /\ unheard' = unheard \union {s}
  <2>1. CASE eventStream' = Append(eventStream, e) /\ unheard' = unheard
    <3>1. e \notin Elements(eventStream)
        BY <1>3 DEF OnItsWay
    <3>2. /\ Append(eventStream, e) \in Seq(Events)
          /\ Elements(Append(eventStream, e)) = Elements(eventStream) \union {e}
          /\ Distinct(eventStream) => Distinct(Append(eventStream, e))
        BY <1>2, <3>1, QueueAppend
    <3>3. /\ Elements(eventStream)' = Elements(Append(eventStream, e))
          /\ Distinct(eventStream)' <=> Distinct(Append(eventStream, e))
        BY <2>1 DEF Elements, Distinct
    <3> QED  BY <2>1, <3>2, <3>3
  <2>2. CASE unheard' = unheard \union {s} /\ eventStream' = eventStream
      BY <2>2 DEF Elements, Distinct
  <2> QED  BY <1>1, <2>1, <2>2
<1>6. Elements(wire)' = Elements(wire) /\ (Distinct(wire)' <=> Distinct(wire))
    BY <1>1 DEF Elements, Distinct
<1>7. OnItsWay \subseteq OnItsWay' /\ OnItsWay' \subseteq OnItsWay \union {e}
    BY <1>5, <1>6 DEF OnItsWay
<1>8. SignalsTypeOK'
  <2>1. published' \in [Signals -> 0..MaxPublished]
      BY <1>1, <1>2
  <2> QED  BY <1>1, <1>5, <2>1 DEF AgentRest
<1>9. EachEventOnce'
  <2>1. handed' = handed
      BY DEF AgentRest
  <2>2. \A c \in Calls : handed[c] > 0 => handed[c] = 1 /\ c \notin OnItsWay'
      BY <1>3, <1>7 DEF EachEventOnce
  <2>3. Elements(eventStream)' \intersect Elements(wire)' = {}
      BY <1>3, <1>5, <1>6 DEF EachEventOnce, OnItsWay
  <2> QED  BY <1>5, <1>6, <2>1, <2>2, <2>3 DEF EachEventOnce
<1>a. Numbered'
  <2>1. \A t \in Signals : published[t] \in Nat /\ published[t] <= published'[t]
      BY <1>1, <1>2, SignalsAssumption
  <2>2. ASSUME NEW c \in Calls, handed'[c] > 0 \/ c \in OnItsWay'
        PROVE  c[2] <= published'[SignalOf(c)]
    <3>1. c[1] \in Signals /\ c[2] \in Nat /\ SignalOf(c) = c[1]
        BY DEF Calls, SignalOf
    <3>2. CASE c = e
        BY <1>1, <1>2, <3>1, <3>2
    <3>3. CASE c # e
      <4>1. handed[c] > 0 \/ c \in OnItsWay
          BY <1>7, <2>2, <3>3 DEF AgentRest
      <4>2. c[2] <= published[c[1]]
          BY <3>1, <4>1 DEF Numbered
      <4>3. published'[c[1]] \in Nat
          BY <1>8, <3>1, SignalsAssumption
      <4> QED  BY <2>1, <3>1, <4>2, <4>3
    <3> QED  BY <3>2, <3>3
  <2>3. ASSUME NEW d \in Elements(eventStream)'
        PROVE  d = <<d[1], published'[d[1]]>> /\ signalState'[d[1]] # "unborn"
    <3>1. CASE d = e
      <4>1. e = <<s, n>>
          BY DEF e
      <4> QED  BY <1>1, <1>2, <3>1, <4>1
    <3>2. CASE d # e
      <4>1. d \in Elements(eventStream) /\ d[1] # s
          BY <1>4, <1>5, <3>2
      <4>2. d \in Events
          BY <4>1 DEF Elements
      <4>3. d[1] \in Signals
          BY <4>2 DEF Events
      <4>4. /\ d = <<d[1], published[d[1]]>> /\ signalState[d[1]] # "unborn"
          BY <4>1 DEF Numbered, LastEvent
      <4> QED  BY <1>1, <4>1, <4>3, <4>4
    <3> QED  BY <3>1, <3>2
  <2> QED  BY <2>2, <2>3 DEF Numbered, LastEvent
<1>b. RepeatsExplained'
  <2> SUFFICES ASSUME NEW t \in Signals
               PROVE  /\ signalState'[t] = "active" => published'[t] > 0
                      /\ published'[t] > 1 => t \in forgotten
                      /\ published'[t] > 0 /\ signalState'[t] = "unborn"
                            => t \in forgotten
      BY <1>1 DEF RepeatsExplained
  <2>1. CASE t = s
    <3>1. published[s] > 0 => s \in forgotten
        BY <1>1 DEF RepeatsExplained
    <3> QED  BY <1>1, <1>2, <2>1, <3>1
  <2>2. CASE t # s
      BY <1>1, <2>2 DEF RepeatsExplained
  <2> QED  BY <2>1, <2>2
<1>c. Covered'
  <2> SUFFICES ASSUME NEW t \in ActiveSignals' PROVE CoveredBy(t)'
      BY DEF Covered, CoveredBy
  <2>1. t \in Signals
      BY DEF ActiveSignals
  <2>2. CASE t = s
    <3>1. LastEvent(t)' = e
        BY <1>1, <1>2, <2>2 DEF LastEvent, e
    <3>2. e \in OnItsWay' \/ s \in unheard'
        BY <1>5 DEF OnItsWay
    <3> QED  BY <2>2, <3>1, <3>2 DEF CoveredBy
  <2>3. CASE t # s
    <3>1. t \in ActiveSignals /\ published'[t] = published[t]
        BY <1>1, <2>1, <2>3 DEF ActiveSignals
    <3>2. CoveredBy(t)
        BY <3>1, CoveredOneByOne
    <3> QED  BY <1>5, <1>7, <2>1, <3>1, <3>2, StillCovered
  <2> QED  BY <2>2, <2>3
<1> QED  BY <1>8, <1>9, <1>a, <1>b, <1>c

\* a signal leaves the schedule, nothing else happens
LEMMA CloseSignalKeepsSignals ==
    ASSUME SignalsInv, NEW s \in Signals, CloseSignal(s), AgentRest
    PROVE  SignalsInv'
<1> USE DEF SignalsInv, SignalsTypeOK
<1>1. /\ signalState[s] = "active"
      /\ signalState' = [signalState EXCEPT ![s] = "closed"]
      /\ UNCHANGED <<wire, eventStream, published, unheard, forgotten>>
    BY DEF CloseSignal, UpdateDropped
<1>2. UNCHANGED <<OnItsWay, Elements(eventStream), Elements(wire)>>
    BY <1>1 DEF OnItsWay, Elements
<1>3. SignalsTypeOK' /\ EachEventOnce' /\ RepeatsExplained'
    BY <1>1, <1>2 DEF AgentRest, EachEventOnce, Distinct, RepeatsExplained
<1>4. Numbered'
    BY <1>1, <1>2 DEF AgentRest, Numbered, LastEvent
<1>5. Covered'
  <2> SUFFICES ASSUME NEW t \in ActiveSignals' PROVE CoveredBy(t)'
      BY DEF Covered, CoveredBy
  <2>1. t \in Signals /\ t \in ActiveSignals
      BY <1>1 DEF ActiveSignals
  <2>2. CoveredBy(t)
      BY <2>1, CoveredOneByOne
  <2> QED  BY <1>1, <1>2, <2>1, <2>2, StillCovered
<1> QED  BY <1>3, <1>4, <1>5

\* the event of the head goes to the wire, or its signal is unheard
LEMMA FanOutKeepsSignals ==
    ASSUME SignalsInv, FanOut, AgentRest
    PROVE  SignalsInv'
<1> USE DEF SignalsInv, SignalsTypeOK
<1> DEFINE e == Head(eventStream)
<1>1. /\ eventStream # << >> /\ eventStream' = Tail(eventStream)
      /\ \/ wire' = Append(wire, e) /\ unheard' = unheard \ {e[1]}
         \/ wire' = wire /\ unheard' = unheard \union {e[1]}
      /\ UNCHANGED <<signalState, published, forgotten>>
    BY DEF FanOut
<1> HIDE DEF e
<1>2. /\ e \in Events /\ eventStream' \in Seq(Events)
      /\ Elements(eventStream) = Elements(eventStream)' \union {e}
      /\ Distinct(eventStream)' /\ e \notin Elements(eventStream)'
  <2>1. /\ e \in Events /\ Tail(eventStream) \in Seq(Events)
        /\ Elements(eventStream) = Elements(Tail(eventStream)) \union {e}
        /\ Distinct(Tail(eventStream)) /\ e \notin Elements(Tail(eventStream))
      BY <1>1, QueueTail DEF EachEventOnce, e
  <2>2. /\ Elements(eventStream)' = Elements(Tail(eventStream))
        /\ Distinct(eventStream)' <=> Distinct(Tail(eventStream))
      BY <1>1 DEF Elements, Distinct
  <2> QED  BY <1>1, <2>1, <2>2
<1>3. e \notin Elements(wire)
    BY <1>2 DEF EachEventOnce
<1>4. /\ wire' \in Seq(Events) /\ Distinct(wire)'
      /\ \/ /\ Elements(wire)' = Elements(wire) \union {e}
            /\ unheard' = unheard \ {e[1]}
         \/ /\ Elements(wire)' = Elements(wire)
            /\ unheard' = unheard \union {e[1]}
  <2>1. CASE wire' = Append(wire, e) /\ unheard' = unheard \ {e[1]}
    <3>1. /\ Append(wire, e) \in Seq(Events)
          /\ Elements(Append(wire, e)) = Elements(wire) \union {e}
          /\ Distinct(Append(wire, e))
        BY <1>2, <1>3, QueueAppend DEF EachEventOnce
    <3>2. /\ Elements(wire)' = Elements(Append(wire, e))
          /\ Distinct(wire)' <=> Distinct(Append(wire, e))
        BY <2>1 DEF Elements, Distinct
    <3> QED  BY <2>1, <3>1, <3>2
  <2>2. CASE wire' = wire /\ unheard' = unheard \union {e[1]}
      BY <2>2 DEF Elements, Distinct, EachEventOnce
  <2> QED  BY <1>1, <2>1, <2>2
<1>5. OnItsWay' \subseteq OnItsWay /\ OnItsWay \subseteq OnItsWay' \union {e}
    BY <1>2, <1>4 DEF OnItsWay
<1>6. SignalsTypeOK'
    BY <1>1, <1>2, <1>4 DEF AgentRest
<1>7. EachEventOnce'
    BY <1>2, <1>3, <1>4, <1>5 DEF EachEventOnce, AgentRest
<1>8. Numbered'
    BY <1>1, <1>2, <1>5 DEF Numbered, LastEvent, AgentRest
<1>9. RepeatsExplained'
    BY <1>1 DEF RepeatsExplained
<1>a. Covered'
  <2> SUFFICES ASSUME NEW t \in ActiveSignals' PROVE CoveredBy(t)'
      BY DEF Covered, CoveredBy
  <2>1. t \in Signals /\ t \in ActiveSignals
      BY <1>1 DEF ActiveSignals
  <2>2. CoveredBy(t)
      BY <2>1, CoveredOneByOne
  <2>3. e = LastEvent(e[1]) /\ e[1] \in Signals
      BY <1>2 DEF Numbered, Events
  <2>4. LastEvent(t) = e => t = e[1]
      BY <2>1, <2>3 DEF LastEvent
  <2>5. e \in OnItsWay' \/ e[1] \in unheard'
      BY <1>4 DEF OnItsWay
  <2>6. LastEvent(t) \in OnItsWay => LastEvent(t) \in OnItsWay' \/ t \in unheard'
      BY <1>5, <2>4, <2>5
  <2>7. t \in unheard => t \in unheard' \/ LastEvent(t) \in OnItsWay'
      BY <1>4, <2>3 DEF OnItsWay
  <2> QED  BY <1>1, <2>1, <2>2, <2>6, <2>7, StillCovered
<1> QED  BY <1>6, <1>7, <1>8, <1>9, <1>a

LEMMA PlatformRestartsKeepsSignals ==
    ASSUME SignalsInv, PlatformRestarts, AgentRest
    PROVE  SignalsInv'
<1> USE DEF SignalsInv, SignalsTypeOK
<1>1. /\ signalState' \in [Signals -> {"unborn", "active", "closed"}]
      /\ \A s \in Signals :
             \/ signalState'[s] = signalState[s]
             \/ /\ signalState[s] = "active" /\ signalState'[s] = "unborn"
                /\ s \in forgotten'
      /\ forgotten \subseteq forgotten'
      /\ eventStream' = << >>
      /\ unheard' = unheard \union SignalsIn(eventStream)
      /\ UNCHANGED <<wire, published>>
  <2>1. PICK kept \in SUBSET ActiveSignals :
            /\ signalState' = [s \in Signals |->
                                  IF s \in ActiveSignals \ kept THEN "unborn"
                                  ELSE signalState[s]]
            /\ forgotten' = forgotten \union (ActiveSignals \ kept)
      BY DEF PlatformRestarts
  <2> QED  BY <2>1 DEF PlatformRestarts, ActiveSignals
<1>2. /\ eventStream' \in Seq(Events) /\ Distinct(eventStream)'
      /\ Elements(eventStream)' = {}
    BY <1>1, QueueEmpty DEF Distinct, Elements
<1>3. Elements(wire)' = Elements(wire) /\ (Distinct(wire)' <=> Distinct(wire))
    BY <1>1 DEF Elements, Distinct
<1>4. OnItsWay' \subseteq OnItsWay
    BY <1>2, <1>3 DEF OnItsWay
<1>5. SignalsTypeOK'
    BY <1>1, <1>2 DEF AgentRest
<1>6. EachEventOnce'
    BY <1>2, <1>3, <1>4 DEF EachEventOnce, AgentRest
<1>7. Numbered'
    BY <1>1, <1>2, <1>4 DEF Numbered, AgentRest
<1>8. RepeatsExplained'
    BY <1>1 DEF RepeatsExplained
<1>9. Covered'
  <2> SUFFICES ASSUME NEW t \in ActiveSignals' PROVE CoveredBy(t)'
      BY DEF Covered, CoveredBy
  <2>1. t \in Signals /\ t \in ActiveSignals
      BY <1>1 DEF ActiveSignals
  <2>2. CoveredBy(t)
      BY <2>1, CoveredOneByOne
  <2>3. LastEvent(t) \in Elements(eventStream) => t \in unheard'
      BY <1>1, <2>1 DEF LastEvent, SignalsIn
  <2>4. LastEvent(t) \in OnItsWay => LastEvent(t) \in OnItsWay' \/ t \in unheard'
      BY <1>3, <2>3 DEF OnItsWay
  <2> QED  BY <1>1, <2>1, <2>2, <2>4, StillCovered
<1> QED  BY <1>5, <1>6, <1>7, <1>8, <1>9

\* the wire is emptied and its signals are unheard
WireLost ==
    /\ UNCHANGED <<signalState, eventStream, published, forgotten, handed, config>>
    /\ wire' = << >>
    /\ SignalsIn(wire) \subseteq unheard' /\ unheard \subseteq unheard'
    /\ UNCHANGED <<phase, nodeStatsCache>> \/ ActiveSignals \subseteq unheard'

LEMMA LossKeepsSignals == ASSUME SignalsInv, WireLost PROVE SignalsInv'
<1> USE DEF SignalsInv, SignalsTypeOK, WireLost
<1>1. /\ wire' \in Seq(Events) /\ Distinct(wire)' /\ Elements(wire)' = {}
    BY QueueEmpty DEF Distinct, Elements
<1>2. /\ Elements(eventStream)' = Elements(eventStream)
      /\ Distinct(eventStream)' <=> Distinct(eventStream)
      /\ ActiveSignals' = ActiveSignals
    BY DEF Elements, Distinct, ActiveSignals
<1>3. OnItsWay' \subseteq OnItsWay
    BY <1>1, <1>2 DEF OnItsWay
<1>4. SignalsTypeOK'
    BY <1>1
<1>5. EachEventOnce'
    BY <1>1, <1>2, <1>3 DEF EachEventOnce
<1>6. Numbered'
    BY <1>2, <1>3 DEF Numbered, LastEvent
<1>7. RepeatsExplained'
    BY DEF RepeatsExplained
<1>8. Covered'
  <2> SUFFICES ASSUME NEW t \in ActiveSignals' PROVE CoveredBy(t)'
      BY DEF Covered, CoveredBy
  <2>1. t \in Signals /\ t \in ActiveSignals
      BY <1>2 DEF ActiveSignals
  <2>2. CASE ActiveSignals \subseteq unheard'
      BY <2>1, <2>2 DEF CoveredBy
  <2>3. CASE UNCHANGED <<phase, nodeStatsCache>>
    <3>1. AgentRest /\ CoveredBy(t)
        BY <2>1, <2>3, CoveredOneByOne DEF AgentRest
    <3>2. LastEvent(t) \in Elements(wire) => t \in unheard'
        BY <2>1 DEF LastEvent, SignalsIn
    <3>3. LastEvent(t) \in OnItsWay =>
              LastEvent(t) \in OnItsWay' \/ t \in unheard'
        BY <1>2, <3>2 DEF OnItsWay
    <3> QED  BY <2>1, <3>1, <3>3, StillCovered
  <2> QED  BY <2>2, <2>3
<1> QED  BY <1>4, <1>5, <1>6, <1>7, <1>8

\* the first event leaves the wire and is handled, if it passes the filters
LEMMA ReceiveKeepsSignals ==
    ASSUME SignalsInv, Receive, UNCHANGED config,
           phase \notin {"boot", "exited"}
    PROVE  SignalsInv'
<1> USE DEF SignalsInv, SignalsTypeOK
<1> DEFINE c == Head(wire)
<1>1. /\ wire # << >> /\ wire' = Tail(wire)
      /\ UNCHANGED <<signalState, eventStream, published, forgotten, unheard,
                     phase, nodeStatsCache>>
    BY DEF Receive, TakeMessage, platformVars
<1>2. IF ShouldFollowSignal(SignalOf(c))
      THEN handed' = [handed EXCEPT ![c] = @ + 1]
      ELSE handed' = handed
    BY DEF Receive, Handled, HandleSignal, HandlerThrows, CountSignal
<1> HIDE DEF c
<1>3. /\ c \in Events /\ wire' \in Seq(Events)
      /\ Elements(wire) = Elements(wire)' \union {c}
      /\ Distinct(wire)' /\ c \notin Elements(wire)'
  <2>1. /\ c \in Events /\ Tail(wire) \in Seq(Events)
        /\ Elements(wire) = Elements(Tail(wire)) \union {c}
        /\ Distinct(Tail(wire)) /\ c \notin Elements(Tail(wire))
      BY <1>1, QueueTail DEF EachEventOnce, c
  <2>2. /\ Elements(wire)' = Elements(Tail(wire))
        /\ Distinct(wire)' <=> Distinct(Tail(wire))
      BY <1>1 DEF Elements, Distinct
  <2> QED  BY <1>1, <2>1, <2>2
<1>4. c \in Calls /\ SignalOf(c) = c[1] /\ c[1] \in Signals
    BY <1>3 DEF Calls, Events, SignalOf
<1>5. /\ Elements(eventStream)' = Elements(eventStream)
      /\ Distinct(eventStream)' <=> Distinct(eventStream)
      /\ ActiveSignals' = ActiveSignals
      /\ \A s \in Signals : LastEvent(s)' = LastEvent(s)
      /\ \A s \in Signals : ShouldFollowSignal(s)' <=> ShouldFollowSignal(s)
    BY <1>1 DEF Elements, Distinct, ActiveSignals, LastEvent, ShouldFollowSignal
<1>6. c \notin Elements(eventStream)
    BY <1>3 DEF EachEventOnce
<1>7. OnItsWay = OnItsWay' \union {c} /\ c \notin OnItsWay'
    BY <1>3, <1>5, <1>6 DEF OnItsWay
<1>8. handed[c] = 0
    BY <1>4, <1>7 DEF EachEventOnce
<1>9. /\ handed' \in [Calls -> Nat]
      /\ \A d \in Calls : d # c => handed'[d] = handed[d]
      /\ handed'[c] \in {0, 1}
      /\ ShouldFollowSignal(SignalOf(c)) => handed'[c] = 1
    BY <1>2, <1>4, <1>8
<1>a. SignalsTypeOK'
    BY <1>1, <1>3, <1>9
<1>b. EachEventOnce'
  <2>1. \A d \in Calls : handed'[d] > 0 => handed'[d] = 1 /\ d \notin OnItsWay'
    <3> SUFFICES ASSUME NEW d \in Calls, handed'[d] > 0
                 PROVE  handed'[d] = 1 /\ d \notin OnItsWay'
        OBVIOUS
    <3>1. CASE d = c
        BY <1>7, <1>9, <3>1
    <3>2. CASE d # c
      <4>1. handed[d] = 1 /\ d \notin OnItsWay
          BY <1>9, <3>2 DEF EachEventOnce
      <4> QED  BY <1>7, <1>9, <3>2, <4>1
    <3> QED  BY <3>1, <3>2
  <2>2. Elements(eventStream)' \intersect Elements(wire)' = {}
      BY <1>3, <1>5 DEF EachEventOnce
  <2> QED  BY <1>3, <1>5, <2>1, <2>2 DEF EachEventOnce
<1>c. Numbered'
  <2>1. ASSUME NEW d \in Calls, handed'[d] > 0 \/ d \in OnItsWay'
        PROVE  d[2] <= published[SignalOf(d)]
    <3>1. handed[d] > 0 \/ d \in OnItsWay
        BY <1>7, <1>9, <2>1
    <3> QED  BY <3>1 DEF Numbered
  <2> QED  BY <1>1, <1>5, <2>1 DEF Numbered, LastEvent
<1>d. RepeatsExplained'
    BY <1>1 DEF RepeatsExplained
<1>e. Covered'
  <2> SUFFICES ASSUME NEW t \in ActiveSignals' PROVE CoveredBy(t)'
      BY DEF Covered, CoveredBy
  <2>1. t \in Signals /\ CoveredBy(t)
      BY <1>5, CoveredOneByOne DEF ActiveSignals
  <2>2. CASE LastEvent(t) = c
    <3>1. SignalOf(c) = t
        BY <2>2, <1>4 DEF LastEvent
    <3> QED  BY <1>1, <1>5, <1>9, <2>1, <2>2, <3>1 DEF CoveredBy
  <2>3. CASE LastEvent(t) # c
    <3>1. LastEvent(t) \in Calls \/ published[t] = 0
        BY <2>1, SignalsAssumption DEF LastEvent, Calls
    <3>2. published[t] # 0
        BY <1>5, <2>1 DEF RepeatsExplained, ActiveSignals
    <3> QED  BY <1>1, <1>5, <1>7, <1>9, <2>1, <2>3, <3>1, <3>2 DEF CoveredBy
  <2> QED  BY <2>2, <2>3
<1> QED  BY <1>a, <1>b, <1>c, <1>d, <1>e

LEMMA StepsKeepSignals ==
    ASSUME SignalsInv, phase \in {"boot", "exited"} => wire = << >>,
           [Next]_vars
    PROVE  SignalsInv'
<1> USE DEF wsVars, platformVars, consumerVars, agentVars
<1>1. CASE UNCHANGED vars
  <2>1. SignalsRest
      BY <1>1 DEF vars, SignalsRest
  <2> QED  BY <2>1, RestKeepsSignals
<1>2. ASSUME AgentStep, UNCHANGED config PROVE SignalsInv'
  <2> USE <1>2
  <2>1. CASE Exit
    <3>1. WireLost
        BY <2>1 DEF Exit, Reset, ConsumerReset, WireLost
    <3> QED  BY <3>1, LossKeepsSignals
  <2>2. CASE \/ Restart \/ EnsureApprovals \/ Connect \/ Running
             \/ \E c \in Calls : Resume(c) \/ Settles(c) \/ Keeper(c)
                                 \/ PaperTimer(c)
    <3>1. SignalsRest
        BY <2>2 DEF Restart, EnsureApprovals, Connect, FirstConnect, Running,
                    Resume, Settles, Keeper, PaperTimer, SignalsRest
    <3> QED  BY <3>1, RestKeepsSignals
  <2>3. CASE Receive
    <3>1. wire # << >>
        BY <2>3 DEF Receive, TakeMessage
    <3>2. phase \notin {"boot", "exited"}
        BY <3>1
    <3> QED  BY <2>3, <3>2, ReceiveKeepsSignals
  <2>4. CASE Platform
    <3>2. AgentRest
        BY <2>4 DEF Platform, AgentRest, Publish, CloseSignal, FanOut,
                    HubSubscribes, PlatformRestarts
    <3>3. CASE HubSubscribes
      <4>1. SignalsRest
          BY <2>4, <3>3 DEF Platform, HubSubscribes, SignalsRest
      <4> QED  BY <4>1, RestKeepsSignals
    <3> QED
        BY <2>4, <3>2, <3>3, PublishKeepsSignals, CloseSignalKeepsSignals,
           FanOutKeepsSignals, PlatformRestartsKeepsSignals DEF Platform
  <2>5. CASE Socket
    <3>1. CASE SocketCloses
      <4>1. WireLost
          BY <2>5, <3>1 DEF Socket, SocketEvent, SocketCloses, WireLost
      <4> QED  BY <4>1, LossKeepsSignals
    <3>2. CASE SocketOpens \/ Reconnect
      <4>1. SignalsRest
          BY <2>5, <3>2 DEF Socket, SocketEvent, SocketOpens, Reconnect,
                            SignalsRest
      <4> QED  BY <4>1, RestKeepsSignals
    <3> QED  BY <2>5, <3>1, <3>2 DEF Socket, SocketEvent
  <2> QED  BY <2>1, <2>2, <2>3, <2>4, <2>5 DEF AgentStep
<1> QED  BY <1>1, <1>2 DEF Next

-----------------------------------------------------------------------------
(* The dashboard *)

Quiet == \A c \in Calls : pc[c] \in {"idle", "done"}

\* the executions handleSignal has counted
Finished == {c \in Executed : pc[c] = "done"}

DashboardTypeOK ==
    /\ received \in Nat /\ followed \in Nat
    /\ dash \in [received : Nat, followed : Nat, executed : Nat, failed : Nat,
                 wsConnected : BOOLEAN]

DashboardInv ==
    /\ DashboardTypeOK
    /\ dash.received = received
    /\ dash.executed <= history.executed /\ dash.failed <= history.failed
    /\ Quiet => /\ dash.executed = history.executed
                /\ dash.failed = history.failed
                /\ dash.followed = followed
    /\ followed = Cardinality(Finished)

DashboardRest ==
    /\ UNCHANGED <<pc, result, history, received, followed>>
    /\ dash' = dash \/ dash' = [dash EXCEPT !.wsConnected = TRUE]

\* a call is under way: it starts, waits, returns from its executor or throws
UnderWay(c) ==
    /\ pc[c] # "done"
    /\ \E stage \in {"order", "wait", "returned", "threw"} :
           pc' = [pc EXCEPT ![c] = stage]
    /\ result' = result \/ \E r \in Results : result' = [result EXCEPT ![c] = r]
    /\ history' \in [executed : Nat, failed : Nat]
    /\ history'.executed >= history.executed /\ history'.failed >= history.failed
    /\ followed' = followed
    /\ \/ UNCHANGED <<received, dash>>
       \/ /\ received' = received + 1
          /\ dash' = [dash EXCEPT !.received = @ + 1, !.followed = @ + 1]

LEMMA AgreesWhenQuiet == ASSUME ExecutorsInv, DashboardInv PROVE DashboardAgrees
<1> USE DEF ExecutorsInv, GMXInv, HistoryComplete
<1>1. ASSUME \A c \in Calls : pc[c] \in {"idle", "done"}
      PROVE  /\ dash.executed = history.executed
             /\ dash.failed = history.failed
             /\ dash.followed = followed /\ followed = history.executed
  <2>1. Quiet
      BY <1>1 DEF Quiet
  <2>2. Finished = Executed
    <3>1. ASSUME NEW c \in Executed PROVE pc[c] = "done"
      <4>1. c \in Calls /\ result[c] # "none"
          BY DEF Executed
      <4> QED  BY <1>1, <4>1
    <3> QED  BY <3>1 DEF Finished
  <2> QED  BY <2>1, <2>2 DEF DashboardInv
<1> QED  BY <1>1 DEF DashboardInv, DashboardAgrees

LEMMA RestKeepsDashboard ==
    ASSUME DashboardInv, DashboardRest PROVE DashboardInv'
<1>1. UNCHANGED <<Quiet, Finished>>
    BY DEF DashboardRest, Quiet, Finished, Executed
<1>2. /\ dash' \in [received : Nat, followed : Nat, executed : Nat,
                    failed : Nat, wsConnected : BOOLEAN]
      /\ dash'.received = dash.received /\ dash'.followed = dash.followed
      /\ dash'.executed = dash.executed /\ dash'.failed = dash.failed
    BY DEF DashboardRest, DashboardInv, DashboardTypeOK
<1> QED  BY <1>1, <1>2 DEF DashboardRest, DashboardInv, DashboardTypeOK

LEMMA ResetKeepsDashboard ==
    ASSUME ExecReset, received' = 0, followed' = 0, dash' = NewDashboard
    PROVE  DashboardInv'
<1>1. Finished' = {}
    BY DEF ExecReset, Finished, Executed
<1> QED
    BY <1>1, FS_EmptySet
    DEF ExecReset, NewDashboard, DashboardInv, DashboardTypeOK

LEMMA UnderWayKeepsDashboard ==
    ASSUME ExecutorsInv, DashboardInv, NEW c \in Calls, UnderWay(c)
    PROVE  DashboardInv'
<1>1. pc \in [Calls -> Stages] /\ result \in [Calls -> Results]
    BY DEF ExecutorsInv, GMXInv, GMXTypeOK, ExecTypeOK
<1>2. /\ pc'[c] \notin {"idle", "done"}
      /\ \A d \in Calls : d # c => pc'[d] = pc[d] /\ result'[d] = result[d]
    BY <1>1 DEF UnderWay
<1>3. ~Quiet'
    BY <1>2 DEF Quiet
<1>4. Finished' = Finished
    BY <1>2 DEF Finished, Executed, UnderWay
<1>5. DashboardTypeOK' /\ dash'.received = received'
      /\ dash'.executed = dash.executed /\ dash'.failed = dash.failed
  <2> USE DEF DashboardInv, DashboardTypeOK
  <2>1. followed' = followed
      BY DEF UnderWay
  <2>2. CASE UNCHANGED <<received, dash>>
      BY <2>1, <2>2
  <2>3. CASE /\ received' = received + 1
             /\ dash' = [dash EXCEPT !.received = @ + 1, !.followed = @ + 1]
    <3>1. dash.received \in Nat /\ dash.followed \in Nat /\ dash.executed \in Nat
          /\ dash.failed \in Nat /\ dash.wsConnected \in BOOLEAN
          /\ dash = [received |-> dash.received, followed |-> dash.followed,
                     executed |-> dash.executed, failed |-> dash.failed,
                     wsConnected |-> dash.wsConnected]
        OBVIOUS
    <3>2. dash' = [received |-> dash.received + 1,
                   followed |-> dash.followed + 1,
                   executed |-> dash.executed, failed |-> dash.failed,
                   wsConnected |-> dash.wsConnected]
        BY <2>3, <3>1
    <3>3. dash' \in [received : Nat, followed : Nat, executed : Nat,
                     failed : Nat, wsConnected : BOOLEAN]
        BY <3>1, <3>2
    <3> QED  BY <2>1, <2>3, <3>1, <3>2, <3>3
  <2> QED  BY <2>2, <2>3 DEF UnderWay
<1>6. history \in [executed : Nat, failed : Nat]
    BY DEF ExecutorsInv, GMXInv, GMXTypeOK, ExecTypeOK
<1>7. dash'.executed <= history'.executed /\ dash'.failed <= history'.failed
    BY <1>5, <1>6 DEF UnderWay, DashboardInv, DashboardTypeOK
<1>8. followed' = Cardinality(Finished')
    BY <1>4 DEF UnderWay, DashboardInv
<1> QED  BY <1>3, <1>5, <1>7, <1>8 DEF DashboardInv

LEMMA ResumeKeepsDashboard ==
    ASSUME ExecutorsInv, DashboardInv, NEW c \in Calls, Resume(c)
    PROVE  DashboardInv'
<1>1. /\ pc \in [Calls -> Stages]
      /\ history \in [executed : Nat, failed : Nat]
    BY DEF ExecutorsInv, GMXInv, GMXTypeOK, ExecTypeOK
<1>2. /\ pc[c] = "returned" /\ pc' = [pc EXCEPT ![c] = "done"]
      /\ UNCHANGED <<result, history, received>>
      /\ followed' = IF result[c] = "executed" THEN followed + 1 ELSE followed
      /\ dash' = Refreshed(followed')
    BY DEF Resume
<1>3. followed' = Cardinality(Finished') /\ followed' \in Nat
  <2>1. IsFiniteSet(Finished) /\ c \notin Finished
      BY <1>2, CountsFinite, FS_Subset DEF Finished
  <2>2. CASE result[c] = "executed"
    <3>1. Finished' = Finished \union {c}
        BY <1>1, <1>2, <2>2 DEF Finished, Executed
    <3>2. Cardinality(Finished \union {c}) = Cardinality(Finished) + 1
        BY <2>1, FS_AddElement
    <3> QED  BY <1>2, <2>2, <3>1, <3>2 DEF DashboardInv, DashboardTypeOK
  <2>3. CASE result[c] # "executed"
    <3>1. Finished' = Finished
        BY <1>1, <1>2, <2>3 DEF Finished, Executed
    <3> QED  BY <1>2, <2>3, <3>1 DEF DashboardInv, DashboardTypeOK
  <2> QED  BY <2>2, <2>3
<1>4. /\ dash' \in [received : Nat, followed : Nat, executed : Nat,
                    failed : Nat, wsConnected : BOOLEAN]
      /\ dash'.received = received /\ dash'.followed = followed'
      /\ dash'.executed = history.executed /\ dash'.failed = history.failed
    BY <1>1, <1>2, <1>3 DEF Refreshed, DashboardInv, DashboardTypeOK
<1> QED
    BY <1>1, <1>2, <1>3, <1>4 DEF DashboardInv, DashboardTypeOK

LEMMA StepsKeepDashboard ==
    ASSUME ExecutorsInv, DashboardInv, SignalsInv, [Next]_vars
    PROVE  DashboardInv'
<1>1. CASE UNCHANGED vars
  <2>1. DashboardRest
      BY <1>1 DEF vars, execVars, agentVars, DashboardRest
  <2> QED  BY <2>1, RestKeepsDashboard
<1>2. ASSUME NEW c \in Calls, UNCHANGED config, followed' = followed,
             HandleSignal(c) \/ HandlerThrows(c)
      PROVE  DashboardInv'
  <2>1. /\ received' = received + 1
        /\ dash' = [dash EXCEPT !.received = @ + 1, !.followed = @ + 1]
      BY <1>2 DEF HandleSignal, HandlerThrows, CountSignal
  <2>2. history \in [executed : Nat, failed : Nat]
      BY DEF ExecutorsInv, GMXInv, GMXTypeOK, ExecTypeOK
  <2>3. /\ pc[c] # "done"
        /\ \E stage \in {"order", "wait", "returned", "threw"} :
               pc' = [pc EXCEPT ![c] = stage]
    <3>1. CASE HandleSignal(c)
        BY <3>1 DEF HandleSignal, PaperExecuteSignal, PaperRefuse, PaperTrade,
                    ExecuteSignal, Refuse, Admit, Conclude, Await
    <3>2. CASE HandlerThrows(c)
      <4>1. pc[c] \in {"idle", "threw"}
          BY <3>2 DEF HandlerThrows, ExecutorsInv, NothingTradedOnNaN
      <4> QED  BY <3>2, <4>1 DEF HandlerThrows, Throw
    <3> QED  BY <1>2, <3>1, <3>2
  <2>4. \/ UNCHANGED <<result, history>>
        \/ \E r \in {"executed", "failed"} : Conclude(c, r)
      BY <1>2 DEF HandleSignal, HandlerThrows, PaperExecuteSignal, PaperRefuse,
                  PaperTrade, ExecuteSignal, Refuse, Admit, Await, Throw
  <2>5. /\ result' = result \/ \E r \in Results : result' = [result EXCEPT ![c] = r]
        /\ history' \in [executed : Nat, failed : Nat]
        /\ history'.executed >= history.executed
        /\ history'.failed >= history.failed
      BY <2>2, <2>4 DEF Conclude, Results
  <2>6. UnderWay(c)
      BY <1>2, <2>1, <2>3, <2>5 DEF UnderWay
  <2> QED  BY <2>6, UnderWayKeepsDashboard
<1>3. ASSUME NEW c \in Calls, UNCHANGED <<received, followed, dash>>,
             Settle(c) \/ KeeperSettles(c)
      PROVE  DashboardInv'
  <2>1. history \in [executed : Nat, failed : Nat]
      BY DEF ExecutorsInv, GMXInv, GMXTypeOK, ExecTypeOK
  <2>2. CASE KeeperSettles(c) \/ PollAgain(c)
    <3>1. DashboardRest
        BY <1>3, <2>2 DEF KeeperSettles, PollAgain, execVars, DashboardRest
    <3> QED  BY <3>1, RestKeepsDashboard
  <2>3. CASE SendOrder(c)
    <3>1. UnderWay(c)
        BY <1>3, <2>1, <2>3 DEF SendOrder, Await, UnderWay
    <3> QED  BY <3>1, UnderWayKeepsDashboard
  <2>4. CASE GiveUp(c) \/ SendThrows(c) \/ PollExecuted(c) \/ PollCancelled(c)
             \/ PollTimeout(c)
    <3>1. pc[c] # "done" /\ \E r \in {"executed", "failed"} : Conclude(c, r)
        BY <2>4 DEF GiveUp, SendThrows, PollExecuted, PollCancelled, PollTimeout
    <3>2. /\ pc' = [pc EXCEPT ![c] = "returned"]
          /\ \E r \in Results : result' = [result EXCEPT ![c] = r]
          /\ history' \in [executed : Nat, failed : Nat]
          /\ history'.executed >= history.executed
          /\ history'.failed >= history.failed
      <4>1. PICK r \in {"executed", "failed"} : Conclude(c, r)
          BY <3>1
      <4>2. r \in Results
          BY DEF Results
      <4>3. /\ history' \in [executed : Nat, failed : Nat]
            /\ history'.executed >= history.executed
            /\ history'.failed >= history.failed
          BY <2>1, <4>1 DEF Conclude
      <4> QED  BY <4>1, <4>2, <4>3 DEF Conclude
    <3>3. UnderWay(c)
        BY <1>3, <3>1, <3>2 DEF UnderWay
    <3> QED  BY <3>3, UnderWayKeepsDashboard
  <2> QED  BY <1>3, <2>2, <2>3, <2>4 DEF Settle, Poll
<1>4. ASSUME AgentStep, UNCHANGED config PROVE DashboardInv'
  <2> USE <1>4
  <2>1. CASE Exit
      BY <2>1, ResetKeepsDashboard DEF Exit, Reset
  <2>2. CASE \/ Restart \/ EnsureApprovals \/ Connect \/ Running
             \/ Platform \/ Socket
    <3>1. DashboardRest
        BY <2>2 DEF Restart, EnsureApprovals, Connect, Running, Platform, Socket,
                    SocketEvent, execVars, agentVars, DashboardRest
    <3> QED  BY <3>1, RestKeepsDashboard
  <2>3. CASE Receive
    <3>1. followed' = followed /\ Head(wire) \in Calls
        BY <2>3, HeadIsCall DEF Receive, TakeMessage, SignalsInv, SignalsTypeOK
    <3>2. CASE Handled(SignalOf(Head(wire)))
        BY <1>2, <2>3, <3>1, <3>2 DEF Receive
    <3>3. CASE ~Handled(SignalOf(Head(wire)))
      <4>1. DashboardRest
          BY <2>3, <3>3 DEF Receive, execVars, DashboardRest
      <4> QED  BY <4>1, RestKeepsDashboard
    <3> QED  BY <3>2, <3>3
  <2>5. ASSUME NEW c \in Calls, Resume(c) PROVE DashboardInv'
      BY <2>5, ResumeKeepsDashboard
  <2>6. ASSUME NEW c \in Calls, Settles(c) \/ Keeper(c) PROVE DashboardInv'
      BY <1>3, <2>6 DEF Settles, Keeper, agentVars
  <2>7. ASSUME NEW c \in Calls, PaperTimer(c) PROVE DashboardInv'
    <3>1. DashboardRest
        BY <2>7 DEF PaperTimer, ClosePosition, execVars, agentVars, DashboardRest
    <3> QED  BY <3>1, RestKeepsDashboard
  <2> QED  BY <2>1, <2>2, <2>3, <2>5, <2>6, <2>7 DEF AgentStep
<1> QED  BY <1>1, <1>4 DEF Next

-----------------------------------------------------------------------------
(* The socket and the approvals *)

LinkInv ==
    /\ reconnectAttempts \in 0..MaxReconnectAttempts
    /\ reconnectTimer \in BOOLEAN
    /\ OneSocketAtATime
    /\ ws # "open" => wire = << >>
    /\ hub = "registered" => ws = "open"
    /\ phase \in {"boot", "exited"} => ws = "none"

\* without the approvals there is no live order, and none can be on its way
ApprovedInv ==
    /\ ~paperMode /\ phase \notin {"boot", "exited"} => allowances = Spenders
    /\ paperMode \/ phase \in {"boot", "exited"} =>
           \A c \in Calls : order[c] = "none" /\ pc[c] \notin Awaiting

LinkRest == /\ UNCHANGED <<wsVars, wire, hub>>
            /\ phase' \in {"boot", "exited"} => phase \in {"boot", "exited"}

LEMMA NoAttemptYet == 0 \in 0..MaxReconnectAttempts
BY ReconnectAssumption

LEMMA StepsKeepLink ==
    ASSUME LinkInv, [Next]_vars PROVE LinkInv'
<1> USE ReconnectAssumption DEF LinkInv, OneSocketAtATime, wsVars
<1>1. ASSUME LinkRest PROVE LinkInv'
    BY <1>1 DEF LinkRest
<1>2. CASE UNCHANGED vars
    BY <1>1, <1>2 DEF vars, consumerVars, agentVars, LinkRest
<1>3. ASSUME AgentStep PROVE LinkInv'
  <2> USE <1>3
  <2>1. CASE Exit
    <3>1. /\ ws' = "none" /\ reconnectAttempts' = 0 /\ reconnectTimer' = FALSE
          /\ wire' = << >> /\ hub' = "away" /\ phase' = "exited"
        BY <2>1 DEF Exit, Reset, ConsumerReset
    <3> QED  BY <3>1, NoAttemptYet
  <2>2. CASE Connect
      BY <2>2 DEF Connect, FirstConnect
  <2>3. CASE \/ Restart \/ EnsureApprovals \/ Running
             \/ \E c \in Calls : Resume(c) \/ Settles(c) \/ Keeper(c)
                                 \/ PaperTimer(c)
      BY <1>1, <2>3
      DEF Restart, EnsureApprovals, Running, Resume, Settles, Keeper, PaperTimer,
          consumerVars, agentVars, LinkRest
  <2>4. CASE Receive
    <3>1. wire # << >> /\ UNCHANGED <<wsVars, hub, phase>>
        BY <2>4 DEF Receive, TakeMessage
    <3> QED  BY <3>1
  <2>5. CASE Platform
    <3>1. /\ UNCHANGED <<wsVars, phase>>
          /\ ws # "open" => wire' = wire
          /\ hub' = "registered" => ws = "open"
        BY <2>5 DEF Platform, Publish, CloseSignal, FanOut, HubSubscribes,
                    PlatformRestarts, agentVars
    <3> QED  BY <3>1
  <2>6. CASE Socket
    <3>1. phase' = phase
        BY <2>6 DEF Socket, SocketEvent, agentVars
    <3>2. CASE SocketOpens
        BY <3>1, <3>2 DEF SocketOpens
    <3>3. CASE SocketCloses
      <4>1. /\ ws' = "closed" /\ wire' = << >> /\ hub' = "away"
            /\ ws \in {"connecting", "open"}
          BY <3>3 DEF SocketCloses
      <4>2. \/ /\ reconnectAttempts + 1 \in 0..MaxReconnectAttempts
               /\ reconnectAttempts' = reconnectAttempts + 1
               /\ reconnectTimer' = TRUE
            \/ /\ reconnectAttempts = MaxReconnectAttempts
               /\ UNCHANGED <<reconnectAttempts, reconnectTimer>>
          BY <3>3 DEF SocketCloses, MayReconnect
      <4> QED  BY <3>1, <4>1, <4>2, Zenon
    <3>4. CASE Reconnect
        BY <3>1, <3>4 DEF Reconnect
    <3> QED  BY <2>6, <3>2, <3>3, <3>4 DEF Socket, SocketEvent
  <2> QED  BY <2>1, <2>2, <2>3, <2>4, <2>5, <2>6 DEF AgentStep
<1> QED  BY <1>2, <1>3 DEF Next

LEMMA StepsKeepApproved ==
    ASSUME ApprovedInv, LinkInv, ExecutorsInv, SignalsInv, [Next]_vars
    PROVE  ApprovedInv'
<1>1. ASSUME UNCHANGED <<paperMode, allowances, phase>>,
             \/ UNCHANGED <<order, pc>>
             \/ ~paperMode /\ phase \notin {"boot", "exited"}
             \/ /\ UNCHANGED order
                /\ \A c \in Calls : pc'[c] \in Awaiting => pc[c] \in Awaiting
      PROVE  ApprovedInv'
    BY <1>1 DEF ApprovedInv
<1>2. CASE UNCHANGED vars
    BY <1>1, <1>2 DEF vars, execVars, gmxVars, agentVars
<1>3. pc \in [Calls -> Stages]
    BY DEF ExecutorsInv, GMXInv, GMXTypeOK, ExecTypeOK
<1>4. ASSUME NEW c \in Calls, UNCHANGED <<paperMode, allowances, phase>>,
             HandleSignal(c) \/ HandlerThrows(c),
             phase \notin {"boot", "exited"}
      PROVE  ApprovedInv'
  <2>1. CASE ~paperMode
      BY <1>1, <1>4, <2>1
  <2>2. CASE paperMode
    <3>1. order' = order
        BY <1>4, <2>2 DEF HandleSignal, HandlerThrows, gmxVars
    <3>2. \E stage \in {"returned", "threw"} : pc' = [pc EXCEPT ![c] = stage]
        BY <1>4, <2>2 DEF HandleSignal, HandlerThrows, Throw, Conclude,
                          PaperExecuteSignal, PaperRefuse, PaperTrade
    <3> QED  BY <1>1, <1>3, <1>4, <3>1, <3>2 DEF Awaiting
  <2> QED  BY <2>1, <2>2
<1>5. ASSUME AgentStep PROVE ApprovedInv'
  <2> USE <1>5
  <2>1. CASE Exit
    <3>1. /\ ExecReset /\ GMXReset
          /\ phase' = "exited"
        BY <2>1 DEF Exit, Reset
    <3>2. \A c \in Calls : order'[c] = "none" /\ pc'[c] \notin Awaiting
        BY <3>1 DEF ExecReset, GMXReset, Awaiting
    <3> QED  BY <3>1, <3>2 DEF ApprovedInv
  <2>2. CASE Restart \/ EnsureApprovals \/ Connect
      BY <2>2 DEF Restart, EnsureApprovals, Connect, ApprovedInv, execVars,
                  gmxVars
  <2>3. CASE Running
      BY <2>3 DEF Running, ApprovedInv, execVars, gmxVars
  <2>4. CASE Receive
    <3>1. /\ UNCHANGED <<paperMode, allowances, phase>>
          /\ phase \notin {"boot", "exited"}
          /\ Head(wire) \in Calls
      <4>1. wire # << >> /\ UNCHANGED <<paperMode, allowances, phase>>
          BY <2>4 DEF Receive, TakeMessage
      <4>2. Head(wire) \in Calls
          BY <4>1, HeadIsCall DEF SignalsInv, SignalsTypeOK
      <4> QED  BY <4>1, <4>2 DEF LinkInv
    <3>2. CASE Handled(SignalOf(Head(wire)))
        BY <1>4, <2>4, <3>1, <3>2 DEF Receive
    <3>3. CASE ~Handled(SignalOf(Head(wire)))
        BY <1>1, <2>4, <3>1, <3>3 DEF Receive, execVars, gmxVars
    <3> QED  BY <3>2, <3>3
  <2>6. ASSUME NEW c \in Calls, Settles(c) \/ Keeper(c) PROVE ApprovedInv'
    <3>1. UNCHANGED <<paperMode, allowances, phase>> /\ pc[c] \in Awaiting
        BY <2>6 DEF Settles, Keeper, agentVars, Settle, Poll, GiveUp, SendOrder,
                    SendThrows, PollExecuted, PollCancelled, PollAgain,
                    PollTimeout, KeeperSettles, Awaiting
    <3>2. ~paperMode /\ phase \notin {"boot", "exited"}
        BY <3>1 DEF ApprovedInv
    <3> QED  BY <1>1, <3>1, <3>2
  <2>7. ASSUME NEW c \in Calls, Resume(c) PROVE ApprovedInv'
    <3>1. UNCHANGED <<paperMode, allowances, phase, order>>
          /\ pc' = [pc EXCEPT ![c] = "done"]
        BY <2>7 DEF Resume, gmxVars
    <3> QED  BY <1>1, <1>3, <3>1 DEF Awaiting
  <2>8. CASE Platform \/ Socket \/ \E c \in Calls : PaperTimer(c)
      BY <1>1, <2>8 DEF Platform, Socket, SocketEvent, PaperTimer, ClosePosition,
                        execVars, gmxVars, agentVars
  <2> QED  BY <2>1, <2>2, <2>3, <2>4, <2>6, <2>7, <2>8 DEF AgentStep
<1> QED  BY <1>2, <1>5 DEF Next

-----------------------------------------------------------------------------
(* The theorems *)

AgentInv == ExecutorsInv /\ SignalsInv /\ DashboardInv /\ LinkInv /\ ApprovedInv

LEMMA AgentStarts == Init => AgentInv
<1> SUFFICES ASSUME Init PROVE AgentInv
    OBVIOUS
<1> USE DEF Init
<1>1. ExecutorsInv
    BY NothingStartedInBooks
<1>2. SignalsInv
    BY SignalsAssumption
    DEF ConsumerInit, SignalsInv, SignalsTypeOK, Distinct, Elements, OnItsWay,
        EachEventOnce, Numbered, RepeatsExplained, ActiveSignals, Covered
<1>3. DashboardInv
  <2>1. Finished = {}
      BY DEF ExecInit, Finished, Executed
  <2> QED
      BY <2>1, FS_EmptySet
      DEF ExecInit, NewDashboard, DashboardInv, DashboardTypeOK
<1>4. LinkInv
    BY NoAttemptYet DEF ConsumerInit, LinkInv, OneSocketAtATime
<1>5. ApprovedInv
    BY DEF ExecInit, GMXInit, ApprovedInv, Awaiting
<1> QED  BY <1>1, <1>2, <1>3, <1>4, <1>5 DEF AgentInv

LEMMA AgentGoesOn == AgentInv /\ [Next]_vars => AgentInv'
BY StepsOfExecutors, StepsKeepBooks, StepsKeepSignals, StepsKeepDashboard,
   StepsKeepLink, StepsKeepApproved
DEF AgentInv, SignalsInv, SignalsTypeOK, LinkInv

\* An agent whose limit is a number never has more trades in hand than the limit
\* and the calls that raced one another past the check allow (executor.ts
\* 278-332, where the check reads the count before the awaits that change it).
THEOREM AgentOvershootBounded == Spec => []OvershootBoundedByRace
<1>1. AgentInv => OvershootBoundedByRace
    BY DEF AgentInv, ExecutorsInv, GMXInv
<1> QED  BY AgentStarts, AgentGoesOn, <1>1, PTL DEF Spec

\* Live, the positions are exactly the orders the agent saw GMX execute; on
\* paper, positions and virtual balance add up to what there was at the start,
\* and a timer will close every position (executor.ts 278-462, paper-executor.ts
\* 42-128).
THEOREM AgentAccountsForPositions == Spec => []PositionsAccountedFor
<1>1. AgentInv => PositionsAccountedFor
    BY DEF AgentInv, ExecutorsInv, GMXInv, PositionsAccountedFor
<1> QED  BY AgentStarts, AgentGoesOn, <1>1, PTL DEF Spec

\* The dashboard never shows a trade the executor's history does not hold, and
\* agrees with it when no call is under way (server.ts 193-290).
THEOREM AgentDashboardAgrees == Spec => []DashboardAgrees
<1>1. AgentInv => DashboardAgrees
    BY AgreesWhenQuiet DEF AgentInv
<1> QED  BY AgentStarts, AgentGoesOn, <1>1, PTL DEF Spec

\* No event is handled twice, and no signal is traded a second time unless a
\* restart of the platform lost it from the schedule and it was streamed as
\* ACTIVE again (consumer.ts 158-201, scheduler_batcher.go 118-228).
THEOREM AgentRepeatsExplained == Spec => []HandledTwiceExplained
<1>1. AgentInv => HandledTwiceExplained
    BY RepeatsAreExplained DEF AgentInv
<1> QED  BY AgentStarts, AgentGoesOn, <1>1, PTL DEF Spec

\* An agent that has connected has missed no scheduled signal it should follow
\* but those whose last event the platform did not send to this life of it, or
\* the socket lost (consumer.ts 88-222, server.go 47-99).
THEOREM AgentMissesExplained == Spec => []MissedExplained
<1>1. AgentInv => MissedExplained
    BY DEF AgentInv, SignalsInv, Covered, OnItsWay, MissedExplained
<1> QED  BY AgentStarts, AgentGoesOn, <1>1, PTL DEF Spec

\* Across crashes and restarts the live agent has at most one socket, or one
\* timer that will open it, and sends no order before every contract that moves
\* the collateral is approved (consumer.ts 153-222, executor.ts 153-184).
THEOREM AgentLinksAndApprovals ==
    Spec => []OneSocketAtATime /\ []OrdersAreApproved
<1>1. AgentInv => OneSocketAtATime /\ OrdersAreApproved
    BY DEF AgentInv, LinkInv, ApprovedInv, OrdersAreApproved
<1> QED  BY AgentStarts, AgentGoesOn, <1>1, PTL DEF Spec
=============================================================================
