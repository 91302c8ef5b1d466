---------------------------- MODULE SentinelTypes ----------------------------
(***************************************************************************)
(* What every part of the sentinel knows: the signals of the platform, the *)
(* statistics of the nodes that issue them, and the agent's configuration. *)
(***************************************************************************)
EXTENDS Integers, FiniteSets, Sequences

CONSTANTS
    Signals,                \* the signals the platform publishes
    NodeOf,                 \* the provider node of each signal
    TopNodes,               \* the answers of the dashboard endpoint: each gives
                            \* the nodes it lists their trust, tier and signals
    Configs,                \* the configurations the agent may be started with
    NaN,                    \* what parseInt makes of a word
    MaxPublished            \* bound: how often the platform streams a signal

VARIABLE config             \* loadConfig's record, fixed for good

ASSUME SignalsAssumption == IsFiniteSet(Signals) /\ MaxPublished \in Nat \ {0}

\* MAX_POSITION_USD, MAX_OPEN_POSITIONS and MIN_TRUST_SCORE may be anything
ASSUME ConfigAssumption ==
    /\ NaN \notin Int
    /\ \A c \in Configs :
           /\ c.maxPositionUsd \in Int \union {NaN}
           /\ c.maxOpenPositions \in Int \union {NaN}
           /\ c.minTrustScore \in Int \union {NaN}

\* validateConfig: NaN <= 0 is false, so NaN passes
ValidConfig == config.maxPositionUsd # NaN => config.maxPositionUsd > 0

TierPriority == [BRONZE |-> 1, SILVER |-> 2, GOLD |-> 3, DIAMOND |-> 4]
Priority(tier) == IF tier \in DOMAIN TierPriority THEN TierPriority[tier] ELSE 0
=============================================================================
