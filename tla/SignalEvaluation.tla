-------------------------- MODULE SignalEvaluation --------------------------
(***************************************************************************)
(* How one signal is judged: the validation of its prices                   *)
(* (pkg/types/signal.go), evaluateSignal at its expiry                      *)
(* (internal/scheduler/scheduler.go), its return and win/loss class in the  *)
(* scorer (internal/scorer/scorer.go) and the provider's points for it      *)
(* (internal/points/allocator.go).                                          *)
(*                                                                          *)
(* Prices are integers on a grid; percentages and scores are hundredths,    *)
(* rounded down, but for the scorer's ratios.  Levels keep Validate's       *)
(* minimum distance from the entry.  One subscriber of the given tier.      *)
(***************************************************************************)
EXTENDS Integers

CONSTANTS
  Entry,     \* entry_price
  Prices,    \* prices at expiry (sample); 0 is a price that was not fetched
  Levels,    \* take-profit and stop-loss levels (sample); 0 is an absent one
  Weights,   \* weight_pct, which nothing validates (sample)
  Bases      \* getBasePoints of the subscribers' tiers

ASSUME EvaluationAssumption ==
  /\ Entry \in Nat \ {0} /\ Prices \subseteq Nat \ {0}
  /\ Levels \subseteq Nat \ {0, Entry}
  /\ Weights \subseteq Int
  /\ Bases \subseteq Nat

VARIABLES
  payload,  \* direction, take_profit, stop_loss and weight_pct
  price,    \* price at expiry, 0 when it could not be fetched
  stage,    \* "active", "closed", "scored", "rewarded"
  result,   \* evaluateSignal's outcome, pnl and score
  scored,   \* the scorer's return and class
  points    \* AllocatePoints' credit

evaluationVars == <<payload, price, stage, result, scored, points>>

Optional == Levels \cup {0}

(* What Validate accepts; a TP or SL on the wrong side is only a warning.   *)
Payloads ==
  [direction : {"long", "short"}, tp : Optional, sl : Optional, weight : Weights]

Abs(x) == IF x < 0 THEN -x ELSE x

NoResult == [outcome |-> "ACTIVE", pnl |-> 0, score |-> 0]

----------------------------------------------------------------------------
(* evaluateSignal judges longs and shorts in two branches of its own.       *)
Clamp(x) == IF x < 0 THEN 0 ELSE IF x > 10000 THEN 10000 ELSE x

LongPnL(p) == ((p - Entry) * 10000) \div Entry

LongPartial(s, p) ==
  IF p > Entry
  THEN 5000 + ((p - Entry) * 5000) \div Abs(s.tp - Entry)
  ELSE 5000 - ((Entry - p) * 5000) \div Abs(s.sl - Entry)

EvaluateLong(s, p) ==
  [outcome |-> IF p >= s.tp THEN "CLOSED_WIN" ELSE IF p <= s.sl THEN "CLOSED_LOSS"
               ELSE "EXPIRED",
   pnl |-> LongPnL(p),
   score |-> IF p >= s.tp THEN 10000 ELSE IF p <= s.sl THEN 0 ELSE Clamp(LongPartial(s, p))]

ShortPnL(p) == ((Entry - p) * 10000) \div Entry

ShortPartialUnsigned(s, p) ==
  IF p < Entry
  THEN 5000 + ((Entry - p) * 5000) \div Abs(s.tp - Entry)
  ELSE 5000 + ((p - Entry) * 5000) \div Abs(s.sl - Entry)
ShortPartial(s, p) ==
  IF p < Entry
  THEN 5000 + ((Entry - p) * 5000) \div Abs(s.tp - Entry)
  ELSE 5000 - ((p - Entry) * 5000) \div Abs(s.sl - Entry)

StoppedAsLong(s, p) == p <= s.sl
ShortStopped(s, p) == p >= s.sl

EvaluateShort(s, p) ==
  [outcome |-> IF p <= s.tp THEN "CLOSED_WIN" ELSE IF ShortStopped(s, p) THEN "CLOSED_LOSS"
               ELSE "EXPIRED",
   pnl |-> ShortPnL(p),
   score |-> IF p <= s.tp THEN 10000 ELSE IF ShortStopped(s, p) THEN 0
             ELSE Clamp(ShortPartial(s, p))]

Evaluate(s, p) == IF s.direction = "long" THEN EvaluateLong(s, p) ELSE EvaluateShort(s, p)

(* A ratio of the scorer, in ten-thousandths, rounded away from zero: it    *)
(* has the sign of the float it stands for.                                 *)
Ratio(a, b) == IF a > 0 THEN -((-a * 10000) \div b) ELSE (a * 10000) \div b

(* riskReward and the expired return of compute.  Both ask for "LONG",      *)
(* which no validated direction is.                                         *)
RiskReward(s) ==
  LET risk == IF s.direction = "LONG" THEN Entry - s.sl ELSE s.sl - Entry
      reward == IF s.direction = "LONG" THEN s.tp - Entry ELSE Entry - s.tp
  IN  IF risk <= 0 THEN 10000 ELSE Ratio(reward, risk)

ExpiredMagnitude(s, p) == Ratio(Abs(Entry - p), Entry)
ExpiredReturn(s, p) ==
  IF s.direction = "LONG" THEN Ratio(p - Entry, Entry) ELSE Ratio(Entry - p, Entry)

(* The scorer's return for a closed signal, in millionths: weighted with    *)
(* weight_pct, a hundredth each.  And how the signal is counted.            *)
ScorerReturn(s, outcome, p) ==
  s.weight * (CASE outcome = "CLOSED_WIN" -> RiskReward(s)
                [] outcome = "CLOSED_LOSS" -> -10000
                [] OTHER -> IF p > 0 THEN ExpiredReturn(s, p) ELSE 0)

ScorerClass(outcome, ret, p) ==
  IF outcome = "CLOSED_WIN" THEN "win" ELSE IF outcome = "CLOSED_LOSS" THEN "loss"
  ELSE IF p > 0 /\ ret > 0 THEN "win" ELSE IF p > 0 /\ ret < 0 THEN "loss" ELSE "neutral"

(* getOutcomeMultiplier, in tenths, on hundredths of a percent.             *)
RowsSwapped(pnl) ==
  IF pnl > 1000 THEN 50 ELSE IF pnl >= 500 THEN 30 ELSE IF pnl >= 200 THEN 20
  ELSE IF pnl >= 50 THEN 5 ELSE IF pnl >= -50 THEN 15 ELSE IF pnl >= -200 THEN 2 ELSE 0
OutcomeMultiplier(pnl) ==
  IF pnl > 1000 THEN 50 ELSE IF pnl >= 500 THEN 30 ELSE IF pnl >= 200 THEN 20
  ELSE IF pnl >= 50 THEN 15 ELSE IF pnl >= -50 THEN 5 ELSE IF pnl >= -200 THEN 2 ELSE 0

(* math.Round of the product; one subscriber has multiplier 1.              *)
PointsFor(base, pnl) == (base * OutcomeMultiplier(pnl) + 5) \div 10

----------------------------------------------------------------------------
EvaluationInit ==
  /\ payload \in Payloads
  /\ price \in Prices \cup {0}
  /\ stage = "active"
  /\ result = NoResult
  /\ scored = [ret |-> 0, class |-> "none"]
  /\ points = 0

(* analyzeSignal; a failed price request expires the signal without a score.*)
Analyze ==
  /\ stage = "active"
  /\ stage' = "closed"
  /\ result' = IF price = 0 THEN [outcome |-> "EXPIRED", pnl |-> 0, score |-> 0]
               ELSE Evaluate(payload, price)
  /\ UNCHANGED <<payload, price, scored, points>>

Score ==
  /\ stage = "closed"
  /\ stage' = "scored"
  /\ LET ret == ScorerReturn(payload, result.outcome, price)
     IN scored' = [ret |-> ret, class |-> ScorerClass(result.outcome, ret, price)]
  /\ UNCHANGED <<payload, price, result, points>>

Reward ==
  /\ stage = "scored"
  /\ stage' = "rewarded"
  /\ \E base \in Bases : points' = PointsFor(base, result.pnl)
  /\ UNCHANGED <<payload, price, result, scored>>

EvaluationNext == Analyze \/ Score \/ Reward

EvaluationSpec == EvaluationInit /\ [][EvaluationNext]_evaluationVars

----------------------------------------------------------------------------
(* What the provider gains at a price, in whatever direction it called.     *)
Gain(direction, p) == IF direction = "long" THEN p - Entry ELSE Entry - p

(* A signal whose levels are set and on their proper sides.                 *)
Proper(s) ==
  /\ s.tp > 0 /\ s.sl > 0
  /\ Gain(s.direction, s.tp) > 0 /\ Gain(s.direction, s.sl) < 0

Judged == stage # "active" /\ price > 0

Mirrored(s) == [s EXCEPT !.direction = IF @ = "long" THEN "short" ELSE "long",
                         !.tp = 2 * Entry - @, !.sl = 2 * Entry - @]

(* A short is judged exactly as the long reflected at the entry price: the  *)
(* two hand-written branches of evaluateSignal agree.                       *)
LongShortSymmetry ==
  Judged /\ Proper(payload) => Evaluate(Mirrored(payload), 2 * Entry - price) = result

(* Against any other expiry price, a better one for the provider never      *)
(* scores less, whichever of the five cases either falls into.              *)
ScoreMonotone ==
  Judged /\ Proper(payload) =>
    \A p \in Prices : Gain(payload.direction, p) >= Gain(payload.direction, price) =>
      Evaluate(payload, p).score >= result.score

(* The scorer classifies an expired signal by itself.  It agrees with the   *)
(* price about who was right of every signal that a level closed, but of an *)
(* expired one only when its own two slips cancel: it takes a long for a    *)
(* short, and a weight that is not positive turns its sign or wipes it out. *)
SlipsCancel(s) ==
  \/ s.direction = "short" /\ s.weight > 0
  \/ s.direction = "long" /\ s.weight < 0

ScorerAgrees ==
  LET gain == Gain(payload.direction, price)
  IN  (scored.class = "win" <=> gain > 0) /\ (scored.class = "loss" <=> gain < 0)

ScorerAgreement ==
  stage = "scored" /\ price > 0 /\ Proper(payload) =>
    (ScorerAgrees <=> \/ result.outcome # "EXPIRED"
                      \/ price = Entry
                      \/ SlipsCancel(payload))

(* Shorts are judged by the same measure as longs by the scheduler, and by  *)
(* the scorer in the named cases and no others.                             *)
JudgedAlike == LongShortSymmetry /\ ScorerAgreement

(* A provider never earns fewer points for a better signal.                 *)
PnL(direction, p) == IF direction = "long" THEN LongPnL(p) ELSE ShortPnL(p)

RewardMonotone ==
  stage = "rewarded" =>
    \A base \in Bases, p \in Prices :
      points = PointsFor(base, result.pnl) /\ PnL(payload.direction, p) >= result.pnl =>
        PointsFor(base, PnL(payload.direction, p)) >= points

(* A provider is never better off, in score or in points, for a worse call. *)
BetterNeverWorse == ScoreMonotone /\ RewardMonotone
=============================================================================
