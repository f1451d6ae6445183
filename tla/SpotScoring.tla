----------------------------- MODULE SpotScoring -----------------------------
(* app/monitoring/spot_opportunity_scanner.py: the scanner's reading of one   *)
(* Spot symbol, a candidate to buy, to watch, to leave or to avoid, and what  *)
(* bot_api.py works out for it first. Suggested stops and targets are in      *)
(* thousandths of the unit of prices.                                         *)
EXTENDS Eligibility, SequencesExt

MinSpotCandles == 48
Bounded(n, d) == Clamp(HalfUp(n, d), 0, 100)

-----------------------------------------------------------------------------
(* The eight scores.                                                          *)

TrendScore(t) ==
    IF t = Unknown THEN 35
    ELSE CASE t.trend = "bullish" -> Bounded(5200 + 48 * t.strength, 100)
           [] t.trend = "bearish" -> Bounded(4400 - 30 * t.strength, 100)
           [] OTHER -> 50

\* Six points per per cent of the last day, five per per cent of the last eight.
MomentumScore(s) ==
    LET gain(n) == LET from == s[Len(s) - n + 1].close
                   IN ((Newest(s).close - from) * 1000000) \div from
    IN Bounded(500000 + 6 * gain(24) + 5 * gain(8), 10000)

VolatilityScore(s, t) ==
    LET range == AverageRange(LastN(s, 24))
    IN IF t # Unknown /\ t.volatility = "high" THEN 52
       ELSE IF 2500 <= range /\ range <= 18000 THEN 78
       ELSE IF range < 1200 THEN 42 ELSE 62
SpotLiquidity(s) ==
    Ladder(Volumes(LastN(s, 24)) \div 24,
           <<<<10000, 85>>, <<1000, 70>>, <<250, 52>>>>, 30)

\* The nearest support and resistance, and the readiness to break out.
StructureScore(t, price) ==
    LET below == {l \in t.supports : l < price}
        above == {l \in t.resistances : l > price}
        upside == t.bias = "upside"
    IN IF t = Unknown THEN 45
       ELSE Clamp(50
         + (IF upside THEN CASE t.readiness = "high" -> 22
                             [] t.readiness = "medium" -> 12
                             [] OTHER -> 0 ELSE 0)
         - (IF t.reversal = "high" THEN 18 ELSE 0)
         + (IF below # {} /\ (price - Max(below)) * 100 <= price THEN 8 ELSE 0)
         - (IF above # {} /\ (Min(above) - price) * 10000 <= 35 * price /\ ~upside
            THEN 8 ELSE 0), 0, 100)

RegimeScore(regime) ==
    CASE regime = "trending_up" -> 82 [] regime = "breakout_building" -> 76
      [] regime = "sideways" -> 55 [] regime = "reversal_risk" -> 42
      [] regime \in {"trending_down", "high_volatility"} -> 35
      [] regime = "choppy" -> 30 [] regime = "low_liquidity" -> 25 [] OTHER -> 50

\* The metric of the scan's horizon, or the first of those with the most samples.
ScannedHorizon(validation, horizon) ==
    LET metrics == validation.horizons
        matching == {i \in DOMAIN metrics : metrics[i].horizon = horizon}
        better(x, y) == \/ x.actionable > y.actionable
                        \/ x.actionable = y.actionable /\ Expected(x) > Expected(y)
        best == {i \in DOMAIN metrics :
                    \A j \in DOMAIN metrics : ~better(metrics[j], metrics[i])}
    IN metrics[Min(IF matching # {} THEN matching ELSE best)]
SpotValidation(validation, horizon) ==
    LET m == ScannedHorizon(validation, horizon)
    IN IF validation = Unknown THEN Unknown
       ELSE IF validation.horizons = <<>> THEN Unknown
       ELSE IF m.actionable < MinValidationSamples \/ m.expectancy = Unknown THEN 45
       ELSE Bounded(50000 + m.expectancy * 100
                    + (IF m.winRate = Unknown THEN 0 ELSE (m.winRate - 50) * 350), 1000)

EligibilityScore(status) ==
    CASE status = "eligible" -> 85 [] status = "watch_only" -> 62
      [] status = "insufficient_data" -> 48 [] status = "not_eligible" -> 25

SpotRisk(volatility, liquidity, regime, eligibility) ==
    IF liquidity < 45 \/ regime < 35 \/ eligibility < 35 THEN "high"
    ELSE IF volatility < 50 \/ regime < 50 THEN "medium" ELSE "low"

SpotConfidence(opportunity, validation, evidence, risk) ==
    Clamp(opportunity
      - (IF validation = Unknown THEN 10 ELSE 0)
      + (CASE evidence = "insufficient" -> -12 [] evidence = "weak" -> -8
           [] evidence = "strong" -> 5 [] OTHER -> 0)
      + (CASE risk = "high" -> -12 [] risk = "low" -> 4 [] OTHER -> 0), 0, 100)

\* Mutant: a candidate may carry a high risk.
SpotActionAnyRisk(holding, opportunity, confidence, risk, trend, momentum) ==
    IF opportunity >= 70 /\ trend >= 58 /\ momentum >= 55 THEN "buy_candidate"
    ELSE IF risk = "high" \/ opportunity < 45 THEN "avoid" ELSE "watch"

SpotAction(holding, opportunity, confidence, risk, trend, momentum) ==
    IF holding /\ (trend < 42 \/ momentum < 38) THEN "exit_watch"
    ELSE IF risk = "high" \/ opportunity < 45 THEN "avoid"
    ELSE IF opportunity >= 70 /\ confidence >= 62 /\ trend >= 58 /\ momentum >= 55
    THEN "buy_candidate" ELSE "watch"

SpotLevels(action, s) ==
    LET price == Newest(s).close
        recent == LastN(s, 24)
    IN IF action \notin {"buy_candidate", "watch"}
       THEN [stop |-> Unknown, target |-> Unknown]
       ELSE [stop |-> Min({985 * price, 998 * Lowest(recent)}),
             target |-> Max({1025 * price, 1002 * Highest(recent)})]

EmptySpotSignal(x) ==
    [symbol |-> x.symbol, action |-> "avoid", opportunity |-> 0, confidence |-> 0,
     risk |-> "high", evidence |-> "insufficient", stop |-> Unknown, target |-> Unknown,
     price |-> IF x.candles = <<>> THEN Unknown ELSE Newest(x.candles).close]

SpotScores(x, status) ==
    [trend |-> TrendScore(x.technical), momentum |-> MomentumScore(x.candles),
     volatility |-> VolatilityScore(x.candles, x.technical),
     liquidity |-> SpotLiquidity(x.candles), regime |-> RegimeScore(x.regime),
     structure |-> StructureScore(x.technical, Newest(x.candles).close),
     validation |-> SpotValidation(x.validation, x.horizon),
     eligible |-> EligibilityScore(status)]
SpotOpportunity(m) ==
    Bounded(18 * m.trend + 20 * m.momentum + 13 * m.volatility + 13 * m.liquidity
            + 12 * m.structure + 10 * m.regime + 6 * m.eligible
            + 8 * (IF m.validation = Unknown THEN 50 ELSE m.validation), 100)

SpotSignalFrom(x, evidence, m, opportunity, risk) ==
    LET confidence == SpotConfidence(opportunity, m.validation, evidence, risk)
        \* The scan says of every symbol that none of it is held.
        action == SpotAction(FALSE, opportunity, confidence, risk, m.trend, m.momentum)
        levels == SpotLevels(action, x.candles)
    IN [symbol |-> x.symbol, action |-> action, opportunity |-> opportunity,
        confidence |-> confidence, risk |-> risk, evidence |-> evidence,
        price |-> Newest(x.candles).close, stop |-> levels.stop, target |-> levels.target]
SpotWeighed(x, evidence, m) ==
    SpotSignalFrom(x, evidence, m, SpotOpportunity(m),
                   SpotRisk(m.volatility, m.liquidity, m.regime, m.eligible))
BuildSpotSignal(x, eligibility) ==
    IF Len(x.candles) < MinSpotCandles THEN EmptySpotSignal(x)
    ELSE SpotWeighed(x, eligibility.evidence, SpotScores(x, eligibility.status))

-----------------------------------------------------------------------------
(* What the scan works out of a symbol's candles before it scores it.         *)

SpotEdge(s) == IF Len(s) < 24 THEN Unknown ELSE ChangeOver(s, 24)
PreliminaryConfidence(t, edge) ==
    Clamp(((IF t = Unknown THEN 50 ELSE t.strength) * 10000
           + (IF edge = Unknown THEN 0 ELSE edge * 5)) \div 10000, 0, 100)
PreliminaryRisk(s, regime) ==
    IF \/ regime \in {"choppy", "high_volatility", "low_liquidity", "trending_down"}
       \/ Len(s) < 24 THEN "high"
    ELSE IF AverageRange(LastN(s, 24)) >= 25000 THEN "high"
    ELSE IF AverageRange(LastN(s, 24)) >= 15000 THEN "medium" ELSE "low"
SpotBlockers(x) ==
    {b \in {"history", "bearish", "regime"} :
        \/ b = "history" /\ Len(x.candles) < MinSpotCandles
        \/ b = "bearish" /\ x.technical # Unknown /\ x.technical.trend = "bearish"
        \/ b = "regime" /\ x.regime \in {"choppy", "low_liquidity", "high_volatility"}}

\* Judged as a purchase, without any similar setup and without derivatives data.
Purchase(x, bias, edge) ==
    [action |-> "buy", confidence |-> PreliminaryConfidence(x.technical, edge),
     risk |-> PreliminaryRisk(x.candles, x.regime), regime |-> x.regime,
     horizon |-> x.horizon, edge |-> edge, cost |-> 2000, blockers |-> SpotBlockers(x),
     similar |-> Unknown, validation |-> x.validation, bias |-> bias, crowd |-> Unknown,
     liquidations |-> Unknown,
     zones |-> EstimateZones(x.candles, "long", Unknown, Unknown, bias, Balanced,
                             x.regime, x.atr)]
MarketWideSpotSignal(x) ==
    LET noData == [funding |-> Unknown, oiTrend |-> "neutral", oiChange |-> Unknown]
    IN BuildSpotSignal(x, EvaluateEligibility(Purchase(x,
           EstimateBias(x.candles, noData, Balanced,
               IF x.technical = Unknown THEN Unknown ELSE x.technical.volatility),
           SpotEdge(x.candles))))

-----------------------------------------------------------------------------
(* The report: four groups, each ranked and cut.                              *)

SpotBetter(a, b) ==
    \/ a.opportunity > b.opportunity
    \/ /\ a.opportunity = b.opportunity
       /\ \/ a.action \in {"buy_candidate", "watch"} /\ a.confidence > b.confidence
          \/ /\ a.action \in {"buy_candidate", "watch"} => a.confidence = b.confidence
             /\ a.symbol < b.symbol
Top(ranked, n) == SubSeq(ranked, 1, IF Len(ranked) < n THEN Len(ranked) ELSE n)

SpotReport(signals, failed, includeAvoid, shown) ==
    LET of(action, n) ==
            Top(SetToSortSeq({s \in signals : s.action = action}, SpotBetter), n)
    IN [buy |-> of("buy_candidate", shown), watch |-> of("watch", shown),
        exit |-> of("exit_watch", shown \div 2),
        avoid |-> IF includeAvoid THEN of("avoid", shown) ELSE <<>>,
        state |-> IF signals = {} THEN IF failed # {} THEN "degraded" ELSE "insufficient_data"
                  ELSE IF failed # {} THEN "partial" ELSE "ready",
        scanned |-> Cardinality(signals), failed |-> failed]
=============================================================================
