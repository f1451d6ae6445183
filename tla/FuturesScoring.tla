--------------------------- MODULE FuturesScoring ---------------------------
(* app/monitoring/futures_opportunity_scanner.py: the scanner's reading of    *)
(* one USD-M Futures symbol, LONG, SHORT, WAIT or AVOID, and the report that  *)
(* ranks the symbols; futures_scanner_heartbeat.py and                        *)
(* futures_leverage_simulator.py: what a card shows of a candidate later.     *)
(*                                                                            *)
(* A context c is what the scan knows of a symbol: its candles and those of   *)
(* the higher timeframe, the technical analysis, the regime, the evidence,    *)
(* the blockers, the spread, the liquidity bias and zones and the sensitivity.*)
EXTENDS Liquidity, SequencesExt

MinCandles == 24
Score(x) == Clamp(x, 0, 100)
Lesser(x, y) == IF x < y THEN x ELSE y
Greater(x, y) == IF x > y THEN x ELSE y

-----------------------------------------------------------------------------
(* Market scores.                                                             *)

\* The later dozen of the last two against the earlier one.
StructureDirection(s) ==
    LET first == SubSeq(LastN(s, 24), 1, 12)
        second == SubSeq(LastN(s, 24), 13, 24)
    IN IF Highest(second) > Highest(first) /\ Lowest(second) > Lowest(first) THEN "bullish"
       ELSE IF Highest(second) < Highest(first) /\ Lowest(second) < Lowest(first)
       THEN "bearish" ELSE "mixed"

\* Reversals among the moves that are moves, per cent of the pairs of them.
FlipRate(s) ==
    LET change == [i \in 1 .. Len(s) - 1 |-> s[i + 1].close - s[i].close]
        moves == SelectSeq(change, LAMBDA d : d # 0)
        flips == {i \in 1 .. Len(moves) - 1 : (moves[i] > 0) # (moves[i + 1] > 0)}
    IN IF Len(moves) < 2 THEN 0 ELSE (Cardinality(flips) * 100) \div (Len(moves) - 1)

VolatilityQuality(s) ==
    LET range == AverageRange(LastN(s, 24))
    IN IF 800 <= range /\ range <= 28000 THEN 85
       ELSE IF 300 <= range /\ range <= 45000 THEN 62
       ELSE IF range <= 70000 THEN 35 ELSE 15

LiquidityScore(s) ==
    LET recent == LastN(s, 24)
        average == Volumes(recent) \div Len(recent)
    IN Ladder(average, <<<<1000, 90>>, <<250, 72>>, <<50, 48>>, <<10, 28>>>>, 12)

\* What the averages, the structure, the higher timeframe and the momentum say for
\* the side that sign stands for: 1 bullish, -1 bearish.
Direction(s, higher, momentum, sign) ==
    LET close == Newest(s).close
        fast == LastN(s, 12)   slow == LastN(s, 36)
        vsFast == close * Len(fast) - Closes(fast)
        vsSlow == close * Len(slow) - Closes(slow)
        fastVsSlow == Closes(fast) * Len(slow) - Closes(slow) * Len(fast)
        ordered == \/ vsFast > 0 /\ fastVsSlow > 0
                   \/ vsFast < 0 /\ fastVsSlow < 0
        eights == LastN(higher, 8)   days == LastN(higher, 24)
        leaning == Closes(eights) * 24 - Closes(days) * 8
        structure == StructureDirection(s)
    IN (IF ordered THEN IF vsFast * sign > 0 THEN 35 ELSE 0
        ELSE IF vsSlow * sign > 0 THEN 12 ELSE 4)
     + (IF structure = "mixed" THEN 8
        ELSE IF structure = (IF sign = 1 THEN "bullish" ELSE "bearish") THEN 25 ELSE 0)
     + (IF Len(higher) >= 24 /\ leaning * sign > 0 THEN 15 ELSE 0)
     + (IF momentum * sign > 12000 THEN 25 ELSE IF momentum * sign > 3500 THEN 15 ELSE 0)

Scores(s, momentum, bullish, bearish) ==
    LET trendScore == Greater(bullish, bearish)
        choppy == FlipRate(LastN(s, 24)) >= 58 /\ trendScore < 70
        cap == IF choppy THEN 48 ELSE 100
        risk == Lesser(VolatilityQuality(s), LiquidityScore(s))
        trend == IF choppy THEN "choppy"
                 ELSE IF bullish >= bearish + 10 THEN "bullish"
                 ELSE IF bearish >= bullish + 10 THEN "bearish" ELSE "mixed"
    IN [trend |-> trend, trendScore |-> Score(trendScore),
        momentumScore |-> Lesser(100, (Abs(momentum) * 12) \div 10000
                                      + IF Abs(momentum) >= 3500 THEN 25 ELSE 5),
        volatility |-> VolatilityQuality(s), liquidity |-> LiquidityScore(s),
        risk |-> IF choppy THEN Lesser(risk, 35) ELSE risk,
        bullish |-> Lesser(bullish, cap), bearish |-> Lesser(bearish, cap)]

MarketScores(s, higher) ==
    LET momentum == ChangeOver(s, 24)
    IN Scores(s, momentum, Direction(s, higher, momentum, 1),
              Direction(s, higher, momentum, -1))

-----------------------------------------------------------------------------
(* Setups of a slow market: [setup, side, clean].                             *)

Setup(name, side, clean) == [setup |-> name, side |-> side, clean |-> clean]
NoSetup == Setup("none", "none", FALSE)
NoEdge == Setup("low_volatility_no_edge", "none", FALSE)

SlowMarketSetup(c, m) ==
    LET s == LastN(c.candles, 32)
        price == Newest(s).close
        average == AverageRange(LastN(s, 16))
        high == Highest(LastN(s, 24))   low == Lowest(LastN(s, 24))
        room == Percent(high - price, price)
        cushion == Percent(price - low, price)
        compression == average <= 1000 /\ Percent(high - low, price) <= 12000
        calm == c.bias.pressure # "high"
        clean == calm /\ c.bias.trap = "low"
        trending == m.trend \in {"bullish", "bearish"} /\ m.trendScore >= 48
        ready == c.technical # Unknown /\ c.technical.readiness \in {"medium", "high"}
        leader == IF m.bullish >= m.bearish THEN "long" ELSE "short"
    IN IF average > 1800 /\ m.volatility > 62 THEN NoSetup
       ELSE IF high = low \/ (m.trendScore < 35 /\ m.momentumScore < 25) THEN NoEdge
       ELSE IF compression /\ trending /\ clean
         THEN Setup("low_volatility_continuation", leader, TRUE)
       ELSE IF compression
         THEN IF ready THEN Setup("compression_breakout", "none", clean) ELSE NoEdge
       ELSE IF ready /\ c.technical.bias = "upside" /\ room <= 3500 /\ clean
         THEN Setup("range_breakout", "long", TRUE)
       ELSE IF ready /\ c.technical.bias = "downside" /\ cushion <= 3500 /\ clean
         THEN Setup("range_breakout", "short", TRUE)
       ELSE IF c.bias.trap = "short_trap" /\ cushion <= 4000
         THEN Setup("liquidity_sweep_reversal", "long", calm)
       ELSE IF c.bias.trap = "long_trap" /\ room <= 4000
         THEN Setup("liquidity_sweep_reversal", "short", calm)
       ELSE IF cushion <= 3000 /\ m.bearish < m.bullish + 15 /\ clean
         THEN Setup("mean_reversion_range_edge", "long", TRUE)
       ELSE IF room <= 3000 /\ m.bullish < m.bearish + 15 /\ clean
         THEN Setup("mean_reversion_range_edge", "short", TRUE)
       ELSE NoEdge

-----------------------------------------------------------------------------
(* The sides' scores.                                                         *)

Points(condition, n) == IF condition THEN n ELSE 0
TechnicalPoints(t, own, momenta, breakout) ==
    Points(t.trend = own, 18) - Points(t.trend = "sideways", 25)
    + Points(t.momentum \in momenta, 12) - Points(t.momentum = "neutral", 10)
    + Points(t.agreement = own, 10) - Points(t.agreement = "mixed", 10)
    + Points(t.readiness = "high" /\ t.bias = breakout, 10)
    + Lesser(10, t.strength \div 10)

LongScore(c, m) ==
    LET t == c.technical
    IN Score(m.bullish
        + (IF t = Unknown THEN 0
           ELSE TechnicalPoints(t, "bullish", {"bullish", "overbought"}, "upside"))
        + Points(c.regime \in {"trending_up", "breakout_building"}, 8)
        - Points(c.regime \in {"trending_down", "choppy", "low_liquidity"}, 20))

ShortScore(c, m) ==
    LET t == c.technical
    IN Score(m.bearish
        + (IF t = Unknown THEN 0
           ELSE TechnicalPoints(t, "bearish", {"bearish", "oversold"}, "downside")
                + Points(t.reversal = "high" /\ t.trend = "bearish", 8))
        + Points(c.regime \in {"trending_down", "reversal_risk"}, 8)
        - Points(c.regime \in {"trending_up", "choppy", "low_liquidity"}, 20))

RiskGrade(c, m) ==
    IF \/ c.blockers # {} \/ c.regime \in {"choppy", "low_liquidity", "high_volatility"}
       \/ c.spread # Unknown /\ c.spread >= 3500
       \/ m.liquidity < 30 \/ m.volatility < 25 \/ m.risk < 25
       \/ c.technical # Unknown /\ c.technical.volatility = "high" THEN "high"
    ELSE IF \/ m.liquidity < 50 \/ m.volatility < 45 \/ m.risk < 45
            \/ c.regime \in {"reversal_risk", "sideways"} THEN "medium"
    ELSE "low"

\* Mutant: an active trader is let through whatever the risk.
BlockedUnlessActive(c, risk, slow) ==
    \/ c.blockers # {} \/ c.regime \in {"choppy", "low_liquidity"}
    \/ c.eligibility = "not_eligible"
    \/ c.spread # Unknown /\ c.spread + 800 >= 4500
    \/ /\ slow.setup = "low_volatility_no_edge" \/ risk = "high"
       /\ c.sensitivity # "aggressive"

Blocked(c, risk, slow) ==
    \/ c.blockers # {} \/ c.regime \in {"choppy", "low_liquidity"}
    \/ c.eligibility = "not_eligible"
    \/ c.spread # Unknown /\ c.spread + 800 >= 4500
    \/ slow.setup = "low_volatility_no_edge" /\ c.sensitivity # "aggressive"
    \/ risk = "high"

ValidationScore(evidence) ==
    CASE evidence = "strong" -> 90 [] evidence = "promising" -> 75
      [] evidence = "mixed" -> 55 [] evidence = "weak" -> 35 [] OTHER -> 20

OpportunityScore(direction, m, validation) ==
    Score(HalfUp(direction * 28 + m.trendScore * 22 + m.momentumScore * 18
                 + m.volatility * 12 + m.liquidity * 10 + m.risk * 7 + validation * 3, 100))
ConfidenceFrom(opportunity, validation, risk) ==
    Score(HalfUp(opportunity * 78 + validation * 12 + risk * 10, 100))

\* A trap set for the other side helps, one for this side hurts.
LiquidityAdjusted(direction, bias, confidence) ==
    LET own == [long |-> "long_trap", short |-> "short_trap", none |-> "none"][direction]
        other == [long |-> "short_trap", short |-> "long_trap", none |-> "none"][direction]
    IN Score(confidence - Points(bias.pressure = "high", 3)
             - Points(bias.trap = own, IF bias.pressure = "high" THEN 8 ELSE 4)
             + Points(bias.trap = other, 4))

\* Stop and target: the mean range of a day, 0.6 per cent of the price at least.
RiskLevels(direction, s) ==
    LET recent == LastN(s, 24)
        price == Newest(s).close
        n == Len(recent)
        buffer == Greater(Ranges(recent) * 1000, price * 6 * n)   \* in 1/1000n
        sign == IF direction = "long" THEN 1 ELSE -1
    IN IF direction \notin {"long", "short"} THEN [stop |-> Unknown, target |-> Unknown]
       ELSE [stop |-> HalfUp(price * 1000 * n - sign * buffer, 1000 * n),
             target |-> HalfUp(price * 10000 * n + sign * 18 * buffer, 10000 * n)]

ActionThreshold(sensitivity, slow) ==
    CASE sensitivity = "conservative" -> 76
      [] sensitivity = "aggressive" /\ slow.clean -> 62
      [] OTHER -> 70

\* What the zones warn of.
ZoneWarnings(zones) ==
    {w \in {"wait_for_sweep", "avoid_chop", "stop_too_close_to_liquidity"} :
        w \in {zones.timing, zones.alignment}}

BuildSignal(c, direction, m, opportunity, side, confidence, risk, slow) ==
    LET levels == RiskLevels(direction, c.candles)
    IN [symbol |-> c.symbol, direction |-> direction, opportunity |-> Score(opportunity),
        side |-> side, confidence |-> Score(confidence), risk |-> risk,
        price |-> Newest(c.candles).close, evidence |-> c.evidence, trend |-> m.trend,
        setup |-> slow.setup, warnings |-> ZoneWarnings(c.zones),
        stop |-> levels.stop, target |-> levels.target]

Insufficient(c) ==
    [symbol |-> c.symbol, direction |-> "avoid", opportunity |-> 0, side |-> 0,
     confidence |-> 0, risk |-> "high", evidence |-> "insufficient", setup |-> "none",
     trend |-> "insufficient_data", warnings |-> {"backfill"}, stop |-> Unknown,
     target |-> Unknown,
     price |-> IF c.candles = <<>> THEN Unknown ELSE Newest(c.candles).close]

\* The side that is ahead by enough, with a confidence of its own; else to wait.
Directed(c, opportunity, confidence, long, short, threshold, gap) ==
    LET leading == IF opportunity < threshold THEN "wait"
                   ELSE IF long >= short + gap THEN "long"
                   ELSE IF short >= long + gap THEN "short" ELSE "wait"
    IN [direction |-> leading,
        side |-> IF leading = "short" THEN short
                 ELSE IF leading = "long" THEN long ELSE Greater(long, short),
        confidence |-> IF leading = "wait" THEN Lesser(confidence, 68)
                       ELSE LiquidityAdjusted(leading, c.bias, confidence)]

\* What is shown for the sides' scores.
SignalFrom(c, m, slow, long, short, opportunity) ==
    LET risk == RiskGrade(c, m)
        active == c.sensitivity = "aggressive" /\ slow.clean
        confidence == LiquidityAdjusted("none", c.bias,
                          ConfidenceFrom(opportunity, ValidationScore(c.evidence), m.risk))
        d == Directed(c, opportunity, confidence, long, short,
                      ActionThreshold(c.sensitivity, slow), IF active THEN 8 ELSE 10)
    IN IF Blocked(c, risk, slow)
       THEN BuildSignal(c, "avoid", m, Lesser(opportunity, 45), Greater(long, short),
                        Lesser(confidence, 45), risk, slow)
       ELSE BuildSignal(c, d.direction, m, opportunity, d.side, d.confidence, risk, slow)

\* An aggressive trader's clean setup helps its side.
Helped(c, slow, side) ==
    Points(c.sensitivity = "aggressive" /\ slow.clean /\ slow.side = side, 8)
ScoredSides(c, m, slow) ==
    LET long == Lesser(100, LongScore(c, m) + Helped(c, slow, "long"))
        short == Lesser(100, ShortScore(c, m) + Helped(c, slow, "short"))
    IN SignalFrom(c, m, slow, long, short,
           OpportunityScore(Greater(long, short), m, ValidationScore(c.evidence)))

WithSetup(c, m) == ScoredSides(c, m, SlowMarketSetup(c, m))
AnalyzeSymbol(c) ==
    IF Len(c.candles) < MinCandles THEN Insufficient(c)
    ELSE WithSetup(c, MarketScores(c.candles, c.higher))

\* The scan of one symbol: derivatives and candles to crowd, bias, zones (no direction
\* and no levels yet), liquidations, and all of it into one analysis.
WithZones(x, bias, estimated) ==
    AnalyzeSymbol([symbol |-> x.symbol, candles |-> x.candles, higher |-> x.higher,
        technical |-> x.technical, regime |-> Unknown, evidence |-> "unvalidated",
        eligibility |-> Unknown, blockers |-> {}, spread |-> Unknown, bias |-> bias,
        zones |-> ValidateZones(estimated,
                      InterpretLiquidations(x.liquidations, x.candles, estimated)),
        sensitivity |-> x.sensitivity])
WithBias(x, crowd, bias) ==
    WithZones(x, bias, EstimateZones(x.candles, "none", Unknown, Unknown, bias, crowd,
                                     Unknown, Unknown))
MarketWideSignal(x) ==
    LET crowd == EstimateCrowd(x.derivatives)
        \* "1h or 24h": no change in the last hour is no answer.
        hour == IF x.derivatives.oiChange = 0 THEN Unknown ELSE x.derivatives.oiChange
    IN WithBias(x, crowd,
           EstimateBias(x.candles, [x.derivatives EXCEPT !.oiChange = hour], crowd,
               IF x.technical = Unknown THEN Unknown ELSE x.technical.volatility))

-----------------------------------------------------------------------------
(* The report: the groups, each ranked, and the state of the scan.            *)

Grades == [high |-> 1, low |-> 2, medium |-> 3]     \* as strings compare
Better(a, b) ==
    \/ a.opportunity > b.opportunity
    \/ a.opportunity = b.opportunity /\ a.confidence > b.confidence
    \/ /\ a.opportunity = b.opportunity /\ a.confidence = b.confidence
       /\ \/ Grades[a.risk] < Grades[b.risk]
          \/ a.risk = b.risk /\ a.symbol < b.symbol
MoreNeutral(a, b) ==
    IF a.direction # b.direction THEN a.direction = "wait"
    ELSE \/ a.opportunity > b.opportunity
         \/ a.opportunity = b.opportunity /\ a.symbol < b.symbol

FuturesReport(signals, failed, includeAvoid) ==
    LET of(direction) == {s \in signals : s.direction = direction}
        neutral == of("wait") \cup (IF includeAvoid THEN of("avoid") ELSE {})
    IN [long |-> SetToSortSeq(of("long"), Better),
        short |-> SetToSortSeq(of("short"), Better),
        neutral |-> SetToSortSeq(neutral, MoreNeutral),
        state |-> IF signals = {} THEN IF failed # {} THEN "degraded" ELSE "insufficient_data"
                  ELSE IF failed # {} THEN "partial" ELSE "ready",
        scanned |-> Cardinality(signals), failed |-> failed]

-----------------------------------------------------------------------------
(* A candidate's card later: how far the price has gone, and what a leverage  *)
(* would make of it.                                                          *)

Sign(direction) == IF direction = "long" THEN 1 ELSE -1
Heartbeat(s, live) ==
    LET sign == Sign(s.direction)
        toStop == IF s.stop = Unknown THEN Unknown
                  ELSE PercentHalfUp(sign * (live - s.stop), live)
        toTarget == IF s.target = Unknown THEN Unknown
                    ELSE PercentHalfUp(sign * (s.target - live), live)
    IN IF live = Unknown THEN "stale"
       ELSE IF s.direction \notin {"long", "short"} THEN "active"
       ELSE IF toStop # Unknown /\ sign * (live - s.stop) <= 0 THEN "invalidated"
       ELSE IF toTarget # Unknown /\ sign * (s.target - live) <= 0 THEN "take_profit_touched"
       ELSE IF toStop # Unknown /\ toStop <= 3500 THEN "near_stop"
       ELSE IF toTarget # Unknown /\ toTarget <= 3500 THEN "near_take_profit"
       ELSE "active"

LeverageOptions == {1, 2, 3, 5, 10, 25, 50, 100}
LeveragedReturn(s, price, leverage) ==
    LET n == Abs(price - s.price) * 10000 * leverage     \* hundredths of a per cent
        size == (n \div s.price) * 100 + HalfUp((n % s.price) * 100, s.price)
    IN IF (price >= s.price) = (s.direction = "long") THEN size ELSE -size
SimulateLeverage(s, live, leverage) ==
    LET used == IF leverage \in LeverageOptions THEN leverage ELSE 5
        stop == LeveragedReturn(s, s.stop, used)
    IN [leverage |-> used,
        target |-> LeveragedReturn(s, s.target, used) - 1200 * used,
        stop |-> stop - 1200 * used,
        live |-> IF live = Unknown THEN Unknown ELSE LeveragedReturn(s, live, used),
        risk |-> IF Abs(stop) < 50000 THEN "low" ELSE IF Abs(stop) < 150000 THEN "medium"
                 ELSE IF Abs(stop) < 500000 THEN "high" ELSE "extreme",
        warned |-> used >= 25]
=============================================================================
