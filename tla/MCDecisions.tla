---------------------------- MODULE MCDecisions ----------------------------
(* The decisions of both scanners over a family of markets: every shape of    *)
(* the last sixty candles, analysis, positioning of the crowd and list of     *)
(* liquidations below, in every combination.                                  *)
EXTENDS FuturesScoring, SpotScoring

Shapes == {"rising", "falling", "creeping", "sinking", "flat", "sawing", "edge", "breaking"}
Price(shape, i) ==
    CASE shape = "rising" -> 600 + i
      [] shape = "falling" -> 700 - i
      [] shape = "creeping" -> 900 + i \div 12
      [] shape = "sinking" -> 900 - i \div 12
      [] shape = "flat" -> 900
      [] shape = "sawing" -> 700 + 12 * (i % 2)
      [] shape = "edge" -> IF i < 40 THEN 900 + i \div 4 ELSE 915 - (i - 40) \div 2
      [] shape = "breaking" -> IF i < 58 THEN 900 + (i % 3) ELSE 912 + i
Textures == {[spread |-> 0, volume |-> 300], [spread |-> 3, volume |-> 1200],
             [spread |-> 4, volume |-> 30], [spread |-> 12, volume |-> 300]}
Market(shape, texture) ==
    [i \in 1..60 |-> LET p == Price(shape, i) IN
        [high |-> p + texture.spread, low |-> p - texture.spread, close |-> p,
         volume |-> texture.volume]]

Analysis(trend, readiness, volatility) ==
    [trend |-> trend, momentum |-> trend, agreement |-> trend, readiness |-> readiness,
     bias |-> IF trend = "bearish" THEN "downside" ELSE "upside", strength |-> 70,
     reversal |-> "low", volatility |-> volatility,
     supports |-> {640, 890}, resistances |-> {670, 930}]
Analyses == {Unknown, Analysis("bullish", "high", "normal"),
             Analysis("bearish", "high", "normal"), Analysis("bullish", "low", "high")}

Data(funding, change) ==
    [funding |-> funding, oiChange |-> change,
     oiTrend |-> IF change = Unknown THEN "neutral" ELSE "rising"]
Positions == {Data(Unknown, Unknown), Data(20, 60), Data(-60, 20)}

\* None, or longs sold off around the lowest price of the market.
Sales(low) == {[side |-> "SELL", notional |-> 60 + n, price |-> low, age |-> 20 * n] : n \in 1..3}

Questions ==
    [shape : Shapes, texture : Textures, technical : Analyses,
     position : Positions, sold : BOOLEAN]

-----------------------------------------------------------------------------
Futures(q, sensitivity) ==
    LET candles == Market(q.shape, q.texture)
    IN MarketWideSignal(
        [symbol |-> 1, candles |-> candles, higher |-> candles, technical |-> q.technical,
         derivatives |-> q.position, sensitivity |-> sensitivity,
         liquidations |-> IF q.sold THEN Sales(Lowest(LastN(candles, 48))) ELSE {}])

Verdict(s) == <<s.direction, s.opportunity, s.confidence, s.risk, s.stop, s.target>>
Candidates == {"long", "short"}
WellPlaced(s) ==
    IF s.direction = "long" THEN s.stop < s.price /\ s.price < s.target
    ELSE s.target < s.price /\ s.price < s.stop

\* A candidate never carries a high risk, has a stop and a target on the right sides and
\* is not over when it is shown; only an aggressive setting goes below a score of 70,
\* and only for a clean setup of a slow market.
FuturesSound(s, sensitivity) ==
    s.direction \in Candidates =>
        /\ s.risk # "high" /\ WellPlaced(s)
        /\ Heartbeat(s, s.price) \notin {"invalidated", "take_profit_touched"}
        /\ s.opportunity < 70 => sensitivity = "aggressive" /\ s.setup \notin {"none", NoEdge.setup}

\* Estimates of the liquidity are context: liquidations that were seen do not move
\* the verdict, and whoever asks for more caution gets no candidate that the
\* balanced setting would not show.
FuturesAgree(q, careful, balanced) ==
    /\ Verdict(balanced) = Verdict(Futures([q EXCEPT !.sold = FALSE], "balanced"))
    /\ careful.direction \in Candidates => Verdict(careful) = Verdict(balanced)

FuturesAnswers(q, careful, balanced, bold) ==
    /\ FuturesSound(careful, "conservative") /\ FuturesSound(balanced, "balanced")
    /\ FuturesSound(bold, "aggressive")
    /\ FuturesAgree(q, careful, balanced)
FuturesQuestion(q) ==
    FuturesAnswers(q, Futures(q, "conservative"), Futures(q, "balanced"),
                   Futures(q, "aggressive"))

Validation(n, expectancy) ==
    [status |-> "ready", horizons |-> <<[horizon |-> "7d", samples |-> n, actionable |-> n,
                                         expectancy |-> expectancy, winRate |-> 60]>>]
Spot(q, regime, validation) ==
    MarketWideSpotSignal([symbol |-> 1, candles |-> Market(q.shape, q.texture),
        technical |-> q.technical, regime |-> regime, validation |-> validation,
        horizon |-> "7d", atr |-> Unknown])

\* A Spot purchase is never suggested against the market, on a high risk, or with its
\* stop and target on the wrong sides, however good the measured history is.
SpotSound(q, s, regime) ==
    s.action = "buy_candidate" =>
        /\ s.risk # "high" /\ s.stop < 1000 * s.price /\ 1000 * s.price < s.target
        /\ q.technical # Unknown => q.technical.trend # "bearish"
        /\ regime \notin {"choppy", "low_liquidity", "high_volatility", "trending_down"}
SpotQuestion(q) ==
    \A regime \in {Unknown, "trending_up", "choppy", "trending_down"},
       validation \in {Unknown, Validation(9, 90)} :
        SpotSound(q, Spot(q, regime, validation), regime)
=============================================================================
