----------------------------- MODULE MCScanJob -----------------------------
(* The scans for TLC: up to three symbols in two batches, whose signals are   *)
(* what the scanners make of a few markets.                                   *)
EXTENDS MarketScan

Market(Price(_), spread, volume) ==
    [i \in 1..60 |-> [high |-> Price(i) + spread, low |-> Price(i) - spread,
                      close |-> Price(i), volume |-> volume]]
Rising == Market(LAMBDA i : 600 + i, 3, 1200)
Falling == Market(LAMBDA i : 700 - i, 3, 1200)
Flat == Market(LAMBDA i : 700, 1, 300)

Analysis(trend, strength) ==
    [trend |-> trend, momentum |-> trend, agreement |-> trend, readiness |-> "high",
     bias |-> IF trend = "bullish" THEN "upside" ELSE "downside", strength |-> strength,
     reversal |-> "low", volatility |-> "normal", supports |-> {}, resistances |-> {}]

FuturesRead(s, candles, technical) ==
    MarketWideSignal(
      [symbol |-> s, candles |-> candles, higher |-> candles, technical |-> technical,
       derivatives |-> [funding |-> Unknown, oiTrend |-> "neutral", oiChange |-> Unknown],
       liquidations |-> {}, sensitivity |-> "balanced"])
SpotRead(s, candles, technical, regime) ==
    MarketWideSpotSignal(
      [symbol |-> s, candles |-> candles, technical |-> technical, regime |-> regime,
       horizon |-> "7d", atr |-> Unknown,
       validation |-> [status |-> "ready", horizons |->
           <<[horizon |-> "7d", samples |-> 9, actionable |-> 9, expectancy |-> 90,
              winRate |-> 60]>>]])

MCReadings ==
    [futures |-> <<{FuturesRead(1, Rising, Analysis("bullish", 80)),
                    FuturesRead(1, Flat, [Analysis("bullish", 40) EXCEPT !.volatility = "high"])},
                   {FuturesRead(2, Falling, Analysis("bearish", 80))},
                   {FuturesRead(3, Flat, Analysis("bullish", 40))}>>,
     spot |-> <<{SpotRead(1, Rising, Analysis("bullish", 90), "trending_up"),
                 SpotRead(1, Flat, Unknown, "choppy")},
                {SpotRead(2, Rising, Unknown, "sideways")},
                {SpotRead(3, Falling, Analysis("bearish", 60), "trending_down")}>>]

MCRequest == [futures |-> [minimum |-> 0, confidence |-> 60, weak |-> TRUE, avoid |-> FALSE,
                           sensitivity |-> "balanced"],
              spot |-> [minimum |-> 50, confidence |-> 0, weak |-> TRUE, avoid |-> TRUE,
                        sensitivity |-> "balanced"]]
MCPastRuns == {[state |-> "ready", scanned |-> 2, failed |-> {}]}
=============================================================================
