------------------------------ MODULE Liquidity ------------------------------
(* Where leveraged positions may be caught: crowd_positioning.py,             *)
(* liquidity_bias.py, liquidity_zones.py and liquidation_intelligence.py of   *)
(* app/monitoring. All of it is an estimate made from the derivatives data,   *)
(* the candles and the liquidations that were reported.                       *)
(*                                                                            *)
(* Funding rates are in units of 0.00001, changes of the open interest in     *)
(* tenths of a per cent; Unknown stands for None.                             *)
EXTENDS Candlesticks

CONSTANT Unknown

-----------------------------------------------------------------------------
(* Crowd positioning.                                                         *)

Balanced == [side |-> "balanced", strength |-> "low", squeeze |-> "low"]

CrowdStrength(funding, oiChange) ==
    LET change == IF oiChange = Unknown THEN 0 ELSE Abs(oiChange)
    IN IF Abs(funding) >= 50 \/ change >= 50 THEN "high"
       ELSE IF Abs(funding) >= 15 \/ change >= 15 THEN "medium" ELSE "low"

\* Only a funding rate that is not near zero, with the open interest rising.
EstimateCrowd(d) ==
    IF d.funding = Unknown THEN Balanced
    ELSE IF Abs(d.funding) < 5 \/ d.oiTrend # "rising" THEN Balanced
    ELSE [side |-> IF d.funding > 0 THEN "long_crowded" ELSE "short_crowded",
          strength |-> CrowdStrength(d.funding, d.oiChange),
          squeeze |-> IF d.funding > 0 THEN "long_squeeze" ELSE "short_squeeze"]

-----------------------------------------------------------------------------
(* Liquidity bias.                                                            *)

Neutral == [bias |-> "neutral", pressure |-> "low", direction |-> "none", trap |-> "low"]
LongTrap(pressure) ==
    [bias |-> "bearish", pressure |-> pressure, direction |-> "down", trap |-> "long_trap"]
ShortTrap(pressure) ==
    [bias |-> "bullish", pressure |-> pressure, direction |-> "up", trap |-> "short_trap"]

\* The second dozen of candles against the first, or against the price.
RangeCompressed(s) ==
    LET recent == Ranges(LastN(s, 12))
        prior == Ranges(SubSeq(LastN(s, 24), 1, 12))
    IN /\ Len(s) >= 24
       /\ \/ prior > 0 /\ recent * 100 <= prior * 65
          \/ recent * 10000 <= 75 * 12 * Newest(s).close

\* Without derivatives data: a price extended to an edge of a compressed range.
StructureFallback(s, volatility) ==
    LET recent == LastN(s, 24)
        width == Highest(recent) - Lowest(recent)
        above == Newest(s).close - Lowest(recent)
        change == (Newest(s).close - s[1].close) * 100
        pressure == IF volatility = "low" THEN "high" ELSE "medium"
    IN IF width = 0 \/ ~RangeCompressed(s) THEN Unknown
       ELSE IF change >= 2 * s[1].close /\ above * 4 >= width * 3 THEN LongTrap(pressure)
       ELSE IF change <= -2 * s[1].close /\ above * 4 <= width THEN ShortTrap(pressure)
       ELSE Unknown

EstimateBias(s, d, crowd, volatility) ==
    LET rising == d.oiChange # Unknown /\ d.oiChange > 0
        packed == RangeCompressed(s)
        fallback == IF d.funding = Unknown /\ d.oiChange = Unknown
                    THEN StructureFallback(s, volatility) ELSE Unknown
        pressure == IF packed \/ d.oiChange >= 50 THEN "high" ELSE "medium"
    IN IF crowd.side = "long_crowded" THEN LongTrap(crowd.strength)
       ELSE IF crowd.side = "short_crowded" THEN ShortTrap(crowd.strength)
       ELSE IF rising /\ d.funding # Unknown /\ d.funding # 0
            THEN IF d.funding > 0 THEN LongTrap(pressure) ELSE ShortTrap(pressure)
       ELSE IF packed /\ rising THEN [Neutral EXCEPT !.pressure = "high"]
       ELSE IF fallback # Unknown THEN fallback
       ELSE IF packed THEN [Neutral EXCEPT !.pressure = "medium"]
       ELSE Neutral

-----------------------------------------------------------------------------
(* Liquidity zones: the extremes of the last two days, as strong as there are *)
(* highs (lows) about them.                                                   *)

NoZone == [level |-> Unknown, strength |-> "low"]
NoTarget == [direction |-> "none", level |-> Unknown, strength |-> "low"]
NoZones == [up |-> NoZone, down |-> NoZone, target |-> NoTarget, sweep |-> "none",
            timing |-> "wait_for_confirmation", alignment |-> "needs_review"]

\* The average true range, where it is known, or the mean range of 14 candles.
BufferPct(s, price, atr) ==
    LET recent == LastN(s, 14)
    IN Clamp(IF atr # Unknown THEN Percent(atr, price)
             ELSE Percent(Ranges(recent), Len(recent) * price), 2000, 15000)

\* One point for the extreme, up to four for equal ones, up to three for swings.
Strength(equal, swings) ==
    LET score == 1 + Min({equal, 4}) + Min({swings, 3})
    IN IF score >= 5 THEN "high" ELSE IF score >= 3 THEN "medium" ELSE "low"

\* The extreme of the levels, Beyond telling which of two is further out.
Zone(level, extreme, buffer, Beyond(_, _)) ==
    LET n == Len(level)
        near(i, pct) == PercentBetween(level[i], extreme) <= pct
        swings == {i \in 2 .. n - 1 : /\ ~Beyond(level[i - 1], level[i])
                                      /\ ~Beyond(level[i + 1], level[i])}
    IN [level |-> extreme,
        strength |-> Strength(Cardinality({i \in 1 .. n : near(i, Max({buffer, 2500}))}),
                              Cardinality({i \in swings : near(i, buffer)}))]
UpsideZone(recent, buffer) ==
    Zone([i \in DOMAIN recent |-> recent[i].high], Highest(recent), buffer,
         LAMBDA p, q : p > q)
DownsideZone(recent, buffer) ==
    Zone([i \in DOMAIN recent |-> recent[i].low], Lowest(recent), buffer,
         LAMBDA p, q : p < q)

Distance(price, level) == PercentHalfUp(Abs(level - price), price)
Towards(direction, zone) ==
    [direction |-> direction, level |-> zone.level, strength |-> zone.strength]
NearestTarget(price, up, down, crowd) ==
    CASE crowd.side = "long_crowded" -> Towards("down", down)
      [] crowd.side = "short_crowded" -> Towards("up", up)
      [] OTHER -> IF Distance(price, up.level) <= Distance(price, down.level)
                  THEN Towards("up", up) ELSE Towards("down", down)

Compressed(recent) ==
    LET prior == Ranges(SubSeq(LastN(recent, 24), 1, 12))
    IN /\ Len(recent) >= 24 /\ prior > 0
       /\ Ranges(LastN(recent, 12)) * 10 <= prior * 7
SweepRisk(price, up, down, bias, buffer, packed) ==
    LET near(zone) == Distance(price, zone.level) <= Max({8500, buffer * 2})
        sought(zone, direction) ==
            near(zone) /\ (zone.strength = "high" \/ bias.direction = direction)
    IN IF packed /\ "low" \notin {up.strength, down.strength} THEN "both_sides"
       ELSE IF sought(up, "up") THEN "upside_sweep"
       ELSE IF sought(down, "down") THEN "downside_sweep" ELSE "none"

Buys == {"long", "buy"}
TradeTiming(direction, sweep, target, regime, packed) ==
    LET ready == IF target.strength = "low" THEN "wait_for_confirmation" ELSE "enter_now"
    IN IF sweep = "both_sides" /\ (regime = "choppy" \/ packed) THEN "avoid_chop"
       ELSE IF \/ direction \in Buys /\ sweep = "downside_sweep"
               \/ direction = "short" /\ sweep = "upside_sweep" THEN "wait_for_sweep"
       ELSE IF \/ direction \in Buys /\ target.direction = "up"
               \/ direction = "short" /\ target.direction = "down" THEN ready
       ELSE "wait_for_confirmation"

\* The stop against the zone behind it, the target against the zone ahead.
Alignment(direction, up, down, stop, target, buffer) ==
    LET behind == IF direction \in Buys THEN down ELSE up
        ahead == IF direction \in Buys THEN up ELSE down
        danger == Max({5000, buffer})
        short == IF direction \in Buys THEN target < ahead.level ELSE target > ahead.level
        within == IF direction \in Buys THEN target * 100 <= ahead.level * 103
                  ELSE target * 100 >= ahead.level * 97
    IN IF direction \notin Buys \cup {"short"} \/ Unknown \in {stop, target}
       THEN "needs_review"
       ELSE IF PercentBetween(stop, behind.level) <= danger
            THEN "stop_too_close_to_liquidity"
       ELSE IF short /\ PercentBetween(target, ahead.level) > danger
            THEN "target_before_liquidity"
       ELSE IF short \/ within THEN "aligned" ELSE "target_after_liquidity"

EstimateZones(s, direction, stop, target, bias, crowd, regime, atr) ==
    LET price == Newest(s).close
        recent == LastN(s, 48)
        buffer == BufferPct(recent, price, atr)
        up == UpsideZone(recent, buffer)
        down == DownsideZone(recent, buffer)
        nearest == NearestTarget(price, up, down, crowd)
        sweep == SweepRisk(price, up, down, bias, buffer, Compressed(recent))
    IN IF Len(s) < 8 THEN NoZones
       ELSE [up |-> up, down |-> down, target |-> nearest, sweep |-> sweep,
             timing |-> TradeTiming(direction, sweep, nearest, regime, Compressed(recent)),
             alignment |-> Alignment(direction, up, down, stop, target, buffer)]

-----------------------------------------------------------------------------
(* Liquidations, from the oldest of the last five minutes; notionals in       *)
(* thousands, age in seconds.                                                 *)

Within(events, seconds) == {e \in events : 0 <= e.age /\ e.age <= seconds}
Notional(events, side) ==
    MapThenSumSet(LAMBDA e : e.notional, {e \in events : e.side = side})

Intensity(total, n, imbalance, seconds) ==
    LET often(tenths) == n * 600 >= tenths * seconds
    IN IF total < 1 /\ n <= 1 THEN "low"
       ELSE IF \/ total >= 100 \/ n >= 8
               \/ often(20) /\ total >= 25
               \/ Abs(imbalance) >= 750000 /\ total >= 50 THEN "high"
       ELSE IF \/ total >= 25 \/ n >= 3
               \/ often(8) /\ total >= 10
               \/ Abs(imbalance) >= 450000 /\ total >= 10 THEN "medium"
       ELSE "low"

Totals(long, short, n, seconds) ==
    LET imbalance == IF long + short = 0 THEN 0 ELSE PercentHalfUp(short - long, long + short)
    IN [long |-> long, short |-> short, imbalance |-> imbalance, count |-> n,
        intensity |-> Intensity(long + short, n, imbalance, seconds)]

\* A forced sale closes a long position.
Aggregate(events, seconds) ==
    Totals(Notional(events, "SELL"), Notional(events, "BUY"), Cardinality(events), seconds)

DominantSide(a) ==
    CASE a.long * 100 > a.short * 135 -> "longs_liquidated"
      [] a.short * 100 > a.long * 135 -> "shorts_liquidated"
      [] OTHER -> "balanced"

\* Some liquidation near the zone that was estimated to be swept.
SweepConfirmed(events, zones, dominant) ==
    LET level == IF zones.sweep = "downside_sweep" THEN zones.down.level ELSE zones.up.level
    IN /\ zones.sweep # "none"
       /\ zones.sweep = "downside_sweep" => dominant = "longs_liquidated"
       /\ zones.sweep = "upside_sweep" => dominant = "shorts_liquidated"
       /\ \E e \in events : PercentBetween(e.price, level) <= 8500

Exhausted(short, medium, move) ==
    /\ short.intensity = "high" \/ short.count >= 5 \/ medium.intensity = "high"
    /\ Abs(move) <= 1200

Quiet == [signal |-> "none", intensity |-> "low", dominant |-> "balanced"]
SignalOf(all, events, a, dominant, move, zones) ==
    LET cascade(side, sign) == /\ a.intensity = "high" /\ dominant = side
                               /\ a.imbalance * sign >= 600000 /\ move * sign >= 1500
    IN IF a.intensity = "low" /\ a.count <= 2 THEN "noise"
       ELSE IF SweepConfirmed(events, zones, dominant) THEN "sweep_confirmation"
       ELSE IF Exhausted(Aggregate(Within(all, 30), 30), a, move) THEN "exhaustion"
       ELSE IF cascade("longs_liquidated", -1) THEN "cascade_down"
       ELSE IF cascade("shorts_liquidated", 1) THEN "cascade_up"
       ELSE IF a.intensity = "low" THEN "noise" ELSE "none"
Interpretation(all, events, a, s, zones) ==
    [signal |-> SignalOf(all, events, a, DominantSide(a), ChangeOver(s, 6), zones),
     intensity |-> a.intensity, dominant |-> DominantSide(a)]
InterpretLiquidations(all, s, zones) ==
    LET events == Within(all, 300)
    IN IF events = {} THEN Quiet
       ELSE Interpretation(all, events, Aggregate(events, 300), s, zones)

\* A sweep that was confirmed makes its zone and the target strong.
ValidateZones(zones, liquidations) ==
    LET confirmed(side, sweep) ==
            /\ liquidations.signal = "sweep_confirmation"
            /\ liquidations.dominant = side /\ zones.sweep = sweep
        target(direction, zone) ==
            [direction |-> direction, strength |-> "high",
             level |-> IF zones.target.direction = direction THEN zones.target.level
                       ELSE zone.level]
    IN CASE confirmed("longs_liquidated", "downside_sweep") ->
              [zones EXCEPT !.down.strength = "high", !.target = target("down", zones.down),
                            !.timing = "wait_for_confirmation"]
         [] confirmed("shorts_liquidated", "upside_sweep") ->
              [zones EXCEPT !.up.strength = "high", !.target = target("up", zones.up),
                            !.timing = "wait_for_confirmation"]
         [] OTHER -> zones
=============================================================================
