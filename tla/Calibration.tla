---------------------------- MODULE Calibration ----------------------------
(* app/monitoring/profile_calibration.py: what the paper trades of a profile  *)
(* recommend for its thresholds, and how the sessions before and after a      *)
(* tuning compare. Thresholds and money are in units of 0.0001.               *)
(*                                                                            *)
(* A trade is [id, time, profile, session, side, status, pnl], a fill         *)
(* [id, profile, session, fee], an event [id, profile, session, codes].       *)
EXTENDS Rounding, SequencesExt

Profiles == {"conservative", "balanced", "aggressive"}

\* PROFILE_THRESHOLDS
Defaults(p) ==
    LET of(c, b, a) == CASE p = "conservative" -> c [] p = "balanced" -> b
                         [] OTHER -> a
    IN [min_atr_ratio |-> of(8, 4, 2),
        max_spread_ratio |-> of(15, 30, 50),
        min_order_book_imbalance |-> of(-2000, -4500, -6000),
        min_expected_edge_buffer_pct |-> of(15, 8, 3),
        min_stop_distance_ratio |-> of(12, 8, 5),
        stop_loss_atr_multiple |-> of(22000, 17500, 14000),
        take_profit_atr_multiple |-> of(30000, 24000, 20000)]

\* REASON_TO_BLOCKER, as the codes that count as each blocker
BlockerCodes ==
    [low_volatility |-> {"VOL_TOO_LOW"},
     weak_signal |-> {"EMA_NOT_BULLISH", "NON_ACTIONABLE_SIGNAL"},
     spread_too_wide |-> {"MICROSTRUCTURE_UNHEALTHY"},
     edge_below_fees |-> {"EDGE_BELOW_COSTS", "EXPECTED_EDGE_TOO_SMALL"},
     insufficient_candles |->
         {"WAITING_FOR_HISTORY", "MISSING_EMA", "MISSING_ATR_CONTEXT"},
     no_trend_confirmation |-> {"REGIME_NOT_TREND"}]

-----------------------------------------------------------------------------
(* What was observed.                                                         *)

Total(S, Value(_)) == MapThenSumSet(Value, S)

Rate(part, whole) == HalfUp(10000 * part, whole)      \* hundredths of a per cent
Expectancy(pnl, count) == HalfUp(pnl, count)
Shift(current, delta) == current + delta

Blockers(events) == [b \in DOMAIN BlockerCodes |->
    Total(events, LAMBDA e : Cardinality(
        {i \in DOMAIN e.codes : e.codes[i] \in BlockerCodes[b]}))]
AllBlockers(count) == Total(DOMAIN count, LAMBDA b : count[b])
BlockerShare(count) ==
    IF AllBlockers(count) = 0 THEN [b \in {} |-> 0]
    ELSE [b \in {k \in DOMAIN count : count[k] > 0} |->
             Rate(count[b], AllBlockers(count))]

Executed(trades) == {t \in trades : t.status = "executed"}
Closed(trades) == {t \in trades : t.side = "SELL"}
Pnl(closed) == SumFunction([t \in closed |-> t.pnl])
FeesPaid(fills) == Total(fills, LAMBDA f : f.fee)
Won(closed) == {t \in closed : t.pnl > 0}

\* In hundredths, with a second at least between the first trade and the last.
TradesPerHour(trades) ==
    LET times == {t.time : t \in trades}
    IN HalfUp(100 * 3600 * Cardinality(trades), Max({Max(times) - Min(times), 1}))

DrawdownWarning(drawdown) == drawdown.current >= 500 \/ drawdown.worst >= 800

-----------------------------------------------------------------------------
(* The recommendation for a profile.                                          *)

\* The thresholds that change, with their suggested values.
Change(p, thresholds, by) == [t \in thresholds |-> Shift(Defaults(p)[t], by[t])]

TooStrictChanges(p, count) ==
    Change(p, {"min_atr_ratio", "min_expected_edge_buffer_pct"} \cup
              {t \in {"min_order_book_imbalance"} :
                  count.no_trend_confirmation > count.low_volatility},
           [min_atr_ratio |-> -1, min_expected_edge_buffer_pct |-> -2,
            min_order_book_imbalance |-> -500])

TooLooseChanges(p, count) ==
    LET changes == Change(p, {"min_expected_edge_buffer_pct", "min_atr_ratio",
                              "max_spread_ratio"} \cup
                  {t \in {"take_profit_atr_multiple"} : count.edge_below_fees > 0},
               [min_expected_edge_buffer_pct |-> 3, min_atr_ratio |-> 1,
                max_spread_ratio |-> -5, take_profit_atr_multiple |-> 4000])
    IN [changes EXCEPT !.max_spread_ratio = Max({5, @})]

FeeDragChanges(p) ==
    Change(p, {"min_expected_edge_buffer_pct", "take_profit_atr_multiple"},
           [min_expected_edge_buffer_pct |-> 4, take_profit_atr_multiple |-> 4000])

Advice(p, count, health) ==
    [health |-> health,
     changes |-> CASE health = "too_strict" -> TooStrictChanges(p, count)
                   [] health = "fee_drag" -> FeeDragChanges(p)
                   [] health = "too_loose" -> TooLooseChanges(p, count)
                   [] OTHER -> <<>>]

Own(p, S) == {x \in S : x.profile = p}

\* Nothing closed has no expectancy.
Health(p, seen, count) ==
    LET trades == Executed(Own(p, seen.trades))
        closed == Closed(trades)
        n == Cardinality(closed)
        all == AllBlockers(count)
        share == BlockerShare(count)
        losing == n > 0 /\ Expectancy(Pnl(closed), n) <= 0
        fees == FeesPaid(Own(p, seen.fills))
        strict == /\ n < 2
                  /\ \E b \in DOMAIN share : share[b] >= 5000
                  /\ count.low_volatility + count.insufficient_candles
                       + count.no_trend_confirmation >= Max({2, all \div 2})
        drag == /\ losing
                /\ \/ count.edge_below_fees >= 2
                   \/ fees > 0 /\ Abs(Pnl(closed)) <= fees
        loose == /\ n >= 2 /\ losing
                 /\ \/ TradesPerHour(trades) >= 100
                    \/ count.edge_below_fees >= 1
                    \/ DrawdownWarning(seen.drawdown)
    IN CASE n < 2 /\ all < 4 -> "insufficient_data"
         [] strict -> "too_strict"
         [] drag -> "fee_drag"
         [] loose -> "too_loose"
         [] OTHER -> "healthy"

\* build_profile_calibration_report, for one profile.
Observed(p, seen, count) == Advice(p, count, Health(p, seen, count))
Recommend(p, seen) == Observed(p, seen, Blockers(Own(p, seen.events)))

-----------------------------------------------------------------------------
(* The comparison of the sessions before and after a tuning.                  *)

ProfitFactor(closed) ==
    LET lost == Pnl(closed \ Won(closed))
    IN IF lost = 0 THEN "none" ELSE HalfUp(10000 * Pnl(Won(closed)), -lost)

\* The closed trades in order, their running total and its highest point so far.
Upto(closed, t) == {u \in closed : u.time < t.time \/ (u.time = t.time /\ u.id <= t.id)}
Running(closed, t) == Pnl(Upto(closed, t))
Peak(closed, t, first) == Max({first} \cup {Running(closed, u) : u \in Upto(closed, t)})
Worst(closed, first) ==
    Max({0} \cup {Peak(closed, t, first) - Running(closed, t) : t \in closed})
\* Mutant: the loss before the first winning trade is not a drawdown.
DrawdownOfPeaks(closed) == Worst(closed, -1000000)
RealizedDrawdown(closed) == Worst(closed, 0)

Metrics(sessions, seen) ==
    LET of(S) == {x \in S : x.session \in sessions}
        closed == Closed(Executed(of(seen.trades)))
        n == Cardinality(closed)
    IN [sessions |-> sessions, trades |-> n,
        expectancy |-> IF n = 0 THEN "none" ELSE Expectancy(Pnl(closed), n),
        factor |-> ProfitFactor(closed),
        won |-> IF n = 0 THEN "none" ELSE Rate(Cardinality(Won(closed)), n),
        drawdown |-> IF n = 0 THEN "none" ELSE RealizedDrawdown(closed),
        fees |-> FeesPaid(of(seen.fills)),
        blockers |-> BlockerShare(Blockers(of(seen.events)))]

\* A preview lists the thresholds that differ from the defaults of the profile.
Preview(p, config) ==
    [t \in {k \in DOMAIN config : config[k] # Defaults(p)[k]} |-> config[t]]
=============================================================================
