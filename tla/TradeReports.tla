---------------------------- MODULE TradeReports ----------------------------
(* The reports on paper trades: app/monitoring/metrics.py, trade_quality.py   *)
(* and outcome_review.py over the rows the dashboard's endpoints read for     *)
(* them. Each replays purchases and sales in its own way, and each endpoint   *)
(* chooses which rows of the history it replays.                              *)
(*                                                                            *)
(* A trade is [id, time, symbol, side, status, quantity, price, pnl, profile, *)
(* source], an equity snapshot [id, time, equity, total, realized], an event  *)
(* [id, time, symbol, type, codes], a candle [time, symbol, price]. The rows  *)
(* of a table are read in the order of their ids. Money is in units of        *)
(* 0.0001, percentages in hundredths, time in seconds. An average that the    *)
(* code does not round is the pair of the total and the count.                *)
EXTENDS Calibration

CONSTANTS DayLength, \* a UTC day, above zero
          All        \* no symbol is asked for

Average(total, count) == IF count = 0 THEN "none" ELSE HalfUp(total, count)
Optional(total, count) == IF count = 0 THEN "none" ELSE <<total, count>>
Mean(F) == Average(SumFunction(F), Cardinality(DOMAIN F))

Latest(rows) == CHOOSE r \in rows : \A x \in rows : x.id <= r.id
Earlier(rows, r) == {x \in rows : x.id < r.id}
Through(rows, r) == {x \in rows : x.id <= r.id}

-----------------------------------------------------------------------------
(* What the endpoints read. A query is [symbol, from, to], days inclusive;    *)
(* one without dates starts on day 0 and ends after the last.                 *)

InRange(row, query) == row.time \div DayLength \in query.from .. query.to
History(rows, query) == {r \in rows : InRange(r, query) /\ query.symbol \in {All, r.symbol}}
WithPast(query) == [query EXCEPT !.from = 0]

PerformanceTrades(db, query) == History(db.trades, WithPast(query))
\* Mutant: only the trades of the range, whose sales may have been bought before.
QualityTradesOfRange(db, query) == History(db.trades, query)
QualityTrades(db, query) == History(db.trades, WithPast(query))
ReviewTrades(db, query) == History(db.trades, query)
QualityCandles(db, query) == History(db.candles, WithPast(query))
EquityHistory(db, query) == {s \in db.equity : InRange(s, query)}
\* Without a snapshot everything is 0.
LatestEquity(equity) ==
    IF equity = {} THEN [realized |-> 0, total |-> 0, equity |-> 0] ELSE Latest(equity)

Bought(t) == t.status = "executed" /\ t.side = "BUY"
Sold(t) == t.status = "executed" /\ t.side = "SELL"
Sales(trades) == {t \in trades : Sold(t)}

-----------------------------------------------------------------------------
(* Sales matched with the lots they close, the oldest first. The lot of a     *)
(* trade is what it buys.                                                     *)

Lot(t) == IF Bought(t) THEN t.quantity ELSE 0
Wanted(t) == IF Sold(t) THEN t.quantity ELSE 0

\* How much of each lot a sale of quantity takes, of what is left of them.
Taken(left, quantity) == [lot \in DOMAIN left |->
    Clamp(quantity - SumFunction([l \in Earlier(DOMAIN left, lot) |-> left[l]]), 0, left[lot])]
Replayed(left, t) ==
    LET taken == Taken(left, Wanted(t))
    IN [lot \in DOMAIN left \cup {t} |-> IF lot = t THEN Lot(t) ELSE left[lot] - taken[lot]]
LeftOf(trades) ==
    LET left[s \in SUBSET trades] ==
            IF s = {} THEN [lot \in {} |-> 0]
            ELSE Replayed(left[s \ {Latest(s)}], Latest(s))
    IN left[trades]

Matched(t, left) ==
    LET taken == Taken(left, t.quantity)
    IN [trade |-> t, quantity |-> SumFunction(taken),
        held |-> SumFunction([lot \in DOMAIN left |-> (t.time - lot.time) * taken[lot]]),
        cost |-> SumFunction([lot \in DOMAIN left |-> lot.price * taken[lot]]),
        since |-> Min({t.time} \cup {lot.time : lot \in {l \in DOMAIN left : taken[l] > 0}})]
MatchedSales(trades) == [t \in Sales(trades) |-> Matched(t, LeftOf(Earlier(trades, t)))]

-----------------------------------------------------------------------------
(* GET /performance and GET /metrics.                                         *)

\* The highest equity so far starts at nothing, not at the opening balance.
EquityPeak(equity, s) == Max({0} \cup {x.equity : x \in Through(equity, s)})
Fall(equity, s) == EquityPeak(equity, s) - s.equity
Drawdown(equity) ==
    [current |-> IF equity = {} THEN 0 ELSE Fall(equity, Latest(equity)),
     worst |-> Max({0} \cup {Fall(equity, s) : s \in equity})]

PerformanceOf(sales, latest, drawdown) ==
    LET closed == DOMAIN sales
        won == Won(closed)   lost == {t \in closed : t.pnl < 0}
        held == SumFunction([t \in closed |-> sales[t].held])
        quantity == SumFunction([t \in closed |-> sales[t].quantity])
    IN [closed |-> Cardinality(closed), pnl |-> Pnl(closed), held |-> held,
        quantity |-> quantity,
        expectancy |-> Optional(Pnl(closed), Cardinality(closed)),
        factor |-> Average(10000 * Pnl(won), -Pnl(lost)),
        hold |-> Average(held, quantity),
        win |-> Optional(Pnl(won), Cardinality(won)),
        lose |-> Optional(Pnl(lost), Cardinality(lost)),
        realized |-> latest.realized, unrealized |-> latest.total - latest.realized,
        drawdown |-> drawdown]
Performance(db, query) ==
    LET sales == MatchedSales(PerformanceTrades(db, query))
        equity == EquityHistory(db, query)
    IN PerformanceOf([t \in {x \in DOMAIN sales : InRange(x, query)} |-> sales[t]],
                     LatestEquity(equity), Drawdown(equity))

\* The longest run of closed trades that are all of a kind.
LongestRun(closed, kind) ==
    LET run(x, y) == {t \in closed : t.id \in x.id .. y.id}
    IN Max({0} \cup {Cardinality(run(p[1], p[2])) :
                        p \in {q \in closed \X closed : run(q[1], q[2]) \subseteq kind}})

\* Of the whole history; the average shares out what the latest snapshot has realized.
OverallMetrics(db) ==
    LET latest == LatestEquity(db.equity)
        closed == Sales(db.trades)   n == Cardinality(closed)
    IN [trades |-> Cardinality(Executed(db.trades)),
        winRate |-> IF n = 0 THEN <<0, 1>> ELSE <<100 * Cardinality(Won(closed)), n>>,
        realized |-> latest.realized, equity |-> latest.equity,
        perTrade |-> IF n = 0 THEN <<0, 1>> ELSE <<latest.realized, n>>,
        winning |-> LongestRun(closed, Won(closed)),
        losing |-> LongestRun(closed, {t \in closed : t.pnl < 0})]

\* The last snapshot of every day.
DailyPnl(equity) ==
    [day \in {s.time \div DayLength : s \in equity} |->
        LET s == Latest({x \in equity : x.time \div DayLength = day})
        IN [total |-> s.total, realized |-> s.realized]]

-----------------------------------------------------------------------------
(* GET /performance/trade-quality.                                            *)

Share(part, whole) == Clamp(HalfUp(10000 * part, whole), 0, 10000)
Change100(move, base) == IF base <= 0 THEN 0 ELSE HalfUp(10000 * move, base)

\* The closes seen while the position was held, the entry and the exit. Prices are
\* multiplied by the quantity, as the entry is an average over the lots.
SeenPrices(sale, candles) ==
    {sale.quantity * c.price : c \in {x \in candles : x.time \in sale.since .. sale.trade.time}}
    \cup {sale.cost, sale.quantity * sale.trade.price}

Score(part, span) == IF span > 0 THEN Share(part, span) ELSE 5000
Detail(sale, candles) ==
    LET prices == SeenPrices(sale, candles)
        top == Max(prices)   bottom == Min(prices)
        entry == sale.cost   exit == sale.quantity * sale.trade.price
        favorable == top - entry
    IN [trade |-> sale.trade, since |-> sale.since, quantity |-> sale.quantity,
        entry |-> <<entry, sale.quantity>>, hold |-> HalfUp(sale.held, sale.quantity),
        mfe |-> Change100(favorable, entry), mae |-> Change100(entry - bottom, entry),
        captured |-> IF favorable > 0 THEN Share(Max({exit - entry, 0}), favorable) ELSE 0,
        giveback |-> IF favorable > 0 THEN Share(top - exit, favorable) ELSE 0,
        entryScore |-> Score(top - entry, top - bottom),
        exitScore |-> Score(exit - bottom, top - bottom)]

\* The holding time at a place in ascending order; 75 per cent by nearest rank.
Ranked(holds, place) == Min({holds[t] : t \in {x \in DOMAIN holds :
    Cardinality({y \in DOMAIN holds : holds[y] <= holds[x]}) >= place}})
HoldTimes(holds) ==
    LET n == Cardinality(DOMAIN holds)   middle == n \div 2
    IN IF n = 0 THEN "none"
       ELSE [average |-> Mean(holds),
             median |-> IF n % 2 = 1 THEN Ranked(holds, middle + 1)
                        ELSE HalfUp(Ranked(holds, middle) + Ranked(holds, middle + 1), 2),
             p75 |-> Ranked(holds, Clamp(HalfUp(75 * n, 100), 1, n)),
             longest |-> Ranked(holds, n)]

LongestIdle(trades, query) ==
    LET executed == {t \in Executed(trades) : InRange(t, query)}
        later == {t \in executed : Earlier(executed, t) # {}}
    IN IF later = {} THEN "none"
       ELSE Max({t.time - Latest(Earlier(executed, t)).time : t \in later})

Describe(details, idle) ==
    [details |-> details, closed |-> Cardinality(DOMAIN details),
     mfe |-> Mean([t \in DOMAIN details |-> details[t].mfe]),
     mae |-> Mean([t \in DOMAIN details |-> details[t].mae]),
     captured |-> Mean([t \in DOMAIN details |-> details[t].captured]),
     giveback |-> Mean([t \in DOMAIN details |-> details[t].giveback]),
     entryScore |-> Mean([t \in DOMAIN details |-> details[t].entryScore]),
     exitScore |-> Mean([t \in DOMAIN details |-> details[t].exitScore]),
     idle |-> idle, hold |-> HoldTimes([t \in DOMAIN details |-> details[t].hold])]

\* A sale nothing was bought for is not described.
Details(sales, candles, query) ==
    [t \in {x \in DOMAIN sales : sales[x].quantity > 0 /\ InRange(x, query)} |->
        Detail(sales[t], candles)]
Quality(db, query) ==
    Describe(Details(MatchedSales(QualityTrades(db, query)), QualityCandles(db, query), query),
             LongestIdle(QualityTrades(db, query), query))

-----------------------------------------------------------------------------
(* GET /performance/review.                                                   *)

Times(rows) == {r.time : r \in rows}
Cadence(executed, events) ==
    LET times == Times(executed) \cup Times(events)
        n == Cardinality(executed)
    IN IF n = 0 THEN "none"
       ELSE IF n + Cardinality(events) < 2 THEN 100 * n
       ELSE HalfUp(100 * 3600 * n, Max({Max(times) - Min(times), 1}))
IdleTime(executed, events) ==
    IF executed = {} \/ events = {} THEN "none"
    ELSE Max({Max(Times(events)) - Max(Times(executed)), 0})

Compare(closed) ==
    [trades |-> Cardinality(closed), pnl |-> Pnl(closed),
     expectancy |-> Average(Pnl(closed), Cardinality(closed)),
     winRate |-> Average(10000 * Cardinality(Won(closed)), Cardinality(closed))]
ByProfile(closed) == [p \in Profiles |-> Compare({t \in closed : t.profile = p})]
BySource(closed) == [s \in {"auto", "manual"} |-> Compare({t \in closed : t.source = s})]

BlockingEvents(events) == {e \in events :
    e.type \in {"trade_blocked", "manual_trade_request", "risk_decision", "signal_generated"}}
\* The most frequent blocker, the first by name of those as frequent.
BlockerNames == <<"edge_below_fees", "insufficient_candles", "low_volatility",
                  "no_trend_confirmation", "spread_too_wide", "weak_signal">>
TopBlocker(count) ==
    LET most == Max({count[b] : b \in DOMAIN count})
    IN IF most = 0 THEN "none"
       ELSE SelectSeq(BlockerNames, LAMBDA b : count[b] = most)[1]

Losing(group) == group.trades > 0 /\ group.expectancy < 0
Suggestions(top, cadence, profiles) ==
    LET said == SelectSeq(<<"edge_below_fees", "low_volatility", "spread_too_wide">>,
                          LAMBDA b : b = top)
            \o (IF /\ profiles["balanced"].trades >= 3 /\ Losing(profiles["balanced"])
                   /\ cadence >= 100
                THEN <<"overtrading">> ELSE <<>>)
            \o (IF Losing(profiles["aggressive"]) THEN <<"negative_expectancy">> ELSE <<>>)
    IN IF said = <<>> THEN <<"keep_collecting">> ELSE said   \* three at most

ReviewOf(executed, closed, events, fills, sales) ==
    LET cadence == Cadence(executed, events)
        blockers == Blockers(BlockingEvents(events))
    IN [closed |-> Cardinality(closed), total |-> Compare(closed), cadence |-> cadence,
        idle |-> IdleTime(executed, events),
        hold |-> Average(SumFunction([t \in closed |-> sales[t].held]),
                         SumFunction([t \in closed |-> sales[t].quantity])),
        symbols |-> [s \in {t.symbol : t \in executed} |->
                        Cardinality({t \in executed : t.symbol = s})],
        fees |-> SumFunction([f \in fills |-> f.fee]),
        blockers |-> BlockerShare(blockers),
        profiles |-> ByProfile(closed), sources |-> BySource(closed),
        suggestions |-> Suggestions(TopBlocker(blockers), cadence, ByProfile(closed))]
ReviewOfTrades(trades, events, fills) ==
    ReviewOf(Executed(trades), Sales(trades), events, fills, MatchedSales(trades))
Review(db, query) ==
    ReviewOfTrades(ReviewTrades(db, query), History(db.events, query),
                   History(db.fills, query))
=============================================================================
