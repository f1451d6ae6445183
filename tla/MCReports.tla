----------------------------- MODULE MCReports -----------------------------
(* The reports over a family of histories the paper broker can leave behind:  *)
(* purchases and sales of two symbols over three days, never of more than is  *)
(* held, with the profit the broker books at its average cost.                *)
EXTENDS TradeReports

CONSTANTS alpha, beta

Slots == <<3, 8, 14, 26>>
Ids == <<1, 3, 4, 6>>         \* among the rows of both symbols
Orders == {<<"BUY", 1>>, <<"BUY", 2>>, <<"SELL", 1>>, <<"SELL", 2>>, <<"HOLD", 1>>}
PriceShapes == {"dipping", "swinging"}
PriceAt(shape, t) ==
    CASE shape = "dipping" -> IF t < 10 THEN 1000 - 4 * t ELSE 900 + 3 * t
      [] shape = "swinging" -> IF t % 2 = 0 THEN 1040 - t ELSE 980 + t

Trade(id, time, symbol, order, price, pnl) ==
    [id |-> id, time |-> time, symbol |-> symbol, side |-> order[1], quantity |-> order[2],
     price |-> price, pnl |-> pnl,
     status |-> IF order[1] = "HOLD" THEN "not_executed" ELSE "executed",
     profile |-> IF time < 10 THEN "balanced" ELSE "aggressive",
     source |-> IF time % 2 = 0 THEN "manual" ELSE "auto"]

\* What is held after an order, and at what cost.
Held(held, order) ==
    CASE order[1] = "BUY" -> held + order[2] [] order[1] = "SELL" -> held - order[2]
      [] OTHER -> held
CostSold(held, basis, order) == IF held > 0 THEN HalfUp(basis * order[2], held) ELSE 0
Basis(held, basis, order, price) ==
    CASE order[1] = "BUY" -> basis + order[2] * price
      [] order[1] = "SELL" -> basis - CostSold(held, basis, order)
      [] OTHER -> basis
Booked(held, basis, order, price) ==
    IF order[1] = "SELL" THEN order[2] * price - CostSold(held, basis, order) ELSE 0

\* A plan's trades of alpha; beta is bought on the first day and sold on the second.
AlphaRows(plan, shape) ==
    LET price == [i \in 1 .. 4 |-> PriceAt(shape, Slots[i])]
        held2 == Held(0, plan[1])
        held3 == Held(held2, plan[2])
        held4 == Held(held3, plan[3])
        basis2 == Basis(0, 0, plan[1], price[1])
        basis3 == Basis(held2, basis2, plan[2], price[2])
        basis4 == Basis(held3, basis3, plan[3], price[3])
        pnl == <<Booked(0, 0, plan[1], price[1]), Booked(held2, basis2, plan[2], price[2]),
                 Booked(held3, basis3, plan[3], price[3]),
                 Booked(held4, basis4, plan[4], price[4])>>
    IN {Trade(Ids[i], Slots[i], alpha, plan[i], price[i], pnl[i]) : i \in 1 .. 4}
BetaRows == {Trade(2, 5, beta, <<"BUY", 1>>, 500, 0), Trade(5, 15, beta, <<"SELL", 1>>, 520, 20)}

\* Everything sold has been bought before.
Net(t) == Lot(t) - Wanted(t)
Covered(trades) ==
    \A t \in trades : SumFunction([u \in Through(trades, t) |-> Net(u)]) >= 0
Plans == {plan \in [1 .. 4 -> Orders] :
              \A shape \in PriceShapes : Covered(AlphaRows(plan, shape))}

HistoryOf(trades, shape) ==
    [trades |-> trades,
     fills |-> {[id |-> t.id, time |-> t.time, symbol |-> t.symbol, fee |-> 1] : t \in trades},
     events |-> {[id |-> i, time |-> 10 * i - 4, symbol |-> alpha, type |-> "trade_blocked",
                  codes |-> <<"EDGE_BELOW_COSTS", "VOL_TOO_LOW">>] : i \in 1 .. 3},
     candles |-> {[time |-> i, symbol |-> alpha, price |-> PriceAt(shape, i)] : i \in 1 .. 28},
     equity |-> {[id |-> t.id, time |-> t.time, realized |-> Pnl(Through(trades, t)),
                  total |-> Pnl(Through(trades, t)) + 3 * (t.id % 2),
                  equity |-> 5000 + Pnl(Through(trades, t)) + 3 * (t.id % 2)] : t \in trades}]
TradeHistory(q) == HistoryOf(AlphaRows(q.plan, q.shape) \cup BetaRows, q.shape)

TradeQuestions == [plan : Plans, shape : PriceShapes]
LastDay == 2
Query(symbol, from, to) == [symbol |-> symbol, from |-> from, to |-> to]

-----------------------------------------------------------------------------
(* What the reports on a history have to agree on.                            *)

\* The groups of a review add up to what the performance page says.
GroupsAddUp(groups, performance) ==
    /\ SumFunction([g \in DOMAIN groups |-> groups[g].trades]) = performance.closed
    /\ SumFunction([g \in DOMAIN groups |-> groups[g].pnl]) = performance.pnl

\* A share in hundredths of a per cent, and two rounded ones of a whole.
Shares == 0 .. 10000
Wholes == 9999 .. 10001

\* A sale is described with its whole quantity; the shares of a move that was kept and
\* given back are the whole move; an exit without giveback is as good as the prices were.
DetailAddsUp(d) ==
    /\ d.quantity = d.trade.quantity
    /\ {d.captured, d.giveback, d.entryScore, d.exitScore} \subseteq Shares
    /\ d.mfe > 0 /\ d.trade.price * d.quantity >= d.entry[1]
         => d.captured + d.giveback \in Wholes
    /\ d.mfe > 0 /\ d.giveback = 0 => d.exitScore \in {5000, 10000}

\* A position opened before the range and closed in it is a closed trade of every report.
SameSales(performance, quality, review) ==
    /\ quality.closed = performance.closed /\ review.closed = performance.closed
    /\ GroupsAddUp(review.profiles, performance) /\ GroupsAddUp(review.sources, performance)
    /\ \A t \in DOMAIN quality.details : DetailAddsUp(quality.details[t])
SameTrades(db, query) ==
    SameSales(Performance(db, query), Quality(db, query), Review(db, query))

\* The reports of two adjoining ranges add up to the one of both, and a shorter range
\* shows no deeper drawdown.
AddUp(before, after, whole) ==
    /\ before.closed + after.closed = whole.closed
    /\ before.pnl + after.pnl = whole.pnl
    /\ before.held + after.held = whole.held
    /\ before.quantity + after.quantity = whole.quantity
    /\ after.drawdown.worst <= whole.drawdown.worst
    /\ before.drawdown.worst <= whole.drawdown.worst
RangesAddUp(db, symbol, last) ==
    \A day \in 1 .. last :
        AddUp(Performance(db, Query(symbol, 0, day - 1)),
              Performance(db, Query(symbol, day, last)),
              Performance(db, Query(symbol, 0, last)))

\* Every sale is a closed trade of its own symbol and of no other.
Traded(db) == {t.symbol : t \in db.trades}
SymbolsAddUp(db, last) ==
    /\ SumFunction([s \in Traded(db) |-> Performance(db, Query(s, 0, last)).closed])
         = Performance(db, Query(All, 0, last)).closed
    /\ Performance(db, Query(All, 0, last)).closed
         = Cardinality({t \in Sales(db.trades) : t.time \div DayLength <= last})

HistoryAgrees(db, last) ==
    /\ \A symbol \in Traded(db) \cup {All} :
         /\ RangesAddUp(db, symbol, last)
         /\ \A from, to \in 0 .. last : from <= to => SameTrades(db, Query(symbol, from, to))
    /\ SymbolsAddUp(db, last)
TradeReportsAgree(q) == HistoryAgrees(TradeHistory(q), LastDay)
=============================================================================
