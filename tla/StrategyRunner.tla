--------------------------- MODULE StrategyRunner ---------------------------
(***************************************************************************)
(* app/runner/strategy_runner.py: one trading cycle takes a market         *)
(* snapshot through features, strategy, risk, execution engine and paper   *)
(* broker; a manual trade takes the operator's side through the same risk  *)
(* engine and broker.  The feature values are an input (the indicators are *)
(* arithmetic over the candle history); what is decided with them is not.  *)
(***************************************************************************)
EXTENDS PaperBroker

CONSTANTS
    Features,           \* feature snapshots that may be observed
    OrderQuantity,      \* order_quantity, a multiple of QuantityStep
    StopMult, TakeMult, MinAtrNum, MaxAtrNum, EdgeNum, LossNum, RiskNum,
    MinStopNum, QuantityStep, MaxOpenPositions

INSTANCE TradingRules

(* What the feature engine can hand out: prices are positive.              *)
FeatureSnapshot ==
    [price : Nat \ {0}, book : BOOLEAN, fast : Nat, slow : Nat,
     atr : Nat \cup {NoAtr}, healthy : BOOLEAN]

ASSUME RunnerAssumption ==
    /\ Features \subseteq FeatureSnapshot
    /\ {OrderQuantity, StopMult, TakeMult, EdgeNum, LossNum, RiskNum,
        MinStopNum, MaxOpenPositions} \subseteq Nat
    /\ QuantityStep \in Nat \ {0}

NoEquity == -1

VARIABLES
    lastPrice,          \* _last_price_by_symbol, 0 when there is none
    dayStart,           \* _day_start_equity, NoEquity for None
    cycle               \* the last RunnerCycleResult or ManualTradeResult

runnerVars == <<lastPrice, dayStart, cycle>>
vars == <<brokerVars, runnerVars>>

NoCycle == [source |-> "none", symbol |-> "none", side |-> "HOLD", distance |-> 0]

Init ==
    /\ BrokerInit
    /\ lastPrice = [s \in Symbols |-> 0]
    /\ dayStart = NoEquity
    /\ cycle = NoCycle

OpenSymbols == {s \in Symbols : positions[s].qty > 0}

(* _current_equity: a position without a price counts at its entry price.  *)
EquityAt(price) ==
    cash + SumFunction([s \in Symbols |-> IF price[s] = 0 THEN Basis(positions[s])
                                          ELSE positions[s].qty * price[s]])

(* _record_snapshot: the newest price of the symbol.                       *)
Recorded(s, f) == [lastPrice EXCEPT ![s] = f.price]

(* The equity every later loss is measured from, fixed at its first use.   *)
DayStartEquity(price) ==
    IF dayStart = NoEquity THEN EquityAt(price) ELSE dayStart

(* _build_risk_input: without a mid price the fast EMA stands in for it.   *)
RiskInput(s, side, f, price) ==
    [side      |-> side,
     entry     |-> IF f.book THEN f.price ELSE f.fast,
     requested |-> IF side = "SELL" THEN positions[s].qty ELSE OrderQuantity,
     equity    |-> EquityAt(price),
     dayStart  |-> DayStartEquity(price),
     open      |-> Cardinality(OpenSymbols),
     held      |-> positions[s].qty,
     atr       |-> f.atr]

(* ExecutionEngine.execute: only approved or resized orders, at the        *)
(* approved quantity, reach the broker.                                    *)
Execute(s, side, price, verdict) ==
    IF verdict.decision = "reject" \/ verdict.qty <= 0
    THEN UNCHANGED brokerVars
    ELSE ExecuteOrder([symbol |-> s, side |-> side, qty |-> verdict.qty,
                       price |-> price, mode |-> "paper"])

Trade(source, s, side, f, price, orderPrice) ==
    LET in == RiskInput(s, side, f, price) IN
    /\ Execute(s, side, orderPrice, RiskVerdict(in))
    /\ dayStart' = DayStartEquity(price)
    /\ cycle' = [source |-> source, symbol |-> s, side |-> side,
                 distance |-> RiskDistance(in)]

(* process_snapshot: record, decide, trade.  A HOLD cycle still reads the  *)
(* PnL and so fixes the day-start equity.                                  *)
ProcessSnapshot(s, f) ==
    LET signal == StrategySignal(f, positions[s])
        price  == Recorded(s, f)
    IN
    /\ lastPrice' = price
    /\ IF signal.side = "HOLD"
       THEN /\ dayStart' = DayStartEquity(price)
            /\ cycle' = [source |-> "auto", symbol |-> s, side |-> "HOLD",
                         distance |-> 0]
            /\ UNCHANGED brokerVars
       ELSE Trade("auto", s, signal.side, f, price,
                  IF f.book THEN f.price ELSE f.fast)

(* ingest_snapshot: market data without a cycle (paused, open candle).     *)
IngestSnapshot(s, f) ==
    /\ lastPrice' = Recorded(s, f)
    /\ UNCHANGED <<brokerVars, dayStart, cycle>>

(* execute_manual_trade, once the history is warm and a snapshot is known; *)
(* f describes the market the runner last recorded.                        *)
ManualTrade(s, side, f) ==
    /\ f.slow # NoEma /\ f.price = lastPrice[s]
    /\ Trade("manual", s, side, f, lastPrice, f.price)
    /\ UNCHANGED lastPrice

Next ==
    /\ orderCounter < MaxOrders
    /\ \E s \in Symbols, f \in Features :
          \/ ProcessSnapshot(s, f)
          \/ IngestSnapshot(s, f)
          \/ \E side \in {"BUY", "SELL"} : ManualTrade(s, side, f)

Spec == Init /\ [][Next]_vars
-----------------------------------------------------------------------------
TypeOK ==
    /\ BrokerTypeOK
    /\ lastPrice \in [Symbols -> Nat]
    /\ dayStart \in Nat \cup {NoEquity}
    /\ cycle.side \in {"BUY", "SELL", "HOLD"} /\ cycle.distance \in Nat

Bought(s) == positions'[s].qty > positions[s].qty

(* However sessions, symbols and manual orders interleave, no more than    *)
(* max_open_positions symbols are held at once.                            *)
OpenPositionLimit == Cardinality(OpenSymbols) <= MaxOpenPositions

(* An exit the strategy asks for is never held up: not by the loss limit,  *)
(* the position limit, sizing or the broker.  The cycle that signals SELL  *)
(* ends with the symbol flat.                                              *)
ExitsAlwaysGoThrough ==
    [][\A s \in Symbols :
          cycle' # cycle /\ cycle'.source = "auto" /\ cycle'.symbol = s
             /\ cycle'.side = "SELL" => positions'[s].qty = 0]_vars

(* With a known book and ATR, a cycle that sees the price at or below the  *)
(* stop of the position leaves no position behind.                         *)
StopLossHonoured ==
    [][\A s \in Symbols, f \in Features :
          ProcessSnapshot(s, f) /\ positions[s].qty > 0 /\ f.book
             /\ f.atr # NoAtr /\ StopHit(f, positions[s])
          => positions'[s].qty = 0]_vars

(* No order, manual ones included, opens or adds to a position when the    *)
(* account, marked at the prices just recorded, has lost max_daily_loss of *)
(* the day-start equity.                                                   *)
NoEntryAfterLossLimit ==
    [][(\E s \in Symbols : Bought(s)) =>
          (dayStart' - EquityAt(lastPrice')) * RateDen < LossNum * dayStart']_vars

(* What a bought quantity loses when its stop is hit stays within          *)
(* risk_per_trade of the equity it was sized with.                         *)
RiskPerTradeBounded ==
    [][\A s \in Symbols : Bought(s) =>
          (positions'[s].qty - positions[s].qty) * cycle'.distance * RateDen
             <= EquityAt(lastPrice') * RiskNum]_vars

(* The strategy never adds to a position it holds; only the operator does. *)
AutoNeverPyramids ==
    [][\A s \in Symbols : Bought(s) /\ cycle'.source = "auto"
          => positions[s].qty = 0]_vars
=============================================================================
