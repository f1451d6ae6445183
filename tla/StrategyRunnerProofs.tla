------------------------ MODULE StrategyRunnerProofs ------------------------
(***************************************************************************)
(* The trading cycle for every set of symbols, market and limit: entries   *)
(* obey the position limit, the loss limit and the risk per trade, the     *)
(* strategy never adds to a position, and an exit always goes through.     *)
(***************************************************************************)
EXTENDS StrategyRunner, PaperBrokerProofs

-----------------------------------------------------------------------------
(* The numbers the risk engine works with.                                 *)
RiskInputs ==
    [side : {"BUY", "SELL"}, entry : Nat, requested : Nat, equity : Nat,
     dayStart : Nat, open : Nat, held : Nat, atr : Nat \cup {NoAtr}]

(* Rounding down to a multiple never exceeds what is rounded.              *)
LEMMA DivBelow ==
    ASSUME NEW x \in Nat, NEW d \in Nat \ {0}
    PROVE  x \div d \in Nat /\ (x \div d) * d <= x
<1> DEFINE q == x \div d
<1>1. x <= x * d
  <2>1. x * 1 <= x * d
    BY MulMono
  <2> QED BY <2>1
<1>2. q \in Nat
  BY <1>1, DivBounds
<1>3. x = d * q + (x % d) /\ x % d \in 0..(d - 1)
  BY SMT
<1>4. q * d = d * q /\ q * d \in Int
  BY <1>2, SMT
<1> HIDE DEF q
<1>5. q * d <= x
  BY <1>3, <1>4
<1> QED BY <1>2, <1>5 DEF q

(* The distance to the stop is a number, and zero stands for unknown.      *)
LEMMA DistanceType ==
    ASSUME NEW in \in RiskInputs
    PROVE  RiskDistance(in) \in Nat
<1>1. in.atr \in Nat \cup {NoAtr} /\ StopMult \in Nat
  BY RunnerAssumption DEF RiskInputs
<1>2. CASE in.atr \in Nat
  BY <1>1, <1>2, MulNat DEF RiskDistance
<1>3. CASE in.atr = NoAtr
  BY <1>3 DEF RiskDistance, NoAtr
<1> QED BY <1>1, <1>2, <1>3

(* size_for_risk allows what loses at most risk_per_trade of the equity at *)
(* the stop: both divisions and the quantity step only round down.         *)
LEMMA AllowedBounds ==
    ASSUME NEW in \in RiskInputs, RiskDistance(in) # 0
    PROVE  /\ AllowedQuantity(in) \in Nat
           /\ AllowedQuantity(in) * (RateDen * RiskDistance(in)) <= in.equity * RiskNum
<1> DEFINE d == RateDen * RiskDistance(in)
           x == in.equity * RiskNum
           a == x \div d
           b == (a \div QuantityStep) * QuantityStep
<1>1. x \in Nat /\ d \in Nat \ {0}
  <2>1. in.equity \in Nat /\ RiskNum \in Nat /\ RateDen \in Nat \ {0}
    BY RunnerAssumption, BrokerAssumption DEF RiskInputs
  <2>2. RiskDistance(in) \in Nat \ {0}
    BY DistanceType
  <2> QED BY <2>1, <2>2, SMT
<1>2. AllowedQuantity(in) = b
  BY DEF AllowedQuantity
<1> HIDE DEF d, x
<1>3. a \in Nat /\ a * d <= x
  BY <1>1, DivBelow
<1> HIDE DEF a
<1>4. QuantityStep \in Nat \ {0}
  BY RunnerAssumption
<1>5. (a \div QuantityStep) \in Nat /\ b <= a
  BY <1>3, <1>4, DivBelow
<1>6. b \in Nat
  BY <1>4, <1>5, MulNat
<1> HIDE DEF b
<1>7. d * b <= d * a
  BY <1>1, <1>3, <1>5, <1>6, MulMono
<1>8. d * b = b * d /\ d * a = a * d /\ b * d \in Int /\ a * d \in Int
  BY <1>1, <1>3, <1>6, SMT
<1>9. b * d <= x
  BY <1>1, <1>3, <1>7, <1>8
<1> QED BY <1>2, <1>6, <1>9 DEF d, x

(* What an approved or resized purchase has passed.                        *)
LEMMA PurchaseVerdict ==
    ASSUME NEW in \in RiskInputs, in.side = "BUY",
           RiskVerdict(in).decision # "reject"
    PROVE  /\ ~LossLimitReached(in) /\ ~PositionLimitReached(in)
           /\ RiskDistance(in) # 0 /\ in.dayStart > 0
           /\ RiskVerdict(in).qty \in Nat
           /\ RiskVerdict(in).qty <= AllowedQuantity(in)
<1>1. /\ RiskVerdict(in) = RiskBuy(in) /\ in.dayStart > 0
      /\ in.side # "SELL" /\ in.requested \in Nat /\ in.dayStart \in Nat
  BY DEF RiskVerdict, Refused, Verdict, RiskInputs
<1>2. ~LossLimitReached(in) /\ ~PositionLimitReached(in) /\ RiskDistance(in) # 0
  BY <1>1 DEF RiskBuy, Refused, Verdict
<1>3. AllowedQuantity(in) \in Nat
  BY <1>2, AllowedBounds
<1>4. \/ RiskBuy(in).qty = AllowedQuantity(in)
      \/ RiskBuy(in).qty = in.requested /\ ~(AllowedQuantity(in) < in.requested)
  BY <1>1 DEF RiskBuy, Refused, Verdict
<1> QED BY <1>1, <1>2, <1>3, <1>4

(* What an approved or resized sale sells is held.                         *)
LEMMA SaleVerdict ==
    ASSUME NEW in \in RiskInputs, in.side = "SELL",
           RiskVerdict(in).decision # "reject"
    PROVE  RiskVerdict(in).qty \in Nat
<1>1. RiskVerdict(in) = RiskSell(in) /\ in.held \in Nat /\ in.requested \in Nat
  BY DEF RiskVerdict, Refused, Verdict, RiskInputs
<1> QED BY <1>1 DEF RiskSell, Refused, Verdict

-----------------------------------------------------------------------------
(* The account marked at some prices, symbol by symbol.                    *)
Marked(price) ==
    [s \in Symbols |-> IF price[s] = 0 THEN Basis(positions[s])
                       ELSE positions[s].qty * price[s]]

(* The equity is a number, and no less than what one holding is worth.     *)
LEMMA EquityFacts ==
    ASSUME BrokerInv, NEW price \in [Symbols -> Nat]
    PROVE  /\ EquityAt(price) \in Nat
           /\ \A s \in Symbols : price[s] # 0 =>
                 EquityAt(price) >= positions[s].qty * price[s]
<1>1. cash \in Nat /\ \A s \in Symbols : positions[s] \in Position
  BY DEF BrokerInv, BrokerTypeOK
<1>2. \A s \in Symbols : Basis(positions[s]) \in Nat /\ positions[s].qty \in Nat
  BY <1>1, BasisType DEF Position
<1>3. \A s \in Symbols : positions[s].qty * price[s] \in Nat
  BY <1>2, MulNat
<1>4. Marked(price) \in [Symbols -> Nat]
  BY <1>2, <1>3 DEF Marked
<1>5. EquityAt(price) = cash + SumFunction(Marked(price))
  BY DEF EquityAt, Marked
<1>6. SumFunction(Marked(price)) \in Nat
  BY <1>4, BrokerAssumption, SumOfNaturals
<1>7. \A s \in Symbols : SumFunction(Marked(price)) >= Marked(price)[s]
  BY <1>4, BrokerAssumption, SumOfNaturals
<1>8. \A s \in Symbols : price[s] # 0 => Marked(price)[s] = positions[s].qty * price[s]
  BY DEF Marked
<1>9. EquityAt(price) \in Nat
  BY <1>1, <1>5, <1>6
<1>10. ASSUME NEW s \in Symbols, price[s] # 0
       PROVE  EquityAt(price) >= positions[s].qty * price[s]
  <2>1. SumFunction(Marked(price)) >= positions[s].qty * price[s]
    BY <1>7, <1>8, <1>10
  <2>2. positions[s].qty * price[s] \in Nat
    BY <1>3
  <2> QED BY <1>1, <1>5, <1>6, <2>1, <2>2
<1> QED BY <1>9, <1>10

(* An account that holds nothing is worth its cash.                        *)
LEMMA EquityOfCash ==
    ASSUME BrokerInv, NEW price \in [Symbols -> Nat],
           \A s \in Symbols : positions[s].qty = 0
    PROVE  EquityAt(price) = cash
<1>1. \A s \in Symbols : positions[s] = Flat
  BY DEF BrokerInv, FlatIsEmpty
<1>2. \A s \in Symbols : 0 * price[s] = 0
  BY SMT
<1>3. Marked(price) \in [Symbols -> Int] /\ \A s \in Symbols : Marked(price)[s] = 0
  BY <1>1, <1>2, FlatBasis DEF Marked, Flat
<1>4. SumFunction(Marked(price)) = 0
  BY <1>3, BrokerAssumption, SumOfNothing
<1>5. EquityAt(price) = cash + SumFunction(Marked(price))
  BY DEF EquityAt, Marked
<1>6. cash \in Nat
  BY DEF BrokerInv, BrokerTypeOK
<1> QED BY <1>4, <1>5, <1>6

-----------------------------------------------------------------------------
(* The inductive invariant.  The day-start equity is taken before anything *)
(* is bought, so it is the opening balance; an account opened with nothing *)
(* never holds anything.                                                   *)
RunnerInv ==
    /\ BrokerInv
    /\ lastPrice \in [Symbols -> Nat]
    /\ dayStart \in {NoEquity, InitialCash}
    /\ dayStart = NoEquity =>
          cash = InitialCash /\ \A s \in Symbols : positions[s].qty = 0
    /\ InitialCash = 0 => \A s \in Symbols : positions[s].qty = 0
    /\ cycle.side \in {"BUY", "SELL", "HOLD"} /\ cycle.distance \in Nat
    /\ OpenPositionLimit

(* It covers the types.                                                    *)
LEMMA RunnerInvTypes == RunnerInv => TypeOK
  BY BrokerAssumption DEF RunnerInv, TypeOK, BrokerInv

(* The opening state satisfies it.                                         *)
LEMMA RunnerInitInv == Init => RunnerInv
<1> SUFFICES ASSUME Init PROVE RunnerInv
  OBVIOUS
<1>1. BrokerInv
  BY BrokerInitInv DEF Init
<1>2. cash = InitialCash /\ \A s \in Symbols : positions[s].qty = 0
  BY DEF Init, BrokerInit, Flat
<1>3. OpenSymbols = {}
  BY <1>2 DEF OpenSymbols
<1>4. OpenPositionLimit
  BY <1>3, FS_EmptySet, RunnerAssumption DEF OpenPositionLimit
<1>5. cycle.side = "HOLD" /\ cycle.distance = 0
  BY DEF Init, NoCycle
<1> QED BY <1>1, <1>2, <1>4, <1>5 DEF Init, RunnerInv

(* The loss limit is always measured from the opening balance.             *)
LEMMA DayStartIsOpening ==
    ASSUME RunnerInv, NEW price \in [Symbols -> Nat]
    PROVE  DayStartEquity(price) = InitialCash
<1>1. CASE dayStart = NoEquity
  BY <1>1, EquityOfCash DEF RunnerInv, DayStartEquity
<1>2. CASE dayStart # NoEquity
  BY <1>2 DEF RunnerInv, DayStartEquity
<1> QED BY <1>1, <1>2

(* What the risk engine is given has the types it expects.                 *)
LEMMA RiskInputTypes ==
    ASSUME RunnerInv, NEW s \in Symbols, NEW side \in {"BUY", "SELL"},
           NEW f \in Features, NEW price \in [Symbols -> Nat]
    PROVE  RiskInput(s, side, f, price) \in RiskInputs
<1>1. f \in FeatureSnapshot /\ OrderQuantity \in Nat
  BY RunnerAssumption
<1>2. positions[s].qty \in Nat
  BY DEF RunnerInv, BrokerInv, BrokerTypeOK, Position
<1>3. EquityAt(price) \in Nat
  BY EquityFacts DEF RunnerInv
<1>4. DayStartEquity(price) \in Nat
  BY DayStartIsOpening, BrokerAssumption
<1>5. Cardinality(OpenSymbols) \in Nat
  BY BrokerAssumption, FS_Subset, FS_CardinalityType DEF OpenSymbols
<1> HIDE DEF RunnerInv
<1> QED BY <1>1, <1>2, <1>3, <1>4, <1>5 DEF RiskInput, RiskInputs, FeatureSnapshot

-----------------------------------------------------------------------------
(* What a step that trades may do: the order the risk engine let through,  *)
(* at the quantity it allowed, or nothing.                                 *)
Ordered(s, side, in) ==
    \E o \in AnyOrder :
       /\ o.symbol = s /\ o.side = side /\ o.qty = RiskVerdict(in).qty
       /\ RiskVerdict(in).decision # "reject"
       /\ ExecuteOrder(o)

(* Every trade is one or the other.                                        *)
LEMMA TradeOrders ==
    ASSUME RunnerInv, NEW source, NEW s \in Symbols, NEW side \in {"BUY", "SELL"},
           NEW f \in Features, NEW price \in [Symbols -> Nat], NEW orderPrice \in Nat,
           Trade(source, s, side, f, price, orderPrice)
    PROVE  \/ UNCHANGED brokerVars
           \/ Ordered(s, side, RiskInput(s, side, f, price))
<1> DEFINE in == RiskInput(s, side, f, price)
           v == RiskVerdict(in)
           o == [symbol |-> s, side |-> side, qty |-> v.qty,
                 price |-> orderPrice, mode |-> "paper"]
<1>1. Execute(s, side, orderPrice, v)
  BY DEF Trade
<1>2. in \in RiskInputs /\ in.side = side
  BY RiskInputTypes DEF RiskInput
<1> HIDE DEF in, v
<1>3. v.decision # "reject" => v.qty \in Nat
  BY <1>2, PurchaseVerdict, SaleVerdict DEF v
<1>4. CASE v.decision = "reject" \/ v.qty <= 0
  BY <1>1, <1>4 DEF Execute
<1>5. CASE ~(v.decision = "reject" \/ v.qty <= 0)
  <2>1. ExecuteOrder(o)
    BY <1>1, <1>5 DEF Execute
  <2>2. o \in AnyOrder /\ o.symbol = s /\ o.side = side /\ o.qty = v.qty
    BY <1>3, <1>5 DEF AnyOrder
  <2> HIDE DEF o
  <2>3. Ordered(s, side, in)
    BY <1>5, <2>1, <2>2 DEF Ordered, v
  <2> QED BY <2>3 DEF in
<1> QED BY <1>4, <1>5

(* A purchase adds its quantity to one position; everything else keeps or  *)
(* loses what it held.                                                     *)
LEMMA BuyChanges ==
    ASSUME BrokerInv, NEW o \in AnyOrder, Buy(o)
    PROVE  /\ o.side = "BUY" /\ o.qty > 0
           /\ positions'[o.symbol].qty = positions[o.symbol].qty + o.qty
           /\ \A t \in Symbols : t # o.symbol => positions'[t] = positions[t]
<1>1. positions \in [Symbols -> Position] /\ o.symbol \in Symbols
  BY OrderTypes DEF BrokerInv, BrokerTypeOK
<1>2. positions' = [positions EXCEPT ![o.symbol] =
                      Enlarged(positions[o.symbol], o.qty, Notional(o) + Fee(o))]
  BY DEF Buy
<1>3. o.side = "BUY" /\ o.qty > 0
  BY DEF Buy, CanBuy, Executable
<1> QED BY <1>1, <1>2, <1>3 DEF Enlarged

(* A sale takes its quantity off one position.                             *)
LEMMA SellChanges ==
    ASSUME BrokerInv, NEW o \in AnyOrder, Sell(o)
    PROVE  /\ o.side = "SELL"
           /\ positions'[o.symbol].qty = positions[o.symbol].qty - o.qty
           /\ o.qty \in 1..positions[o.symbol].qty
           /\ \A t \in Symbols : t # o.symbol => positions'[t] = positions[t]
<1> DEFINE p == positions[o.symbol]
           pnl == (Notional(o) - Fee(o)) - Released(p, o.qty)
<1>1. positions \in [Symbols -> Position] /\ o.symbol \in Symbols
  BY OrderTypes DEF BrokerInv, BrokerTypeOK
<1>2. positions' = [positions EXCEPT ![o.symbol] = Reduced(p, o.qty, pnl)]
  BY DEF Sell
<1>3. p \in Position /\ o.qty \in 1..p.qty
  BY SellGuard
<1>4. p.qty \in Nat
  BY <1>3 DEF Position
<1>5. Reduced(p, o.qty, pnl).qty = p.qty - o.qty
  <2>1. CASE o.qty = p.qty
    BY <1>3, <1>4, <2>1 DEF Reduced, Flat
  <2>2. CASE o.qty # p.qty
    BY <1>3, <1>4, <2>2 DEF Reduced
  <2> QED BY <2>1, <2>2
<1>6. o.side = "SELL"
  BY DEF Sell, CanSell, Executable
<1> QED BY <1>1, <1>2, <1>3, <1>5, <1>6

(* What a trade does to the positions: a sale only takes away, a purchase  *)
(* was allowed by every limit.                                             *)
LEMMA TradeChanges ==
    ASSUME RunnerInv, NEW s \in Symbols, NEW side \in {"BUY", "SELL"},
           NEW in \in RiskInputs, in.side = side, Ordered(s, side, in)
    PROVE  /\ BrokerInv'
           /\ \A t \in Symbols : t # s => positions'[t] = positions[t]
           /\ \/ positions'[s].qty <= positions[s].qty
              \/ /\ side = "BUY"
                 /\ positions'[s].qty = positions[s].qty + RiskVerdict(in).qty
                 /\ RiskVerdict(in).qty \in Nat
                 /\ RiskVerdict(in).qty <= AllowedQuantity(in)
                 /\ ~LossLimitReached(in) /\ ~PositionLimitReached(in)
                 /\ RiskDistance(in) # 0 /\ in.dayStart > 0
<1>1. PICK o \in AnyOrder :
         /\ o.symbol = s /\ o.side = side /\ o.qty = RiskVerdict(in).qty
         /\ RiskVerdict(in).decision # "reject"
         /\ ExecuteOrder(o)
  BY DEF Ordered
<1>2. BrokerInv
  BY DEF RunnerInv
<1>3. BrokerInv'
  BY <1>1, <1>2, BuyInv, SellInv, RejectInv DEF ExecuteOrder
<1>4. positions[s].qty \in Nat
  BY <1>2 DEF BrokerInv, BrokerTypeOK, Position
<1>5. CASE Buy(o)
  <2>1. /\ side = "BUY" /\ positions'[s].qty = positions[s].qty + RiskVerdict(in).qty
        /\ \A t \in Symbols : t # s => positions'[t] = positions[t]
    BY <1>1, <1>2, <1>5, BuyChanges
  <2> QED BY <1>1, <1>3, <2>1, PurchaseVerdict
<1>6. CASE Sell(o)
  <2>1. /\ positions'[s].qty = positions[s].qty - o.qty
        /\ o.qty \in 1..positions[s].qty
        /\ \A t \in Symbols : t # s => positions'[t] = positions[t]
    BY <1>1, <1>2, <1>6, SellChanges
  <2>2. positions'[s].qty <= positions[s].qty
    BY <1>4, <2>1
  <2> QED BY <1>3, <2>1, <2>2
<1>7. CASE Reject(o)
  BY <1>3, <1>4, <1>7 DEF Reject
<1> QED BY <1>1, <1>5, <1>6, <1>7 DEF ExecuteOrder

(* An entry below the position limit opens at most one symbol; anything    *)
(* else opens none.                                                        *)
LEMMA OpenAfter ==
    ASSUME BrokerInv, BrokerInv', OpenPositionLimit, NEW s \in Symbols,
           \A t \in Symbols : t # s => positions'[t] = positions[t],
           \/ positions'[s].qty <= positions[s].qty
           \/ Cardinality(OpenSymbols) < MaxOpenPositions
    PROVE  OpenPositionLimit'
<1>1. IsFiniteSet(OpenSymbols) /\ IsFiniteSet(OpenSymbols')
  BY BrokerAssumption, FS_Subset DEF OpenSymbols
<1>2. /\ Cardinality(OpenSymbols) \in Nat /\ Cardinality(OpenSymbols') \in Nat
      /\ MaxOpenPositions \in Nat
  BY <1>1, FS_CardinalityType, RunnerAssumption
<1>3. positions[s].qty \in Nat /\ positions'[s].qty \in Nat
  BY DEF BrokerInv, BrokerTypeOK, Position
<1>4. CASE positions'[s].qty <= positions[s].qty
  <2>1. OpenSymbols' \subseteq OpenSymbols
    BY <1>3, <1>4 DEF OpenSymbols
  <2>2. Cardinality(OpenSymbols') <= Cardinality(OpenSymbols)
    BY <1>1, <2>1, FS_Subset
  <2> QED BY <1>2, <2>2 DEF OpenPositionLimit
<1>5. CASE Cardinality(OpenSymbols) < MaxOpenPositions
  <2>1. OpenSymbols' \subseteq OpenSymbols \cup {s}
    BY DEF OpenSymbols
  <2>2. /\ IsFiniteSet(OpenSymbols \cup {s})
        /\ Cardinality(OpenSymbols \cup {s}) <= Cardinality(OpenSymbols) + 1
        /\ Cardinality(OpenSymbols \cup {s}) \in Nat
    <3>1. /\ IsFiniteSet(OpenSymbols \cup {s})
          /\ Cardinality(OpenSymbols \cup {s}) =
                IF s \in OpenSymbols THEN Cardinality(OpenSymbols)
                ELSE Cardinality(OpenSymbols) + 1
      BY <1>1, FS_AddElement
    <3> QED BY <1>2, <3>1
  <2>3. Cardinality(OpenSymbols') <= Cardinality(OpenSymbols \cup {s})
    BY <2>1, <2>2, FS_Subset
  <2> QED BY <1>2, <1>5, <2>2, <2>3 DEF OpenPositionLimit
<1> QED BY <1>4, <1>5

(* A trade keeps the invariant.                                            *)
LEMMA TradeInv ==
    ASSUME RunnerInv, NEW source, NEW s \in Symbols, NEW side \in {"BUY", "SELL"},
           NEW f \in Features, NEW price \in [Symbols -> Nat], NEW orderPrice \in Nat,
           Trade(source, s, side, f, price, orderPrice), lastPrice' \in [Symbols -> Nat]
    PROVE  RunnerInv'
<1> DEFINE in == RiskInput(s, side, f, price)
<1>1. /\ in \in RiskInputs /\ in.side = side
      /\ in.open = Cardinality(OpenSymbols) /\ in.dayStart = InitialCash
  BY RiskInputTypes, DayStartIsOpening DEF RiskInput
<1>2. dayStart' = InitialCash
  BY DayStartIsOpening DEF Trade
<1>3. cycle'.side \in {"BUY", "SELL", "HOLD"} /\ cycle'.distance \in Nat
  BY <1>1, DistanceType DEF Trade
<1>4. \/ UNCHANGED brokerVars
      \/ Ordered(s, side, in)
  BY TradeOrders
<1> HIDE DEF in
<1>5. InitialCash # NoEquity
  BY BrokerAssumption DEF NoEquity
<1>6. CASE UNCHANGED brokerVars
  <2>1. BrokerInv' /\ OpenPositionLimit'
    BY <1>6 DEF RunnerInv, brokerVars, BrokerInv, BrokerTypeOK, FlatIsEmpty,
                OpenPositionLimit, OpenSymbols
  <2>2. InitialCash = 0 => \A t \in Symbols : positions'[t].qty = 0
    BY <1>6 DEF RunnerInv, brokerVars
  <2> QED BY <1>2, <1>3, <1>5, <2>1, <2>2 DEF RunnerInv
<1>7. CASE Ordered(s, side, in)
  <2>1. /\ BrokerInv'
        /\ \A t \in Symbols : t # s => positions'[t] = positions[t]
        /\ \/ positions'[s].qty <= positions[s].qty
           \/ ~PositionLimitReached(in) /\ in.dayStart > 0
    BY <1>1, <1>7, TradeChanges
  <2>2. BrokerInv /\ OpenPositionLimit
    BY DEF RunnerInv
  <2>3. ~PositionLimitReached(in) => Cardinality(OpenSymbols) < MaxOpenPositions
    <3>1. Cardinality(OpenSymbols) \in Nat /\ MaxOpenPositions \in Nat
      BY <1>1, RunnerAssumption DEF RiskInputs
    <3> QED BY <1>1, <3>1 DEF PositionLimitReached
  <2>4. OpenPositionLimit'
    BY <2>1, <2>2, <2>3, OpenAfter
  <2>5. ASSUME InitialCash = 0, NEW t \in Symbols PROVE positions'[t].qty = 0
    <3>1. positions'[s].qty <= positions[s].qty
      BY <1>1, <2>1, <2>5
    <3>2. positions[s].qty = 0 /\ positions[t].qty = 0
      BY <2>5 DEF RunnerInv
    <3>3. positions'[s].qty \in Nat
      BY <2>1 DEF BrokerInv, BrokerTypeOK, Position
    <3> QED BY <2>1, <3>1, <3>2, <3>3
  <2> QED BY <1>2, <1>3, <1>5, <2>1, <2>4, <2>5 DEF RunnerInv
<1> QED BY <1>4, <1>6, <1>7

(* The price a cycle records, and the price it orders at.                  *)
LEMMA SnapshotPrices ==
    ASSUME RunnerInv, NEW s \in Symbols, NEW f \in Features
    PROVE  /\ Recorded(s, f) \in [Symbols -> Nat]
           /\ Recorded(s, f)[s] = f.price /\ f.price \in Nat \ {0}
           /\ (IF f.book THEN f.price ELSE f.fast) \in Nat
<1>1. f.price \in Nat \ {0} /\ f.fast \in Nat
  BY RunnerAssumption DEF FeatureSnapshot
<1>2. lastPrice \in [Symbols -> Nat]
  BY DEF RunnerInv
<1> QED BY <1>1, <1>2 DEF Recorded

(* The strategy asks for nothing else.                                     *)
LEMMA SignalSides ==
    ASSUME NEW f, NEW p
    PROVE  StrategySignal(f, p).side \in {"BUY", "SELL", "HOLD"}
  BY DEF StrategySignal, Signal

(* A cycle keeps the invariant.                                            *)
LEMMA CycleInv ==
    ASSUME RunnerInv, NEW s \in Symbols, NEW f \in Features, ProcessSnapshot(s, f)
    PROVE  RunnerInv'
<1> DEFINE side == StrategySignal(f, positions[s]).side
           price == Recorded(s, f)
<1>1. price \in [Symbols -> Nat] /\ lastPrice' = price
  BY SnapshotPrices DEF ProcessSnapshot
<1>2. CASE side = "HOLD"
  <2>1. /\ UNCHANGED brokerVars /\ dayStart' = InitialCash
        /\ cycle'.side = "HOLD" /\ cycle'.distance = 0
    BY <1>1, <1>2, DayStartIsOpening DEF ProcessSnapshot
  <2>2. InitialCash # NoEquity
    BY BrokerAssumption DEF NoEquity
  <2> HIDE DEF price, side
  <2> QED BY <1>1, <2>1, <2>2
          DEF RunnerInv, brokerVars, BrokerInv, BrokerTypeOK, FlatIsEmpty,
              OpenPositionLimit, OpenSymbols
<1>3. CASE side # "HOLD"
  <2>1. side \in {"BUY", "SELL"}
    BY <1>3, SignalSides
  <2>2. Trade("auto", s, side, f, price, IF f.book THEN f.price ELSE f.fast)
    BY <1>3 DEF ProcessSnapshot
  <2> HIDE DEF price, side
  <2> QED BY <1>1, <2>1, <2>2, SnapshotPrices, TradeInv
<1> QED BY <1>2, <1>3

(* So do market data without a cycle, and a manual trade.                  *)
LEMMA IngestInv ==
    ASSUME RunnerInv, NEW s \in Symbols, NEW f \in Features, IngestSnapshot(s, f)
    PROVE  RunnerInv'
<1>1. lastPrice' \in [Symbols -> Nat]
  BY SnapshotPrices DEF IngestSnapshot
<1> QED BY <1>1 DEF IngestSnapshot, RunnerInv, brokerVars, BrokerInv, BrokerTypeOK,
                    FlatIsEmpty, OpenPositionLimit, OpenSymbols

(* A trade of the operator keeps the account and the limits.                  *)
LEMMA ManualInv ==
    ASSUME RunnerInv, NEW s \in Symbols, NEW side \in {"BUY", "SELL"},
           NEW f \in Features, ManualTrade(s, side, f)
    PROVE  RunnerInv'
<1>1. lastPrice \in [Symbols -> Nat] /\ lastPrice' = lastPrice
  BY DEF RunnerInv, ManualTrade
<1>2. f.price \in Nat /\ Trade("manual", s, side, f, lastPrice, f.price)
  BY SnapshotPrices DEF ManualTrade
<1> QED BY <1>1, <1>2, TradeInv

(* The invariant is inductive.                                             *)
LEMMA RunnerStepInv == RunnerInv /\ [Next]_vars => RunnerInv'
<1> SUFFICES ASSUME RunnerInv, [Next]_vars PROVE RunnerInv'
  OBVIOUS
<1>1. CASE Next
  BY <1>1, CycleInv, IngestInv, ManualInv DEF Next
<1>2. CASE UNCHANGED vars
  BY <1>2 DEF vars, runnerVars, RunnerInv, brokerVars, BrokerInv, BrokerTypeOK,
              FlatIsEmpty, OpenPositionLimit, OpenSymbols
<1> QED BY <1>1, <1>2

(* It holds for ever.                                                      *)
LEMMA RunnerInvariant == Spec => []RunnerInv
  BY RunnerInitInv, RunnerStepInv, PTL DEF Spec

(* The account the runner and the operator share never goes into debt or   *)
(* short, whatever the strategy, the risk engine and the operator do.      *)
THEOREM RunnerTypes == Spec => []TypeOK
  BY RunnerInvariant, RunnerInvTypes, PTL

(* Whatever the risk engine lets through is an order of the broker.        *)
LEMMA TradeRefines ==
    ASSUME RunnerInv, NEW source, NEW s \in Symbols, NEW side \in {"BUY", "SELL"},
           NEW f \in Features, NEW price \in [Symbols -> Nat], NEW orderPrice \in Nat,
           Trade(source, s, side, f, price, orderPrice)
    PROVE  [L!Next]_(L!ledgerVars)
<1> DEFINE in == RiskInput(s, side, f, price)
<1>1. UNCHANGED brokerVars \/ Ordered(s, side, in)
  BY TradeOrders
<1>2. BrokerInv
  BY DEF RunnerInv
<1> HIDE DEF in
<1>3. CASE UNCHANGED brokerVars
  BY <1>3 DEF brokerVars, L!ledgerVars
<1>4. CASE Ordered(s, side, in)
  BY <1>2, <1>4, OrderRefines DEF Ordered
<1> QED BY <1>1, <1>3, <1>4

(* Automatic and manual trades of the shared account, at any price and any *)
(* quantity the risk engine sizes, are steps of the ledger: none of them   *)
(* spends money that is not there, and each is exact up to its roundings.  *)
THEOREM RunnerRefinesLedger == Spec => RefinesLedger
<1>1. RunnerInv /\ [Next]_vars => [L!Next]_(L!ledgerVars)
  <2> SUFFICES ASSUME RunnerInv, [Next]_vars PROVE [L!Next]_(L!ledgerVars)
    OBVIOUS
  <2>1. CASE Next
    <3>1. PICK s \in Symbols, f \in Features :
             \/ ProcessSnapshot(s, f)
             \/ IngestSnapshot(s, f)
             \/ \E side \in {"BUY", "SELL"} : ManualTrade(s, side, f)
      BY <2>1 DEF Next
    <3>2. CASE ProcessSnapshot(s, f)
      <4> DEFINE side == StrategySignal(f, positions[s]).side
                 price == Recorded(s, f)
                 orderPrice == IF f.book THEN f.price ELSE f.fast
      <4>1. CASE side = "HOLD"
        BY <3>2, <4>1 DEF ProcessSnapshot, brokerVars, L!ledgerVars
      <4>2. CASE side # "HOLD"
        <5>1. side \in {"BUY", "SELL"}
          BY <4>2, SignalSides
        <5>2. price \in [Symbols -> Nat] /\ orderPrice \in Nat
          BY SnapshotPrices
        <5>3. Trade("auto", s, side, f, price, orderPrice)
          BY <3>2, <4>2 DEF ProcessSnapshot
        <5> HIDE DEF side, price, orderPrice
        <5> QED BY <5>1, <5>2, <5>3, TradeRefines
      <4> QED BY <4>1, <4>2
    <3>3. CASE IngestSnapshot(s, f)
      BY <3>3 DEF IngestSnapshot, brokerVars, L!ledgerVars
    <3>4. CASE \E side \in {"BUY", "SELL"} : ManualTrade(s, side, f)
      <4>1. PICK side \in {"BUY", "SELL"} :
               Trade("manual", s, side, f, lastPrice, f.price)
        BY <3>4 DEF ManualTrade
      <4>2. lastPrice \in [Symbols -> Nat] /\ f.price \in Nat
        BY SnapshotPrices DEF RunnerInv
      <4> QED BY <4>1, <4>2, TradeRefines
    <3> QED BY <3>1, <3>2, <3>3, <3>4
  <2>2. CASE UNCHANGED vars
    BY <2>2 DEF vars, brokerVars, L!ledgerVars
  <2> QED BY <2>1, <2>2
<1>2. Init => L!Init
  BY InitRefines DEF Init
<1> QED BY <1>1, <1>2, RunnerInvariant, PTL DEF Spec, RefinesLedger, L!Spec

(* Never more than max_open_positions symbols are held, however sessions,  *)
(* symbols and manual orders interleave.                                   *)
THEOREM PositionLimitHolds == Spec => []OpenPositionLimit
<1>1. RunnerInv => OpenPositionLimit
  BY DEF RunnerInv
<1> QED BY <1>1, RunnerInvariant, PTL

-----------------------------------------------------------------------------
(* What a step in which a position grew has passed.                        *)
Passed(source, s, f, price) ==
    LET in == RiskInput(s, "BUY", f, price) IN
    /\ in \in RiskInputs
    /\ price = lastPrice' /\ price \in [Symbols -> Nat]
    /\ positions'[s].qty = positions[s].qty + RiskVerdict(in).qty
    /\ RiskVerdict(in).qty \in Nat
    /\ RiskVerdict(in).qty <= AllowedQuantity(in)
    /\ ~LossLimitReached(in) /\ RiskDistance(in) # 0
    /\ dayStart' = in.dayStart /\ in.equity = EquityAt(price)
    /\ cycle'.distance = RiskDistance(in) /\ cycle'.source = source
    /\ source = "auto" => StrategySignal(f, positions[s]).side = "BUY"

(* A trade in which some position grew passed the risk engine.             *)
LEMMA TradeGrowth ==
    ASSUME RunnerInv, NEW source, NEW s \in Symbols, NEW side \in {"BUY", "SELL"},
           NEW f \in Features, NEW price \in [Symbols -> Nat], NEW orderPrice \in Nat,
           Trade(source, s, side, f, price, orderPrice), lastPrice' = price,
           source = "auto" => StrategySignal(f, positions[s]).side = side,
           NEW t \in Symbols, Bought(t)
    PROVE  t = s /\ Passed(source, s, f, price)
<1> DEFINE in == RiskInput(s, side, f, price)
<1>1. /\ in \in RiskInputs /\ in.side = side /\ in.equity = EquityAt(price)
      /\ in.dayStart = DayStartEquity(price)
  BY RiskInputTypes DEF RiskInput
<1>2. /\ dayStart' = in.dayStart /\ cycle'.distance = RiskDistance(in)
      /\ cycle'.source = source
  BY <1>1 DEF Trade
<1>3. UNCHANGED brokerVars \/ Ordered(s, side, in)
  BY TradeOrders
<1>4. positions[t].qty \in Nat /\ positions[s].qty \in Nat
  BY DEF RunnerInv, BrokerInv, BrokerTypeOK, Position
<1>5. positions'[t].qty > positions[t].qty
  BY DEF Bought
<1>6. Ordered(s, side, in)
  BY <1>3, <1>4, <1>5 DEF brokerVars
<1> HIDE DEF in
<1>7. /\ BrokerInv'
      /\ \A u \in Symbols : u # s => positions'[u] = positions[u]
      /\ \/ positions'[s].qty <= positions[s].qty
         \/ /\ side = "BUY"
            /\ positions'[s].qty = positions[s].qty + RiskVerdict(in).qty
            /\ RiskVerdict(in).qty \in Nat
            /\ RiskVerdict(in).qty <= AllowedQuantity(in)
            /\ ~LossLimitReached(in) /\ RiskDistance(in) # 0
  BY <1>1, <1>6, TradeChanges
<1>8. positions'[t].qty \in Nat
  BY <1>7 DEF BrokerInv, BrokerTypeOK, Position
<1>9. t = s
  BY <1>4, <1>5, <1>7
<1>10. side = "BUY" /\ ~(positions'[s].qty <= positions[s].qty)
  BY <1>4, <1>5, <1>7, <1>8, <1>9
<1>11. in = RiskInput(s, "BUY", f, price)
  BY <1>10 DEF in
<1> QED BY <1>1, <1>2, <1>7, <1>9, <1>10, <1>11 DEF Passed

(* Every step in which a position grew is such a trade.                    *)
LEMMA Growth ==
    ASSUME RunnerInv, [Next]_vars, NEW t \in Symbols, Bought(t)
    PROVE  \E source \in {"auto", "manual"}, f \in Features :
              Passed(source, t, f, lastPrice')
<1>1. positions[t].qty \in Nat /\ positions'[t].qty > positions[t].qty
  BY DEF RunnerInv, BrokerInv, BrokerTypeOK, Position, Bought
<1>2. ~(UNCHANGED positions)
  BY <1>1
<1>3. PICK s \in Symbols, f \in Features :
         \/ ProcessSnapshot(s, f)
         \/ IngestSnapshot(s, f)
         \/ \E side \in {"BUY", "SELL"} : ManualTrade(s, side, f)
  BY <1>2 DEF Next, vars, brokerVars
<1>4. CASE ProcessSnapshot(s, f)
  <2> DEFINE side == StrategySignal(f, positions[s]).side
             price == Recorded(s, f)
  <2>1. side # "HOLD"
    BY <1>2, <1>4 DEF ProcessSnapshot, brokerVars
  <2>2. side \in {"BUY", "SELL"}
    BY <2>1, SignalSides
  <2>3. /\ Trade("auto", s, side, f, price, IF f.book THEN f.price ELSE f.fast)
        /\ lastPrice' = price
    BY <1>4, <2>1 DEF ProcessSnapshot
  <2>4. t = s /\ Passed("auto", s, f, price)
    <3> DEFINE orderPrice == IF f.book THEN f.price ELSE f.fast
    <3>1. price \in [Symbols -> Nat] /\ orderPrice \in Nat
      BY SnapshotPrices
    <3>2. StrategySignal(f, positions[s]).side = side
      OBVIOUS
    <3>3. Trade("auto", s, side, f, price, orderPrice)
      BY <2>3
    <3> HIDE DEF price, side, orderPrice
    <3> QED BY <1>1, <2>2, <2>3, <3>1, <3>2, <3>3, TradeGrowth
  <2> QED BY <2>3, <2>4
<1>5. CASE IngestSnapshot(s, f)
  BY <1>2, <1>5 DEF IngestSnapshot, brokerVars
<1>6. CASE \E side \in {"BUY", "SELL"} : ManualTrade(s, side, f)
  <2>1. PICK side \in {"BUY", "SELL"} : ManualTrade(s, side, f)
    BY <1>6
  <2>2. /\ Trade("manual", s, side, f, lastPrice, f.price) /\ lastPrice' = lastPrice
        /\ lastPrice \in [Symbols -> Nat] /\ f.price \in Nat
    BY <2>1, SnapshotPrices DEF ManualTrade, RunnerInv
  <2>3. t = s /\ Passed("manual", s, f, lastPrice)
    BY <2>2, TradeGrowth
  <2> QED BY <2>2, <2>3
<1> QED BY <1>3, <1>4, <1>5, <1>6

(* No order, manual ones included, opens or adds to a position once the    *)
(* account has lost max_daily_loss of the equity losses are measured from. *)
THEOREM NoEntryOnceLost == Spec => NoEntryAfterLossLimit
<1>1. ASSUME RunnerInv, [Next]_vars, NEW t \in Symbols, Bought(t)
      PROVE  (dayStart' - EquityAt(lastPrice')) * RateDen < LossNum * dayStart'
  <2>1. PICK source, f : Passed(source, t, f, lastPrice')
    BY <1>1, Growth
  <2> DEFINE in == RiskInput(t, "BUY", f, lastPrice')
  <2>2. /\ in \in RiskInputs /\ ~LossLimitReached(in)
        /\ dayStart' = in.dayStart /\ in.equity = EquityAt(lastPrice')
    BY <2>1 DEF Passed
  <2> HIDE DEF in
  <2>3. in.equity \in Nat /\ in.dayStart \in Nat
    BY <2>2 DEF RiskInputs
  <2>4. RateDen \in Nat \ {0} /\ LossNum \in Nat
    BY BrokerAssumption, RunnerAssumption
  <2>5. CASE in.equity < in.dayStart
    <3>1. ~((in.dayStart - in.equity) * RateDen >= LossNum * in.dayStart)
      BY <2>2, <2>5 DEF LossLimitReached
    <3>2. (in.dayStart - in.equity) * RateDen \in Int /\ LossNum * in.dayStart \in Int
      BY <2>3, <2>4, SMT
    <3>3. (in.dayStart - in.equity) * RateDen < LossNum * in.dayStart
      BY <3>1, <3>2
    <3> QED BY <2>2, <3>3
  <2>6. CASE ~(in.equity < in.dayStart)
    <3>1. ~(0 * RateDen >= LossNum * in.dayStart)
      BY <2>2, <2>6 DEF LossLimitReached
    <3>2. 0 * RateDen = 0 /\ LossNum * in.dayStart \in Int
      BY <2>3, <2>4, SMT
    <3>3. RateDen * (in.dayStart - in.equity) <= RateDen * 0
      BY <2>3, <2>4, <2>6, MulMono
    <3>4. (in.dayStart - in.equity) * RateDen = RateDen * (in.dayStart - in.equity)
      BY <2>3, <2>4, SMT
    <3>5. RateDen * 0 = 0 /\ RateDen * (in.dayStart - in.equity) \in Int
      BY <2>3, <2>4, SMT
    <3>6. (in.dayStart - in.equity) * RateDen < LossNum * in.dayStart
      BY <3>1, <3>2, <3>3, <3>4, <3>5
    <3> QED BY <2>2, <3>6
  <2> QED BY <2>5, <2>6
<1>2. RunnerInv /\ [Next]_vars =>
        [(\E s \in Symbols : Bought(s)) =>
            (dayStart' - EquityAt(lastPrice')) * RateDen < LossNum * dayStart']_vars
  BY <1>1
<1> QED BY <1>2, RunnerInvariant, PTL DEF Spec, NoEntryAfterLossLimit

(* What a bought quantity loses when its stop is hit stays within          *)
(* risk_per_trade of the equity it was sized with.                         *)
THEOREM RiskStaysBounded == Spec => RiskPerTradeBounded
<1>1. ASSUME RunnerInv, [Next]_vars, NEW t \in Symbols, Bought(t)
      PROVE  (positions'[t].qty - positions[t].qty) * cycle'.distance * RateDen
                <= EquityAt(lastPrice') * RiskNum
  <2>1. PICK source, f : Passed(source, t, f, lastPrice')
    BY <1>1, Growth
  <2> DEFINE in == RiskInput(t, "BUY", f, lastPrice')
             d == RiskDistance(in)
             q == RiskVerdict(in).qty
             A == AllowedQuantity(in)
  <2>2. /\ in \in RiskInputs /\ d # 0 /\ q \in Nat /\ q <= A
        /\ in.equity = EquityAt(lastPrice') /\ cycle'.distance = d
        /\ positions'[t].qty = positions[t].qty + q
    BY <2>1 DEF Passed
  <2>3. positions[t].qty \in Nat
    BY <1>1 DEF RunnerInv, BrokerInv, BrokerTypeOK, Position
  <2>4. A \in Nat /\ A * (RateDen * d) <= in.equity * RiskNum
    BY <2>2, AllowedBounds
  <2>5. d \in Nat /\ RateDen \in Nat
    BY <2>2, DistanceType, BrokerAssumption
  <2>6. in.equity * RiskNum \in Nat
    BY <2>2, RunnerAssumption, MulNat DEF RiskInputs
  <2> HIDE DEF in, d, q, A
  <2>7. positions'[t].qty - positions[t].qty = q
    BY <2>2, <2>3
  <2>8. RateDen * d \in Nat
    BY <2>5, MulNat
  <2>9. (RateDen * d) * q <= (RateDen * d) * A
    BY <2>2, <2>4, <2>8, MulMono
  <2>10. /\ (RateDen * d) * q = q * d * RateDen /\ (RateDen * d) * A = A * (RateDen * d)
         /\ q * d * RateDen \in Int /\ A * (RateDen * d) \in Int
    BY <2>2, <2>4, <2>5, SMT
  <2>11. q * d * RateDen <= in.equity * RiskNum
    BY <2>4, <2>6, <2>9, <2>10
  <2> QED BY <2>2, <2>7, <2>11
<1>2. RunnerInv /\ [Next]_vars =>
        [\A s \in Symbols : Bought(s) =>
            (positions'[s].qty - positions[s].qty) * cycle'.distance * RateDen
               <= EquityAt(lastPrice') * RiskNum]_vars
  BY <1>1
<1> QED BY <1>2, RunnerInvariant, PTL DEF Spec, RiskPerTradeBounded

(* The strategy never adds to a position it holds; only the operator does. *)
THEOREM NeverPyramids == Spec => AutoNeverPyramids
<1>1. ASSUME RunnerInv, [Next]_vars, NEW t \in Symbols, Bought(t),
             cycle'.source = "auto"
      PROVE  positions[t].qty = 0
  <2>1. PICK source, f : Passed(source, t, f, lastPrice')
    BY <1>1, Growth
  <2>2. StrategySignal(f, positions[t]).side = "BUY"
    BY <1>1, <2>1 DEF Passed
  <2>3. positions[t].qty \in Nat
    BY <1>1 DEF RunnerInv, BrokerInv, BrokerTypeOK, Position
  <2> QED BY <2>2, <2>3 DEF StrategySignal, Signal
<1>2. RunnerInv /\ [Next]_vars =>
        [\A s \in Symbols : Bought(s) /\ cycle'.source = "auto"
            => positions[s].qty = 0]_vars
  BY <1>1
<1> QED BY <1>2, RunnerInvariant, PTL DEF Spec, AutoNeverPyramids

-----------------------------------------------------------------------------
(* An exit the strategy asks for ends flat: with a book the entry price is *)
(* known, holding something makes the equity positive, the day-start       *)
(* equity is the opening balance, which cannot be nothing, and the         *)
(* quantity asked for is the quantity held.                                *)
LEMMA ExitGoesThrough ==
    ASSUME RunnerInv, NEW s \in Symbols, NEW f \in Features, ProcessSnapshot(s, f),
           StrategySignal(f, positions[s]).side = "SELL"
    PROVE  positions'[s].qty = 0
<1> DEFINE price == Recorded(s, f)
           in == RiskInput(s, "SELL", f, price)
           v == RiskVerdict(in)
           qty == positions[s].qty
           o == [symbol |-> s, side |-> "SELL", qty |-> qty,
                 price |-> f.price, mode |-> "paper"]
<1>1. price \in [Symbols -> Nat] /\ price[s] = f.price /\ f.price \in Nat \ {0}
  BY SnapshotPrices
<1>2. qty \in Nat /\ BrokerInv
  BY DEF RunnerInv, BrokerInv, BrokerTypeOK, Position
<1>3. qty > 0 /\ f.book
  <2>1. qty > 0 /\ ExitReason(f, positions[s]) # "POSITION_OPEN"
    BY DEF StrategySignal, Signal
  <2> QED BY <2>1 DEF ExitReason
<1>4. /\ in.side = "SELL" /\ in.entry = f.price /\ in.requested = qty
      /\ in.held = qty /\ in.equity = EquityAt(price) /\ in.dayStart = InitialCash
  BY <1>1, <1>3, DayStartIsOpening DEF RiskInput
<1>5. Execute(s, "SELL", f.price, v)
  BY <1>3 DEF ProcessSnapshot, Trade
<1>6. InitialCash \in Nat \ {0}
  BY <1>3, BrokerAssumption DEF RunnerInv
<1>7. EquityAt(price) \in Nat \ {0}
  <2>1. EquityAt(price) \in Nat /\ EquityAt(price) >= qty * f.price
    BY <1>1, <1>2, EquityFacts
  <2>2. qty * 1 <= qty * f.price /\ qty * 1 = qty /\ qty * f.price \in Nat
    BY <1>1, <1>2, MulMono, MulNat
  <2> HIDE DEF price, qty
  <2> QED BY <1>2, <1>3, <2>1, <2>2
<1> HIDE DEF in, price
<1>8. v.decision = "approve" /\ v.qty = qty
  BY <1>1, <1>2, <1>3, <1>4, <1>6, <1>7 DEF RiskVerdict, RiskSell, Verdict
<1> HIDE DEF v
<1>9. ExecuteOrder(o)
  BY <1>2, <1>3, <1>5, <1>8 DEF Execute
<1>10. o \in AnyOrder /\ o.symbol = s /\ o.side = "SELL" /\ o.qty = qty
  BY <1>1, <1>2 DEF AnyOrder
<1>11. CanSell(o)
  BY <1>1, <1>2, <1>3 DEF CanSell, Executable
<1>12. Sell(o)
  <2>1. ~Buy(o) /\ ~Reject(o)
    BY <1>11 DEF Buy, CanBuy, Reject
  <2> QED BY <1>9, <2>1 DEF ExecuteOrder
<1> HIDE DEF o
<1>13. positions'[s].qty = qty - o.qty
  BY <1>2, <1>10, <1>12, SellChanges
<1> QED BY <1>2, <1>10, <1>13

(* An exit the strategy asks for is never held up: not by the loss limit,  *)
(* the position limit, sizing or the broker.                               *)
THEOREM ExitsGoThrough == Spec => ExitsAlwaysGoThrough
<1>1. ASSUME RunnerInv, [Next]_vars, NEW t \in Symbols, cycle' # cycle,
             cycle'.source = "auto", cycle'.symbol = t, cycle'.side = "SELL"
      PROVE  positions'[t].qty = 0
  <2>1. PICK s \in Symbols, f \in Features :
           \/ ProcessSnapshot(s, f)
           \/ IngestSnapshot(s, f)
           \/ \E side \in {"BUY", "SELL"} : ManualTrade(s, side, f)
    BY <1>1 DEF Next, vars, runnerVars
  <2>2. CASE ProcessSnapshot(s, f)
    <3>1. cycle'.symbol = s /\ cycle'.side = StrategySignal(f, positions[s]).side
      BY <2>2 DEF ProcessSnapshot, Trade
    <3> QED BY <1>1, <2>2, <3>1, ExitGoesThrough
  <2>3. CASE IngestSnapshot(s, f)
    BY <1>1, <2>3 DEF IngestSnapshot
  <2>4. CASE \E side \in {"BUY", "SELL"} : ManualTrade(s, side, f)
    BY <1>1, <2>4 DEF ManualTrade, Trade
  <2> QED BY <2>1, <2>2, <2>3, <2>4
<1>2. RunnerInv /\ [Next]_vars =>
        [\A s \in Symbols :
            cycle' # cycle /\ cycle'.source = "auto" /\ cycle'.symbol = s
               /\ cycle'.side = "SELL" => positions'[s].qty = 0]_vars
  BY <1>1
<1> QED BY <1>2, RunnerInvariant, PTL DEF Spec, ExitsAlwaysGoThrough

(* With a known book and ATR, a cycle that sees the price at or below the  *)
(* stop leaves no position behind, whether or not the history is warm.     *)
THEOREM StopIsHonoured == Spec => StopLossHonoured
<1>1. ASSUME RunnerInv, NEW s \in Symbols, NEW f \in Features, ProcessSnapshot(s, f),
             positions[s].qty > 0, f.book, f.atr # NoAtr, StopHit(f, positions[s])
      PROVE  positions'[s].qty = 0
  <2>1. ExitReason(f, positions[s]) \in {"EMA_BEARISH_EXIT", "STOP_LOSS_HIT"}
    BY <1>1 DEF ExitReason
  <2>2. StrategySignal(f, positions[s]).side = "SELL"
    BY <1>1, <2>1 DEF StrategySignal, Signal
  <2> QED BY <1>1, <2>2, ExitGoesThrough
<1>2. RunnerInv /\ [Next]_vars =>
        [\A s \in Symbols, f \in Features :
            ProcessSnapshot(s, f) /\ positions[s].qty > 0 /\ f.book
               /\ f.atr # NoAtr /\ StopHit(f, positions[s])
            => positions'[s].qty = 0]_vars
  BY <1>1
<1> QED BY <1>2, RunnerInvariant, PTL DEF Spec, StopLossHonoured
=============================================================================
