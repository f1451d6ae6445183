---------------------------- MODULE PaperBroker ----------------------------
(***************************************************************************)
(* app/paper/broker.py: the in-memory paper account.                       *)
(*                                                                         *)
(* Two grids stand for the 28 digits of Decimal.  Money is a whole number  *)
(* of units; an average entry price is a whole number of 1/EntryDen units. *)
(* Every product and every quotient of the code is rounded, half to even,  *)
(* to the grid of its result: what a position cost is not kept anywhere,   *)
(* only its average is, and multiplying that average by a quantity gives   *)
(* the cost back up to those roundings.                                    *)
(*                                                                         *)
(* A symbol missing from the code's dict of positions is Flat here.  Every *)
(* order and position of the program is quoted in one asset (USDT).        *)
(***************************************************************************)
EXTENDS Rounding, FiniteSetsExt, Functions

CONSTANTS
    Symbols,        \* Spot symbols
    Prices,         \* market prices an order may carry; 0 is "none known"
    Quantities,     \* order quantities, 0 included
    LargestOrder,   \* bound on them
    EntryDen,       \* grid of the average entry price: 1/EntryDen
    InitialCash,    \* opening balance
    RateDen,        \* denominator of the two rates
    FeeNum,         \* fee_rate = FeeNum / RateDen
    SlipNum,        \* slippage_pct = SlipNum / RateDen
    MaxOrders       \* bound: order ids handed out

ASSUME BrokerAssumption ==
    /\ IsFiniteSet(Symbols)
    /\ Prices \subseteq Nat
    /\ LargestOrder \in Nat
    /\ Quantities \subseteq 0..LargestOrder
    /\ EntryDen \in Nat \ {0}
    /\ InitialCash \in Nat
    /\ RateDen \in Nat \ {0}
    /\ FeeNum \in 0..RateDen
    /\ SlipNum \in 0..RateDen

VARIABLES
    cash,           \* _balances["USDT"]
    positions,      \* _positions
    realized,       \* _realized_pnl
    orderCounter,   \* _order_counter
    fill            \* the FillResult last returned

brokerVars == <<cash, positions, realized, orderCounter, fill>>

Orders == [symbol : Symbols, side : {"BUY", "SELL"}, qty : Quantities,
           price : Prices, mode : {"paper", "live"}]

Flat == [qty |-> 0, entry |-> 0, pnl |-> 0]

NoFill == [status |-> "none", filled |-> 0, pnl |-> 0, reason |-> "NONE"]

Rejection(reason) ==
    [status |-> "rejected", filled |-> 0, pnl |-> 0, reason |-> reason]

Execution(qty, pnl) ==
    [status |-> "executed", filled |-> qty, pnl |-> pnl, reason |-> "EXECUTED"]

BrokerInit ==
    /\ cash = InitialCash
    /\ positions = [s \in Symbols |-> Flat]
    /\ realized = 0
    /\ orderCounter = 0
    /\ fill = NoFill

(* Slippage moves the price against the trader.                            *)
FillPrice(o) ==
    IF o.side = "BUY" THEN HalfEven(o.price * (RateDen + SlipNum), RateDen)
                      ELSE HalfEven(o.price * (RateDen - SlipNum), RateDen)

Notional(o) == FillPrice(o) * o.qty

Fee(o) == HalfEven(Notional(o) * FeeNum, RateDen)

(* Mutant: a sale releases the cost of the whole position.                 *)
ReleasedWhole(p, qty) == HalfEven(p.entry * p.qty, EntryDen)

(* avg_entry_price * quantity sold                                         *)
Released(p, qty) == HalfEven(p.entry * qty, EntryDen)

(* avg_entry_price * quantity held: what the position cost                 *)
Basis(p) == Released(p, p.qty)

(* Mutant: the average is quantized to the units of money.                 *)
EnlargedQuantized(p, qty, cost) ==
    [qty   |-> p.qty + qty,
     entry |-> HalfEven(Basis(p) + cost, p.qty + qty) * EntryDen,
     pnl   |-> p.pnl]

(* The position after buying qty more of it for cost: the average of what  *)
(* it cost before and what it cost now.                                    *)
Enlarged(p, qty, cost) ==
    [qty   |-> p.qty + qty,
     entry |-> HalfEven((Basis(p) + cost) * EntryDen, p.qty + qty),
     pnl   |-> p.pnl]

(* Mutant: a sold-out position is not removed.                             *)
ReducedNeverClosed(p, qty, pnl) ==
    [qty |-> p.qty - qty, entry |-> p.entry, pnl |-> p.pnl + pnl]

(* The position after selling qty of it for a profit of pnl: what is left  *)
(* keeps its average.                                                      *)
Reduced(p, qty, pnl) ==
    IF qty = p.qty THEN Flat
    ELSE [qty |-> p.qty - qty, entry |-> p.entry, pnl |-> p.pnl + pnl]

Refusal(o) ==
    CASE o.mode # "paper" -> "PAPER_ONLY"
      [] o.mode = "paper" /\ (o.qty = 0 \/ o.price = 0) -> "INVALID_ORDER"
      [] OTHER -> IF o.side = "BUY" THEN "INSUFFICIENT_BALANCE"
                                    ELSE "INSUFFICIENT_POSITION"

Executable(o) == o.mode = "paper" /\ o.qty > 0 /\ o.price > 0

(* Mutant: a purchase the cash does not cover.                             *)
CanBuyUnfunded(o) == Executable(o) /\ o.side = "BUY"

CanBuy(o) ==
    Executable(o) /\ o.side = "BUY" /\ Notional(o) + Fee(o) <= cash

CanSell(o) ==
    Executable(o) /\ o.side = "SELL" /\ o.qty <= positions[o.symbol].qty

Buy(o) ==
    LET cost == Notional(o) + Fee(o) IN
    /\ CanBuy(o)
    /\ cash' = cash - cost
    /\ positions' = [positions EXCEPT ![o.symbol] = Enlarged(@, o.qty, cost)]
    /\ fill' = Execution(o.qty, 0)
    /\ orderCounter' = orderCounter + 1
    /\ UNCHANGED realized

Sell(o) ==
    LET p        == positions[o.symbol]
        proceeds == Notional(o) - Fee(o)
        pnl      == proceeds - Released(p, o.qty)
    IN
    /\ CanSell(o)
    /\ cash' = cash + proceeds
    /\ realized' = realized + pnl
    /\ positions' = [positions EXCEPT ![o.symbol] = Reduced(p, o.qty, pnl)]
    /\ fill' = Execution(o.qty, pnl)
    /\ orderCounter' = orderCounter + 1

Reject(o) ==
    /\ ~CanBuy(o) /\ ~CanSell(o)
    /\ fill' = Rejection(Refusal(o))
    /\ orderCounter' = orderCounter + 1
    /\ UNCHANGED <<cash, positions, realized>>

ExecuteOrder(o) == Buy(o) \/ Sell(o) \/ Reject(o)

BrokerNext ==
    /\ orderCounter < MaxOrders
    /\ \E o \in Orders : ExecuteOrder(o)

BrokerSpec == BrokerInit /\ [][BrokerNext]_brokerVars
-----------------------------------------------------------------------------
Position == [qty : Nat, entry : Nat, pnl : Int]

FillResult ==
    [status : {"none", "executed", "rejected"}, filled : Nat, pnl : Int,
     reason : {"NONE", "EXECUTED", "PAPER_ONLY", "INVALID_ORDER",
               "INSUFFICIENT_BALANCE", "INSUFFICIENT_POSITION"}]

(* The account never goes into debt, never holds a negative quantity and   *)
(* never carries a negative entry price (Nat), whatever it is asked to do. *)
BrokerTypeOK ==
    /\ cash \in Nat
    /\ positions \in [Symbols -> Position]
    /\ realized \in Int
    /\ orderCounter \in Nat
    /\ fill \in FillResult

Invested == SumFunction([s \in Symbols |-> Basis(positions[s])])

(* Money the roundings made, or lost when negative: what is in cash and    *)
(* what open positions cost, over the opening balance and the profit       *)
(* booked.                                                                 *)
Drift == (cash + Invested) - (InitialCash + realized)

(* However many orders averaged entries up and sold parts of positions,    *)
(* the account is off by rounding alone.  The k-th order can add half a    *)
(* grid step of the average for each of at most k * LargestOrder units     *)
(* held, and one unit of money; a cost, a fee or a profit that             *)
(* execute_order counted twice or not at all is more than that.            *)
MoneyConserved ==
    4 * EntryDen * Abs(Drift)
        <= orderCounter * (LargestOrder * (orderCounter + 1) + 4 * EntryDen)

(* A sold-out symbol leaves nothing behind: neither an entry price nor     *)
(* booked pnl leaks into the next position opened in it.                   *)
FlatIsEmpty == \A s \in Symbols : positions[s].qty = 0 => positions[s] = Flat

(* The broker implements the ledger, what positions cost being the         *)
(* holdings: each single step is exact up to its own roundings, and a      *)
(* position sold out has released all it cost, to the unit.                *)
L == INSTANCE Ledger WITH
        Accounts <- Symbols, Funds <- InitialCash, Grain <- EntryDen,
        held <- [s \in Symbols |-> Basis(positions[s])],
        size <- [s \in Symbols |-> positions[s].qty]

RefinesLedger == L!Spec
=============================================================================
