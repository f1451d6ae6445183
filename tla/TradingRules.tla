---------------------------- MODULE TradingRules ----------------------------
(***************************************************************************)
(* The two pure decisions of a trading cycle: the signal of                *)
(* app/strategies/trend_following.py and the verdict of app/risk.  Ratios  *)
(* of the code are numerators over RateDen, compared by cross-multiplying. *)
(*                                                                         *)
(* A feature snapshot is a record                                          *)
(*   price    the mid price when the order book is known, else last price  *)
(*   book     is the order book known (mid_price is not None)              *)
(*   fast     EMA fast; slow: EMA slow, NoEma when too few candles         *)
(*   atr      average true range, NoAtr when too few candles               *)
(*   healthy  spread and imbalance are within limits                       *)
(***************************************************************************)
EXTENDS Integers

CONSTANTS
    RateDen,            \* denominator of every ratio
    EntryDen,           \* an average entry price counts 1/EntryDen
    StopMult,           \* stop_loss_atr_multiple
    TakeMult,           \* take_profit_atr_multiple
    MinAtrNum,          \* min_atr_ratio
    MaxAtrNum,          \* max_atr_ratio
    EdgeNum,            \* estimated_round_trip_cost_pct + min_expected_edge_buffer_pct
    LossNum,            \* max_daily_loss
    RiskNum,            \* risk_per_trade
    MinStopNum,         \* min_stop_distance_ratio
    QuantityStep,       \* quantity_step
    MaxOpenPositions    \* max_open_positions

NoAtr == -1
NoEma == 0

(* classify_regime of app/features/regime.py                               *)
Regime(f) ==
    IF f.slow = NoEma THEN "none"
    ELSE IF f.fast > f.slow THEN "bullish"
    ELSE IF f.fast < f.slow THEN "bearish" ELSE "neutral"

Signal(side, reason) == [side |-> side, reason |-> reason]

(* avg_entry_price -+ atr * multiple, in units of 1/EntryDen               *)
StopHit(f, p) ==
    f.price * EntryDen <= p.entry - f.atr * StopMult * EntryDen

TargetHit(f, p) ==
    f.price * EntryDen >= p.entry + f.atr * TakeMult * EntryDen

(* Mutant: no exit at all before the slow EMA is there.                    *)
ExitReasonWarmOnly(f, p) ==
    IF ~f.book \/ f.slow = NoEma \/ f.atr = NoAtr THEN "POSITION_OPEN"
    ELSE IF StopHit(f, p) THEN "STOP_LOSS_HIT" ELSE "POSITION_OPEN"

(* Without a book there is no mid price and nothing is sold.               *)
ExitReason(f, p) ==
    IF ~f.book                                THEN "POSITION_OPEN"
    ELSE IF f.slow # NoEma /\ f.fast < f.slow THEN "EMA_BEARISH_EXIT"
    ELSE IF f.atr = NoAtr                     THEN "POSITION_OPEN"
    ELSE IF StopHit(f, p)                     THEN "STOP_LOSS_HIT"
    ELSE IF TargetHit(f, p)                   THEN "TAKE_PROFIT_HIT"
    ELSE "POSITION_OPEN"

(* The entry filters, in the order the code applies them.                  *)
EntryReason(f) ==
    IF f.slow = NoEma                         THEN "MISSING_EMA"
    ELSE IF Regime(f) # "bullish"             THEN "REGIME_NOT_TREND"
    ELSE IF f.atr = NoAtr \/ ~f.book          THEN "MISSING_ATR_CONTEXT"
    ELSE IF f.atr * RateDen < MinAtrNum * f.price THEN "VOL_TOO_LOW"
    ELSE IF f.atr * RateDen > MaxAtrNum * f.price THEN "VOL_TOO_HIGH"
    ELSE IF ~f.healthy                        THEN "MICROSTRUCTURE_UNHEALTHY"
    ELSE IF f.fast <= f.slow                  THEN "EMA_NOT_BULLISH"
    ELSE "EMA_BULLISH"

(* Mutant: a held position with no reason to exit is tried as an entry.    *)
StrategySignalPyramiding(f, p) ==
    IF p.qty > 0 /\ ExitReason(f, p) # "POSITION_OPEN"
    THEN Signal("SELL", ExitReason(f, p))
    ELSE Signal(IF EntryReason(f) = "EMA_BULLISH" THEN "BUY" ELSE "HOLD",
                EntryReason(f))

(* TrendFollowingStrategy.evaluate                                         *)
StrategySignal(f, p) ==
    IF p.qty > 0
    THEN Signal(IF ExitReason(f, p) = "POSITION_OPEN" THEN "HOLD" ELSE "SELL",
                ExitReason(f, p))
    ELSE Signal(IF EntryReason(f) = "EMA_BULLISH" THEN "BUY" ELSE "HOLD",
                EntryReason(f))
-----------------------------------------------------------------------------
(* A RiskInput is a record: side, entry (price), requested (quantity),     *)
(* equity, dayStart (equity), open (positions), held (quantity), atr.      *)

Verdict(decision, qty, reason) ==
    [decision |-> decision, qty |-> qty, reason |-> reason]

Refused(reason) == Verdict("reject", 0, reason)

(* The larger of stop distance and volatility; not positive means None.    *)
RiskDistance(in) ==
    IF in.atr <= 0 THEN 0 ELSE IF StopMult > 1 THEN in.atr * StopMult ELSE in.atr

(* Mutant: profit and loss the wrong way round.                            *)
GainLimitReached(in) ==
    LET gain == IF in.equity > in.dayStart THEN in.equity - in.dayStart ELSE 0
    IN  gain * RateDen >= LossNum * in.dayStart

LossLimitReached(in) ==
    LET loss == IF in.equity < in.dayStart THEN in.dayStart - in.equity ELSE 0
    IN  loss * RateDen >= LossNum * in.dayStart

(* Mutant: one position too many.                                          *)
PositionLimitExceeded(in) == in.open > MaxOpenPositions

PositionLimitReached(in) == in.open >= MaxOpenPositions

(* Mutant: the quantity is rounded up to the next step.                    *)
AllowedQuantityUp(in) ==
    (((in.equity * RiskNum) \div (RateDen * RiskDistance(in))) \div QuantityStep + 1)
        * QuantityStep

(* size_for_risk: what may be lost on one trade over the distance to its   *)
(* stop, rounded down to a quantity step.                                  *)
AllowedQuantity(in) ==
    (((in.equity * RiskNum) \div (RateDen * RiskDistance(in))) \div QuantityStep)
        * QuantityStep

(* Mutant: the loss limit blocks exits too.                                *)
RiskSellLimited(in) ==
    IF LossLimitReached(in) THEN Refused("DAILY_LOSS_LIMIT")
    ELSE Verdict("approve", in.requested, "EXIT_APPROVED")

RiskSell(in) ==
    IF in.held <= 0 THEN Refused("NO_POSITION_TO_EXIT")
    ELSE IF in.requested > in.held
         THEN Verdict("resize", in.held, "RESIZED_TO_POSITION")
         ELSE Verdict("approve", in.requested, "EXIT_APPROVED")

RiskBuy(in) ==
    IF LossLimitReached(in)                 THEN Refused("DAILY_LOSS_LIMIT")
    ELSE IF PositionLimitReached(in)        THEN Refused("OPEN_POSITION_LIMIT")
    ELSE IF RiskDistance(in) = 0            THEN Refused("INVALID_STOP_OR_VOLATILITY")
    ELSE IF RiskDistance(in) * RateDen < MinStopNum * in.entry
                                            THEN Refused("STOP_DISTANCE_TOO_TIGHT")
    ELSE IF in.atr * TakeMult * RateDen <= EdgeNum * in.entry
                                            THEN Refused("EDGE_BELOW_COSTS")
    ELSE IF AllowedQuantity(in) = 0         THEN Refused("SIZE_BELOW_MINIMUM")
    ELSE IF AllowedQuantity(in) < in.requested
         THEN Verdict("resize", AllowedQuantity(in), "RESIZED_FOR_RISK")
         ELSE Verdict("approve", in.requested, "APPROVED")

(* RiskEngine.evaluate                                                     *)
RiskVerdict(in) ==
    IF in.side \notin {"BUY", "SELL"}             THEN Refused("NON_ACTIONABLE_SIGNAL")
    ELSE IF in.entry <= 0 \/ in.requested <= 0    THEN Refused("INVALID_ORDER_REQUEST")
    ELSE IF in.dayStart <= 0 \/ in.equity <= 0    THEN Refused("INVALID_EQUITY_CONTEXT")
    ELSE IF in.side = "SELL" THEN RiskSell(in) ELSE RiskBuy(in)
=============================================================================
