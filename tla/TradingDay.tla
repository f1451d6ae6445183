----------------------------- MODULE TradingDay -----------------------------
(***************************************************************************)
(* The runner over several UTC days.  Nothing in the code reads the        *)
(* calendar: the day changes around a runner that lives on, and the equity *)
(* the loss limit is measured from is the one taken when it was first      *)
(* needed.                                                                 *)
(***************************************************************************)
EXTENDS StrategyRunner

CONSTANT LastDay        \* bound: days lived through

VARIABLES
    today,              \* the UTC day
    baselineDay         \* the day dayStart was taken on; NoEquity before

dayVars == <<vars, today, baselineDay>>

DayInit == Init /\ today = 0 /\ baselineDay = NoEquity

Midnight ==
    /\ today < LastDay
    /\ today' = today + 1
    /\ UNCHANGED <<vars, baselineDay>>

Trading ==
    /\ Next
    /\ baselineDay' = IF dayStart = NoEquity /\ dayStart' # NoEquity
                      THEN today ELSE baselineDay
    /\ UNCHANGED today

DayNext == Midnight \/ Trading

DaySpec == DayInit /\ [][DayNext]_dayVars

(* The loss that blocks new entries is the loss of the day: whatever is    *)
(* bought was judged against the equity this day started with.             *)
LossLimitIsDaily ==
    [][(\E s \in Symbols : Bought(s)) => baselineDay' = today]_dayVars
=============================================================================
