---------------------------- MODULE OutcomeRules ----------------------------
(* How a stored signal is judged against the candles that came after it:      *)
(* evaluate_signal_outcome of app/monitoring/signal_outcomes.py and           *)
(* evaluate_scanner_snapshot_outcome of scanner_validation_report.py.         *)
(*                                                                            *)
(* Time is in minutes. A candle is [open, grain], its length Grains[grain];   *)
(* the price at every minute is the market path m, and a candle shows the     *)
(* highest, the lowest and the last price of its minutes. A close time is a   *)
(* millisecond before the next candle opens.                                  *)
EXTENDS Rounding, Sequences, FiniteSetsExt

CONSTANTS Grains,      \* candle lengths, in the order of the intervals' names
          SearchOrder, \* grains in the order the scanner tries them: 15m, 1h, 1m
          Lookahead,   \* one hour
          None         \* a model value: no price, no direction to be right about
ASSUME GrainAssumption == /\ Lookahead \in Nat
                          /\ Grains \in Seq(Nat \ {0})
                          /\ SearchOrder \in Seq(DOMAIN Grains)

EndOf(c) == c.open + Grains[c.grain]
ClosesFrom(c, time) == EndOf(c) > time
High(c, m) == Max({m[t] : t \in c.open .. EndOf(c)})
Low(c, m) == Min({m[t] : t \in c.open .. EndOf(c)})
Close(c, m) == m[EndOf(c)]

\* By close time, then by the interval's name.
Earlier(c, d) ==
    \/ EndOf(c) < EndOf(d)
    \/ EndOf(c) = EndOf(d) /\ c.grain < d.grain
First(S) == CHOOSE c \in S : \A d \in S \ {c} : Earlier(c, d)

Percent(entry, price) == HalfUp((price - entry) * 1000000, entry)  \* 0.0001 per cent
Optional(S, Choice(_)) == IF S = {} THEN "none" ELSE Choice(First(S))

-----------------------------------------------------------------------------
(* Post-signal outcomes. A signal's type is normalised to BUY, SELL, AVOID or *)
(* WAIT; heat is the type the heatmap turned it into.                          *)

Empty(state, at) == [state |-> state, at |-> at]

DirectionCorrect(type, entry, price) ==
    CASE type = "BUY" -> price > entry
      [] type = "SELL" -> price < entry
      [] OTHER -> None

\* A candle that touches both levels counts as a loss.
Hit(c, s, m) ==
    LET up == High(c, m) * 1000   down == Low(c, m) * 1000
        sl == IF s.type = "BUY" THEN down <= s.entry * 990 ELSE up >= s.entry * 1010
        tp == IF s.type = "BUY" THEN up >= s.entry * 1015 ELSE down <= s.entry * 985
    IN IF sl THEN "stop_loss" ELSE IF tp THEN "take_profit" ELSE "none"
FirstHit(window, s, m) ==
    LET touching == {c \in window : Hit(c, s, m) # "none"}
    IN IF s.type \notin {"BUY", "SELL"} \/ touching = {} THEN "none"
       ELSE Hit(First(touching), s, m)

\* A quarter of a per cent on either side; the farther one when a candle shows both.
Sweeps(c, entry, m) ==
    LET up == High(c, m) * 10000 >= entry * 10025
        down == Low(c, m) * 10000 <= entry * 9975
    IN CASE up /\ down -> IF High(c, m) - entry >= entry - Low(c, m) THEN "up" ELSE "down"
         [] up -> "up" [] down -> "down" [] OTHER -> "none"
ActualSweep(window, entry, m) ==
    Optional({c \in window : Sweeps(c, entry, m) # "none"}, LAMBDA c : Sweeps(c, entry, m))

PredictedSweep(s) ==
    CASE s.heatBias = "downside_sweep" -> "down"
      [] s.heatBias = "upside_squeeze" -> "up"
      [] s.sweepRisk = "downside_sweep" \/ s.bias = "downside_sweep_risk" -> "down"
      [] s.sweepRisk = "upside_sweep" \/ s.bias = "upside_squeeze_risk" -> "up"
      [] OTHER -> "none"

HeatmapImproved(base, heat) ==
    IF None \in {base, heat} THEN None ELSE heat /\ ~base
HeatmapReducedLoss(s, base, heat, moved) ==
    CASE base = None -> None
      [] base = TRUE -> FALSE
      [] OTHER -> \/ heat = TRUE
                  \/ s.heat \in {"WAIT", "AVOID"} /\ s.base \in {"BUY", "SELL"} /\ moved

OutcomeState(correct) ==
    IF correct = None THEN "neutral" ELSE IF correct THEN "win" ELSE "loss"

\* Mutant: any candle of the window decides.
DecidingAnyhow(window, target) == window
Deciding(window, target) == {c \in window : ClosesFrom(c, target)}

\* The candles of every interval that opened between the signal and its horizon.
SignalWindow(candles, s, target) ==
    {c \in candles : s.time <= c.open /\ c.open <= target}

JudgeSignal(s, horizon, at, window, m) ==
    LET target == s.time + horizon
        deciding == Deciding(window, target)
    IN CASE at < target -> Empty("pending", at)
         [] at >= target /\ (s.entry = None \/ deciding = {}) ->
              Empty("insufficient_data", at)
         [] OTHER ->
              LET price == Close(First(deciding), m)
                  hit == FirstHit(window, s, m)
                  base == DirectionCorrect(s.base, s.entry, price)
                  heat == DirectionCorrect(s.heat, s.entry, price)
                  swept == ActualSweep(window, s.entry, m)
              IN [state |-> OutcomeState(base), at |-> at, by |-> EndOf(First(deciding)),
                  change |-> Percent(s.entry, price),
                  upside |-> Percent(s.entry, Max({High(c, m) : c \in window})),
                  downside |-> Percent(s.entry, Min({Low(c, m) : c \in window})),
                  hit |-> hit, correct |-> base, heatCorrect |-> heat,
                  swept |-> swept,
                  sweepCorrect |-> IF PredictedSweep(s) = "none" THEN None
                                   ELSE swept = PredictedSweep(s),
                  improved |-> HeatmapImproved(base, heat),
                  reduced |-> HeatmapReducedLoss(s, base, heat, price # s.entry)]

-----------------------------------------------------------------------------
(* Scanner validation: long, short or neutral, net of fees and slippage.      *)

Costs == 1200   \* ESTIMATED_FEE_PCT + ESTIMATED_SLIPPAGE_PCT

GrossReturn(s, price) ==
    IF s.direction = "long" THEN Percent(s.entry, price)
    ELSE -Percent(s.entry, price)

\* The first interval that has a candle closing at the horizon or later.
GrainWindow(candles, s, target, g) ==
    {c \in candles : /\ c.grain = g
                     /\ s.time - 1 <= c.open /\ c.open <= target + Lookahead}
ScannerWindow(candles, s, target) ==
    LET useful == {i \in DOMAIN SearchOrder :
            Deciding(GrainWindow(candles, s, target, SearchOrder[i]), target) # {}}
    IN IF useful = {} THEN {}
       ELSE GrainWindow(candles, s, target, SearchOrder[Min(useful)])

Favorable(s, window, m) ==
    IF s.direction = "long" THEN Percent(s.entry, Max({High(c, m) : c \in window}))
    ELSE -Percent(s.entry, Min({Low(c, m) : c \in window}))
Adverse(s, window, m) ==
    IF s.direction = "long" THEN Percent(s.entry, Min({Low(c, m) : c \in window}))
    ELSE -Percent(s.entry, Max({High(c, m) : c \in window}))

Reaches(c, s, level, m, profit) ==
    /\ level # None
    /\ IF (s.direction = "long") = profit THEN High(c, m) >= level ELSE Low(c, m) <= level
FirstExit(s, window, m) ==
    LET tp(c) == Reaches(c, s, s.takeProfit, m, TRUE)
        sl(c) == Reaches(c, s, s.stopLoss, m, FALSE)
    IN Optional({c \in window : tp(c) \/ sl(c)},
           LAMBDA c : IF tp(c) /\ sl(c) THEN "both_same_candle"
                      ELSE IF tp(c) THEN "take_profit" ELSE "stop_loss")

\* The verdict on the price at the close of the candle that decides.
ScannerOutcome(s, at, window, by, m) ==
    LET net == GrossReturn(s, m[by]) - Costs
    IN [state |-> IF net > 0 THEN "win" ELSE IF net < 0 THEN "loss" ELSE "neutral",
        at |-> at, by |-> by, net |-> net,
        favorable |-> Favorable(s, window, m), adverse |-> Adverse(s, window, m),
        takeProfit |-> \E c \in window : Reaches(c, s, s.takeProfit, m, TRUE),
        stopLoss |-> \E c \in window : Reaches(c, s, s.stopLoss, m, FALSE),
        exit |-> FirstExit(s, window, m)]

JudgeScanner(s, horizon, at, window, m) ==
    LET target == s.time + horizon
    IN CASE at < target -> Empty("pending", at)
         [] at >= target /\ (s.entry = None \/ window = {}) ->
              Empty("insufficient_data", at)
         [] at >= target /\ s.entry # None /\ window # {} /\ s.direction = "neutral" ->
              Empty("neutral", at)
         [] OTHER -> ScannerOutcome(s, at, window, EndOf(First(Deciding(window, target))), m)
=============================================================================
