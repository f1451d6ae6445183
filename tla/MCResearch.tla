----------------------------- MODULE MCResearch -----------------------------
(* The outcomes of signals, the tuning of profiles, the decisions of the      *)
(* scanners and the reports for TLC. Each behaviour looks at one of them      *)
(* while the others rest; a decision or a report is a behaviour of a single   *)
(* state.                                                                     *)
EXTENDS Outcomes, TuningSets

CONSTANTS btc, eth,
          DayLength     \* a UTC day

VARIABLES focus, question

Scan == INSTANCE MCDecisions WITH Unknown <- None
Trades == INSTANCE MCReports WITH All <- None, alpha <- btc, beta <- eth
Signals == INSTANCE MCSignals WITH Absent <- None, alpha <- btc, beta <- eth

GrainLengths == <<2, 1>>
ScannerOrder == <<1, 2>>

\* A purchase the heatmap talked out of, the same without a price, a short candidate.
Purchase == [priced |-> TRUE, source |-> "assistant", type |-> "BUY", base |-> "BUY",
             heat |-> "WAIT", heatBias |-> "none", sweepRisk |-> "none",
             bias |-> "downside_sweep_risk"]
ShortRow == [priced |-> TRUE, source |-> "scan", direction |-> "short",
             takeProfit |-> 985, stopLoss |-> 1010]
Kinds == {Purchase, [Purchase EXCEPT !.priced = FALSE], ShortRow}

\* Up past the profit and then down past the loss, or the other way round.
Start == 6
Moves(first, second) == [t \in 0 .. MaxTime |->
    IF t <= Start THEN 1000 ELSE IF t = Start + 1 THEN first ELSE second]
PricePaths == {Moves(1016, 1008), Moves(1011, 984)}

Sale(id, profile, session, pnl) ==
    [id |-> id, time |-> id, profile |-> profile, session |-> session,
     side |-> "SELL", status |-> "executed", pnl |-> pnl]
Event(id, profile, codes) ==
    [id |-> id, profile |-> profile, session |-> 0, codes |-> codes]
Sales == {Sale(1, "balanced", 0, -100), Sale(2, "balanced", 0, 40),
          Sale(3, "balanced", 1, -30)}
Calm == [current |-> 0, worst |-> 100]
Fee == [id |-> 1, profile |-> "balanced", session |-> 0, fee |-> 90]
Quiet == {Event(n, "aggressive", <<"VOL_TOO_LOW", "REGIME_NOT_TREND">>) : n \in 1 .. 3}
Observations ==
    {[trades |-> Sales, fills |-> {}, drawdown |-> Calm, events |-> {}],
     [trades |-> Sales, fills |-> {Fee}, drawdown |-> Calm, events |-> {}],
     [trades |-> {}, fills |-> {}, drawdown |-> Calm, events |-> Quiet]}

ASSUME ResearchAssumption == Start <= MaxTime
ASSUME ReportsAssumption ==
    DayLength \in Nat \ {0} /\ None \notin {btc, eth} /\ btc # eth

ResearchInit ==
    /\ \/ focus \in {"outcomes", "tuning"} /\ question = None
       \/ focus = "decisions" /\ question \in Scan!Questions
       \/ focus = "trades" /\ question \in Trades!TradeQuestions
       \/ focus = "signals" /\ question \in Signals!SignalQuestions
    /\ now = Start
    /\ OutcomesInit /\ TuningInit

Only(part) == focus = part /\ UNCHANGED <<focus, question, now>>

OutcomesStep == Only("outcomes") /\ OutcomesNext /\ UNCHANGED tuningVars
TuningStep == Only("tuning") /\ TuningNext /\ UNCHANGED outcomeVars
TimePasses == /\ focus = "outcomes" /\ Tick
              /\ UNCHANGED <<focus, question, outcomeVars, tuningVars>>

ResearchNext == OutcomesStep \/ TuningStep \/ TimePasses
researchVars == <<focus, question, now, outcomeVars, tuningVars>>

\* The service runs every minute of its life and the validation report is asked for
\* now and then; an evaluation that has begun goes on.
ResearchSpec == ResearchInit /\ [][ResearchNext]_researchVars
    /\ WF_now(TimePasses)
    /\ \A e \in {"service", "scanner"} :
         /\ WF_evaluating(Only("outcomes") /\ BeginEvaluation(e))
         /\ WF_evaluating(Only("outcomes") /\ Judge(e))
         /\ WF_evaluating(Only("outcomes") /\ Write(e))

\* Every signal ends up judged for every horizon that has passed, through
\* evaluations that raise and stale ones that write "pending" over a verdict; and a
\* candidate of a scan that was looked at too early is looked at again and judged.
SignalsGetSettled == <>[](focus = "outcomes" => AllSettled /\ ScansSeeTheHistory)

\* Whatever the market, no scanner shows a candidate of high risk, with its stop on
\* the wrong side, or one that a more careful trader but not a bolder one would see.
CandidatesAreSound ==
    focus = "decisions" =>
        /\ Scan!FuturesQuestion(question)
        /\ ~question.sold /\ question.position.funding = None
             => Scan!SpotQuestion(question)

\* The reports on the same history agree: a position opened before the range of a
\* query and closed in it is a closed trade of every page, the pages of adjoining
\* ranges add up, no signal is judged differently for the signals it is asked for
\* with (but for what is said of the candle it falls into, and beyond a day without
\* candles), and what one report finds useful the other does not tell the user to
\* restrict.
ReportsAgree ==
    /\ focus = "trades" => Trades!TradeReportsAgree(question)
    /\ focus = "signals" => Signals!SignalReportsAgree(question)
=============================================================================
