----------------------------- MODULE MCSignals -----------------------------
(* The reports on signals over a family of histories: two signals of a symbol *)
(* and one of another, and every way the price of the first may move from     *)
(* horizon to horizon.                                                        *)
EXTENDS SignalReports

CONSTANTS alpha, beta

Signal(id, symbol, price) ==
    [id |-> id, time |-> 0, symbol |-> symbol, price |-> price, action |-> "buy",
     fusion |-> "long", blocked |-> FALSE, cost |-> Absent, confidence |-> 40 + 20 * id,
     risk |-> "medium", regime |-> "choppy", horizon |-> 15, trend |-> "bullish",
     sentiment |-> Absent, pattern |-> "trending", scored |-> {"technical"},
     reasons |-> {"breakout"}, blockers |-> {}, level |-> Absent]

\* The other signal of the symbol: of the same kind and falling into a minute, an exit,
\* a blocked purchase, and one that comes ten hours later, when the candles do.
Others == {[Signal(2, alpha, 1010) EXCEPT !.time = 36 * Minute - 10, !.risk = "low"],
           [Signal(2, alpha, 1012) EXCEPT !.action = "sell_exit", !.risk = "high"],
           [Signal(2, alpha, 1001) EXCEPT !.action = "hold", !.blocked = TRUE,
                !.risk = "low", !.cost = 1000, !.blockers = {"spread"}, !.regime = Absent],
           [Signal(2, alpha, 1012) EXCEPT !.action = "avoid", !.fusion = "short",
                !.time = 600 * Minute],
           [Signal(2, alpha, 1000) EXCEPT !.action = "hold"]}
Snapshots(q) == {Signal(1, alpha, 1000), q.other,
                 [Signal(0, beta, 1000) EXCEPT !.level = 990]}

Candle(symbol, minute, price) ==
    [symbol |-> symbol, open |-> Minute * minute, price |-> price,
     high |-> price + 3, low |-> price - 3]
Opens(q) == [i \in 1 .. 5 |->
    IF i = 5 /\ q.other.time = 600 * Minute THEN 1510 ELSE ValidationHorizons[i]]
Candles(q) ==
    {Candle(alpha, Opens(q)[i], q.prices[i]) : i \in 1 .. 5}
    \cup {Candle(alpha, Opens(q)[i] + 30, q.prices[i] + 1) : i \in 1 .. 5}
    \cup {Candle(beta, h, IF h < 20 THEN 988 ELSE 1006) : h \in {5, 15, 60, 240}}

SignalQuestions == [prices : [1 .. 5 -> {985, 1004, 1030}], other : Others]

-----------------------------------------------------------------------------
Values(advice, type) == {a.value : a \in {x \in advice : x.type = type}}

\* What the edge report finds useful is not what the recommendations restrict, what it
\* finds weak they do restrict, and no horizon is both preferred and avoided.
AdviceAgrees(edge, advice) ==
    /\ edge.useful \cap Values(advice, "restrict_symbol") = {}
    /\ edge.weak \subseteq Values(advice, "restrict_symbol")
    /\ edge.reliable \cap Values(advice, "raise_min_confidence") = {}
    /\ edge.avoid \cap {"medium", "high"} \subseteq Values(advice, "tighten_risk_grade")
    /\ Values(advice, "prefer_horizon")
         \subseteq edge.horizons \ Values(advice, "avoid_horizon")
    /\ Cardinality(Values(advice, "prefer_horizon")) <= 1
    /\ Values(advice, "watch_symbol") \cap Values(advice, "restrict_symbol") = {}

\* Every grouping of a report has every outcome once, and all its wins.
AddsUp(groups, outcomes) ==
    /\ SumFunction([k \in DOMAIN groups |-> groups[k].size]) = Cardinality(outcomes)
    /\ SumFunction([k \in DOMAIN groups |-> groups[k].wins]) = Metric(outcomes).wins
GroupsAddUp(report, outcomes) ==
    /\ AddsUp(report.action, outcomes) /\ AddsUp(report.risk, outcomes)
    /\ AddsUp(report.bucket, outcomes) /\ AddsUp(report.symbol, outcomes)
    /\ AddsUp([h \in DOMAIN report.horizons |-> report.horizons[h].metric], outcomes)

\* The verdict on a signal is the same whatever other signals the query selects with
\* it, but for two things. With an earlier signal of its symbol, the candle it falls
\* into is looked at as well: its excursions can only be larger. And with a later one,
\* it is also judged by candles that come more than 25 hours after it, where there are
\* none before.
Judgement(o) == [horizon |-> o.horizon, directional |-> o.directional,
                 return |-> o.return, correct |-> o.correct, survived |-> o.survived]
SeesMore(more, o) ==
    /\ Judgement(more) = Judgement(o)
    /\ more.favorable >= o.favorable /\ more.adverse <= o.adverse
    /\ o.invalidated => more.invalidated
FallsIntoACandle(s, candles) == \E c \in candles :
    c.symbol = s.symbol /\ c.open < s.time /\ ClosesAfter(c, s.time)

JudgedAlone(snapshots, candles, outcomes) == \A s \in snapshots :
    LET alone == Outcomes({s}, Loaded(candles, {s}))
        together == {o \in outcomes : o.signal = s}
    IN /\ \A o \in alone : \E more \in together : SeesMore(more, o)
       /\ \A more \in together :
            \/ \E o \in alone : SeesMore(more, o)
            \/ Later(Loaded(candles, {s}), s, more.horizon) = {}
       /\ FallsIntoACandle(s, candles) \/ alone \subseteq together

\* Setups are called promising only where they gain on some horizon, the best.
SetupsAgree(snapshots, candles) ==
    \A symbol \in {alpha, beta} :
        LET report == SimilarToLatest(snapshots, symbol, candles, Absent)
        IN /\ \A h \in DOMAIN report.horizons :
                Measured(report.horizons[h]) => report.best \in DOMAIN report.horizons
           /\ report.reliability \in {"strong", "promising"} =>
                Gains(report.horizons[report.best])

AgreeOn(snapshots, stored) ==
    LET candles == Loaded(stored, snapshots)
    IN \E outcomes \in {Outcomes(snapshots, candles)} :
         /\ Cardinality(Directional(outcomes)) >= MinSamples =>
              AdviceAgrees(EdgeReport(outcomes), Recommendations(outcomes))
         /\ GroupsAddUp(ValidationReport(snapshots, outcomes), outcomes)
         /\ JudgedAlone(snapshots, stored, outcomes)
         /\ SetupsAgree(snapshots, candles)
SignalReportsAgree(q) == AgreeOn(Snapshots(q), Candles(q))
=============================================================================
