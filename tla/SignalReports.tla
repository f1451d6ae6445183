---------------------------- MODULE SignalReports ----------------------------
(* The reports on stored signals: app/monitoring/signal_validation.py,        *)
(* similar_setups.py and adaptive_recommendations.py over the snapshots and   *)
(* 1m candles the dashboard's endpoints load for them.                        *)
(*                                                                            *)
(* A snapshot is [id, time, symbol, price, action, fusion, blocked, cost,     *)
(* confidence, risk, regime, horizon, trend, sentiment, pattern, scored,      *)
(* reasons, blockers, level], a candle [symbol, open, price, high, low].      *)
(* Time is in seconds, horizons in minutes, percentages in units of 0.0001    *)
(* per cent, prices are positive. A signal falls anywhere into a minute; a    *)
(* candle opens with its minute and closes a millisecond before it is over.   *)
EXTENDS Rounding, SequencesExt

CONSTANT Absent \* a model value: nothing stored or asked for

ValidationHorizons == <<5, 15, 60, 240, 1440>>
MinReportSamples == 5
DefaultCost == 2000
Minute == 60

-----------------------------------------------------------------------------
(* What an endpoint loads. A query is a record of the attributes it asks for; *)
(* Absent asks for anything.                                                  *)

Bucket(confidence) ==
    IF confidence >= 70 THEN "high" ELSE IF confidence >= 45 THEN "medium" ELSE "low"
Asked(query, value) == query \in {Absent, value}
Selected(snapshots, query) ==
    {s \in snapshots : /\ Asked(query.symbol, s.symbol) /\ Asked(query.action, s.action)
                       /\ Asked(query.risk, s.risk) /\ Asked(query.regime, s.regime)
                       /\ Asked(query.bucket, Bucket(s.confidence))}

\* For every symbol: from its first signal to 25 hours after its last.
Loaded(candles, snapshots) ==
    {c \in candles :
        /\ \E s \in snapshots : s.symbol = c.symbol /\ s.time <= c.open
        /\ \E s \in snapshots : s.symbol = c.symbol /\ c.open <= s.time + 1500 * Minute}

-----------------------------------------------------------------------------
(* The outcome of a signal on a horizon.                                      *)

Bearish == {"short", "exit_short", "reduce_risk"}
Direction(s) ==
    CASE s.action = "buy" -> 1
      [] s.action = "sell_exit" -> -1
      [] OTHER -> IF s.blocked /\ s.fusion = "long" THEN 1
                  ELSE IF (s.blocked \/ s.action = "avoid") /\ s.fusion \in Bearish THEN -1
                  ELSE 0
Actionable(s) == s.action \in {"buy", "sell_exit"} /\ ~s.blocked

ClosesAfter(c, time) == c.open + Minute > time
Later(candles, s, horizon) ==
    {c \in candles : c.symbol = s.symbol /\ ClosesAfter(c, s.time + Minute * horizon)}
\* The candles of the horizon, and the first one that closes when it is over.
Earliest(candles) == {c \in candles : \A d \in candles : c.open <= d.open}
Deciding(candles, s, horizon) == CHOOSE c \in Earliest(Later(candles, s, horizon)) : TRUE
Window(candles, s, horizon) ==
    {c \in candles : c.symbol = s.symbol /\ ClosesAfter(c, s.time)
                     /\ ~ClosesAfter(c, s.time + Minute * horizon)}
    \cup {Deciding(candles, s, horizon)}

Return(s, price) == HalfUp(1000000 * (price - s.price), s.price)
Survives(s, price) ==
    LET cost == IF s.cost = Absent THEN DefaultCost ELSE s.cost
    IN Direction(s) # 0 /\ Direction(s) * 1000000 * (price - s.price) > cost * s.price

Judged(s, horizon, price, window) ==
    LET high == Max({c.high : c \in window})   low == Min({c.low : c \in window})
        d == Direction(s)
    IN [signal |-> s, horizon |-> horizon, directional |-> d # 0,
        return |-> d * Return(s, price), correct |-> d * (price - s.price) > 0,
        favorable |-> CASE d = 1 -> Max({0, Return(s, high)})
                        [] d = -1 -> Max({0, -Return(s, low)})
                        [] d = 0 -> Abs(Return(s, price)),
        adverse |-> CASE d = 1 -> Min({0, Return(s, low)})
                      [] d = -1 -> Min({0, -Return(s, high)})
                      [] d = 0 -> 0,
        survived |-> Survives(s, price),
        invalidated |-> /\ s.level # Absent
                        /\ (d = 1 /\ low <= s.level) \/ (d = -1 /\ high >= s.level)]
Outcome(s, horizon, candles) ==
    Judged(s, horizon, Deciding(candles, s, horizon).price, Window(candles, s, horizon))

\* Signals are judged on every horizon the candles reach beyond.
Outcomes(snapshots, candles) ==
    {Outcome(p[1], p[2], candles) :
        p \in {q \in snapshots \X ToSet(ValidationHorizons) : Later(candles, q[1], q[2]) # {}}}
Chosen(outcomes, horizon) == {o \in outcomes : Asked(horizon, o.horizon)}
Directional(outcomes) == {o \in outcomes : o.directional}

-----------------------------------------------------------------------------
(* Groups of outcomes and their measured edge.                                *)

Metric(outcomes) ==
    LET judged == Directional(outcomes)
    IN [size |-> Cardinality(outcomes), judged |-> Cardinality(judged),
        wins |-> Cardinality({o \in judged : o.survived}),
        sum |-> SumFunction([o \in judged |-> o.return])]
Measured(m) == m.judged > 0
WinRate(m) == HalfUp(1000000 * m.wins, m.judged)
FalsePositives(m) == HalfUp(1000000 * (m.judged - m.wins), m.judged)
Expectancy(m) == HalfUp(m.sum, m.judged)

Grouped(outcomes, key) ==
    [k \in {key[o] : o \in outcomes} |-> Metric({o \in outcomes : key[o] = k})]
Reasons(outcomes) ==
    [r \in UNION {o.signal.reasons : o \in outcomes} |->
        Metric({o \in outcomes : r \in o.signal.reasons})]
BlockersOf(outcomes) ==
    [b \in UNION {o.signal.blockers : o \in outcomes} |->
        Metric({o \in outcomes : b \in o.signal.blockers})]

PositiveEdge(m) ==
    m.size >= MinReportSamples /\ Measured(m) /\ Expectancy(m) > 0 /\ WinRate(m) >= 450000
NegativeEdge(m) == m.size >= MinReportSamples /\ Measured(m) /\ Expectancy(m) < 0
Gains(m) == Measured(m) /\ Expectancy(m) > 0
Loses(m) == Measured(m) /\ Expectancy(m) < 0
Useful(groups) == {k \in DOMAIN groups : PositiveEdge(groups[k])}
Weak(groups) == {k \in DOMAIN groups : NegativeEdge(groups[k])}
Gaining(groups) == {k \in DOMAIN groups : Gains(groups[k])}
Losing(groups) == {k \in DOMAIN groups : Loses(groups[k])}

\* One horizon of a report, with the breakouts that failed and the confidence of
\* winners and losers.
Mean(value) ==
    IF DOMAIN value = {} THEN "none" ELSE HalfUp(SumFunction(value), Cardinality(DOMAIN value))
HorizonMetric(outcomes) ==
    LET judged == Directional(outcomes)
        wins == {o \in judged : o.survived}
        breakouts == {o \in judged : "breakout" \in o.signal.reasons}
    IN [metric |-> Metric(outcomes),
        favorable |-> Mean([o \in outcomes |-> o.favorable]),
        adverse |-> Mean([o \in outcomes |-> o.adverse]),
        falseBreakouts |-> Mean([o \in breakouts |-> IF o.survived THEN 0 ELSE 1000000]),
        winners |-> Mean([o \in wins |-> 10000 * o.signal.confidence]),
        losers |-> Mean([o \in judged \ wins |-> 10000 * o.signal.confidence])]
ByHorizon(outcomes) ==
    [h \in ToSet(ValidationHorizons) |-> Metric({o \in outcomes : o.horizon = h})]

BySymbol(outcomes) == Grouped(outcomes, [o \in outcomes |-> o.signal.symbol])
ByAction(outcomes) == Grouped(outcomes, [o \in outcomes |-> o.signal.action])
ByRisk(outcomes) == Grouped(outcomes, [o \in outcomes |-> o.signal.risk])
ByBucket(outcomes) == Grouped(outcomes, [o \in outcomes |-> Bucket(o.signal.confidence)])

-----------------------------------------------------------------------------
(* GET /performance/signal-validation, /edge-report and /module-attribution.  *)

ValidationReport(snapshots, outcomes) ==
    [ready |-> outcomes # {}, total |-> Cardinality(snapshots),
     actionable |-> Cardinality({s \in snapshots : Actionable(s)}),
     blocked |-> Cardinality({s \in snapshots : s.blocked}),
     horizons |-> [h \in ToSet(ValidationHorizons) |->
                     HorizonMetric({o \in outcomes : o.horizon = h})],
     action |-> ByAction(outcomes), risk |-> ByRisk(outcomes),
     bucket |-> ByBucket(outcomes), symbol |-> BySymbol(outcomes)]

Layers == {"technical", "sentiment", "pattern"}
OfLayer(outcomes, layer) == {o \in outcomes : layer \in o.signal.scored}
NoisyLayers(outcomes) == {l \in Layers : NegativeEdge(Metric(OfLayer(outcomes, l)))}

EdgeSuggestions(judged, blockers) ==
    LET bucket == ByBucket(judged)   horizons == ByHorizon(judged)
        gaining == Gaining(horizons)
        best == CHOOSE h \in gaining : \A g \in gaining :
            \/ Expectancy(horizons[h]) > Expectancy(horizons[g])
            \/ Expectancy(horizons[h]) = Expectancy(horizons[g]) /\ h <= g
        known(k) == k \in DOMAIN blockers /\ blockers[k].size >= MinReportSamples
    IN {<<"raise_confidence", b>> : b \in Weak(bucket) \cap {"low"}}
       \cup {<<"prioritize", b>> : b \in Useful(bucket) \cap {"high"}}
       \cup {<<"avoid_risk", r>> : r \in Weak(ByRisk(judged)) \cap {"high"}}
       \cup (IF gaining = {} THEN {} ELSE {<<"prefer_horizon", best>>})
       \cup {<<"pause_symbol", s>> : s \in Weak(BySymbol(judged))}
       \cup {<<"review_blocker", b>> : b \in {k \in Gaining(blockers) : known(k)}}
       \cup {<<"keep_blocker", b>> : b \in {k \in Losing(blockers) : known(k)}}
       \cup {<<"reduce_reliance", l>> : l \in NoisyLayers(judged)}

\* Five outcomes are enough, though one signal has as many.
EdgeReady(outcomes) == Cardinality(Directional(outcomes)) >= MinReportSamples
EdgeReport(outcomes) ==
    LET judged == Directional(outcomes)
    IN [useful |-> Useful(BySymbol(judged)),
        weak |-> Weak(BySymbol(judged)),
        horizons |-> Gaining(ByHorizon(judged)),
        reliable |-> Useful(ByBucket(judged)),
        avoid |-> Weak(ByRisk(judged)),
        usefulReasons |-> Useful(Reasons(judged)),
        noisyReasons |-> Weak(Reasons(judged)),
        protective |-> Losing(BlockersOf(outcomes)),
        noisy |-> NoisyLayers(judged),
        suggestions |-> EdgeSuggestions(judged, BlockersOf(outcomes))]

\* Every signal has a confidence, so all count for the advisory layer.
ModuleAttribution(judged) ==
    [l \in Layers \cup {"ai_advisory"} |->
        Metric(IF l = "ai_advisory" THEN judged ELSE OfLayer(judged, l))]

-----------------------------------------------------------------------------
(* GET /performance/similar-setups.                                           *)

Descriptor(s) ==
    [symbol |-> s.symbol, action |-> s.action, bucket |-> Bucket(s.confidence),
     risk |-> s.risk, regime |-> s.regime, horizon |-> s.horizon, trend |-> s.trend,
     sentiment |-> s.sentiment, pattern |-> s.pattern,
     blocker |-> IF s.blocked \/ s.blockers # {} THEN "blocked" ELSE "clear"]
Points == [symbol |-> 3, action |-> 4, bucket |-> 2, risk |-> 2, regime |-> 3, horizon |-> 1,
           trend |-> 2, sentiment |-> 1, pattern |-> 1, blocker |-> 2]
Known(setup) == {a \in DOMAIN setup : setup[a] # Absent}
Agreeing(setup, other) == {a \in Known(setup) : setup[a] = other[a]}
Similarity(setup, other) == SumFunction([a \in Agreeing(setup, other) |-> Points[a]])
LeastSimilarity(setup) == IF Cardinality(Known(setup)) >= 7 THEN 9 ELSE 6

\* A query that describes nothing but a symbol is about its latest signal.
Latest(snapshots, symbol) ==
    LET mine == {s \in snapshots : Asked(symbol, s.symbol)}
    IN CHOOSE s \in mine : \A t \in mine : s.time > t.time \/ (s.time = t.time /\ s.id >= t.id)
Similar(snapshots, setup) ==
    {s \in snapshots : Similarity(setup, Descriptor(s)) >= LeastSimilarity(setup)}

Reliability(m) ==
    LET n == m.judged   won == WinRate(m)   edge == Expectancy(m) IN
    IF n < 3 THEN "insufficient_data"
    ELSE IF n >= 10 /\ won >= 600000 /\ edge > 0 THEN "strong"
    ELSE IF n >= 5 /\ won >= 550000 /\ edge > 0 THEN "promising"
    ELSE IF edge < 0 \/ won < 450000 THEN "weak" ELSE "mixed"

\* The largest expectancy, then the larger sample, then the shorter horizon; an
\* expectancy of exactly 0 counts as none.
Worth(m) == IF Expectancy(m) = 0 THEN -9990000 ELSE Expectancy(m)
Ahead(horizons, g, h) ==
    \/ Worth(horizons[g]) > Worth(horizons[h])
    \/ /\ Worth(horizons[g]) = Worth(horizons[h])
       /\ \/ horizons[g].judged > horizons[h].judged
          \/ horizons[g].judged = horizons[h].judged /\ g < h
BestHorizon(horizons) ==
    LET measured == {h \in DOMAIN horizons : Measured(horizons[h])}
    IN IF measured = {} THEN Absent
       ELSE CHOOSE h \in measured : \A g \in measured : ~Ahead(horizons, g, h)

SimilarReport(setup, snapshots, candles, horizon) ==
    LET matched == Similar(snapshots, setup)
        judged == Directional(Chosen(Outcomes(matched, candles), horizon))
        horizons == ByHorizon(judged)
    IN [reliability |-> Reliability(Metric(judged)), size |-> Cardinality(judged),
        horizons |-> horizons, best |-> BestHorizon(horizons),
        matched |-> UNION {Agreeing(setup, Descriptor(s)) : s \in matched}]
SimilarToLatest(snapshots, symbol, candles, horizon) ==
    LET latest == Latest(snapshots, symbol)
    IN SimilarReport(Descriptor(latest), snapshots \ {latest}, candles, horizon)

-----------------------------------------------------------------------------
(* GET /performance/adaptive-recommendations.                                 *)

MinSamples == 6
MinGroup == 3

\* Mutant: half of the signals failing is reason enough to restrict them.
NegativeWhenEven(m) ==
    m.size >= MinGroup /\ Measured(m) /\ (Expectancy(m) < 0 \/ FalsePositives(m) >= 500000)
Negative(m) ==
    m.size >= MinGroup /\ Measured(m) /\ (Expectancy(m) < 0 \/ FalsePositives(m) >= 600000)
Positive(m) == Measured(m) /\ Expectancy(m) > 5000 /\ WinRate(m) >= 550000
StrongPositive(m) ==
    m.size >= MinSamples /\ Measured(m) /\ Expectancy(m) > 7500 /\ WinRate(m) >= 650000
WatchOnly(m) == Measured(m) /\ Expectancy(m) \in 0 .. 2500 /\ FalsePositives(m) >= 450000
NeedsConfirmation(m) == FalsePositives(m) >= 450000 \/ Expectancy(m) <= 2500
Strength(m) ==
    IF StrongPositive(m) THEN "strong" ELSE IF Positive(m) THEN "promising"
    ELSE IF Negative(m) THEN "weak" ELSE "mixed"

Failing(groups) == {k \in DOMAIN groups : Negative(groups[k])}
Large(groups) == [k \in {g \in DOMAIN groups : groups[g].size >= MinGroup} |-> groups[k]]
Advice(type, scope, value, strength) ==
    [type |-> type, scope |-> scope, value |-> value, strength |-> strength]
Advise(values, type, scope, strength) == {Advice(type, scope, v, strength) : v \in values}

ConfidenceAdvice(judged) ==
    Advise(Failing(Large(ByBucket(judged))) \cap {"low", "medium"},
           "raise_min_confidence", "confidence_bucket", "weak")
    \cup (IF StrongPositive(Metric({o \in judged : o.signal.blocked}))
          THEN {Advice("lower_min_confidence", "global", "minimum_confidence", "strong")} ELSE {})

RegimeAdvice(judged) ==
    LET known == {o \in judged : o.signal.regime # Absent}
        groups == Large(Grouped(known, [o \in known |-> o.signal.regime]))
    IN Advise(Failing(groups), "avoid_regime", "regime", "weak")
       \cup Advise({r \in DOMAIN groups \cap {"choppy", "high_volatility"} :
                      NeedsConfirmation(groups[r])},
                   "require_confirmation", "regime", "mixed")

\* The best horizon is preferred when it is ahead of the next by half a per cent.
PreferredHorizons(groups) ==
    LET positive == {h \in DOMAIN groups : Positive(groups[h])}
    IN {h \in positive : \A g \in positive \ {h} :
            Expectancy(groups[h]) - Expectancy(groups[g]) >= 5000}
HorizonAdvice(judged) ==
    LET groups == Large(Grouped(judged, [o \in judged |-> o.horizon]))
    IN Advise(Failing(groups), "avoid_horizon", "horizon", "weak")
       \cup {Advice("prefer_horizon", "horizon", h, Strength(groups[h])) :
                h \in PreferredHorizons(groups)}

SymbolAdvice(judged) ==
    LET groups == Large(BySymbol(judged))   bad == Failing(groups)
    IN Advise(bad, "restrict_symbol", "symbol", "weak")
       \cup Advise({s \in DOMAIN groups \ bad : WatchOnly(groups[s])},
                   "watch_symbol", "symbol", "mixed")
ActionAdvice(judged) ==
    Advise(Failing(Large(ByAction(judged))) \cap {"buy", "sell_exit"},
           "restrict_action_type", "action_type", "weak")
RiskAdvice(judged) ==
    LET groups == Large(ByRisk(judged))
    IN Advise(Failing(groups) \cap {"medium", "high"},
              "tighten_risk_grade", "risk_grade", "weak")
       \cup Advise({r \in DOMAIN groups : StrongPositive(groups[r])} \cap {"low"},
                   "loosen_risk_grade", "risk_grade", "strong")
BlockerAdvice(judged) ==
    Advise(Failing(BlockersOf(judged)), "keep_current_settings", "global", "promising")

Recommendations(outcomes) ==
    LET judged == Directional(outcomes)
        found == ConfidenceAdvice(judged) \cup RegimeAdvice(judged) \cup HorizonAdvice(judged)
                 \cup SymbolAdvice(judged) \cup ActionAdvice(judged) \cup RiskAdvice(judged)
                 \cup BlockerAdvice(judged)
    IN IF Cardinality(judged) < MinSamples
       THEN {Advice("insufficient_data", "global", "all", "insufficient")}
       ELSE IF found = {} THEN {Advice("keep_current_settings", "global", "all", "mixed")}
       ELSE found
=============================================================================
