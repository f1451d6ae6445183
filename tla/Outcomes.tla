------------------------------ MODULE Outcomes ------------------------------
(* The signals the backend stores and their outcomes: the assistant, the      *)
(* eligibility gate and the scans insert snapshots, the background service    *)
(* and the dashboard's requests judge those whose horizon has passed, and the *)
(* candles they are judged by arrive when the backfill or the runtime stores   *)
(* them. An evaluation reads the tables once and then judges and writes one    *)
(* outcome after the other; another may run in a thread of its own.            *)
EXTENDS Clock, OutcomeRules

CONSTANTS Horizons,    \* of the outcomes, in minutes
          SignalKinds, \* the signals and scanner rows that may be generated
          Paths,       \* the price paths of the market
          MaxSnapshots,
          MaxSkips     \* bound on the evaluations that raise and the resets

ASSUME OutcomesAssumption == /\ Horizons \subseteq Nat \ {0}
                             /\ MaxSnapshots \in Nat /\ MaxSkips \in Nat
                             /\ Paths \subseteq [0 .. MaxTime -> Nat \ {0}]

VARIABLES market,    \* what the price was and will be
          snapshots, \* signal_snapshots and scanner_validation_snapshots
          outcomes,  \* signal_outcomes and scanner_validation_outcomes
          candles,   \* historical_candles
          evaluating, \* the evaluations under way
          issued,    \* ids given out
          skips
outcomeVars == <<market, snapshots, outcomes, candles, evaluating, issued, skips>>

\* SignalOutcomeBackgroundService, GET /performance/..., and POST .../evaluate
Evaluators == {"service", "request", "scanner"}
Resting == [at |-> 0, todo |-> {}, verdict |-> None]

OutcomesInit ==
    /\ market \in Paths
    /\ snapshots = {} /\ outcomes = <<>> /\ candles = {}
    /\ issued = 0 /\ skips = 0
    /\ evaluating = [e \in Evaluators |-> Resting]

\* Snapshots keep the price of their time; a signal may come without one.
Stamped(kind) == [f \in DOMAIN kind \cup {"id", "time", "entry"} |->
    CASE f = "id" -> issued
      [] f = "time" -> now
      [] f = "entry" -> IF kind.priced THEN market[now] ELSE None
      [] OTHER -> kind[f]]
InsertSnapshot(kind) ==
    /\ issued < MaxSnapshots
    /\ issued' = issued + 1
    /\ snapshots' = snapshots \cup {Stamped(kind)}
    /\ UNCHANGED <<market, outcomes, candles, evaluating, skips>>

\* Backfills and the live runtime store candles that have closed, in any order.
StoreCandle(c) ==
    /\ c \notin candles
    /\ candles' = candles \cup {c}
    /\ UNCHANGED <<market, snapshots, outcomes, evaluating, issued, skips>>
\* Only those that some signal may look at are of interest.
ClosedCandles ==
    {c \in [open : UNION {s.time - 1 .. now : s \in snapshots}, grain : DOMAIN Grains] :
        c.open % Grains[c.grain] = 0 /\ EndOf(c) <= now}

-----------------------------------------------------------------------------
(* One evaluation.                                                            *)

Judges(e, s) == (e = "scanner") = (s.source = "scan")
\* Mutant: a scanner row without data is done, as a signal is.
CompletedAlike(e) == {"win", "loss", "neutral", "insufficient_data"}
Completed(e) ==
    {"win", "loss", "neutral"} \cup IF e = "scanner" THEN {} ELSE {"insufficient_data"}
Settled(e, pair) == pair \in DOMAIN outcomes /\ outcomes[pair].state \in Completed(e)

\* The pairs of a snapshot and a horizon that are not completed.
Open(e) == {p \in {s \in snapshots : Judges(e, s)} \X Horizons :
               ~Settled(e, <<p[1].id, p[2]>>)}

BeginEvaluation(e) ==
    /\ evaluating[e].todo = {}
    /\ Open(e) # {}
    /\ evaluating' = [evaluating EXCEPT ![e] =
                        [at |-> now, todo |-> Open(e), verdict |-> None]]
    /\ UNCHANGED <<market, snapshots, outcomes, candles, issued, skips>>

\* Signals newest first, scanner rows oldest first, each by its horizons.
NextOf(e, todo) == CHOOSE p \in todo : \A q \in todo :
    \/ IF e = "scanner" THEN p[1].id < q[1].id ELSE p[1].id > q[1].id
    \/ p[1].id = q[1].id /\ p[2] <= q[2]
NextPair(e) == NextOf(e, evaluating[e].todo)

\* The candles the query returns, and the verdict they give.
Rows(e, s, horizon) ==
    IF e = "scanner" THEN ScannerWindow(candles, s, s.time + horizon)
    ELSE SignalWindow(candles, s, s.time + horizon)
Verdict(e, s, horizon, rows) ==
    IF e = "scanner" THEN JudgeScanner(s, horizon, evaluating[e].at, rows, market)
    ELSE JudgeSignal(s, horizon, evaluating[e].at, rows, market)

Judge(e) ==
    /\ evaluating[e].todo # {} /\ evaluating[e].verdict = None
    /\ UNCHANGED <<market, snapshots, outcomes, candles, issued, skips>>
    /\ \E p \in {NextPair(e)} : \E rows \in {Rows(e, p[1], p[2])} :
         evaluating' = [evaluating EXCEPT ![e].verdict = Verdict(e, p[1], p[2], rows)]

\* INSERT ... ON CONFLICT DO UPDATE: the last one to write stands.
Upserted(key, row) ==
    [k \in DOMAIN outcomes \cup {key} |-> IF k = key THEN row ELSE outcomes[k]]
Write(e) ==
    /\ evaluating[e].verdict # None
    /\ UNCHANGED <<market, snapshots, candles, issued, skips>>
    /\ LET p == NextPair(e) IN
         /\ outcomes' = Upserted(<<p[1].id, p[2]>>, evaluating[e].verdict)
         /\ evaluating' = [evaluating EXCEPT ![e].todo = @ \ {p}, ![e].verdict = None]

Skip == skips < MaxSkips /\ skips' = skips + 1

\* An exception: the request fails, the service waits for its next round.
EvaluationRaises(e) ==
    /\ Skip
    /\ evaluating[e].todo # {}
    /\ evaluating' = [evaluating EXCEPT ![e] = Resting]
    /\ UNCHANGED <<market, snapshots, outcomes, candles, issued>>

\* The reset of the session; an evaluation under way goes on with what it read.
ClearSignals ==
    /\ Skip
    /\ snapshots' = {} /\ outcomes' = <<>> /\ candles' = {}
    /\ UNCHANGED <<market, evaluating, issued>>

EvaluationSteps(e) == BeginEvaluation(e) \/ Judge(e) \/ Write(e)

OutcomesNext ==
    \/ \E kind \in SignalKinds : InsertSnapshot(kind)
    \/ \E c \in ClosedCandles : StoreCandle(c)
    \/ \E e \in Evaluators : EvaluationSteps(e) \/ EvaluationRaises(e)
    \/ ClearSignals

-----------------------------------------------------------------------------
Matured == {p \in snapshots \X Horizons : p[1].time + p[2] <= now}
StateOf(p) == IF <<p[1].id, p[2]>> \in DOMAIN outcomes
              THEN outcomes[<<p[1].id, p[2]>>].state ELSE "pending"

\* Where the price went, and what was hit on the way, for the verdict o on s.
RestsOn(s, o) ==
    IF s.source = "scan"
    THEN o.state = "win" => IF s.direction = "long" THEN market[o.by] > s.entry
                            ELSE market[o.by] < s.entry
    ELSE /\ o.state = "win" => (market[o.by] > s.entry) = (s.base = "BUY")
         /\ o.hit = "take_profit" =>
              IF s.type = "BUY" THEN o.upside >= 15000 ELSE o.downside <= -15000
         /\ s.type = "BUY" /\ o.downside < -10000 => o.hit # "none"
JudgesItsHorizon(s, h, o) ==
    /\ o.state # "pending" => o.at >= s.time + h
    /\ "by" \in DOMAIN o => s.time + h < o.by /\ o.by <= now /\ RestsOn(s, o)

\* A verdict is never given before its horizon has passed nor on a candle that was
\* still open, the price that decides is one of after the horizon, and what is
\* said of the levels that were hit agrees with how far the price went.
OutcomeJudgesItsHorizon ==
    \A s \in snapshots, h \in Horizons : <<s.id, h>> \in DOMAIN outcomes =>
        JudgesItsHorizon(s, h, outcomes[<<s.id, h>>])

\* Every signal is judged for every horizon that has passed, through evaluations
\* that raise and stale ones that write "pending" over a verdict.
AllSettled == \A p \in Matured : StateOf(p) # "pending"

\* Once the candle that covers a horizon is stored, a scanner's signal is judged by
\* it, even if it was looked at before and found to be without data.
Decidable(p) == /\ p[1].entry # None
                /\ \E c \in candles : c \in Deciding(
                       SignalWindow(candles, p[1], p[1].time + p[2]), p[1].time + p[2])
ScansSeeTheHistory == \A p \in Matured :
    p[1].source = "scan" /\ Decidable(p) => StateOf(p) \notin {"pending", "insufficient_data"}
=============================================================================
