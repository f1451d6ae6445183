----------------------------- MODULE MarketScan -----------------------------
(* What a background scan reports: the scan of ScanJob, of the Spot market or *)
(* of USD-M Futures, with the universe of symbols it works on, the signals it *)
(* reads, the filters of the request, the reports it builds and the earlier   *)
(* run it falls back to. Every action is one of ScanJob's, and says what      *)
(* becomes of this data: whatever holds of ScanJob holds of both scans.       *)
(* app/api/bot_api.py, _run_futures_opportunity_scan_job and its Spot twin.   *)
EXTENDS ScanJob, FuturesScoring, SpotScoring

CONSTANTS
    Readings,       \* Readings[market][s]: the signals symbol s may be read as
    Request,        \* Request[market]: [minimum, confidence, weak, avoid, sensitivity]
    PastRuns        \* the reports of earlier runs there may be

ASSUME PastRunsAssumption == \A run \in PastRuns : "state" \in DOMAIN run

VARIABLES
    market,         \* "spot" or "futures"
    source,         \* where the universe of symbols came from
    found,          \* the signal of every symbol that was kept
    draft,          \* the report on its way into the job
    shown,          \* the report in the job
    past            \* the latest successful run in the database

dataVars == <<market, source, found, draft, shown, past>>
marketVars == <<vars, dataVars>>

\* Groups of at most ten candidates in a Spot report.
Shown == 10
Nothing == [state |-> "none", scanned |-> 0, failed |-> {}]

MarketInit ==
    /\ Init
    /\ market \in DOMAIN Readings /\ source = "none"
    /\ found = [s \in 1..Candidates |-> Unknown]
    /\ draft = Nothing /\ shown = Nothing
    /\ past \in PastRuns \cup {Unknown}

-----------------------------------------------------------------------------
(* Signals and reports.                                                       *)

Weak == {"insufficient", "unvalidated", "weak"}
Threshold(r) ==
    LET asked == Greater(r.minimum, r.confidence)
    IN IF market = "futures" /\ r.sensitivity = "aggressive"
       THEN Greater(60, asked - 8) ELSE asked

KeptFutures(signal, r) ==
    CASE signal.direction \in {"long", "short"} ->
            signal.opportunity >= Threshold(r) /\ (r.weak \/ signal.evidence \notin Weak)
      [] signal.direction = "wait" -> TRUE
      [] OTHER -> r.avoid
KeptSpot(signal, r) ==
    CASE signal.action = "buy_candidate" ->
            signal.opportunity >= Threshold(r) /\ signal.confidence >= r.confidence
      [] signal.action \in {"watch", "exit_watch"} -> TRUE
      [] OTHER -> r.avoid
Kept(signal) ==
    IF market = "futures" THEN KeptFutures(signal, Request[market])
    ELSE KeptSpot(signal, Request[market])

Ranked(signals, failed) ==
    IF market = "futures" THEN FuturesReport(signals, failed, Request[market].avoid)
    ELSE SpotReport(signals, failed, Request[market].avoid, Shown)

\* Mutant: a universe that is not the live one makes no difference.
StateOfAnyUniverse(state, partial) == IF partial THEN "partial" ELSE state

\* The state a report gets from the scan it is of.
StateOf(state, partial) ==
    IF partial \/ (state = "ready" /\ source \in {"cache", "fallback"})
    THEN "partial" ELSE state

Report(partial) ==
    LET ranked == Ranked({found[s] : s \in With("signal")}, With("failed"))
    IN [ranked EXCEPT !.state = StateOf(ranked.state, partial), !.scanned = job.scanned]

\* The latest successful run is shown again, marked as degraded, or an empty report.
Fallback == IF past = Unknown THEN "empty" ELSE "cached"
Degraded ==
    IF past = Unknown THEN [Nothing EXCEPT !.state = "degraded", !.failed = With("failed")]
    ELSE [past EXCEPT !.state = "degraded"]

Listed(report_) ==
    LET groups == DOMAIN report_ \ {"state", "scanned", "failed"}
    IN UNION {ToSet(report_[g]) : g \in groups}
Successful(report_) ==
    Listed(report_) # {} /\ report_.state \in {"ready", "partial", "insufficient_data"}

-----------------------------------------------------------------------------
(* The thread.                                                                *)

ScanOpens == Open /\ UNCHANGED dataVars

\* The Spot universe is the live one, or its request raises. That of Futures is the
\* cached one while it is fresh, the live one, the stale one, a list by hand, or
\* unavailable. Without candidates an earlier run is looked up, which may raise.
Sources == {"live"} \cup IF market = "futures" THEN {"cache", "fallback"} ELSE {}

UniverseLoads ==
    /\ LoadUniverse
    /\ \/ /\ pc' = "check"
          /\ source' \in Sources
          /\ UNCHANGED draft
       \/ /\ pc' \in {"writing", "ended"}
          /\ half'.response \in {half.response, Fallback}
          /\ source' = IF market = "futures" THEN "unavailable" ELSE "live"
          /\ draft' = Degraded
       \/ /\ pc' = "failing"
          /\ source' = IF market = "futures" THEN "unavailable" ELSE source
          /\ UNCHANGED draft
    /\ UNCHANGED <<market, found, shown, past>>

BatchStarts == NextBatch /\ UNCHANGED dataVars
SymbolIsPickedUp(s) == PickUp(s) /\ UNCHANGED dataVars
SymbolFails(s) == GiveUp(s) /\ UNCHANGED dataVars

SignalIsRead(s) ==
    /\ Answer(s)
    /\ \E signal \in Readings[market][s] :
         /\ symbols'[s] = IF Kept(signal) THEN "signal" ELSE "dropped"
         /\ found' = [found EXCEPT ![s] = IF Kept(signal) THEN signal ELSE @]
    /\ UNCHANGED <<market, source, draft, shown, past>>

BatchIsCollected == CollectBatch /\ UNCHANGED dataVars
ScannedIsCounted == CountScanned /\ UNCHANGED dataVars

ReportIsPublished ==
    /\ Publish
    /\ draft' = Report(taken < total)
    /\ UNCHANGED <<market, source, found, shown, past>>

ReportIsShown ==
    /\ FinishWrite
    /\ shown' = draft
    /\ UNCHANGED <<market, source, found, draft, past>>

ReportIsFinalised ==
    /\ Finalise
    /\ report' \in {report, "final", Fallback}
    /\ draft' = CASE pc' = "run" -> Report(With("signal") # {} /\ With("failed") # {})
                  [] pc' = "complete" -> Degraded
                  [] OTHER -> draft
    /\ UNCHANGED <<market, source, found, shown, past>>

StageIsSaved(stage) ==
    /\ Save(stage)
    /\ past' = IF "run" \in saved' \ saved /\ Successful(draft) THEN draft ELSE past
    /\ UNCHANGED <<market, source, found, draft, shown>>

ScanCompletes ==
    /\ Complete
    /\ half'.scanned \in {half.scanned, draft.scanned}
    /\ UNCHANGED dataVars

\* The response stays what it is.
ScanIsCancelled ==
    /\ HandleCancel
    /\ draft' = shown
    /\ UNCHANGED <<market, source, found, shown, past>>

ScanFails ==
    /\ HandleFailure
    /\ half'.response \in {half.response, "none", Fallback}
    /\ draft' = IF half'.response = "cached" THEN Degraded ELSE Nothing
    /\ UNCHANGED <<market, source, found, shown, past>>

ScanAdvances ==
    \/ ReportIsShown \/ ScanOpens \/ UniverseLoads \/ BatchStarts
    \/ \E s \in 1..Candidates : SymbolIsPickedUp(s) \/ SymbolFails(s)
    \/ BatchIsCollected \/ ScannedIsCounted \/ ReportIsPublished \/ ReportIsFinalised
    \/ \E stage \in Stages : StageIsSaved(stage)
    \/ ScanCompletes \/ ScanIsCancelled \/ ScanFails

ApiActs == (Cancel \/ PollStatus \/ PollResponse \/ PollAgain) /\ UNCHANGED dataVars

MarketNext ==
    \/ ScanAdvances
    \/ \E s \in 1..Candidates : SignalIsRead(s)
    \/ ApiActs

MarketSpec == MarketInit /\ [][MarketNext]_marketVars
MarketFairSpec == MarketSpec /\ WF_marketVars(ScanAdvances)

-----------------------------------------------------------------------------
\* A report that says "ready" is of every symbol of a live universe, with no failure:
\* whatever the deadlines, the failures, the filters and the fallbacks did.
ReadyIsComplete ==
    shown.state = "ready" =>
        /\ Settled = 1..total /\ With("failed") = {}
        /\ source = "live"
=============================================================================
