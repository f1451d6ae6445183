--------------------------- MODULE CandleHistory ---------------------------
(* The historical-candle backfill: HistoricalBackfillService, the candle     *)
(* table it shares with the live runtime, and its job rows. A key is a symbol *)
(* and an interval; time is counted in minutes and a candle is its open time. *)
(* Requests run on the event loop without an await, so each is one step; a    *)
(* backfill awaits the semaphore and every page.                              *)
EXTENDS Clock, FiniteSetsExt

CONSTANTS Symbols,
          Coarse,          \* minutes of the other intervals than "1m", by name
          Lookback,        \* requested_lookback_days
          FineStaleAfter,  \* five minutes, for "1m"
          MinCoverage,     \* 95 (per cent of the lookback)
          PageLimit,       \* candles in a page of klines
          Permits,         \* backfills fetching at once
          MaxFaults        \* bound on what goes wrong

ASSUME HistoryAssumption ==
    /\ \A x \in {Lookback, PageLimit, Permits} : x \in Nat \ {0}
    /\ \A x \in {FineStaleAfter, MinCoverage, MaxFaults} : x \in Nat
    /\ \A i \in DOMAIN Coarse : Coarse[i] \in Nat \ {0}
    /\ "5m" \in DOMAIN Coarse /\ "1m" \notin DOMAIN Coarse

VARIABLES rows,     \* historical_candles: open times by symbol and interval
          known,    \* _states: what the service remembers of a key
          jobs,     \* symbol_backfill_jobs: the status of a key's latest row
          backfills, \* the tasks that have not ended
          finished, \* history: backfills that came to their end, with their window
          faults    \* exceptions and resets met so far
historyVars == <<rows, known, jobs, backfills, finished, faults>>

Intervals == {"1m"} \cup DOMAIN Coarse
Minutes(i) == IF i = "1m" THEN 1 ELSE Coarse[i]
Keys == [symbol : Symbols, interval : Intervals]
StaleAfter(i) == IF i = "1m" THEN FineStaleAfter ELSE Minutes(i)
Bucket(t, i) == t - (t % Minutes(i))
Fault == faults < MaxFaults /\ faults' = faults + 1

HistoryInit ==
    /\ rows = [s \in Symbols |-> [i \in Intervals |-> {}]]
    /\ known = [k \in Keys |-> "none"]
    /\ jobs = [k \in Keys |-> "none"]
    /\ backfills = {} /\ finished = {} /\ faults = 0

-----------------------------------------------------------------------------
(* What is stored of a key. Every interval is derived from the 1m candles.    *)

Candles(k) == rows[k.symbol]["1m"]
AvailableTo(fine) == Max(fine) + 1
AvailableFrom(fine, i) == Bucket(Min(fine), i)
Covers(fine, i) ==
    100 * (AvailableTo(fine) - AvailableFrom(fine, i)) >= MinCoverage * Lookback

StatusOf(k, fine, mode) ==
    CASE mode = "failed" -> "failed"
      [] fine = {} -> IF mode = "loading" THEN "loading" ELSE "not_started"
      [] mode = "loading" -> "partial"
      [] OTHER -> IF Covers(fine, k.interval)
                     /\ now - AvailableTo(fine) <= StaleAfter(k.interval)
                  THEN "ready" ELSE "partial"

Stale(k) ==
    Candles(k) # {} => now - AvailableTo(Candles(k)) > StaleAfter(k.interval)

-----------------------------------------------------------------------------
(* POST /bot/backfill and POST /bot/start.                                    *)

Wanted(k) ==
    \/ StatusOf(k, Candles(k), known[k]) \in {"not_started", "failed"}
    \/ Stale(k)

NoTaskUnchecked(k) == TRUE
NoTaskEver(k) == known[k] = "none"
NoTask(k) == \A b \in backfills : b.key # k

Queued == {b \in backfills : b.pc = "queued"}
Fetching == backfills \ Queued

Enqueue(k) ==
    /\ known' = [known EXCEPT ![k] = "loading"]
    /\ jobs' = [jobs EXCEPT ![k] = "loading"]
    /\ backfills' = backfills \cup
         {[key |-> k, pc |-> "queued", turn |-> Cardinality(Queued),
           cursor |-> 0, since |-> 0, end |-> 0, wiped |-> FALSE]}

EnsureRecentHistory(k) ==
    /\ Wanted(k) /\ NoTask(k)
    /\ Enqueue(k)
    /\ UNCHANGED <<rows, finished, faults>>

\* The job row cannot be written: the request fails with the key marked loading.
EnsureUnsaved(k) ==
    /\ Fault
    /\ Wanted(k) /\ NoTask(k)
    /\ known' = [known EXCEPT ![k] = "loading"]
    /\ UNCHANGED <<rows, jobs, backfills, finished>>

-----------------------------------------------------------------------------
(* A backfill: wait in turn for a permit, fetch page by page, record the outcome.     *)

Step(b) == IF b.pc = "fallback" THEN "5m" ELSE b.key.interval
Windowed(b, pc) ==
    [b EXCEPT !.pc = pc, !.cursor = now - Lookback, !.since = now - Lookback,
              !.end = now]

Begin(b) ==
    /\ b \in Queued /\ b.turn = 0
    /\ Cardinality(Fetching) < Permits
    /\ backfills' = Fetching \cup {Windowed(b, "fetching")}
                    \cup {[o EXCEPT !.turn = @ - 1] : o \in Queued \ {b}}
    /\ UNCHANGED <<rows, known, jobs, finished, faults>>

\* What Binance returns: the first PageLimit klines from the cursor on.
Page(b) ==
    LET m == Minutes(Step(b))
        there == {t \in b.cursor .. b.end : t % m = 0 /\ t <= now}
    IN  {t \in there : Cardinality({u \in there : u < t}) < PageLimit}
Stored(b) == LET m == Minutes(Step(b)) IN
    [rows EXCEPT ![b.key.symbol][Step(b)] = @ \cup {t \in Page(b) : t + m <= now}]
NextCursorSkipping(b) == Max(Page(b)) + 2 * Minutes(Step(b))
NextCursor(b) == Max(Page(b)) + Minutes(Step(b))
LastPage(b) ==
    Cardinality(Page(b)) = PageLimit => NextCursor(b) >= b.end

FetchPage(b) ==
    /\ b.pc # "queued"
    /\ ~LastPage(b)
    /\ rows' = Stored(b)
    /\ backfills' = (backfills \ {b}) \cup {[b EXCEPT !.cursor = NextCursor(b)]}
    /\ UNCHANGED <<known, jobs, finished, faults>>

\* The status is computed while the key is still marked loading, and kept.
Outcome(b) ==
    IF b.pc = "fallback" THEN "partial"
    ELSE StatusOf(b.key, Stored(b)[b.key.symbol]["1m"], "loading")
Recorded(b, outcome) == [jobs EXCEPT ![b.key] = outcome]

FetchLastPage(b, saved) ==
    /\ b.pc # "queued"
    /\ LastPage(b)
    /\ rows' = Stored(b)
    /\ known' = [known EXCEPT ![b.key] = Outcome(b)]
    /\ jobs' = IF saved THEN Recorded(b, Outcome(b)) ELSE jobs
    /\ backfills' = backfills \ {b}
    /\ finished' = IF b.wiped THEN finished ELSE finished \cup
         {[symbol |-> b.key.symbol, interval |-> Step(b),
           since |-> b.since, end |-> b.end]}
    /\ IF saved THEN UNCHANGED faults ELSE Fault

\* An HTTP error on the 1m candles: the same window again, in 5m candles.
FallBack(b) ==
    /\ Fault
    /\ b.pc = "fetching" /\ b.key.interval = "1m"
    /\ backfills' = (backfills \ {b}) \cup {Windowed(b, "fallback")}
    /\ UNCHANGED <<rows, known, jobs, finished>>

\* Any other error than an HTTP one, while the first fetch is under way.
Fails(b, saved) ==
    /\ Fault
    /\ b.pc = "fetching"
    /\ known' = [known EXCEPT ![b.key] = "failed"]
    /\ jobs' = IF saved THEN Recorded(b, "failed") ELSE jobs
    /\ backfills' = backfills \ {b}
    /\ UNCHANGED <<rows, finished>>

\* An error raised inside the handler of another: the task ends, marked loading.
Escapes(b) ==
    /\ Fault
    /\ b.pc = "fallback" \/ (b.pc = "fetching" /\ b.key.interval # "1m")
    /\ backfills' = backfills \ {b}
    /\ UNCHANGED <<rows, known, jobs, finished>>

-----------------------------------------------------------------------------
(* The other users of the tables: the live runtime and the session reset.     *)

LiveCandle(s) ==
    /\ rows' = [rows EXCEPT ![s]["1m"] = @ \cup {now - 1}]
    /\ UNCHANGED <<known, jobs, backfills, finished, faults>>

ClearHistory ==
    /\ Fault
    /\ rows' = [s \in Symbols |-> [i \in Intervals |-> {}]]
    /\ jobs' = [k \in Keys |-> "none"]
    /\ backfills' = {[b EXCEPT !.wiped = TRUE] : b \in backfills}
    /\ finished' = {}
    /\ UNCHANGED known

BackfillSteps(b) ==
    \/ Begin(b) \/ FetchPage(b) \/ FetchLastPage(b, TRUE)

HistoryNext ==
    \/ \E k \in Keys : EnsureRecentHistory(k) \/ EnsureUnsaved(k)
    \/ \E b \in backfills :
         \/ BackfillSteps(b) \/ FetchLastPage(b, FALSE)
         \/ FallBack(b) \/ Escapes(b)
         \/ \E saved \in BOOLEAN : Fails(b, saved)
    \/ \E s \in Symbols : LiveCandle(s)
    \/ ClearHistory

-----------------------------------------------------------------------------
\* What must not be put off for ever: the dashboard asks for a key again and again,
\* and the event loop starves no task. Exceptions are bounded by MaxFaults.
BackfillGoesOn(k) == \E b \in backfills : b.key = k /\ BackfillSteps(b)

\* Requests that race start one backfill per key: a second task would write the
\* same window and overwrite what the first reports.
OneBackfillPerKey == \A a, b \in backfills : a.key = b.key => a = b

\* A backfill that came to its end left no gap in its window, whatever the pages
\* were: every candle closed by then is stored.
FinishedBackfillHasNoGap ==
    \A f \in finished : LET m == Minutes(f.interval) IN
        \A t \in f.since .. f.end :
            t % m = 0 /\ t + m <= f.end => t \in rows[f.symbol][f.interval]

\* The 1m candles of every symbol are up to date with the clock.
CaughtUp == \A s \in Symbols : ~Stale([symbol |-> s, interval |-> "1m"])

=============================================================================
