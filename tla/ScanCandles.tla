---------------------------- MODULE ScanCandles ----------------------------
(* The candles a market scan is made from: the stored rows when they are good *)
(* enough, else Binance's. Spot and Futures have a table and a loader each.    *)
(* Time is counted in candles of the scanned interval; a candle is its open    *)
(* time. A scan keeps what it loaded in a cache of its own.                    *)
EXTENDS Clock, FiniteSetsExt

CONSTANTS ScanSymbols,
          ScanLookback,   \* lookback_days, in candles
          SpotEnough,     \* 96
          FuturesEnough,  \* MIN_CANDLES_FOR_FUTURES_SIGNAL
          FreshFor,       \* two intervals, at least thirty minutes
          NotLoaded       \* a model value: no candles, no request

ASSUME ScanCandlesAssumption ==
    /\ ScanLookback \in Nat \ {0}
    /\ \A x \in {SpotEnough, FuturesEnough, FreshFor} : x \in Nat

VARIABLES table,   \* historical_candles and futures_historical_candles
          cache,   \* candle_cache of the scan
          asking,  \* the requests to Binance under way: their windows
          began    \* when the scan of a market started
candleVars == <<table, cache, asking, began>>

Markets == {"spot", "futures"}

CandlesInit ==
    /\ table = [m \in Markets |-> [s \in ScanSymbols |-> {}]]
    /\ cache = [m \in Markets |-> [s \in ScanSymbols |-> NotLoaded]]
    /\ asking = [m \in Markets |-> [s \in ScanSymbols |-> NotLoaded]]
    /\ began = [m \in Markets |-> now]

\* Every symbol of a finished scan was answered or has failed.
NewScan(m) ==
    /\ \A s \in ScanSymbols : asking[m][s] = NotLoaded
    /\ began[m] < now
    /\ began' = [began EXCEPT ![m] = now]
    /\ cache' = [cache EXCEPT ![m] = [s \in ScanSymbols |-> NotLoaded]]
    /\ UNCHANGED <<table, asking>>

Window(m, s) == {t \in table[m][s] : now - ScanLookback <= t /\ t <= now}
OldAt(candles, time) == time - (Max(candles) + 1) > FreshFor

\* expected_limit: how many candles are asked for, four more than the lookback has
\* for Futures. Below Binance's cap of 1000: a scan looks back seven days, in 15m
\* and 1h candles.
Limit(m) == LET expected == IF m = "spot" THEN ScanLookback ELSE ScanLookback + 4
            IN IF expected > FuturesEnough THEN expected ELSE FuturesEnough

Enough(m) == IF m = "spot" THEN Min({SpotEnough, Limit(m)}) ELSE FuturesEnough
EnoughOfAnyAge(m, s) == Cardinality(Window(m, s)) >= Enough(m)
EnoughStored(m, s) ==
    /\ Cardinality(Window(m, s)) >= Enough(m)
    /\ m = "futures" => Window(m, s) # {} /\ ~OldAt(Window(m, s), now)

LoadStored(m, s) ==
    /\ cache[m][s] = NotLoaded /\ asking[m][s] = NotLoaded
    /\ EnoughStored(m, s)
    /\ cache' = [cache EXCEPT ![m][s] = Window(m, s)]
    /\ UNCHANGED <<table, asking, began>>

AskBinance(m, s) ==
    /\ cache[m][s] = NotLoaded /\ asking[m][s] = NotLoaded
    /\ ~EnoughStored(m, s)
    /\ asking' = [asking EXCEPT ![m][s] = [stored |-> Window(m, s), end |-> now]]
    /\ UNCHANGED <<table, cache, began>>

\* The klines of the window, oldest first and up to the limit, that have closed.
Least(S, n) == {t \in S : Cardinality({u \in S : u < t}) < n}
Fetched(m, end) == {t \in Least(end - ScanLookback .. end, Limit(m)) : t + 1 <= now}

\* Spot merges what was stored with what came; Futures takes what came, or what
\* was stored when nothing did.
Loaded(m, stored, fetched) ==
    IF m = "spot" THEN stored \cup fetched
    ELSE IF fetched # {} THEN fetched ELSE stored

BinanceAnswers(m, s, fetched) ==
    /\ asking[m][s] # NotLoaded
    /\ fetched \in {{}, Fetched(m, asking[m][s].end)}
    /\ table' = [table EXCEPT ![m][s] = @ \cup fetched]
    /\ cache' = [cache EXCEPT ![m][s] = Loaded(m, asking[m][s].stored, fetched)]
    /\ asking' = [asking EXCEPT ![m][s] = NotLoaded]
    /\ UNCHANGED began

\* The symbol is reported as failed.
BinanceFails(m, s) ==
    /\ asking[m][s] # NotLoaded
    /\ asking' = [asking EXCEPT ![m][s] = NotLoaded]
    /\ UNCHANGED <<table, cache, began>>

CandlesNext == \E m \in Markets :
    \/ NewScan(m)
    \/ \E s \in ScanSymbols :
         \/ LoadStored(m, s) \/ AskBinance(m, s) \/ BinanceFails(m, s)
         \/ asking[m][s] # NotLoaded
            /\ \E f \in {{}, Fetched(m, asking[m][s].end)} : BinanceAnswers(m, s, f)

-----------------------------------------------------------------------------
\* _futures_backfill_status: half of the lookback is enough, whatever its age.
FuturesStatus(s, failed) ==
    LET candles == Window("futures", s) IN
    CASE failed -> "failed"
      [] candles = {} -> "not_started"
      [] OTHER -> IF 100 * (Max(candles) + 1 - Min(candles)) >= 50 * ScanLookback
                  THEN "ready" ELSE "partial"

-----------------------------------------------------------------------------
\* A scan shows prices of its own time: what it loads for a symbol is not older
\* than the limit the Futures loader sets, unless Binance had nothing newer.
FreshLoad(m) == \A s \in ScanSymbols :
    cache[m][s] = NotLoaded /\ cache'[m][s] \notin {NotLoaded, {}} =>
        \/ ~OldAt(cache'[m][s], began[m])
        \/ asking[m][s] # NotLoaded /\ cache'[m][s] = asking[m][s].stored

\* _load_or_fetch_futures_scan_candles keeps to it.
FuturesScanIsFresh == [][FreshLoad("futures")]_candleVars
=============================================================================
