----------------------------- MODULE MCServices -----------------------------
(* The market-data services for TLC. They share the clock and nothing else, so *)
(* each behaviour looks at one of them while the others rest.                  *)
EXTENDS CandleHistory, ScanCandles, SymbolCache, PriceStream, LiquidationFeed

CONSTANTS a, b, c

VARIABLE focus

\* How long the clock runs for each of them.
Span == [history |-> 1, candles |-> 3, symbols |-> 3, prices |-> 2, feed |-> 3]

CoarseIntervals == [i \in {"5m"} |-> 2]
AskedFor == {<<>>, <<a>>, <<c, b, b>>, <<b, a, b, c>>, <<a, b>>}

ServicesInit ==
    /\ focus \in DOMAIN Span
    /\ now = MaxTime - Span[focus]
    /\ HistoryInit /\ CandlesInit /\ CacheInit /\ StreamInit /\ FeedInit

Only(service) == focus = service /\ UNCHANGED <<focus, now>>

HistoryStep == Only("history") /\ HistoryNext
    /\ UNCHANGED <<candleVars, cacheVars, streamVars, feedVars>>
CandlesStep == Only("candles") /\ CandlesNext
    /\ UNCHANGED <<historyVars, cacheVars, streamVars, feedVars>>
CacheStep == Only("symbols") /\ CacheNext
    /\ UNCHANGED <<historyVars, candleVars, streamVars, feedVars>>
StreamStep == Only("prices") /\ StreamNext
    /\ UNCHANGED <<historyVars, candleVars, cacheVars, feedVars>>
FeedStep == Only("feed") /\ FeedNext
    /\ UNCHANGED <<historyVars, candleVars, cacheVars, streamVars>>
TimePasses == Tick /\ UNCHANGED <<focus, historyVars, candleVars, cacheVars,
                                  streamVars, feedVars>>

ServicesNext ==
    HistoryStep \/ CandlesStep \/ CacheStep \/ StreamStep \/ FeedStep \/ TimePasses

allVars == <<focus, now, historyVars, candleVars, cacheVars, streamVars, feedVars>>

ServicesSpec == ServicesInit /\ [][ServicesNext]_allVars

\* The dashboard keeps asking and the event loop starves no task. Of Binance it is
\* assumed that it accepts a connection now and then and that a price of each symbol
\* comes through one now and then.
FairServicesSpec == ServicesSpec
    /\ \A k \in Keys : /\ WF_historyVars(Only("history") /\ EnsureRecentHistory(k))
                       /\ WF_historyVars(Only("history") /\ BackfillGoesOn(k))
    /\ WF_streamVars(Only("prices") /\ Reconnect)
    /\ SF_streamVars(Only("prices") /\ Connect)
    /\ \A s \in Listed : SF_streamVars(Only("prices") /\ ReceiveSome(s))

\* As long as somebody asks, the 1m candles catch up with the clock, through failed
\* fetches, fallbacks, tasks that died marked loading, and resets.
BackfillCatchesUp == <>[](focus = "history" => CaughtUp)
=============================================================================
