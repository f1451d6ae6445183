-------------------------- MODULE LiquidationFeed --------------------------
(* BinanceLiquidationFeedService: the force orders of the last hour, kept in a *)
(* queue per symbol that is only cut at its head, and the pressure read from   *)
(* them. Events arrive in an order of their own and are dated by the exchange. *)
EXTENDS Clock, Sequences, FiniteSets

CONSTANTS FeedSymbols,
          Retention, FeedLookback,  \* retention_minutes, lookback_minutes
          Late, Ahead,              \* how far an event's date may be off
          MaxEvents,                \* bound on the events of a symbol
          MediumNotional, HighNotional \* 25000 and 100000, in events
ASSUME FeedAssumption ==
    /\ \A x \in {Retention, FeedLookback, Late, Ahead, MaxEvents,
                 MediumNotional, HighNotional} : x \in Nat
    /\ FeedLookback + Ahead <= Retention

VARIABLES feedTask,   \* _task: "none", "running" or "ended"
          feedError,  \* _last_error
          queue,      \* _events
          arrived     \* history: every event that reached add_event
feedVars == <<feedTask, feedError, queue, arrived>>

Sides == {"SELL", "BUY"}

FeedInit ==
    /\ feedTask = "none" /\ feedError = FALSE
    /\ queue = [s \in FeedSymbols |-> <<>>]
    /\ arrived = [s \in FeedSymbols |-> <<>>]

\* start() looks whether there is a task, not whether it has ended.
StartFeed ==
    /\ feedTask = "none"
    /\ feedTask' = "running"
    /\ UNCHANGED <<feedError, queue, arrived>>

CloseFeed ==
    /\ feedTask # "none" /\ feedTask' = "none"
    /\ UNCHANGED <<feedError, queue, arrived>>

FeedDies ==
    /\ feedTask = "running"
    /\ feedTask' = "ended" /\ feedError' = TRUE
    /\ UNCHANGED <<queue, arrived>>

\* The events dated t or later, in the order in which they arrived.
Since(events, t) ==
    LET kept[n \in 0 .. Len(events)] ==
            IF n = 0 THEN <<>>
            ELSE IF events[n].at >= t THEN Append(kept[n - 1], events[n]) ELSE kept[n - 1]
    IN kept[Len(events)]

\* (a version that drops everything up to an old event, wherever it stands)
PrunedToTheLast(events, t) ==
    LET old == {i \in DOMAIN events : events[i].at < t}
    IN  IF old = {} THEN events
        ELSE SubSeq(events, (CHOOSE i \in old : \A j \in old : j <= i) + 1, Len(events))
PrunedHead(events, t) ==
    LET kept == {i \in DOMAIN events : events[i].at >= t}
    IN  IF kept = {} THEN <<>>
        ELSE SubSeq(events, CHOOSE i \in kept : \A j \in kept : i <= j, Len(events))
Pruned(events, t) == PrunedHead(events, t)

\* add_event prunes by the date of the event, which may be ahead of the clock.
AddEvent(s, e) ==
    /\ feedTask = "running" /\ Len(arrived[s]) < MaxEvents
    /\ queue' = [queue EXCEPT ![s] = Append(Pruned(@, e.at - Retention), e)]
    /\ arrived' = [arrived EXCEPT ![s] = Append(@, e)]
    /\ feedError' = FALSE
    /\ UNCHANGED feedTask

\* pressure_snapshot and recent_events prune by the clock.
PruneForReader(s) ==
    /\ queue' = [queue EXCEPT ![s] = Pruned(@, now - Retention)]
    /\ UNCHANGED <<feedTask, feedError, arrived>>

Dated == [at : now - Late .. now + Ahead, side : Sides]

FeedNext ==
    \/ StartFeed \/ CloseFeed \/ FeedDies
    \/ \E s \in FeedSymbols : PruneForReader(s) \/ \E e \in Dated : AddEvent(s, e)

-----------------------------------------------------------------------------
(* pressure_snapshot, with every event worth the same.                          *)

Recent(events) == Since(events, now - FeedLookback)
Liquidated(recent, side) == Cardinality({i \in DOMAIN recent : recent[i].side = side})

PressureOf(recent) ==
    LET longs == Liquidated(recent, "SELL")
        shorts == Liquidated(recent, "BUY")
        total == longs + shorts
        gap == IF shorts > longs THEN shorts - longs ELSE longs - shorts
    IN  [level |-> IF total = 0 THEN "low"
                   ELSE IF total >= HighNotional \/ 100 * gap >= 65 * total THEN "high"
                   ELSE IF total >= MediumNotional \/ 100 * gap >= 35 * total THEN "medium"
                   ELSE "low",
         direction |-> IF total = 0 THEN "none"
                       ELSE IF 4 * longs > 5 * shorts THEN "long"
                       ELSE IF 4 * shorts > 5 * longs THEN "short" ELSE "balanced"]
Pressure(events) == PressureOf(Recent(events))

\* The queue forgets nothing that is still asked about: whatever was pruned, by
\* whichever clock and in whatever order the events came, the pressure is that of
\* every event that arrived.
PressureIsComplete == \A s \in FeedSymbols :
    /\ Recent(queue[s]) = Recent(arrived[s])
    /\ Pressure(queue[s]) = Pressure(arrived[s])
=============================================================================
