---------------------------- MODULE Candlesticks ----------------------------
(* What the analyses read off a sequence of candles. Prices are in units of   *)
(* 0.0001 of the quote asset, the step every suggested price is rounded to;   *)
(* volumes are in thousands of it, and percentages in units of 0.0001 per     *)
(* cent, the rest cut off unless the code rounds.                             *)
EXTENDS Rounding, Sequences, FiniteSetsExt

LastN(s, n) == SubSeq(s, IF Len(s) > n THEN Len(s) - n + 1 ELSE 1, Len(s))
Newest(s) == s[Len(s)]

SumOf(numbers) ==
    LET sum[i \in 0 .. Len(numbers)] == IF i = 0 THEN 0 ELSE sum[i - 1] + numbers[i]
    IN sum[Len(numbers)]
Closes(s) == SumOf([i \in DOMAIN s |-> s[i].close])
Ranges(s) == SumOf([i \in DOMAIN s |-> s[i].high - s[i].low])
Volumes(s) == SumOf([i \in DOMAIN s |-> s[i].volume])
Highest(s) == Max({s[i].high : i \in DOMAIN s})
Lowest(s) == Min({s[i].low : i \in DOMAIN s})

Percent(n, d) == (n * 1000000) \div d
PercentHalfUp(n, d) == HalfUp(n * 1000000, d)
PercentBetween(p, q) == Percent(Abs(p - q), IF p > q THEN p ELSE q)

ChangeOver(s, n) ==
    LET recent == LastN(s, n)
    IN IF Len(recent) < 2 THEN 0
       ELSE PercentHalfUp(Newest(recent).close - recent[1].close, recent[1].close)

\* The mean of the ranges, each per cent of its close.
AverageRange(s) ==
    SumOf([i \in DOMAIN s |-> Percent(s[i].high - s[i].low, s[i].close)]) \div Len(s)

Ladder(x, steps, last) ==      \* the value of the first step that x reaches
    LET reached == {i \in DOMAIN steps : x >= steps[i][1]}
    IN IF reached = {} THEN last ELSE steps[Min(reached)][2]
=============================================================================
