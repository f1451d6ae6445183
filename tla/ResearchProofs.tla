--------------------------- MODULE ResearchProofs ---------------------------
(* The verdicts on signals and the life of a profile tuning, for any markets, *)
(* candle lengths, signals, horizons, observations and bounds; and the decisions *)
(* of both scanners, for any candles whose closes are not below 84 units, any *)
(* technical analysis with a strength, any derivatives data and liquidations: a *)
(* candidate is of no high risk and has its stop and target outside of the price *)
(* by more than they are rounded by, and what a Futures verdict depends on. The *)
(* questions of the runs are such markets.                                    *)
EXTENDS MCResearch, DataLemmas

-----------------------------------------------------------------------------
(* Rounding to the nearest: at least k when the quotient is, at most -k when   *)
(* it is, and beyond k only when the quotient is.                             *)
LEMMA HalfUpBounds ==
    ASSUME NEW n \in Int, NEW d \in Nat \ {0}, NEW k \in Nat
    PROVE  /\ HalfUp(n, d) \in Int
           /\ n >= k * d => HalfUp(n, d) >= k
           /\ n <= -(k * d) => HalfUp(n, d) <= -k
           /\ HalfUp(n, d) > k => n > k * d
           /\ HalfUp(n, d) < -k => n < -(k * d)
  <1> DEFINE q == (2 * n + d) \div (2 * d)
             r == (d - 2 * n) \div (2 * d)
  <1>1. 2 * d \in Nat /\ 2 * d > 0 /\ k * d \in Nat
    OBVIOUS
  <1>2. q \in Int /\ (2 * d) * q <= 2 * n + d /\ 2 * n + d < (2 * d) * q + 2 * d
    BY <1>1
  <1>3. r \in Int /\ (2 * d) * r <= d - 2 * n /\ d - 2 * n < (2 * d) * r + 2 * d
    BY <1>1
  <1>4. HalfUp(n, d) = IF n >= 0 THEN q ELSE -r
    BY DEF HalfUp
  <1> HIDE DEF q, r
  <1> DEFINE P(x, y) == x <= y => d * x <= d * y
  <1>5. \A x, y \in Int : x <= y => d * x <= d * y
    OBVIOUS
  <1>6. /\ d * q \in Int /\ d * r \in Int
        /\ 2 * (d * q) <= 2 * n + d /\ 2 * n < 2 * (d * q) + d
        /\ 2 * (d * r) <= d - 2 * n /\ 0 - 2 * n < 2 * (d * r) + d
    BY <1>2, <1>3
  <1>7. /\ d * k = k * d /\ d * (k - 1) = k * d - d /\ d * (k + 1) = k * d + d
        /\ d * 0 = 0 /\ d * (0 - 1) = 0 - d
    OBVIOUS
  <1>8. q <= k - 1 => d * q <= k * d - d
    BY <1>2, <1>5, <1>7
  <1>9. r <= k - 1 => d * r <= k * d - d
    BY <1>3, <1>5, <1>7
  <1>10. q >= k + 1 => d * q >= k * d + d
    BY <1>2, <1>5, <1>7
  <1>11. r >= k + 1 => d * r >= k * d + d
    BY <1>3, <1>5, <1>7
  <1>12. (q <= -1 => d * q <= 0 - d) /\ (r <= -1 => d * r <= 0 - d)
    BY <1>2, <1>3, <1>5, <1>7
  <1> DEFINE kd == k * d
             dq == d * q
             dr == d * r
  <1>13. kd \in Nat /\ dq \in Int /\ dr \in Int
    BY <1>1, <1>6
  <1>14. /\ 2 * dq <= 2 * n + d /\ 2 * n < 2 * dq + d
         /\ 2 * dr <= d - 2 * n /\ 0 - 2 * n < 2 * dr + d
         /\ q <= k - 1 => dq <= kd - d
         /\ r <= k - 1 => dr <= kd - d
         /\ q >= k + 1 => dq >= kd + d
         /\ r >= k + 1 => dr >= kd + d
         /\ q <= -1 => dq <= 0 - d
         /\ r <= -1 => dr <= 0 - d
    BY <1>6, <1>8, <1>9, <1>10, <1>11, <1>12
  <1> HIDE DEF kd, dq, dr
  <1>15. CASE n >= 0
    BY <1>2, <1>3, <1>4, <1>13, <1>14, <1>15 DEF kd
  <1>16. CASE n < 0
    BY <1>2, <1>3, <1>4, <1>13, <1>14, <1>16 DEF kd
  <1> QED
    BY <1>15, <1>16

-----------------------------------------------------------------------------
(* Candles and the market they show.                                          *)

Candle == {c \in [open : Nat, grain : DOMAIN Grains] : EndOf(c) <= MaxTime}
PathOK(m) == m \in [0 .. MaxTime -> Nat \ {0}]

(* A candle ends after it opens, at a minute of the clock.                     *)
LEMMA CandleTimes ==
    ASSUME NEW c \in Candle
    PROVE  /\ c.open \in Nat /\ c.grain \in Nat /\ EndOf(c) \in Nat
           /\ c.open < EndOf(c) /\ EndOf(c) <= MaxTime
  BY GrainAssumption, ClockAssumption DEF Candle, EndOf

(* The first candle of a window is one of the window: by its end, then by its  *)
(* interval, no two candles are alike.                                        *)
LEMMA FirstIsOne ==
    ASSUME NEW S, S \subseteq Candle, S # {}
    PROVE  First(S) \in S
  <1> DEFINE Ends == {EndOf(c) : c \in S}
  <1>1. PICK e \in Ends : \A f \in Ends : e <= f
    <2>1. Ends \subseteq Nat /\ Ends # {}
      BY CandleTimes
    <2> HIDE DEF Ends
    <2> QED
      BY <2>1, LeastNatural
  <1> DEFINE Same == {c.grain : c \in {d \in S : EndOf(d) = e}}
  <1>2. PICK g \in Same : \A f \in Same : g <= f
    <2>1. Same \subseteq Nat /\ Same # {}
      BY CandleTimes
    <2> HIDE DEF Same
    <2> QED
      BY <2>1, LeastNatural
  <1>3. PICK c \in S : EndOf(c) = e /\ c.grain = g
    OBVIOUS
  <1>4. ASSUME NEW d \in S \ {c} PROVE Earlier(c, d)
    <2>1. EndOf(c) <= EndOf(d) /\ (EndOf(d) = EndOf(c) => c.grain <= d.grain)
      BY <1>1, <1>2, <1>3
    <2>2. EndOf(d) = EndOf(c) /\ c.grain = d.grain => c = d
      <3>1. c \in [open : Nat, grain : DOMAIN Grains] /\ d \in [open : Nat, grain : DOMAIN Grains]
        BY DEF Candle
      <3>2. Grains[c.grain] \in Nat
        BY <3>1, GrainAssumption
      <3>3. EndOf(d) = EndOf(c) /\ c.grain = d.grain => c.open = d.open
        BY <3>1, <3>2 DEF EndOf
      <3> QED
        BY <3>1, <3>3
    <2>3. EndOf(c) \in Nat /\ EndOf(d) \in Nat /\ c.grain \in Nat /\ d.grain \in Nat
      BY CandleTimes
    <2> QED
      BY <2>1, <2>2, <2>3 DEF Earlier
  <1>5. \E x \in S : \A d \in S \ {x} : Earlier(x, d)
    BY <1>4
  <1> QED
    BY <1>5 DEF First

(* What a candle shows of a market are prices.                                *)
LEMMA CandlePrices ==
    ASSUME NEW c \in Candle, NEW m, PathOK(m)
    PROVE  High(c, m) \in Nat /\ Low(c, m) \in Nat /\ Close(c, m) \in Nat
  <1> DEFINE T == c.open .. EndOf(c)
             P == {m[t] : t \in T}
  <1>1. T \subseteq 0 .. MaxTime /\ EndOf(c) \in T
    BY CandleTimes, ClockAssumption
  <1>2. IsFiniteSet(P)
    <2> DEFINE f == [t \in T |-> m[t]]
    <2>1. IsFiniteSet(T)
      BY CandleTimes, FS_Interval
    <2>2. P = {f[t] : t \in T} /\ DOMAIN f = T
      OBVIOUS
    <2> HIDE DEF T, P, f
    <2> QED
      BY <2>1, <2>2, FiniteImage
  <1>3. P \subseteq Nat /\ P # {}
    BY <1>1 DEF PathOK
  <1>4. Max(P) \in P /\ Min(P) \in P
    <2>1. P \subseteq Int
      BY <1>3
    <2> HIDE DEF P
    <2> QED
      BY <1>2, <1>3, <2>1, FiniteExtremes
  <1>5. Close(c, m) \in Nat
    BY <1>1 DEF Close, PathOK
  <1> QED
    BY <1>3, <1>4, <1>5 DEF High, Low

(* ... and those of a window have a highest and a lowest.                      *)
LEMMA WindowPrices ==
    ASSUME NEW W, W \subseteq Candle, IsFiniteSet(W), W # {}, NEW m, PathOK(m)
    PROVE  /\ Max({High(c, m) : c \in W}) \in Nat
           /\ \A c \in W : High(c, m) <= Max({High(d, m) : d \in W})
           /\ Min({Low(c, m) : c \in W}) \in Nat
           /\ \E c \in W : Min({Low(d, m) : d \in W}) = Low(c, m)
           /\ \A c \in W : Min({Low(d, m) : d \in W}) <= Low(c, m)
  <1> DEFINE H == {High(c, m) : c \in W}
             L == {Low(c, m) : c \in W}
  <1>1. H \subseteq Nat /\ L \subseteq Nat /\ H # {} /\ L # {}
    BY CandlePrices
  <1>2. IsFiniteSet(H) /\ IsFiniteSet(L)
    <2> DEFINE h == [c \in W |-> High(c, m)]
               l == [c \in W |-> Low(c, m)]
    <2>1. H = {h[c] : c \in W} /\ DOMAIN h = W /\ L = {l[c] : c \in W} /\ DOMAIN l = W
      OBVIOUS
    <2> HIDE DEF H, L, h, l
    <2> QED
      BY <2>1, FiniteImage
  <1>3. /\ Max(H) \in H /\ \A x \in H : x <= Max(H)
        /\ Min(L) \in L /\ \A x \in L : Min(L) <= x
    <2>1. H \subseteq Int /\ L \subseteq Int
      BY <1>1
    <2> HIDE DEF H, L
    <2> QED
      BY <1>1, <1>2, <2>1, FiniteExtremes
  <1> QED
    BY <1>1, <1>3

Prices == Nat \ {0}
(* A stored snapshot, whatever its kind: when it was taken, and at which price. *)
Stamp(s) == s.id \in Nat /\ s.time \in Nat /\ s.entry \in Prices \cup {None}
(* A window of candles that have closed.                                       *)
HasClosed(W) == W \subseteq Candle /\ IsFiniteSet(W) /\ \A c \in W : EndOf(c) <= now

(* The candles that close after a horizon: the first of them decides.           *)
LEMMA DecidingIsLater ==
    ASSUME NEW W, HasClosed(W), NEW target \in Nat, Deciding(W, target) # {}
    PROVE  /\ First(Deciding(W, target)) \in W
           /\ EndOf(First(Deciding(W, target))) > target
           /\ EndOf(First(Deciding(W, target))) <= now
           /\ EndOf(First(Deciding(W, target))) \in Nat
  <1>1. Deciding(W, target) \subseteq Candle
    BY DEF Deciding, HasClosed
  <1>2. First(Deciding(W, target)) \in Deciding(W, target)
    BY <1>1, FirstIsOne
  <1> QED
    BY <1>1, <1>2, CandleTimes DEF Deciding, ClosesFrom, HasClosed

(* The first touch that counts is one of a candle of the window.               *)
LEMMA FirstHitIsAHit ==
    ASSUME NEW W, W \subseteq Candle, NEW s, NEW m
    PROVE  /\ FirstHit(W, s, m) # "none" =>
                /\ s.type \in {"BUY", "SELL"}
                /\ \E c \in W : Hit(c, s, m) = FirstHit(W, s, m)
           /\ s.type \in {"BUY", "SELL"} /\ (\E c \in W : Hit(c, s, m) # "none")
                => FirstHit(W, s, m) # "none"
  <1> DEFINE T == {c \in W : Hit(c, s, m) # "none"}
  <1>1. T # {} => First(T) \in T
    BY FirstIsOne
  <1>2. s.type \in {"BUY", "SELL"} =>
           FirstHit(W, s, m) = IF T = {} THEN "none" ELSE Hit(First(T), s, m)
    BY DEF FirstHit
  <1>3. s.type \notin {"BUY", "SELL"} => FirstHit(W, s, m) = "none"
    BY DEF FirstHit
  <1> QED
    BY <1>1, <1>2, <1>3

Highest(W, m) == Max({High(c, m) : c \in W})
Lowest(W, m) == Min({Low(c, m) : c \in W})

(* How far the price went agrees with the levels that were hit.                 *)
LEMMA HitsAgree ==
    ASSUME NEW W, HasClosed(W), W # {}, NEW m, PathOK(m), NEW s, s.entry \in Prices
    PROVE  LET up == Percent(s.entry, Highest(W, m))
               down == Percent(s.entry, Lowest(W, m)) IN
           /\ FirstHit(W, s, m) = "take_profit" =>
                IF s.type = "BUY" THEN up >= 15000 ELSE down <= -15000
           /\ s.type = "BUY" /\ down < -10000 => FirstHit(W, s, m) # "none"
  <1> DEFINE d == s.entry
             high == Highest(W, m)
             low == Lowest(W, m)
             nh == (high - d) * 1000000
             nl == (low - d) * 1000000
  <1>1. d \in Nat \ {0} /\ high \in Nat /\ low \in Nat
    BY WindowPrices DEF HasClosed, Prices, Highest, Lowest
  <1>2. \A c \in W : /\ High(c, m) \in Nat /\ Low(c, m) \in Nat
                     /\ High(c, m) <= high /\ low <= Low(c, m)
    BY WindowPrices, CandlePrices DEF HasClosed, Highest, Lowest
  <1>3. PICK b \in W : low = Low(b, m)
    BY WindowPrices DEF HasClosed, Lowest
  <1>4. Percent(d, high) = HalfUp(nh, d) /\ Percent(d, low) = HalfUp(nl, d)
    BY DEF Percent
  <1>5. nh \in Int /\ nl \in Int
    BY <1>1, SMT
  <1>6. /\ nh >= 15000 * d => HalfUp(nh, d) >= 15000
        /\ nl <= -(15000 * d) => HalfUp(nl, d) <= -15000
        /\ HalfUp(nl, d) < -10000 => nl < -(10000 * d)
    <2> HIDE DEF nh, nl, d
    <2>1. ASSUME NEW k \in Nat
          PROVE  /\ nh >= k * d => HalfUp(nh, d) >= k
                 /\ nl <= -(k * d) => HalfUp(nl, d) <= -k
                 /\ HalfUp(nl, d) < -k => nl < -(k * d)
      BY <1>1, <1>5, HalfUpBounds, Zenon
    <2> QED
      BY <2>1
  <1> HIDE DEF high, low
  <1>7. ASSUME FirstHit(W, s, m) = "take_profit"
        PROVE  IF s.type = "BUY" THEN nh >= 15000 * d ELSE nl <= -(15000 * d)
    <2>1. PICK c \in W : Hit(c, s, m) = "take_profit"
      BY <1>7, FirstHitIsAHit DEF HasClosed
    <2>2. IF s.type = "BUY" THEN High(c, m) * 1000 >= d * 1015
                            ELSE Low(c, m) * 1000 <= d * 985
      BY <2>1 DEF Hit
    <2>3. /\ High(c, m) \in Nat /\ Low(c, m) \in Nat
          /\ High(c, m) <= high /\ low <= Low(c, m)
      BY <1>2
    <2> QED
      BY <2>2, <2>3, <1>1, SMT
  <1>8. ASSUME s.type = "BUY", nl < -(10000 * d) PROVE FirstHit(W, s, m) # "none"
    <2>1. Low(b, m) * 1000 <= d * 990
      BY <1>1, <1>3, <1>8, SMT
    <2>2. Hit(b, s, m) = "stop_loss"
      BY <2>1, <1>8 DEF Hit
    <2> QED
      BY <2>2, <1>8, FirstHitIsAHit DEF HasClosed
  <1> QED
    BY <1>4, <1>6, <1>7, <1>8, SMT DEF high, low

(* A verdict as the property wants it, decided at a minute of the clock.        *)
Fits(s, h, o) == JudgesItsHorizon(s, h, o) /\ ("by" \in DOMAIN o => o.by \in Nat)

(* A signal's verdict rests on what it should.                                 *)
LEMMA SignalVerdict ==
    ASSUME NEW W, HasClosed(W), PathOK(market), NEW s, Stamp(s), s.source # "scan",
           NEW h \in Nat, NEW at \in Nat
    PROVE  Fits(s, h, JudgeSignal(s, h, at, W, market))
  <1> DEFINE target == s.time + h
             D == Deciding(W, target)
             o == JudgeSignal(s, h, at, W, market)
  <1>1. target \in Nat
    BY DEF Stamp
  <1>2. CASE at < target
    <2>1. o = Empty("pending", at)
      BY <1>1, <1>2 DEF JudgeSignal
    <2> QED
      BY <2>1 DEF Fits, JudgesItsHorizon, Empty
  <1>3. CASE at >= target /\ (s.entry = None \/ D = {})
    <2>1. o = Empty("insufficient_data", at)
      BY <1>1, <1>3 DEF JudgeSignal
    <2> QED
      BY <2>1, <1>3 DEF Fits, JudgesItsHorizon, Empty
  <1>4. CASE at >= target /\ s.entry # None /\ D # {}
    <2> DEFINE last == EndOf(First(D))
               price == market[last]
               base == DirectionCorrect(s.base, s.entry, price)
    <2>1. /\ DOMAIN o = {"state", "at", "by", "change", "upside", "downside", "hit",
                         "correct", "heatCorrect", "swept", "sweepCorrect", "improved",
                         "reduced"}
          /\ o.state = OutcomeState(base) /\ o.at = at /\ o.by = last
          /\ o.upside = Percent(s.entry, Highest(W, market))
          /\ o.downside = Percent(s.entry, Lowest(W, market))
          /\ o.hit = FirstHit(W, s, market)
      BY <1>1, <1>4 DEF JudgeSignal, Close, Highest, Lowest
    <2>2. First(D) \in W /\ last > target /\ last <= now /\ last \in Nat
      BY <1>1, <1>4, DecidingIsLater
    <2>3. s.entry \in Prices /\ W # {}
      BY <1>4, <2>2 DEF Stamp
    <2>4. price \in Nat
      BY <2>2, CandlePrices DEF Close, HasClosed
    <2> HIDE DEF o, price, last
    <2>5. o.state = "win" => (price > s.entry) = (s.base = "BUY")
      BY <2>1, <2>3, <2>4 DEF OutcomeState, DirectionCorrect, Prices
    <2>6. /\ o.hit = "take_profit" =>
               IF s.type = "BUY" THEN o.upside >= 15000 ELSE o.downside <= -15000
          /\ s.type = "BUY" /\ o.downside < -10000 => o.hit # "none"
      BY <2>1, <2>3, HitsAgree
    <2>7. RestsOn(s, o)
      BY <2>1, <2>5, <2>6 DEF RestsOn, price
    <2> QED
      BY <1>4, <2>1, <2>2, <2>7 DEF Fits, JudgesItsHorizon, o
  <1> QED
    BY <1>1, <1>2, <1>3, <1>4

(* So does that of a scanner row; its window always has a candle that decides.  *)
LEMMA ScannerVerdict ==
    ASSUME NEW W, HasClosed(W), PathOK(market), NEW s, Stamp(s), s.source = "scan",
           NEW h \in Nat, NEW at \in Nat, W # {} => Deciding(W, s.time + h) # {}
    PROVE  Fits(s, h, JudgeScanner(s, h, at, W, market))
  <1> DEFINE target == s.time + h
             D == Deciding(W, target)
             o == JudgeScanner(s, h, at, W, market)
  <1>1. target \in Nat
    BY DEF Stamp
  <1>2. CASE at < target
    <2>1. o = Empty("pending", at)
      BY <1>1, <1>2 DEF JudgeScanner
    <2> QED
      BY <2>1 DEF Fits, JudgesItsHorizon, Empty
  <1>3. CASE at >= target /\ (s.entry = None \/ W = {})
    <2>1. o = Empty("insufficient_data", at)
      BY <1>1, <1>3 DEF JudgeScanner
    <2> QED
      BY <2>1, <1>3 DEF Fits, JudgesItsHorizon, Empty
  <1>4. CASE at >= target /\ s.entry # None /\ W # {} /\ s.direction = "neutral"
    <2>1. o = Empty("neutral", at)
      BY <1>1, <1>4 DEF JudgeScanner
    <2> QED
      BY <2>1, <1>4 DEF Fits, JudgesItsHorizon, Empty
  <1>5. CASE at >= target /\ s.entry # None /\ W # {} /\ s.direction # "neutral"
    <2> DEFINE last == EndOf(First(D))
               price == market[last]
               gross == GrossReturn(s, price)
               net == gross - Costs
    <2>1. /\ DOMAIN o = {"state", "at", "by", "net", "favorable", "adverse", "takeProfit",
                         "stopLoss", "exit"}
          /\ o.state = (IF net > 0 THEN "win" ELSE IF net < 0 THEN "loss" ELSE "neutral")
          /\ o.at = at /\ o.by = last
      BY <1>1, <1>5 DEF JudgeScanner, ScannerOutcome
    <2>2. First(D) \in W /\ last > target /\ last <= now /\ last \in Nat
      BY <1>1, <1>5, DecidingIsLater
    <2>3. s.entry \in Nat \ {0}
      BY <1>5 DEF Stamp, Prices
    <2>4. price \in Nat
      BY <2>2, CandlePrices DEF Close, HasClosed
    <2> HIDE DEF o, price, last
    <2> DEFINE n == (price - s.entry) * 1000000
               p == HalfUp(n, s.entry)
    <2>5. n \in Int /\ (n > 0 => price > s.entry) /\ (n < 0 => price < s.entry)
      BY <2>3, <2>4, SMT
    <2>6. gross = IF s.direction = "long" THEN p ELSE -p
      BY DEF GrossReturn, Percent
    <2> HIDE DEF n, p
    <2>7. p \in Int /\ (p > 0 => n > 0) /\ (p < 0 => n < 0)
      <3>1. 0 \in Nat
        OBVIOUS
      <3>2. p \in Int /\ (p > 0 => n > 0 * s.entry) /\ (p < -0 => n < -(0 * s.entry))
        BY <2>3, <2>5, <3>1, HalfUpBounds, Zenon DEF p
      <3> QED
        BY <2>3, <2>5, <3>2
    <2> HIDE DEF gross
    <2>8. o.state = "win" => gross > 0
      BY <2>1, <2>6, <2>7 DEF Costs
    <2>9. RestsOn(s, o)
      BY <2>1, <2>5, <2>6, <2>7, <2>8 DEF RestsOn, price
    <2> QED
      BY <1>5, <2>1, <2>2, <2>9 DEF Fits, JudgesItsHorizon, o
  <1> QED
    BY <1>1, <1>2, <1>3, <1>4, <1>5

(* The snapshots in the table and those an evaluation under way has read.      *)
Read(e) == {p[1] : p \in evaluating[e].todo}
Known == snapshots \cup UNION {Read(e) : e \in Evaluators}

KnownOK == \A s \in Known :
    /\ Stamp(s) /\ s.id < issued
    /\ Start <= s.time /\ s.time <= now
OneEach == \A s, t \in Known : s.id = t.id => s = t

TodoOK(e) ==
    /\ DOMAIN evaluating[e] = {"at", "todo", "verdict"}
    /\ evaluating[e].at \in Nat
    /\ \A p \in evaluating[e].todo : p[2] \in Horizons /\ Judges(e, p[1])

(* A verdict that is still to be written is one on the pair it will be written for. *)
VerdictOK(e) == evaluating[e].verdict # None =>
    /\ evaluating[e].todo # {}
    /\ Fits(NextPair(e)[1], NextPair(e)[2], evaluating[e].verdict)

WrittenOK == \A s \in snapshots, h \in Horizons :
    <<s.id, h>> \in DOMAIN outcomes => Fits(s, h, outcomes[<<s.id, h>>])

OutcomesInv ==
    /\ now \in Start .. MaxTime /\ PathOK(market) /\ issued \in Nat
    /\ HasClosed(candles)
    /\ DOMAIN evaluating = Evaluators
    /\ \A e \in Evaluators : TodoOK(e) /\ VerdictOK(e)
    /\ KnownOK /\ OneEach
    /\ \A k \in DOMAIN outcomes : k[1] \in Nat /\ k[1] < issued
    /\ WrittenOK

(* Nothing is stored and no evaluation is under way at first.                 *)
LEMMA OutcomesAtFirst == ResearchInit => OutcomesInv
  <1> SUFFICES ASSUME ResearchInit PROVE OutcomesInv
    OBVIOUS
  <1>1. now = Start /\ now \in Start .. MaxTime
    BY ClockAssumption, ResearchAssumption DEF ResearchInit, Start
  <1>2. PathOK(market) /\ issued \in Nat /\ snapshots = {} /\ candles = {} /\ outcomes = <<>>
    BY OutcomesAssumption DEF ResearchInit, OutcomesInit, PathOK
  <1>3. evaluating = [e \in Evaluators |-> Resting]
    BY DEF ResearchInit, OutcomesInit
  <1>4. HasClosed(candles)
    BY <1>2, FS_EmptySet DEF HasClosed
  <1>5. \A e \in Evaluators : TodoOK(e) /\ VerdictOK(e) /\ Read(e) = {}
    BY <1>3 DEF TodoOK, VerdictOK, Resting, Read
  <1>6. Known = {}
    BY <1>2, <1>5 DEF Known
  <1>7. DOMAIN outcomes = {}
    BY <1>2
  <1> QED
    BY <1>1, <1>2, <1>3, <1>4, <1>5, <1>6, <1>7
       DEF OutcomesInv, KnownOK, OneEach, WrittenOK

(* What is known, one by one.                                                 *)
LEMMA KnownIs ==
    /\ \A s : s \in Known <=>
         s \in snapshots \/ \E e \in Evaluators : \E p \in evaluating[e].todo : s = p[1]
    /\ \A s : s \in Known' <=>
         s \in snapshots' \/ \E e \in Evaluators : \E p \in evaluating'[e].todo : s = p[1]
  BY DEF Known, Read

(* The next pair is one of those to do.                                       *)
LEMMA NextIsToDo ==
    ASSUME OutcomesInv, NEW e \in Evaluators, evaluating[e].todo # {}
    PROVE  NextPair(e) \in evaluating[e].todo
  <1> DEFINE T == evaluating[e].todo
             Ids == {p[1].id : p \in T}
  <1>1. \A p \in T : p[1].id \in Nat /\ p[1].id < issued /\ p[2] \in Nat
    <2>1. \A p \in T : p[1] \in Known /\ p[2] \in Horizons
      BY KnownIs DEF OutcomesInv, TodoOK
    <2> QED
      BY <2>1, OutcomesAssumption DEF OutcomesInv, KnownOK, Stamp
  <1>2. PICK i \in Ids : \A j \in Ids : IF e = "scanner" THEN i <= j ELSE i >= j
    <2>1. Ids \subseteq 0 .. issued /\ Ids # {} /\ issued \in Int /\ 0 \in Int
      BY <1>1 DEF OutcomesInv
    <2> HIDE DEF Ids
    <2>2. \E i \in Ids : \A j \in Ids : i <= j
      BY <2>1, LeastOf, Zenon
    <2>3. Max(Ids) \in Ids /\ \A j \in Ids : Max(Ids) >= j
      BY <2>1, GreatestOf, Zenon
    <2> QED
      BY <2>2, <2>3
  <1> DEFINE Same == {p[2] : p \in {q \in T : q[1].id = i}}
  <1>3. PICK h \in Same : \A k \in Same : h <= k
    <2>1. Same \subseteq Nat /\ Same # {}
      BY <1>1, <1>2
    <2> HIDE DEF Same
    <2> QED
      BY <2>1, LeastNatural
  <1>4. PICK p \in T : p[1].id = i /\ p[2] = h
    OBVIOUS
  <1>5. ASSUME NEW q \in T
        PROVE  \/ IF e = "scanner" THEN p[1].id < q[1].id ELSE p[1].id > q[1].id
               \/ p[1].id = q[1].id /\ p[2] <= q[2]
    <2>1. IF e = "scanner" THEN i <= q[1].id ELSE i >= q[1].id
      BY <1>2
    <2>2. q[1].id = i => h <= q[2]
      BY <1>3
    <2>3. i \in Nat /\ q[1].id \in Nat
      BY <1>1, <1>4
    <2> HIDE DEF T
    <2> QED
      BY <1>4, <2>1, <2>2, <2>3
  <1> HIDE DEF T
  <1>6. \E x \in T : \A q \in T :
           \/ IF e = "scanner" THEN x[1].id < q[1].id ELSE x[1].id > q[1].id
           \/ x[1].id = q[1].id /\ x[2] <= q[2]
    BY <1>5
  <1>7. NextOf(e, T) \in T
    BY <1>6 DEF NextOf
  <1> QED
    BY <1>7 DEF NextPair, T

(* Time goes by.                                                              *)
LEMMA TickKeeps ==
    ASSUME OutcomesInv, Tick, UNCHANGED outcomeVars
    PROVE  OutcomesInv'
  <1>1. /\ market' = market /\ snapshots' = snapshots /\ outcomes' = outcomes
        /\ candles' = candles /\ evaluating' = evaluating /\ issued' = issued
    BY DEF outcomeVars
  <1>2. now \in Int /\ now' \in Start .. MaxTime /\ now <= now'
    BY ClockAssumption DEF Tick, OutcomesInv, Start
  <1>3. HasClosed(candles)'
    BY <1>1, <1>2, CandleTimes DEF HasClosed, OutcomesInv, Candle, EndOf
  <1>4. ASSUME NEW s, NEW h, NEW o, Fits(s, h, o)
        PROVE  Fits(s, h, o)'
    <2>1. "by" \in DOMAIN o => o.by <= now'
      BY <1>2, <1>4 DEF Fits, JudgesItsHorizon
    <2>2. RestsOn(s, o)' <=> RestsOn(s, o)
      BY <1>1 DEF RestsOn
    <2> QED
      BY <1>4, <2>1, <2>2 DEF Fits, JudgesItsHorizon
  <1>5. \A e \in Evaluators : TodoOK(e)' /\ VerdictOK(e)'
    BY <1>1, <1>4 DEF OutcomesInv, TodoOK, VerdictOK, NextPair
  <1>6. Known' = Known
    BY <1>1 DEF Known, Read
  <1>7. KnownOK' /\ OneEach'
    BY <1>1, <1>2, <1>6 DEF OutcomesInv, KnownOK, OneEach, Stamp, Start
  <1>8. WrittenOK'
    BY <1>1, <1>4 DEF OutcomesInv, WrittenOK
  <1> QED
    BY <1>1, <1>2, <1>3, <1>5, <1>7, <1>8 DEF OutcomesInv, PathOK

(* While the clock stands, what a verdict rests on stays.                      *)
LEMMA FitsStays ==
    ASSUME market' = market, now' = now
    PROVE  \A s, h, o : Fits(s, h, o)' <=> Fits(s, h, o)
  BY DEF Fits, JudgesItsHorizon, RestsOn

(* No step makes known what was not, unless a signal is stored.                *)
LEMMA KnownKept ==
    ASSUME OutcomesInv, now' = now, issued' = issued, \A s \in Known' : s \in Known
    PROVE  KnownOK' /\ OneEach'
  <1>1. KnownOK'
    BY DEF OutcomesInv, KnownOK, Stamp
  <1>2. OneEach'
    BY DEF OutcomesInv, OneEach
  <1> QED
    BY <1>1, <1>2

(* A snapshot gets an id of its own, so it has no outcome yet.                  *)
LEMMA InsertKeeps ==
    ASSUME OutcomesInv, now' = now, NEW kind \in SignalKinds, InsertSnapshot(kind)
    PROVE  OutcomesInv'
  <1> DEFINE s0 == Stamped(kind)
  <1>1. /\ market' = market /\ outcomes' = outcomes /\ candles' = candles
        /\ evaluating' = evaluating /\ issued' = issued + 1
        /\ snapshots' = snapshots \cup {s0}
    BY DEF InsertSnapshot
  <1>2. issued \in Nat /\ now \in Nat /\ now >= Start /\ now <= MaxTime /\ PathOK(market)
    BY ClockAssumption DEF OutcomesInv, Start
  <1>3. s0.id = issued /\ s0.time = now /\ s0.entry \in Prices \cup {None}
    BY <1>2 DEF Stamped, PathOK, Prices
  <1> HIDE DEF s0
  <1>4. \A s \in Known' : s \in Known \/ s = s0
    BY <1>1, KnownIs
  <1>5. KnownOK'
    BY <1>1, <1>2, <1>3, <1>4 DEF OutcomesInv, KnownOK, Stamp
  <1>6. \A s \in Known : s.id # s0.id
    BY <1>2, <1>3 DEF OutcomesInv, KnownOK, Stamp
  <1>7. OneEach'
    BY <1>4, <1>6 DEF OutcomesInv, OneEach
  <1>8. \A e \in Evaluators : TodoOK(e)' /\ VerdictOK(e)'
    BY <1>1, FitsStays DEF OutcomesInv, TodoOK, VerdictOK, NextPair
  <1>9. \A k \in DOMAIN outcomes' : k[1] \in Nat /\ k[1] < issued'
    BY <1>1, <1>2 DEF OutcomesInv
  <1>10. WrittenOK'
    <2> SUFFICES ASSUME NEW s \in snapshots', NEW h \in Horizons,
                        <<s.id, h>> \in DOMAIN outcomes
                 PROVE  Fits(s, h, outcomes[<<s.id, h>>])
      BY <1>1, FitsStays DEF WrittenOK
    <2>1. s # s0
      <3>1. <<s.id, h>>[1] < issued
        BY DEF OutcomesInv
      <3> QED
        BY <1>2, <1>3, <3>1
    <2> QED
      BY <1>1, <2>1 DEF OutcomesInv, WrittenOK
  <1> QED
    BY <1>1, <1>2, <1>5, <1>7, <1>8, <1>9, <1>10 DEF OutcomesInv, HasClosed

(* A candle is stored once it has closed.                                      *)
LEMMA StoreKeeps ==
    ASSUME OutcomesInv, now' = now, NEW c \in ClosedCandles, StoreCandle(c)
    PROVE  OutcomesInv'
  <1>1. /\ market' = market /\ outcomes' = outcomes /\ snapshots' = snapshots
        /\ evaluating' = evaluating /\ issued' = issued /\ candles' = candles \cup {c}
    BY DEF StoreCandle
  <1>2. c \in Candle /\ EndOf(c) <= now
    <2>1. PICK s \in snapshots : c.open \in s.time - 1 .. now
      BY DEF ClosedCandles
    <2>2. s.time \in Nat /\ s.time >= 6 /\ now \in Int /\ now <= MaxTime
      BY KnownIs, ClockAssumption DEF OutcomesInv, KnownOK, Stamp, Start
    <2>3. c.open \in Nat
      BY <2>1, <2>2
    <2>4. /\ c \in [open : UNION {t.time - 1 .. now : t \in snapshots}, grain : DOMAIN Grains]
          /\ EndOf(c) <= now
      BY DEF ClosedCandles
    <2>5. c = [open |-> c.open, grain |-> c.grain] /\ c.grain \in DOMAIN Grains
      BY <2>4
    <2>6. c \in [open : Nat, grain : DOMAIN Grains]
      BY <2>3, <2>5
    <2>7. EndOf(c) \in Nat
      BY <2>6, GrainAssumption DEF EndOf
    <2> QED
      BY <2>2, <2>4, <2>6, <2>7, ClockAssumption DEF Candle
  <1>3. HasClosed(candles)'
    <2>1. IsFiniteSet(candles \cup {c})
      BY FS_AddElement DEF OutcomesInv, HasClosed
    <2> QED
      BY <1>1, <1>2, <2>1 DEF OutcomesInv, HasClosed
  <1>4. \A s \in Known' : s \in Known
    BY <1>1, KnownIs
  <1>5. KnownOK' /\ OneEach'
    BY <1>1, <1>4, KnownKept
  <1>6. \A e \in Evaluators : TodoOK(e)' /\ VerdictOK(e)'
    BY <1>1, FitsStays DEF OutcomesInv, TodoOK, VerdictOK, NextPair
  <1>7. WrittenOK'
    BY <1>1, FitsStays DEF OutcomesInv, WrittenOK
  <1> QED
    BY <1>1, <1>3, <1>5, <1>6, <1>7 DEF OutcomesInv, PathOK

(* Steps of evaluations: what is left to do only changes for the evaluator, and  *)
(* for it to pairs that are known.                                            *)
LEMMA EvaluatorKeeps ==
    ASSUME OutcomesInv, NEW e \in Evaluators, NEW v,
           UNCHANGED <<market, now, snapshots, candles, issued>>,
           evaluating' = [evaluating EXCEPT ![e] = v],
           DOMAIN v = {"at", "todo", "verdict"}, v.at \in Nat,
           \A p \in v.todo : p[1] \in Known /\ p[2] \in Horizons /\ Judges(e, p[1]),
           v.verdict # None => /\ v.todo # {}
                               /\ Fits(NextOf(e, v.todo)[1], NextOf(e, v.todo)[2], v.verdict),
           \A k \in DOMAIN outcomes' : k[1] \in Nat /\ k[1] < issued,
           WrittenOK'
    PROVE  OutcomesInv'
  <1>1. /\ DOMAIN evaluating' = Evaluators /\ evaluating'[e] = v
        /\ \A f \in Evaluators \ {e} : evaluating'[f] = evaluating[f]
    BY DEF OutcomesInv
  <1>2. \A s \in Known' : s \in Known
    <2> SUFFICES ASSUME NEW s \in Known' PROVE s \in Known
      OBVIOUS
    <2>1. CASE s \in snapshots'
      BY <2>1, KnownIs
    <2>2. ASSUME NEW f \in Evaluators, NEW p \in evaluating'[f].todo, s = p[1]
          PROVE  s \in Known
      <3>1. CASE f = e
        BY <1>1, <2>2, <3>1
      <3>2. CASE f # e
        BY <1>1, <2>2, <3>2, KnownIs
      <3> QED
        BY <3>1, <3>2
    <2> QED
      BY <2>1, <2>2, KnownIs
  <1>3. KnownOK' /\ OneEach'
    BY <1>2, KnownKept
  <1>4. ASSUME NEW f \in Evaluators PROVE TodoOK(f)' /\ VerdictOK(f)'
    <2>1. CASE f = e
      BY <1>1, <2>1, FitsStays DEF TodoOK, VerdictOK, NextPair, Judges
    <2>2. CASE f # e
      <3>1. evaluating'[f] = evaluating[f]
        BY <1>1, <2>2
      <3> QED
        BY <3>1, FitsStays DEF OutcomesInv, TodoOK, VerdictOK, NextPair, Judges
    <2> QED
      BY <2>1, <2>2
  <1> QED
    BY <1>1, <1>3, <1>4 DEF OutcomesInv, HasClosed

(* An evaluation begins with pairs of signals that are in the table.            *)
LEMMA BeginKeeps ==
    ASSUME OutcomesInv, now' = now, NEW e \in Evaluators, BeginEvaluation(e)
    PROVE  OutcomesInv'
  <1> DEFINE v == [at |-> now, todo |-> Open(e), verdict |-> None]
  <1>1. evaluating' = [evaluating EXCEPT ![e] = v]
    BY DEF BeginEvaluation
  <1>2. UNCHANGED <<market, now, snapshots, outcomes, candles, issued>>
    BY DEF BeginEvaluation
  <1>3. \A p \in Open(e) : p[1] \in Known /\ p[2] \in Horizons /\ Judges(e, p[1])
    BY KnownIs DEF Open
  <1>4. now \in Nat
    BY ClockAssumption DEF OutcomesInv, Start
  <1>5. WrittenOK' /\ \A k \in DOMAIN outcomes' : k[1] \in Nat /\ k[1] < issued
    BY <1>2, FitsStays DEF OutcomesInv, WrittenOK
  <1>6. /\ DOMAIN v = {"at", "todo", "verdict"} /\ v.at = now /\ v.todo = Open(e)
        /\ v.verdict = None
    OBVIOUS
  <1> HIDE DEF v
  <1> QED
    BY <1>1, <1>2, <1>3, <1>4, <1>5, <1>6, EvaluatorKeeps

(* The window of either query holds candles that have closed; that of a scanner  *)
(* row is of an interval with a candle that decides, or empty.                  *)
LEMMA RowsHaveClosed ==
    ASSUME HasClosed(candles), NEW e, NEW s, NEW h
    PROVE  /\ HasClosed(Rows(e, s, h))
           /\ e = "scanner" /\ Rows(e, s, h) # {} => Deciding(Rows(e, s, h), s.time + h) # {}
  <1> DEFINE target == s.time + h
             Of(g) == GrainWindow(candles, s, target, g)
             useful == {i \in DOMAIN SearchOrder : Deciding(Of(SearchOrder[i]), target) # {}}
             R == Rows(e, s, h)
  <1>1. useful # {} => Min(useful) \in useful
    <2>1. useful \subseteq 1 .. Len(SearchOrder) /\ 1 \in Int /\ Len(SearchOrder) \in Int
      BY GrainAssumption
    <2> HIDE DEF useful
    <2> SUFFICES ASSUME useful # {} PROVE Min(useful) \in useful
      OBVIOUS
    <2>2. \E i \in useful : \A j \in useful : i <= j
      BY <2>1, LeastOf, Zenon
    <2> QED
      BY <2>2 DEF Min
  <1>2. R \subseteq candles
    BY DEF Rows, SignalWindow, ScannerWindow, GrainWindow
  <1>3. HasClosed(R)
    <2>1. IsFiniteSet(R)
      BY <1>2, FS_Subset DEF HasClosed
    <2> HIDE DEF R
    <2> QED
      BY <1>2, <2>1 DEF HasClosed
  <1>4. ASSUME e = "scanner", R # {} PROVE Deciding(R, target) # {}
    <2>1. R = IF useful = {} THEN {} ELSE Of(SearchOrder[Min(useful)])
      BY <1>4 DEF Rows, ScannerWindow
    <2>2. useful # {} /\ R = Of(SearchOrder[Min(useful)])
      BY <1>4, <2>1
    <2>3. Deciding(Of(SearchOrder[Min(useful)]), target) # {}
      BY <1>1, <2>2
    <2> HIDE DEF R, Of
    <2> QED
      BY <2>2, <2>3
  <1> QED
    BY <1>3, <1>4

(* The verdict is reached on the rows the query returns now, for a signal that  *)
(* was read when the evaluation began.                                        *)
LEMMA JudgeKeeps ==
    ASSUME OutcomesInv, now' = now, NEW e \in Evaluators, Judge(e)
    PROVE  OutcomesInv'
  <1> DEFINE p == NextPair(e)
             s == p[1]
             h == p[2]
             W == Rows(e, s, h)
             o == Verdict(e, s, h, W)
             v == [evaluating[e] EXCEPT !.verdict = o]
  <1>1. evaluating' = [evaluating EXCEPT ![e] = v]
    BY DEF Judge
  <1>2. UNCHANGED <<market, now, snapshots, outcomes, candles, issued>>
    BY DEF Judge
  <1>3. p \in evaluating[e].todo /\ evaluating[e].todo # {}
    BY NextIsToDo DEF Judge
  <1>4. /\ DOMAIN evaluating[e] = {"at", "todo", "verdict"} /\ evaluating[e].at \in Nat
        /\ \A q \in evaluating[e].todo :
             q[1] \in Known /\ q[2] \in Horizons /\ Judges(e, q[1])
    BY KnownIs DEF OutcomesInv, TodoOK
  <1>5. Stamp(s) /\ h \in Nat /\ Judges(e, s)
    BY <1>3, <1>4, OutcomesAssumption DEF OutcomesInv, KnownOK
  <1>6. HasClosed(W) /\ (e = "scanner" /\ W # {} => Deciding(W, s.time + h) # {})
    BY RowsHaveClosed DEF OutcomesInv
  <1>7. /\ DOMAIN v = {"at", "todo", "verdict"} /\ v.at = evaluating[e].at
        /\ v.todo = evaluating[e].todo /\ v.verdict = o
    BY <1>4
  <1> HIDE DEF v, W
  <1>8. Fits(s, h, o)
    <2> HIDE DEF s, h
    <2>1. PathOK(market)
      BY DEF OutcomesInv
    <2>2. CASE e = "scanner"
      <3>1. s.source = "scan"
        BY <1>5, <2>2 DEF Judges
      <3>2. o = JudgeScanner(s, h, evaluating[e].at, W, market)
        BY <2>2 DEF Verdict
      <3> QED
        BY <1>4, <1>5, <1>6, <2>1, <2>2, <3>1, <3>2, ScannerVerdict
    <2>3. CASE e # "scanner"
      <3>1. s.source # "scan"
        BY <1>5, <2>3 DEF Judges
      <3>2. o = JudgeSignal(s, h, evaluating[e].at, W, market)
        BY <2>3 DEF Verdict
      <3> QED
        BY <1>4, <1>5, <1>6, <2>1, <3>1, <3>2, SignalVerdict
    <2> QED
      BY <2>2, <2>3
  <1>9. WrittenOK' /\ \A k \in DOMAIN outcomes' : k[1] \in Nat /\ k[1] < issued
    BY <1>2, FitsStays DEF OutcomesInv, WrittenOK
  <1>10. NextOf(e, v.todo)[1] = s /\ NextOf(e, v.todo)[2] = h
    BY <1>7 DEF NextPair
  <1> HIDE DEF o, s, h, p
  <1> QED
    BY <1>1, <1>2, <1>3, <1>4, <1>7, <1>8, <1>9, <1>10, EvaluatorKeeps

(* What is written is the verdict on the pair it is written for, also when the   *)
(* snapshot is gone or another evaluation wrote in between.                     *)
LEMMA WriteKeeps ==
    ASSUME OutcomesInv, now' = now, NEW e \in Evaluators, Write(e)
    PROVE  OutcomesInv'
  <1> DEFINE p == NextPair(e)
             key == <<p[1].id, p[2]>>
             o == evaluating[e].verdict
             v == [evaluating[e] EXCEPT !.todo = @ \ {p}, !.verdict = None]
  <1>1. evaluating' = [evaluating EXCEPT ![e] = v] /\ outcomes' = Upserted(key, o)
    BY DEF Write
  <1>2. UNCHANGED <<market, now, snapshots, candles, issued>>
    BY DEF Write
  <1>3. evaluating[e].todo # {} /\ Fits(p[1], p[2], o)
    BY DEF Write, OutcomesInv, VerdictOK
  <1>4. p \in evaluating[e].todo
    BY <1>3, NextIsToDo
  <1>5. /\ DOMAIN evaluating[e] = {"at", "todo", "verdict"} /\ evaluating[e].at \in Nat
        /\ \A q \in evaluating[e].todo :
             q[1] \in Known /\ q[2] \in Horizons /\ Judges(e, q[1])
    BY KnownIs DEF OutcomesInv, TodoOK
  <1>6. /\ DOMAIN v = {"at", "todo", "verdict"} /\ v.at = evaluating[e].at
        /\ v.todo = evaluating[e].todo \ {p} /\ v.verdict = None
    BY <1>5
  <1> HIDE DEF v, p, o
  <1>7. p[1] \in Known /\ p[1].id \in Nat /\ p[1].id < issued
    BY <1>4, <1>5 DEF OutcomesInv, KnownOK, Stamp
  <1>8. /\ DOMAIN outcomes' = DOMAIN outcomes \cup {key} /\ outcomes'[key] = o
        /\ \A k \in DOMAIN outcomes \ {key} : outcomes'[k] = outcomes[k]
    BY <1>1 DEF Upserted
  <1>9. \A k \in DOMAIN outcomes' : k[1] \in Nat /\ k[1] < issued
    <2>1. key[1] = p[1].id
      OBVIOUS
    <2> QED
      BY <1>7, <1>8, <2>1 DEF OutcomesInv
  <1>10. WrittenOK'
    <2> SUFFICES ASSUME NEW s \in snapshots, NEW h \in Horizons,
                        <<s.id, h>> \in DOMAIN outcomes'
                 PROVE  Fits(s, h, outcomes'[<<s.id, h>>])
      BY <1>2, FitsStays DEF WrittenOK
    <2>1. CASE <<s.id, h>> = key
      <3>1. s.id = p[1].id /\ h = p[2]
        BY <2>1
      <3>2. s = p[1]
        BY <1>7, <3>1, KnownIs DEF OutcomesInv, OneEach
      <3> QED
        BY <1>3, <1>8, <2>1, <3>1, <3>2
    <2>2. CASE <<s.id, h>> # key
      BY <1>8, <2>2 DEF OutcomesInv, WrittenOK
    <2> QED
      BY <2>1, <2>2
  <1> HIDE DEF key
  <1> QED
    BY <1>1, <1>2, <1>5, <1>6, <1>9, <1>10, EvaluatorKeeps

(* An evaluation that raises leaves what it has written.                      *)
LEMMA RaiseKeeps ==
    ASSUME OutcomesInv, now' = now, NEW e \in Evaluators, EvaluationRaises(e)
    PROVE  OutcomesInv'
  <1>1. evaluating' = [evaluating EXCEPT ![e] = Resting]
    BY DEF EvaluationRaises
  <1>2. UNCHANGED <<market, now, snapshots, outcomes, candles, issued>>
    BY DEF EvaluationRaises
  <1>3. /\ DOMAIN Resting = {"at", "todo", "verdict"} /\ Resting.at \in Nat
        /\ Resting.todo = {} /\ Resting.verdict = None
    BY DEF Resting
  <1>4. WrittenOK' /\ \A k \in DOMAIN outcomes' : k[1] \in Nat /\ k[1] < issued
    BY <1>2, FitsStays DEF OutcomesInv, WrittenOK
  <1> QED
    BY <1>1, <1>2, <1>3, <1>4, EvaluatorKeeps

(* After a reset an evaluation goes on with signals that are in no table.       *)
LEMMA ClearKeeps ==
    ASSUME OutcomesInv, now' = now, ClearSignals
    PROVE  OutcomesInv'
  <1>1. /\ market' = market /\ evaluating' = evaluating /\ issued' = issued
        /\ snapshots' = {} /\ outcomes' = <<>> /\ candles' = {}
    BY DEF ClearSignals
  <1>2. \A s \in Known' : s \in Known
    BY <1>1, KnownIs
  <1>3. KnownOK' /\ OneEach'
    BY <1>1, <1>2, KnownKept
  <1>4. HasClosed(candles)'
    BY <1>1, FS_EmptySet DEF HasClosed
  <1>5. \A e \in Evaluators : TodoOK(e)' /\ VerdictOK(e)'
    BY <1>1, FitsStays DEF OutcomesInv, TodoOK, VerdictOK, NextPair
  <1>6. DOMAIN outcomes' = {} /\ WrittenOK'
    BY <1>1 DEF WrittenOK
  <1> QED
    BY <1>1, <1>3, <1>4, <1>5, <1>6 DEF OutcomesInv, PathOK

(* What the other parts do leaves the outcomes alone.                          *)
LEMMA OutcomesRest ==
    ASSUME OutcomesInv, now' = now, UNCHANGED outcomeVars
    PROVE  OutcomesInv'
  <1>1. /\ market' = market /\ evaluating' = evaluating /\ issued' = issued
        /\ snapshots' = snapshots /\ outcomes' = outcomes /\ candles' = candles
    BY DEF outcomeVars
  <1>2. \A s \in Known' : s \in Known
    BY <1>1, KnownIs
  <1>3. KnownOK' /\ OneEach'
    BY <1>1, <1>2, KnownKept
  <1>4. \A e \in Evaluators : TodoOK(e)' /\ VerdictOK(e)'
    BY <1>1, FitsStays DEF OutcomesInv, TodoOK, VerdictOK, NextPair
  <1>5. WrittenOK'
    BY <1>1, FitsStays DEF OutcomesInv, WrittenOK
  <1> QED
    BY <1>1, <1>3, <1>4, <1>5 DEF OutcomesInv, HasClosed, PathOK

(* Every step of the research side keeps the invariant.                        *)
LEMMA OutcomesStepKeeps ==
    ASSUME OutcomesInv, [ResearchNext]_researchVars
    PROVE  OutcomesInv'
  <1>1. CASE OutcomesStep
    <2>1. now' = now /\ OutcomesNext
      BY <1>1 DEF OutcomesStep, Only
    <2>2. ASSUME NEW kind \in SignalKinds, InsertSnapshot(kind) PROVE OutcomesInv'
      BY <2>1, <2>2, InsertKeeps
    <2>3. ASSUME NEW c \in ClosedCandles, StoreCandle(c) PROVE OutcomesInv'
      BY <2>1, <2>3, StoreKeeps
    <2>4. ASSUME NEW e \in Evaluators, BeginEvaluation(e) PROVE OutcomesInv'
      BY <2>1, <2>4, BeginKeeps
    <2>5. ASSUME NEW e \in Evaluators, Judge(e) PROVE OutcomesInv'
      BY <2>1, <2>5, JudgeKeeps
    <2>6. ASSUME NEW e \in Evaluators, Write(e) PROVE OutcomesInv'
      BY <2>1, <2>6, WriteKeeps
    <2>7. ASSUME NEW e \in Evaluators, EvaluationRaises(e) PROVE OutcomesInv'
      BY <2>1, <2>7, RaiseKeeps
    <2>8. CASE ClearSignals
      BY <2>1, <2>8, ClearKeeps
    <2> QED
      BY <2>1, <2>2, <2>3, <2>4, <2>5, <2>6, <2>7, <2>8 DEF OutcomesNext, EvaluationSteps
  <1>2. CASE TimePasses
    BY <1>2, TickKeeps DEF TimePasses
  <1>3. CASE TuningStep \/ UNCHANGED researchVars
    BY <1>3, OutcomesRest DEF TuningStep, Only, researchVars
  <1> QED
    BY <1>1, <1>2, <1>3 DEF ResearchNext

(* For any market, candles, kinds of signals, horizons and number of them: a      *)
(* verdict is given on its horizon, on a candle that closed after it.           *)
THEOREM VerdictsRestOnTheirHorizon == ResearchSpec => []OutcomeJudgesItsHorizon
  <1>1. OutcomesInv => OutcomeJudgesItsHorizon
    BY DEF OutcomesInv, WrittenOK, Fits, OutcomeJudgesItsHorizon
  <1> QED
    BY <1>1, OutcomesAtFirst, OutcomesStepKeeps, PTL DEF ResearchSpec

-----------------------------------------------------------------------------
(* The life of a tuning. The observations are left arbitrary, so nothing is    *)
(* used of a recommendation but what it may suggest.                           *)
(* What a recommendation may suggest.                                         *)

Names == {"min_atr_ratio", "max_spread_ratio", "min_order_book_imbalance",
          "min_expected_edge_buffer_pct", "min_stop_distance_ratio",
          "stop_loss_atr_multiple", "take_profit_atr_multiple"}

(* The loss accepted is never changed, and the profit taken only goes up.      *)
Allowed(p, t, x) ==
    /\ x \in Int
    /\ t = "min_order_book_imbalance" => x >= -10000
    /\ t # "min_order_book_imbalance" => x > 0
    /\ t = "stop_loss_atr_multiple" => x = Defaults(p)[t]
    /\ t = "take_profit_atr_multiple" => x >= Defaults(p)[t]

Sound(p, config) ==
    /\ config = [t \in Names |-> config[t]]
    /\ \A t \in Names : Allowed(p, t, config[t])

Suggested(p, changes) ==
    /\ DOMAIN changes \subseteq Names
    /\ \A t \in DOMAIN changes : Allowed(p, t, changes[t])

(* The built-in thresholds are sound.                                         *)
LEMMA DefaultsAreSound ==
    ASSUME NEW p \in Profiles
    PROVE  DOMAIN Defaults(p) = Names /\ Sound(p, Defaults(p))
  <1>1. DOMAIN Defaults(p) = Names
    BY DEF Defaults, Names
  <1>2. ASSUME NEW t \in Names PROVE Allowed(p, t, Defaults(p)[t])
    BY <1>2 DEF Defaults, Names, Profiles, Allowed
  <1>3. Defaults(p) = [t \in DOMAIN Defaults(p) |-> Defaults(p)[t]]
    BY DEF Defaults
  <1> QED
    BY <1>1, <1>2, <1>3 DEF Sound

(* Each list of changes stays within what may be suggested: for the floor of  *)
(* the spread, Max picks one of two positive numbers.                         *)
LEMMA ChangesAreSuggested ==
    ASSUME NEW p \in Profiles, NEW count
    PROVE  /\ Suggested(p, TooStrictChanges(p, count))
           /\ Suggested(p, TooLooseChanges(p, count))
           /\ Suggested(p, FeeDragChanges(p))
  <1>1. Suggested(p, TooStrictChanges(p, count))
    BY DEF Suggested, TooStrictChanges, Change, Shift, Names, Allowed, Defaults, Profiles
  <1>2. Suggested(p, FeeDragChanges(p))
    BY DEF Suggested, FeeDragChanges, Change, Shift, Names, Allowed, Defaults, Profiles
  <1>3. Suggested(p, TooLooseChanges(p, count))
    <2> DEFINE by == [min_expected_edge_buffer_pct |-> 3, min_atr_ratio |-> 1,
                max_spread_ratio |-> -5, take_profit_atr_multiple |-> 4000]
               changes == Change(p, {"min_expected_edge_buffer_pct", "min_atr_ratio",
                              "max_spread_ratio"} \cup
                  {t \in {"take_profit_atr_multiple"} : count.edge_below_fees > 0}, by)
               spread == Max({5, changes.max_spread_ratio})
    <2>1. Suggested(p, changes) /\ "max_spread_ratio" \in DOMAIN changes
      BY DEF Suggested, Change, Shift, Names, Allowed, Defaults, Profiles
    <2>2. Defaults(p).max_spread_ratio \in 10 .. 50
      BY DEF Defaults, Profiles
    <2>3. changes.max_spread_ratio = Defaults(p).max_spread_ratio - 5
      BY <2>2 DEF Change, Shift
    <2> HIDE DEF changes
    <2>5. {5, changes.max_spread_ratio} \subseteq 5 .. 50
      BY <2>2, <2>3
    <2>6. spread \in {5, changes.max_spread_ratio}
      <3> DEFINE S == {5, changes.max_spread_ratio}
      <3>1. S \subseteq 5 .. 50 /\ S # {} /\ 5 \in Int /\ 50 \in Int
        BY <2>5
      <3> HIDE DEF S
      <3>2. Max(S) \in S
        BY <3>1, GreatestOf, Zenon
      <3> QED
        BY <3>2 DEF S
    <2> USE DEF changes
    <2>4. TooLooseChanges(p, count) = [changes EXCEPT !.max_spread_ratio = spread]
      BY DEF TooLooseChanges
    <2> HIDE DEF changes, spread
    <2> QED
      BY <2>1, <2>4, <2>5, <2>6 DEF Suggested, Allowed, Names
  <1> QED
    BY <1>1, <1>2, <1>3

(* So does every recommendation, whatever was observed.                       *)
LEMMA RecommendationsAreSuggested ==
    ASSUME NEW p \in Profiles, NEW seen
    PROVE  Suggested(p, Recommend(p, seen).changes)
  <1>1. ASSUME NEW count, NEW health PROVE Suggested(p, Advice(p, count, health).changes)
    <2>1. Suggested(p, <<>>)
      BY DEF Suggested
    <2> QED
      BY <2>1, ChangesAreSuggested DEF Advice
  <1> HIDE DEF Advice
  <1> QED
    BY <1>1 DEF Recommend, Observed

-----------------------------------------------------------------------------
(* The sets, the requests and starts under way, and the bot.                   *)

Statuses == {"pending", "applied", "superseded", "cleared"}
TuningSet == [scope : Scopes, status : Statuses, config : [Names -> Int],
              baseline : Nat \cup {NoTuning}]

SetsOK ==
    /\ sets \in Seq(TuningSet)
    /\ \A v \in DOMAIN sets : Sound(sets[v].scope.profile, sets[v].config)

PendingOnce == \A v, w \in DOMAIN sets :
    sets[v].status = "pending" /\ sets[w].status = "pending" /\ sets[v].scope = sets[w].scope
        => v = w

(* A request holds a sound set, a start one of its own symbol and profile.     *)
ApplyOK == applying # NoTuning =>
    /\ applying.scope \in Scopes
    /\ Sound(applying.scope.profile, applying.next.config)
    /\ applying.next.version \in Nat \cup {NoTuning}
StartOK == starting # NoTuning =>
    /\ starting.scope \in Scopes
    /\ starting.version # NoTuning =>
         starting.version \in DOMAIN sets /\ sets[starting.version].scope = starting.scope
BotOK ==
    /\ "running" \in DOMAIN bot
    /\ SessionRunsItsTuning

TuningInv == SetsOK /\ PendingOnce /\ ApplyOK /\ StartOK /\ BotOK

(* The latest set of a status is one.                                          *)
LEMMA LatestIsOne ==
    ASSUME SetsOK, NEW scope, NEW status
    PROVE  /\ Latest(scope, status) \in Nat \cup {NoTuning}
           /\ Latest(scope, status) # NoTuning =>
                Latest(scope, status) \in Versions(scope, status)
  <1> DEFINE V == Versions(scope, status)
  <1>1. CASE V = {}
    BY <1>1 DEF Latest
  <1>2. CASE V # {}
    <2>1. Len(sets) \in Int /\ 1 \in Int /\ V \subseteq 1 .. Len(sets) /\ V \subseteq Nat
      BY DEF SetsOK, Versions
    <2> HIDE DEF V
    <2>2. Max(V) \in V
      BY <1>2, <2>1, GreatestOf, Zenon
    <2>3. Latest(scope, status) = Max(V)
      BY <1>2 DEF Latest, V
    <2>4. Max(V) \in Nat
      BY <2>1, <2>2, Zenon
    <2> QED
      BY <2>2, <2>3, <2>4 DEF V
  <1> QED
    BY <1>1, <1>2

(* The thresholds of a set that holds them all are its own.                     *)
LEMMA ThresholdsAreItsOwn ==
    ASSUME SetsOK, NEW v \in DOMAIN sets
    PROVE  /\ sets[v].scope \in Scopes /\ sets[v].scope.profile \in Profiles
           /\ ThresholdsOf(sets[v].scope, v) \in {sets[v].config, Defaults(sets[v].scope.profile)}
           /\ v # NoTuning => ThresholdsOf(sets[v].scope, v) = sets[v].config
  <1>1. sets[v].scope \in Scopes /\ sets[v].scope.profile \in Profiles
    <2>1. sets[v] \in TuningSet
      BY DEF SetsOK
    <2>2. sets[v].scope \in Scopes
      BY <2>1 DEF TuningSet
    <2> QED
      BY <2>2 DEF Scopes
  <1>2. Thresholds(sets[v].scope.profile, sets[v].config) = sets[v].config
    BY <1>1, DefaultsAreSound DEF SetsOK, Sound, Thresholds
  <1> QED
    BY <1>1, <1>2 DEF ThresholdsOf

(* A request takes the applied thresholds and puts its changes over them.      *)
LEMMA BaselineIsSound ==
    ASSUME SetsOK, NEW scope \in Scopes, NEW changes, Suggested(scope.profile, changes)
    PROVE  /\ Sound(scope.profile, Baseline(scope, changes).config)
           /\ Baseline(scope, changes).version \in Nat \cup {NoTuning}
  <1> DEFINE v == Latest(scope, "applied")
             base == ThresholdsOf(scope, v)
  <1>1. scope.profile \in Profiles
    BY DEF Scopes
  <1>2. v \in Nat \cup {NoTuning} /\ (v # NoTuning => v \in Versions(scope, "applied"))
    BY LatestIsOne
  <1>3. Sound(scope.profile, base) /\ DOMAIN base = Names
    <2>1. CASE v = NoTuning
      BY <1>1, <2>1, DefaultsAreSound DEF ThresholdsOf
    <2>2. CASE v # NoTuning
      <3>1. v \in DOMAIN sets /\ sets[v].scope = scope
        BY <1>2, <2>2 DEF Versions
      <3>2. base = sets[v].config
        BY <2>2, <3>1, ThresholdsAreItsOwn
      <3> QED
        BY <3>1, <3>2 DEF SetsOK, Sound
    <2> QED
      BY <2>1, <2>2
  <1>4. Baseline(scope, changes) =
          [version |-> v, config |-> [t \in DOMAIN base \cup DOMAIN changes |->
              IF t \in DOMAIN changes THEN changes[t] ELSE base[t]]]
    BY DEF Baseline
  <1>5. DOMAIN base \cup DOMAIN changes = Names
    BY <1>3 DEF Suggested
  <1> HIDE DEF v, base
  <1> QED
    BY <1>2, <1>3, <1>4, <1>5 DEF Suggested, Sound

(* The sets with other statuses: sound, and where they were.                   *)
Restatused(status) == [v \in DOMAIN sets |-> [sets[v] EXCEPT !.status = status[v]]]

(* Nothing but the status is replaced.                                        *)
LEMMA StatusesChange ==
    ASSUME SetsOK, NEW status \in [DOMAIN sets -> Statuses], sets' = Restatused(status)
    PROVE  /\ SetsOK' /\ DOMAIN sets' = DOMAIN sets
           /\ \A v \in DOMAIN sets :
                /\ sets'[v].status = status[v]
                /\ sets'[v].scope = sets[v].scope
                /\ sets'[v].config = sets[v].config
  <1>1. ASSUME NEW v \in DOMAIN sets
        PROVE  /\ sets'[v] \in TuningSet
               /\ sets'[v].status = status[v]
               /\ sets'[v].scope = sets[v].scope
               /\ sets'[v].config = sets[v].config
    <2>1. sets[v] \in TuningSet /\ status[v] \in Statuses
      BY DEF SetsOK
    <2>2. sets'[v] = [sets[v] EXCEPT !.status = status[v]]
      BY DEF Restatused
    <2> QED
      BY <2>1, <2>2 DEF TuningSet
  <1>2. DOMAIN sets' = DOMAIN sets /\ sets' = [v \in DOMAIN sets |-> sets'[v]]
    BY DEF Restatused
  <1>3. DOMAIN sets = 1 .. Len(sets) /\ Len(sets) \in Nat
    BY DEF SetsOK
  <1>4. sets' \in Seq(TuningSet)
    BY <1>1, <1>2, <1>3
  <1>5. ASSUME NEW v \in DOMAIN sets' PROVE Sound(sets'[v].scope.profile, sets'[v].config)
    BY <1>1, <1>2, <1>5 DEF SetsOK
  <1> QED
    BY <1>1, <1>2, <1>4, <1>5 DEF SetsOK

(* What is left alone: a start, and a session whose set is neither pending nor   *)
(* cleared.                                                                    *)
LEMMA RestIsKept ==
    ASSUME SetsOK, SetsOK', StartOK, BotOK, bot' = bot, starting' \in {starting, NoTuning},
           DOMAIN sets \subseteq DOMAIN sets',
           \A v \in DOMAIN sets :
             /\ sets'[v].scope = sets[v].scope /\ sets'[v].config = sets[v].config
             /\ sets[v].status = "applied" => sets'[v].status = "applied"
    PROVE  StartOK' /\ BotOK'
  <1>1. StartOK'
    BY DEF StartOK
  <1>2. ASSUME bot.running, bot.version # NoTuning
        PROVE  /\ bot.version \in Versions(bot.scope, "applied")'
               /\ bot.thresholds = sets'[bot.version].config
    BY <1>2 DEF BotOK, SessionRunsItsTuning, Versions
  <1> QED
    BY <1>1, <1>2 DEF BotOK, SessionRunsItsTuning

(* A set that is created supersedes the one that waits; an applied one stays, and*)
(* so does the one a start has read.                                          *)
LEMMA CreateKeeps == ASSUME TuningInv, CreateTuningSet PROVE TuningInv'
  <1> DEFINE scope == applying.scope
             new == [scope |-> scope, status |-> "pending",
                     config |-> applying.next.config, baseline |-> applying.next.version]
             status == [v \in DOMAIN sets |->
                          IF sets[v].scope = scope /\ sets[v].status = "pending"
                          THEN "superseded" ELSE sets[v].status]
             old == Superseded(scope)
  <1>1. SetsOK /\ PendingOnce /\ StartOK /\ BotOK /\ ApplyOK
    BY DEF TuningInv
  <1>2. scope \in Scopes /\ Sound(scope.profile, new.config) /\ new.baseline \in Nat \cup {NoTuning}
    BY <1>1 DEF ApplyOK, CreateTuningSet
  <1>3. new \in TuningSet
    BY <1>2 DEF TuningSet, Sound, Allowed, Statuses
  <1>4. ASSUME NEW v \in DOMAIN sets
        PROVE  /\ old[v] \in TuningSet /\ old[v].scope = sets[v].scope
               /\ old[v].config = sets[v].config
               /\ old[v].status = status[v]
    <2>1. sets[v] \in TuningSet
      BY <1>1 DEF SetsOK
    <2> QED
      BY <2>1 DEF Superseded, TuningSet, Statuses
  <1>5. DOMAIN old = DOMAIN sets /\ DOMAIN sets = 1 .. Len(sets) /\ Len(sets) \in Nat
    BY <1>1 DEF Superseded, SetsOK
  <1>6. old \in Seq(TuningSet) /\ Len(old) = Len(sets)
    <2>1. old = [v \in 1 .. Len(sets) |-> old[v]]
      BY <1>5 DEF Superseded
    <2> HIDE DEF old
    <2> QED
      BY <1>4, <1>5, <2>1
  <1> HIDE DEF old, new
  <1>7. sets' = Append(old, new)
    BY DEF CreateTuningSet, old, new
  <1>8. /\ sets' \in Seq(TuningSet) /\ DOMAIN sets' = 1 .. Len(sets) + 1
        /\ \A v \in DOMAIN sets : sets'[v] = old[v]
        /\ sets'[Len(sets) + 1] = new
    BY <1>3, <1>5, <1>6, <1>7
  <1>9. \A v \in DOMAIN sets' : v \in DOMAIN sets \/ v = Len(sets) + 1
    BY <1>5, <1>8
  <1>10. SetsOK'
    <2>1. ASSUME NEW v \in DOMAIN sets' PROVE Sound(sets'[v].scope.profile, sets'[v].config)
      <3>1. CASE v \in DOMAIN sets
        BY <1>1, <1>4, <1>8, <3>1 DEF SetsOK
      <3>2. CASE v = Len(sets) + 1
        BY <1>2, <1>8, <3>2 DEF new
      <3> QED
        BY <1>9, <3>1, <3>2
    <2> QED
      BY <1>8, <2>1 DEF SetsOK
  <1>11. PendingOnce'
    <2> SUFFICES ASSUME NEW v \in DOMAIN sets', NEW w \in DOMAIN sets',
                        sets'[v].status = "pending", sets'[w].status = "pending",
                        sets'[v].scope = sets'[w].scope
                 PROVE  v = w
      BY DEF PendingOnce
    <2>1. ASSUME NEW u \in DOMAIN sets, sets'[u].status = "pending"
          PROVE  /\ sets[u].status = "pending" /\ sets'[u].scope = sets[u].scope
                 /\ sets[u].scope # scope
      BY <1>4, <1>8, <2>1
    <2>2. sets'[Len(sets) + 1].scope = scope
      BY <1>8 DEF new
    <2>3. CASE v \in DOMAIN sets /\ w \in DOMAIN sets
      BY <1>1, <2>1, <2>3 DEF PendingOnce
    <2> QED
      BY <1>9, <2>1, <2>2, <2>3
  <1>12. StartOK' /\ BotOK'
    <2>1. \A v \in DOMAIN sets :
             /\ sets'[v].scope = sets[v].scope /\ sets'[v].config = sets[v].config
             /\ sets[v].status = "applied" => sets'[v].status = "applied"
      BY <1>4, <1>8
    <2>2. bot' = bot /\ starting' = starting /\ DOMAIN sets \subseteq DOMAIN sets'
      BY <1>5, <1>8 DEF CreateTuningSet
    <2> QED
      BY <1>1, <1>10, <2>1, <2>2, RestIsKept
  <1> QED
    BY <1>10, <1>11, <1>12 DEF TuningInv, ApplyOK, CreateTuningSet

(* A request that is accepted holds a sound set.                              *)
LEMMA AskKeeps ==
    ASSUME TuningInv, NEW scope \in Scopes, NEW seen, AskToApply(scope, seen)
    PROVE  TuningInv'
  <1> DEFINE changes == Recommend(scope.profile, seen).changes
  <1>1. PICK selected \in Selections(changes) :
          applying' = [scope |-> scope, next |-> Baseline(scope, Restrict(changes, selected))]
    BY DEF AskToApply
  <1>2. Suggested(scope.profile, changes)
    BY RecommendationsAreSuggested DEF Scopes
  <1> HIDE DEF changes
  <1>3. Suggested(scope.profile, Restrict(changes, selected))
    BY <1>2 DEF Suggested, Selections, Restrict
  <1>4. SetsOK /\ UNCHANGED <<sets, starting, bot>>
    BY DEF TuningInv, AskToApply
  <1>5. ApplyOK'
    BY <1>1, <1>3, <1>4, BaselineIsSound DEF ApplyOK
  <1> QED
    BY <1>4, <1>5 DEF TuningInv, SetsOK, PendingOnce, StartOK, BotOK,
       SessionRunsItsTuning, Versions

(* A start reads a set of its own symbol and profile.                         *)
LEMMA ReadKeeps ==
    ASSUME TuningInv, NEW scope \in Scopes, ReadPending(scope)
    PROVE  TuningInv'
  <1>1. SetsOK /\ UNCHANGED <<sets, applying, bot>>
    BY DEF TuningInv, ReadPending
  <1>2. starting' = [scope |-> scope, version |-> Latest(scope, "pending")]
    BY DEF ReadPending
  <1>3. StartOK'
    BY <1>1, <1>2, LatestIsOne DEF StartOK, Versions
  <1> QED
    BY <1>1, <1>3 DEF TuningInv, SetsOK, PendingOnce, ApplyOK, BotOK,
       SessionRunsItsTuning, Versions

(* The set a start read is applied, whatever became of it since.               *)
LEMMA MarkKeeps ==
    ASSUME SetsOK, PendingOnce, NEW m \in DOMAIN sets, sets' = Marked(m)
    PROVE  /\ SetsOK' /\ PendingOnce' /\ DOMAIN sets' = DOMAIN sets
           /\ sets'[m].status = "applied"
           /\ \A v \in DOMAIN sets :
                /\ sets'[v].scope = sets[v].scope /\ sets'[v].config = sets[v].config
                /\ sets[v].status = "applied" => sets'[v].status = "applied"
  <1> DEFINE status == [v \in DOMAIN sets |-> IF v = m THEN "applied" ELSE sets[v].status]
  <1>1. \A v \in DOMAIN sets : sets[v] \in TuningSet
    BY DEF SetsOK
  <1>2. status \in [DOMAIN sets -> Statuses]
    BY <1>1 DEF TuningSet, Statuses
  <1>3. Marked(m) = Restatused(status)
    BY <1>1 DEF Marked, Restatused, TuningSet
  <1> QED
    BY <1>2, <1>3, StatusesChange DEF PendingOnce

(* A start that succeeds runs with the set it read, now applied, or with the latest*)
(* applied one.                                                               *)
LEMMA StartKeeps == ASSUME TuningInv, StartSession PROVE TuningInv'
  <1> DEFINE scope == starting.scope
             read == starting.version
             chosen == IF read # NoTuning THEN read ELSE Latest(scope, "applied")
  <1>1. SetsOK /\ PendingOnce /\ ApplyOK /\ StartOK /\ BotOK
    BY DEF TuningInv
  <1>2. /\ bot' = Announced(scope, chosen, TRUE, <<scope, chosen>>)
        /\ starting' = NoTuning /\ applying' = applying
        /\ sets' = IF read = NoTuning THEN sets ELSE Marked(read)
    BY DEF StartSession
  <1>3. read # NoTuning => read \in DOMAIN sets /\ sets[read].scope = scope
    BY <1>1 DEF StartOK, StartSession
  <1>4. chosen # NoTuning =>
          chosen \in DOMAIN sets /\ sets[chosen].scope = scope
          /\ (read = NoTuning => sets[chosen].status = "applied")
    BY <1>1, <1>3, LatestIsOne DEF Versions
  <1>5. /\ SetsOK' /\ PendingOnce' /\ DOMAIN sets' = DOMAIN sets
        /\ read # NoTuning => sets'[read].status = "applied"
        /\ \A v \in DOMAIN sets :
             /\ sets'[v].scope = sets[v].scope /\ sets'[v].config = sets[v].config
             /\ sets[v].status = "applied" => sets'[v].status = "applied"
    <2>1. CASE read = NoTuning
      BY <1>1, <1>2, <2>1 DEF SetsOK, PendingOnce
    <2>2. CASE read # NoTuning
      BY <1>1, <1>2, <1>3, <2>2, MarkKeeps
    <2> QED
      BY <2>1, <2>2
  <1>6. chosen # NoTuning => ThresholdsOf(scope, chosen) = sets[chosen].config
    BY <1>1, <1>4, ThresholdsAreItsOwn
  <1> HIDE DEF scope, read
  <1>7. bot'.version = chosen /\ bot'.scope = scope
        /\ bot'.thresholds = ThresholdsOf(scope, chosen) /\ "running" \in DOMAIN bot'
    BY <1>2 DEF Announced
  <1>8. chosen # NoTuning => sets'[chosen].status = "applied"
    BY <1>4, <1>5
  <1> HIDE DEF chosen
  <1>9. BotOK'
    BY <1>4, <1>5, <1>6, <1>7, <1>8 DEF BotOK, SessionRunsItsTuning, Versions
  <1> QED
    BY <1>1, <1>2, <1>5, <1>9 DEF TuningInv, ApplyOK, StartOK

(* One that fails runs nothing.                                               *)
LEMMA StartFailsKeeps == ASSUME TuningInv, StartFails PROVE TuningInv'
  <1>1. SetsOK /\ PendingOnce /\ ApplyOK /\ StartOK /\ BotOK
    BY DEF TuningInv
  <1>2. starting.version \in DOMAIN sets /\ sets' = Marked(starting.version)
        /\ starting' = NoTuning /\ applying' = applying
    BY <1>1 DEF StartOK, StartFails
  <1>3. SetsOK' /\ PendingOnce'
    BY <1>1, <1>2, MarkKeeps
  <1>4. BotOK'
    BY DEF StartFails, Announced, BotOK, SessionRunsItsTuning
  <1> QED
    BY <1>1, <1>2, <1>3, <1>4 DEF TuningInv, ApplyOK, StartOK

(* Neither does a bot that is stopped or comes back.                          *)
LEMMA StopKeeps == ASSUME TuningInv, StopSession \/ RestartTuned PROVE TuningInv'
  <1>1. SetsOK /\ PendingOnce /\ ApplyOK /\ StartOK /\ BotOK
    BY DEF TuningInv
  <1>2. sets' = sets /\ applying' \in {applying, NoTuning} /\ starting' \in {starting, NoTuning}
    BY DEF StopSession, RestartTuned
  <1>3. "running" \in DOMAIN bot' /\ ~bot'.running
    BY <1>1 DEF StopSession, RestartTuned, Announced, BotOK
  <1>4. BotOK'
    BY <1>3 DEF BotOK, SessionRunsItsTuning
  <1> QED
    BY <1>1, <1>2, <1>4 DEF TuningInv, SetsOK, PendingOnce, ApplyOK, StartOK

(* A reset leaves no set pending or applied, and no session.                  *)
LEMMA ResetKeeps == ASSUME TuningInv, ResetTuning PROVE TuningInv'
  <1> DEFINE status == [v \in DOMAIN sets |-> "cleared"]
  <1>1. SetsOK /\ ApplyOK
    BY DEF TuningInv
  <1>2. sets' = Restatused(status) /\ status \in [DOMAIN sets -> Statuses]
    BY DEF ResetTuning, Restatused, Statuses
  <1>3. SetsOK' /\ PendingOnce'
    BY <1>1, <1>2, StatusesChange DEF PendingOnce
  <1>4. BotOK'
    BY DEF ResetTuning, NoBot, BotOK, SessionRunsItsTuning
  <1> QED
    BY <1>1, <1>3, <1>4 DEF TuningInv, ApplyOK, StartOK, ResetTuning

(* There are no sets at first.                                                *)
LEMMA TuningAtFirst == ResearchInit => TuningInv
  BY DEF ResearchInit, TuningInit, TuningInv, SetsOK, PendingOnce, ApplyOK, StartOK, BotOK,
     NoBot, SessionRunsItsTuning

(* Every step of the research services keeps it.                              *)
LEMMA TuningStepKeeps == ASSUME TuningInv, [ResearchNext]_researchVars PROVE TuningInv'
  <1>1. CASE UNCHANGED tuningVars
    BY <1>1 DEF tuningVars, TuningInv, SetsOK, PendingOnce, ApplyOK, StartOK, BotOK,
       SessionRunsItsTuning, Versions
  <1>2. CASE TuningNext
    BY <1>2, AskKeeps, ReadKeeps, CreateKeeps, StartKeeps, StartFailsKeeps, StopKeeps,
       ResetKeeps DEF TuningNext
  <1> QED
    BY <1>1, <1>2 DEF ResearchNext, OutcomesStep, TuningStep, TimePasses, researchVars

(* So it always holds.                                                        *)
LEMMA TuningInvariant == ResearchSpec => []TuningInv
  BY TuningAtFirst, TuningStepKeeps, PTL DEF ResearchSpec

(* However apply requests, starts, restarts and resets interleave, at most one set *)
(* of a symbol and profile waits for the next session.                         *)
THEOREM OneWaits == ResearchSpec => []OnePendingTuning
  <1>1. TuningInv => OnePendingTuning
    <2> SUFFICES ASSUME TuningInv, NEW scope \in Scopes
                 PROVE  Cardinality(Versions(scope, "pending")) <= 1
      BY DEF OnePendingTuning
    <2>1. \A v, w \in Versions(scope, "pending") : v = w
      BY DEF TuningInv, PendingOnce, Versions
    <2>2. CASE Versions(scope, "pending") = {}
      BY <2>2, FS_EmptySet
    <2>3. CASE Versions(scope, "pending") # {}
      <3>1. PICK v : Versions(scope, "pending") = {v}
        BY <2>1, <2>3
      <3>2. Cardinality({v}) = 1
        BY FS_Singleton
      <3> QED
        BY <3>1, <3>2
    <2> QED
      BY <2>2, <2>3
  <1> QED
    BY <1>1, TuningInvariant, PTL

(* The session that runs uses the thresholds of the set it announces, marked   *)
(* applied under its symbol and profile: also when the set it had read was      *)
(* superseded before it was marked.                                            *)
THEOREM RunsItsTuning == ResearchSpec => []SessionRunsItsTuning
  <1>1. TuningInv => SessionRunsItsTuning
    BY DEF TuningInv, BotOK
  <1> QED
    BY <1>1, TuningInvariant, PTL

(* Whatever is observed and however often recommendations are applied: every    *)
(* threshold stays on its side of zero, and the profit taken beyond the loss.   *)
THEOREM NoDrift == ResearchSpec => []ThresholdsNeverDrift
  <1>1. TuningInv => ThresholdsNeverDrift
    <2> SUFFICES ASSUME TuningInv, NEW v \in DOMAIN sets
                 PROVE  LET config == sets[v].config IN
                        /\ \A t \in DOMAIN config \ {"min_order_book_imbalance"} : config[t] > 0
                        /\ config.min_order_book_imbalance >= -10000
                        /\ config.take_profit_atr_multiple > config.stop_loss_atr_multiple
      BY DEF ThresholdsNeverDrift
    <2> DEFINE p == sets[v].scope.profile
               config == sets[v].config
    <2>1. Sound(p, config) /\ p \in Profiles
      BY ThresholdsAreItsOwn DEF TuningInv, SetsOK
    <2>2. /\ Defaults(p).take_profit_atr_multiple \in Int
          /\ Defaults(p).stop_loss_atr_multiple \in Int
          /\ Defaults(p).take_profit_atr_multiple > Defaults(p).stop_loss_atr_multiple
      BY <2>1 DEF Defaults, Profiles
    <2> HIDE DEF p, config
    <2>3. DOMAIN config = Names /\ \A t \in Names : Allowed(p, t, config[t])
      BY <2>1 DEF Sound
    <2>4. /\ \A t \in DOMAIN config \ {"min_order_book_imbalance"} : config[t] > 0
          /\ config.min_order_book_imbalance >= -10000
      BY <2>3 DEF Allowed, Names
    <2>5. /\ config.stop_loss_atr_multiple = Defaults(p).stop_loss_atr_multiple
          /\ config.take_profit_atr_multiple \in Int
          /\ config.take_profit_atr_multiple >= Defaults(p).take_profit_atr_multiple
      BY <2>3 DEF Allowed, Names
    <2> QED
      BY <2>2, <2>4, <2>5 DEF config
  <1> QED
    BY <1>1, TuningInvariant, PTL

-----------------------------------------------------------------------------
(* A rounded quotient times its divisor misses by less than the divisor.          *)
LEMMA HalfUpIsNear ==
    ASSUME NEW n \in Int, NEW d \in Nat \ {0}
    PROVE  d * HalfUp(n, d) \in Int /\ d * HalfUp(n, d) >= n - d
  <1> DEFINE q == (2 * n + d) \div (2 * d)
             r == (d - 2 * n) \div (2 * d)
  <1>1. 2 * d \in Nat /\ 2 * d > 0
    OBVIOUS
  <1>2. q \in Int /\ (2 * d) * q <= 2 * n + d /\ 2 * n + d < (2 * d) * q + 2 * d
    BY <1>1
  <1>3. r \in Int /\ (2 * d) * r <= d - 2 * n /\ d - 2 * n < (2 * d) * r + 2 * d
    BY <1>1
  <1>4. HalfUp(n, d) = IF n >= 0 THEN q ELSE -r
    BY DEF HalfUp
  <1> HIDE DEF q, r
  <1>5. /\ d * q \in Int /\ d * r \in Int /\ d * (-r) = -(d * r)
        /\ (2 * d) * q = 2 * (d * q) /\ (2 * d) * r = 2 * (d * r)
    BY <1>2, <1>3
  <1> DEFINE dq == d * q
             dr == d * r
  <1>6. dq \in Int /\ dr \in Int /\ 2 * n + d < 2 * dq + 2 * d /\ 2 * dr <= d - 2 * n
    BY <1>2, <1>3, <1>5
  <1>7. d * HalfUp(n, d) = IF n >= 0 THEN dq ELSE -dr
    BY <1>4, <1>5
  <1> HIDE DEF dq, dr
  <1> QED
    BY <1>6, <1>7

(* The comparison. The closed trades of some sessions, their total, and the   *)
(* trade that comes last.                                                     *)
Priced(S) ==
    /\ IsFiniteSet(S)
    /\ \A t \in S : t.id \in Int /\ t.time \in Int /\ t.pnl \in Int

(* The total of finitely many trades is a number.                             *)
LEMMA PnlIsInt == ASSUME NEW S, Priced(S) PROVE Pnl(S) \in Int
  <1>1. [t \in S |-> t.pnl] \in [S -> Int]
    BY DEF Priced
  <1> QED
    BY <1>1, SumType DEF Pnl, Priced

(* Some trade has every other one before it, or at its time.                   *)
LEMMA LastTrade ==
    ASSUME NEW S, Priced(S), S # {}
    PROVE  \E t \in S : Upto(S, t) = S
  <1> DEFINE f == [t \in S |-> t.time]
             times == {f[t] : t \in S}
             late == {t \in S : t.time = Max(times)}
             g == [t \in late |-> t.id]
             ids == {g[t] : t \in late}
  <1>1. IsFiniteSet(times) /\ times \subseteq Int /\ times # {}
    <2>1. DOMAIN f = S
      OBVIOUS
    <2> HIDE DEF f
    <2>2. IsFiniteSet(times)
      BY <2>1, FiniteImage DEF Priced
    <2> QED
      BY <2>2 DEF f, Priced
  <1>2. Max(times) \in times /\ \A x \in times : x <= Max(times)
    <2> HIDE DEF times
    <2> QED
      BY <1>1, FiniteExtremes, Zenon
  <1>3. late # {} /\ late \subseteq S /\ \A t \in S : t.time <= Max(times)
    BY <1>2
  <1>4. IsFiniteSet(ids) /\ ids \subseteq Int /\ ids # {}
    <2>1. DOMAIN g = late /\ IsFiniteSet(late)
      BY <1>3, FS_Subset DEF Priced
    <2> HIDE DEF g, late
    <2>2. IsFiniteSet(ids)
      BY <2>1, FiniteImage
    <2> QED
      BY <1>3, <2>2 DEF g, Priced
  <1>5. Max(ids) \in ids /\ \A x \in ids : x <= Max(ids)
    <2> HIDE DEF ids
    <2> QED
      BY <1>4, FiniteExtremes, Zenon
  <1>6. PICK t \in late : t.id = Max(ids)
    BY <1>5
  <1>7. ASSUME NEW u \in S PROVE u.time < t.time \/ (u.time = t.time /\ u.id <= t.id)
    <2>1. u.time \in Int /\ t.time \in Int /\ t.time = Max(times) /\ u.time <= t.time
      BY <1>3, <1>6 DEF Priced
    <2>2. CASE u.time = t.time
      <3>1. u \in late
        BY <2>1, <2>2
      <3>2. u.id <= t.id
        BY <1>5, <1>6, <3>1
      <3> QED
        BY <2>2, <3>2
    <2> QED
      BY <2>1, <2>2
  <1>8. Upto(S, t) = S
    BY <1>7 DEF Upto
  <1> QED
    BY <1>3, <1>6, <1>8

(* The greatest of zero and finitely many numbers.                            *)
LEMMA GreatestWithZero ==
    ASSUME NEW S, IsFiniteSet(S), NEW f, DOMAIN f = S, \A x \in S : f[x] \in Int
    PROVE  /\ Max({0} \cup {f[x] : x \in S}) \in Int
           /\ Max({0} \cup {f[x] : x \in S}) >= 0
           /\ \A x \in S : f[x] <= Max({0} \cup {f[x_1] : x_1 \in S})
  <1> DEFINE T == {f[x] : x \in S}
             M == {0} \cup T
  <1>1. IsFiniteSet(T) /\ T \subseteq Int /\ \A x \in S : f[x] \in T
    BY FiniteImage
  <1> HIDE DEF T
  <1>2. IsFiniteSet(M)
    BY <1>1, FS_Singleton, FS_Union
  <1>3. M \subseteq Int /\ M # {} /\ 0 \in M /\ \A x \in S : f[x] \in M
    BY <1>1
  <1> HIDE DEF M
  <1>4. Max(M) \in M /\ \A x \in M : x <= Max(M)
    BY <1>2, <1>3, FiniteExtremes, Zenon
  <1>5. Max(M) \in Int /\ Max(M) >= 0 /\ \A x \in S : f[x] <= Max(M)
    BY <1>3, <1>4
  <1> QED
    BY <1>5 DEF M, T

(* The worst fall from the highest total is no less than what was lost.         *)
LEMMA DrawdownCoversLoss ==
    ASSUME NEW S, Priced(S), S # {}
    PROVE  RealizedDrawdown(S) \in Int /\ RealizedDrawdown(S) >= -Pnl(S)
  <1>1. ASSUME NEW t \in S PROVE Upto(S, t) \subseteq S /\ Priced(Upto(S, t))
    BY FS_Subset DEF Upto, Priced
  <1>2. \A t \in S : Running(S, t) \in Int
    BY <1>1, PnlIsInt DEF Running
  <1>3. ASSUME NEW t \in S PROVE Peak(S, t, 0) \in Int /\ Peak(S, t, 0) >= 0
    <2> DEFINE U == Upto(S, t)
               f == [u \in U |-> Running(S, u)]
    <2>1. IsFiniteSet(U) /\ DOMAIN f = U /\ \A u \in U : f[u] \in Int
      BY <1>1, <1>2 DEF Priced
    <2>2. {f[u] : u \in U} = {Running(S, u) : u \in U}
      OBVIOUS
    <2> HIDE DEF f, U
    <2>3. Max({0} \cup {f[u] : u \in U}) \in Int /\ Max({0} \cup {f[u] : u \in U}) >= 0
      BY <2>1, GreatestWithZero, Zenon
    <2> QED
      BY <2>2, <2>3 DEF Peak, U
  <1> DEFINE f == [t \in S |-> Peak(S, t, 0) - Running(S, t)]
             M == {0} \cup {f[t] : t \in S}
  <1>4. DOMAIN f = S /\ IsFiniteSet(S) /\ \A t \in S : f[t] \in Int
    BY <1>2, <1>3 DEF Priced
  <1>5. RealizedDrawdown(S) = Max(M)
    <2>1. M = {0} \cup {Peak(S, t, 0) - Running(S, t) : t \in S}
      OBVIOUS
    <2> HIDE DEF M
    <2> QED
      BY <2>1 DEF RealizedDrawdown, Worst
  <1>6. PICK t \in S : Upto(S, t) = S
    BY LastTrade
  <1>7. f[t] = Peak(S, t, 0) - Pnl(S)
    BY <1>6 DEF Running
  <1> HIDE DEF f
  <1>8. Max(M) \in Int /\ f[t] <= Max(M)
    BY <1>4, GreatestWithZero, Zenon
  <1>9. Pnl(S) \in Int
    BY PnlIsInt
  <1> QED
    BY <1>3, <1>5, <1>7, <1>8, <1>9

(* Every session has an identifier of its own, and a set was made when those it *)
(* looks back at had been made.                                               *)
RunsOK ==
    /\ IsFiniteSet(runs)
    /\ \A r \in runs : r.id \in Nat /\ r.id < Cardinality(runs)
    /\ \A r, q \in runs : r.id = q.id => r = q

OlderThan(version, v) == version \in Nat => version < v
BaselinesOK ==
    /\ \A v \in DOMAIN sets : OlderThan(sets[v].baseline, v)
    /\ applying # NoTuning => OlderThan(applying.next.version, Len(sets) + 1)

(* A new session gets the next identifier.                                    *)
LEMMA RunAdded ==
    ASSUME RunsOK, NEW scope, NEW version, runs' = runs \cup {Run(scope, version)}
    PROVE  RunsOK'
  <1> DEFINE new == Run(scope, version)
             n == Cardinality(runs)
  <1>1. n \in Nat /\ new.id = n
    BY FS_CardinalityType DEF RunsOK, Run
  <1>2. new \notin runs
    BY <1>1 DEF RunsOK
  <1> HIDE DEF new
  <1>3. IsFiniteSet(runs') /\ Cardinality(runs') = n + 1
    BY <1>2, FS_AddElement DEF RunsOK, new
  <1>4. runs' = runs \cup {new}
    BY DEF new
  <1> HIDE DEF n
  <1>5. ASSUME NEW r \in runs' PROVE r.id \in Nat /\ r.id < Cardinality(runs')
    BY <1>1, <1>3, <1>4 DEF RunsOK, n
  <1>6. ASSUME NEW r \in runs', NEW q \in runs', r.id = q.id PROVE r = q
    BY <1>1, <1>4, <1>6 DEF RunsOK, n
  <1> QED
    BY <1>3, <1>5, <1>6 DEF RunsOK

(* Whatever is done to the statuses, a set looks back at what it looked back at.  *)
LEMMA BaselinesKept ==
    ASSUME BaselinesOK, Len(sets') = Len(sets), DOMAIN sets' = DOMAIN sets,
           \A v \in DOMAIN sets : sets'[v].baseline = sets[v].baseline,
           applying' \in {applying, NoTuning}
    PROVE  BaselinesOK'
  BY DEF BaselinesOK, OlderThan

(* Marking a set, or clearing them all, replaces nothing but statuses.            *)
LEMMA OnlyStatuses ==
    ASSUME SetsOK, NEW status \in [DOMAIN sets -> Statuses], sets' = Restatused(status)
    PROVE  /\ Len(sets') = Len(sets) /\ DOMAIN sets' = DOMAIN sets
           /\ \A v \in DOMAIN sets : sets'[v].baseline = sets[v].baseline
  <1>1. \A v \in DOMAIN sets : sets[v] \in TuningSet
    BY DEF SetsOK
  <1>2. \A v \in DOMAIN sets : sets'[v].baseline = sets[v].baseline
    BY <1>1 DEF Restatused, TuningSet
  <1>3. DOMAIN sets = 1 .. Len(sets) /\ Len(sets) \in Nat /\ DOMAIN sets' = DOMAIN sets
    BY DEF Restatused, SetsOK
  <1>4. sets' \in Seq(TuningSet)
    BY StatusesChange DEF SetsOK
  <1>5. DOMAIN sets' = 1 .. Len(sets') /\ Len(sets') \in Nat
    BY <1>4
  <1>6. Len(sets') = Len(sets)
    BY <1>3, <1>5
  <1> QED
    BY <1>2, <1>3, <1>6

(* The set that a start read is marked.                                       *)
LEMMA MarkedKeepsBaselines ==
    ASSUME SetsOK, BaselinesOK, NEW m \in DOMAIN sets, sets' = Marked(m), applying' = applying
    PROVE  BaselinesOK'
  <1> DEFINE status == [v \in DOMAIN sets |-> IF v = m THEN "applied" ELSE sets[v].status]
  <1>1. \A v \in DOMAIN sets : sets[v] \in TuningSet
    BY DEF SetsOK
  <1>2. status \in [DOMAIN sets -> Statuses]
    BY <1>1 DEF TuningSet, Statuses
  <1>3. Marked(m) = Restatused(status)
    BY <1>1 DEF Marked, Restatused, TuningSet
  <1> HIDE DEF status
  <1> QED
    BY <1>2, <1>3, OnlyStatuses, BaselinesKept

(* The set that is created is the latest, and looks back at what the request held. *)
LEMMA CreateKeepsBaselines ==
    ASSUME TuningInv, BaselinesOK, CreateTuningSet
    PROVE  BaselinesOK'
  <1> DEFINE old == Superseded(applying.scope)
             new == [scope |-> applying.scope, status |-> "pending",
                     config |-> applying.next.config, baseline |-> applying.next.version]
             n == Len(sets)
  <1>1. SetsOK /\ n \in Nat /\ DOMAIN sets = 1 .. n
    BY DEF TuningInv, SetsOK
  <1>2. \A v \in DOMAIN sets : sets[v] \in TuningSet
    BY <1>1 DEF SetsOK
  <1>3. DOMAIN old = 1 .. n /\ old = [v \in 1 .. n |-> old[v]]
    BY <1>1 DEF Superseded
  <1>4. \A v \in 1 .. n : old[v].baseline = sets[v].baseline
    BY <1>1, <1>2 DEF Superseded, TuningSet
  <1>5. sets' = Append(old, new) /\ applying # NoTuning /\ applying' = NoTuning
    BY DEF CreateTuningSet
  <1>6. new.baseline = applying.next.version
    OBVIOUS
  <1> HIDE DEF old, new
  <1>7. old \in Seq({old[v] : v \in 1 .. n}) /\ Len(old) = n
    BY <1>1, <1>3
  <1>8. DOMAIN sets' = 1 .. n + 1 /\ sets'[n + 1] = new /\ \A v \in 1 .. n : sets'[v] = old[v]
    BY <1>1, <1>5, <1>7
  <1> HIDE DEF n
  <1>9. \A v \in DOMAIN sets' : v \in 1 .. n \/ v = n + 1
    BY <1>1, <1>8
  <1>10. ASSUME NEW v \in DOMAIN sets' PROVE OlderThan(sets'[v].baseline, v)
    <2>1. CASE v \in 1 .. n
      BY <1>1, <1>4, <1>8, <2>1 DEF BaselinesOK
    <2>2. CASE v = n + 1
      BY <1>5, <1>6, <1>8, <2>2 DEF BaselinesOK, n
    <2> QED
      BY <1>9, <2>1, <2>2
  <1> QED
    BY <1>5, <1>10 DEF BaselinesOK

(* A request looks back at a set there is.                                     *)
LEMMA AskKeepsBaselines ==
    ASSUME TuningInv, BaselinesOK, NEW scope \in Scopes, NEW seen, AskToApply(scope, seen)
    PROVE  BaselinesOK'
  <1> DEFINE changes == Recommend(scope.profile, seen).changes
             v == Latest(scope, "applied")
  <1>1. PICK selected \in Selections(changes) :
          applying' = [scope |-> scope, next |-> Baseline(scope, Restrict(changes, selected))]
    BY DEF AskToApply
  <1>2. applying'.next.version = v /\ sets' = sets
    BY <1>1 DEF Baseline, AskToApply
  <1>3. SetsOK
    BY DEF TuningInv
  <1>4. v \in Nat \cup {NoTuning} /\ (v # NoTuning => v \in Versions(scope, "applied"))
    BY <1>3, LatestIsOne
  <1>5. DOMAIN sets = 1 .. Len(sets) /\ Len(sets) \in Nat
    BY <1>3 DEF SetsOK
  <1> HIDE DEF v
  <1>6. OlderThan(v, Len(sets) + 1)
    BY <1>4, <1>5, TuningAssumption DEF OlderThan, Versions
  <1> QED
    BY <1>2, <1>6 DEF BaselinesOK

CompareInv == TuningInv /\ RunsOK /\ BaselinesOK

(* Every step keeps it.                                                       *)
LEMMA CompareInvariant == ResearchSpec => []CompareInv
  <1>1. ResearchInit => CompareInv
    <2> SUFFICES ASSUME ResearchInit PROVE CompareInv
      OBVIOUS
    <2>1. TuningInv
      BY TuningAtFirst
    <2>2. sets = <<>> /\ runs = {} /\ applying = NoTuning
      BY DEF ResearchInit, TuningInit
    <2> QED
      BY <2>1, <2>2, FS_EmptySet DEF CompareInv, RunsOK, BaselinesOK
  <1>2. TuningInv /\ [ResearchNext]_researchVars => TuningInv'
    BY TuningStepKeeps
  <1>3. RunsOK /\ BaselinesOK /\ TuningInv /\ [ResearchNext]_researchVars
          => RunsOK' /\ BaselinesOK'
    <2> SUFFICES ASSUME RunsOK, BaselinesOK, TuningInv, [ResearchNext]_researchVars
                 PROVE  RunsOK' /\ BaselinesOK'
      OBVIOUS
    <2>1. SetsOK /\ StartOK
      BY DEF TuningInv
    <2>2. CASE UNCHANGED tuningVars
      BY <2>2 DEF tuningVars, RunsOK, BaselinesOK, OlderThan
    <2>3. ASSUME NEW scope \in Scopes, NEW seen, AskToApply(scope, seen)
          PROVE  RunsOK' /\ BaselinesOK'
      BY <2>3, AskKeepsBaselines DEF AskToApply, RunsOK
    <2>4. ASSUME NEW scope \in Scopes, ReadPending(scope) PROVE RunsOK' /\ BaselinesOK'
      BY <2>4 DEF ReadPending, RunsOK, BaselinesOK, OlderThan
    <2>5. CASE CreateTuningSet
      BY <2>5, CreateKeepsBaselines DEF CreateTuningSet, RunsOK
    <2>6. CASE StartSession
      <3>1. RunsOK'
        BY <2>6, RunAdded DEF StartSession
      <3>2. BaselinesOK'
        <4>1. CASE starting.version = NoTuning
          BY <2>6, <4>1 DEF StartSession, BaselinesOK, OlderThan
        <4>2. CASE starting.version # NoTuning
          BY <2>1, <2>6, <4>2, MarkedKeepsBaselines DEF StartSession, StartOK
        <4> QED
          BY <4>1, <4>2
      <3> QED
        BY <3>1, <3>2
    <2>7. CASE StartFails
      <3>1. BaselinesOK'
        BY <2>1, <2>7, MarkedKeepsBaselines DEF StartFails, StartOK
      <3> QED
        BY <2>7, <3>1 DEF StartFails, RunsOK
    <2>8. CASE StopSession \/ RestartTuned
      BY <2>8 DEF StopSession, RestartTuned, RunsOK, BaselinesOK, OlderThan
    <2>9. CASE ResetTuning
      <3> DEFINE status == [v \in DOMAIN sets |-> "cleared"]
      <3>1. sets' = Restatused(status) /\ status \in [DOMAIN sets -> Statuses]
        BY <2>9 DEF ResetTuning, Restatused, Statuses
      <3> HIDE DEF status
      <3>2. BaselinesOK'
        BY <2>1, <2>9, <3>1, OnlyStatuses, BaselinesKept DEF ResetTuning
      <3> QED
        BY <2>9, <3>2, FS_EmptySet DEF ResetTuning, RunsOK
    <2>10. CASE TuningNext
      BY <2>3, <2>4, <2>5, <2>6, <2>7, <2>8, <2>9, <2>10 DEF TuningNext
    <2> QED
      BY <2>2, <2>10 DEF ResearchNext, OutcomesStep, TuningStep, TimePasses, researchVars
  <1>4. CompareInv /\ [ResearchNext]_researchVars => CompareInv'
    BY <1>2, <1>3 DEF CompareInv
  <1> QED
    BY <1>1, <1>4, PTL DEF ResearchSpec

(* Whatever was traded: no session is on both sides of a comparison, and neither  *)
(* side's drawdown is less than the loss its expectancy tells, but for rounding.   *)
THEOREM ComparisonIsFair == ResearchSpec => []ComparisonAddsUp
  <1>1. CompareInv => ComparisonAddsUp
    <2> SUFFICES ASSUME CompareInv, NEW scope \in Scopes, NEW seen \in Seen,
                        Comparison(scope, seen).status = "ready"
                 PROVE  LET it == Comparison(scope, seen) IN
                        /\ it.before.sessions \cap it.after.sessions = {}
                        /\ \A side \in {it.before, it.after} :
                             side.trades > 0 =>
                                 side.drawdown + side.trades >= -(side.trades * side.expectancy)
      BY DEF ComparisonAddsUp
    <2> DEFINE v == Latest(scope, "applied")
    <2>1. v # NoTuning /\ Comparison(scope, seen) =
            [status |-> "ready", before |-> Metrics(Before(scope), seen),
             after |-> Metrics(After(scope), seen)]
      BY DEF Comparison
    <2>2. v \in DOMAIN sets /\ v \in Nat /\ OlderThan(sets[v].baseline, v)
      BY <2>1, LatestIsOne DEF CompareInv, TuningInv, Versions, BaselinesOK
    <2>3. sets[v].baseline # v
      BY <2>2 DEF OlderThan
    <2>4. Before(scope) = RunsWith(scope, sets[v].baseline) /\ After(scope) = RunsWith(scope, v)
      BY DEF Before, After
    <2> HIDE DEF v
    <2>5. Before(scope) \cap After(scope) = {}
      BY <2>3, <2>4 DEF RunsWith, CompareInv, RunsOK
    <2>6. ASSUME NEW sessions
          PROVE  LET side == Metrics(sessions, seen) IN
                 /\ side.sessions = sessions
                 /\ side.trades > 0 =>
                      side.drawdown + side.trades >= -(side.trades * side.expectancy)
      <3> DEFINE S == Closed(Executed({x \in seen.trades : x.session \in sessions}))
                 n == Cardinality(S)
                 side == Metrics(sessions, seen)
      <3>1. /\ side.sessions = sessions /\ side.trades = n
            /\ side.expectancy = IF n = 0 THEN "none" ELSE Expectancy(Pnl(S), n)
            /\ side.drawdown = IF n = 0 THEN "none" ELSE RealizedDrawdown(S)
        BY DEF Metrics
      <3>2. Priced(S) /\ n \in Nat
        BY TuningAssumption, FS_Subset, FS_CardinalityType DEF Closed, Executed, Priced
      <3> HIDE DEF S, side
      <3>3. CASE n > 0
        <4>1. S # {}
          BY <3>3, FS_EmptySet
        <4>2. /\ RealizedDrawdown(S) \in Int /\ RealizedDrawdown(S) >= -Pnl(S)
              /\ Pnl(S) \in Int
          BY <3>2, <4>1, DrawdownCoversLoss, PnlIsInt
        <4>3. side.trades = n /\ side.expectancy = HalfUp(Pnl(S), n)
              /\ side.drawdown = RealizedDrawdown(S)
          BY <3>1, <3>3 DEF Expectancy
        <4> HIDE DEF n
        <4>4. n * HalfUp(Pnl(S), n) >= Pnl(S) - n /\ n * HalfUp(Pnl(S), n) \in Int
          BY <3>2, <3>3, <4>2, HalfUpIsNear
        <4> QED
          BY <3>1, <3>2, <4>2, <4>3, <4>4 DEF side
      <3> QED
        BY <3>1, <3>2, <3>3 DEF side
    <2> QED
      BY <2>1, <2>5, <2>6
  <1> QED
    BY <1>1, CompareInvariant, PTL

-----------------------------------------------------------------------------
(* Numbers.                                                                 *)

(* A score is between 0 and 100, and a score of a score is that score.      *)
LEMMA ScoreIs ==
    ASSUME NEW x \in Int
    PROVE  Scan!Score(x) \in 0 .. 100 /\ (x \in 0 .. 100 => Scan!Score(x) = x)
  BY DEF Scan!Score, Scan!Clamp

(* Points are given or not.                                                 *)
LEMMA PointsAre == ASSUME NEW b, NEW n \in Int PROVE Scan!Points(b, n) \in Int
  BY DEF Scan!Points

(* What is rounded is a number.                                             *)
LEMMA HalfUpIsInt ==
    ASSUME NEW n \in Int, NEW d \in Nat \ {0}
    PROVE  Scan!HalfUp(n, d) \in Int
  BY DEF Scan!HalfUp

(* A quotient that is at least half a unit below a number is rounded below it, *)
(* and one that is half a unit above it above it.                           *)
LEMMA HalfUpSides ==
    ASSUME NEW p \in Nat, NEW d \in Nat \ {0}, NEW b \in Nat, 2 * b > d
    PROVE  Scan!HalfUp(p * d - b, d) < p /\ Scan!HalfUp(p * d + b, d) > p
  <1> DEFINE pd == p * d
             q == (2 * (pd - b) + d) \div (2 * d)
             r == (d - 2 * (pd - b)) \div (2 * d)
             u == (2 * (pd + b) + d) \div (2 * d)
  <1>1. pd \in Nat /\ 2 * d \in Nat /\ 2 * d > 0
    OBVIOUS
  <1> HIDE DEF pd
  <1>2. q \in Int /\ (2 * d) * q <= 2 * (pd - b) + d
    BY <1>1
  <1>3. r \in Int /\ d - 2 * (pd - b) < (2 * d) * r + 2 * d
    BY <1>1
  <1>4. u \in Int /\ 2 * (pd + b) + d < (2 * d) * u + 2 * d
    BY <1>1
  <1>5. Scan!HalfUp(pd - b, d) = IF pd - b >= 0 THEN q ELSE -r
    BY DEF Scan!HalfUp
  <1>6. Scan!HalfUp(pd + b, d) = u
    BY <1>1 DEF Scan!HalfUp
  <1> HIDE DEF q, r, u
  <1>7. \A x \in Int : x >= p => d * x >= d * p
    OBVIOUS
  <1>8. d * p = pd
    BY DEF pd
  <1>9. (2 * d) * q = 2 * (d * q) /\ d * q \in Int
    BY <1>2
  <1>10. q < p
    <2> SUFFICES ASSUME q >= p PROVE FALSE
      BY <1>2
    <2> DEFINE dq == d * q
    <2>1. dq \in Int /\ dq >= pd /\ 2 * dq <= 2 * (pd - b) + d
      BY <1>2, <1>7, <1>8, <1>9
    <2> HIDE DEF dq
    <2> QED
      BY <1>1, <2>1
  <1>11. (2 * d) * u = 2 * (d * u) /\ d * u \in Int
    BY <1>4
  <1>12. u > p
    <2> SUFFICES ASSUME u <= p PROVE FALSE
      BY <1>4
    <2> DEFINE du == d * u
    <2>0. du <= pd
      <3>1. \A x \in Int : x <= p => d * x <= d * p
        OBVIOUS
      <3> QED
        BY <1>4, <1>8, <3>1
    <2>1. du \in Int /\ 2 * (pd + b) + d < 2 * du + 2 * d
      BY <1>4, <1>11
    <2> HIDE DEF du
    <2> QED
      BY <1>1, <2>0, <2>1
  <1>13. pd - b < 0 => -r < p
    <2> SUFFICES ASSUME pd - b < 0, r <= -p PROVE FALSE
      BY <1>3
    <2> DEFINE dr == d * r
    <2>1. dr \in Int /\ (2 * d) * r = 2 * dr
      BY <1>3
    <2>2. dr <= -pd
      <3>1. d * (-p) = -(d * p)
        OBVIOUS
      <3>2. \A x \in Int : x <= -p => d * x <= d * (-p)
        OBVIOUS
      <3> QED
        BY <1>3, <1>8, <3>1, <3>2
    <2> HIDE DEF dr
    <2> QED
      BY <1>1, <1>3, <2>1, <2>2
  <1>14. Scan!HalfUp(pd - b, d) < p /\ Scan!HalfUp(pd + b, d) > p
    BY <1>1, <1>5, <1>6, <1>10, <1>12, <1>13
  <1> QED
    BY <1>14 DEF pd

-----------------------------------------------------------------------------
(* The sum of the first n of some numbers, as the recursion of SumOf has it. *)
SummedNext(v, g, n) == IF n = 0 THEN 0 ELSE g[n - 1] + v[n]
Summed(v) == CHOOSE g : g = [n \in 0 .. Len(v) |-> SummedNext(v, g, n)]

(* A sum of numbers is a number.                                            *)
LEMMA SumOfIsInt == ASSUME NEW v \in Seq(Int) PROVE Scan!SumOf(v) \in Int
  <1> DEFINE L == Len(v)
             Ok(n, g) == \A m \in 0 .. n : g[m] = SummedNext(v, g, m)
             N == {n \in Nat : n <= L => \E g \in [0 .. n -> Int] : Ok(n, g)}
  <1>1. L \in Nat /\ \A n \in 1 .. L : v[n] \in Int
    OBVIOUS
  <1>2. 0 \in N
    <2> DEFINE g == [m \in 0 .. 0 |-> 0]
    <2>1. g \in [0 .. 0 -> Int] /\ Ok(0, g)
      BY DEF SummedNext
    <2> HIDE DEF g, Ok
    <2> QED
      BY <2>1
  <1>3. ASSUME NEW n \in Nat, n \in N PROVE n + 1 \in N
    <2> SUFFICES ASSUME n + 1 <= L
                 PROVE  \E g \in [0 .. (n + 1) -> Int] : Ok(n + 1, g)
      <3> HIDE DEF Ok, L
      <3>1. n + 1 \in Nat
        OBVIOUS
      <3> QED
        BY <3>1
    <2>1. PICK g \in [0 .. n -> Int] : Ok(n, g)
      BY <1>1, <1>3
    <2>2. n + 1 \in 1 .. L
      BY <1>1
    <2> DEFINE h == [m \in 0 .. (n + 1) |-> IF m <= n THEN g[m] ELSE g[n] + v[n + 1]]
    <2>3. \A m \in 0 .. n : h[m] = g[m]
      OBVIOUS
    <2>4. ASSUME NEW m \in 0 .. (n + 1) PROVE h[m] = SummedNext(v, h, m)
      <3>1. CASE m <= n
        <4>1. m # 0 => h[m - 1] = g[m - 1]
          BY <2>3, <3>1
        <4>2. h[m] = g[m] /\ g[m] = SummedNext(v, g, m)
          BY <2>1, <2>3, <3>1
        <4> HIDE DEF h
        <4> QED
          BY <4>1, <4>2 DEF SummedNext
      <3>2. CASE m = n + 1
        <4>1. h[m] = g[n] + v[n + 1] /\ h[n] = g[n] /\ m - 1 = n /\ m # 0
          BY <2>3, <3>2
        <4> HIDE DEF h
        <4> QED
          BY <3>2, <4>1 DEF SummedNext
      <3> QED
        BY <3>1, <3>2
    <2>5. h \in [0 .. (n + 1) -> Int]
      BY <1>1, <2>1, <2>2
    <2>6. Ok(n + 1, h)
      BY <2>4
    <2> HIDE DEF h, Ok
    <2> QED
      BY <2>5, <2>6
  <1>4. \E g \in [0 .. L -> Int] : Ok(L, g)
    <2>1. Nat \subseteq N
      <3> HIDE DEF N
      <3> QED
        BY <1>2, <1>3, NaturalsByStep
    <2>2. L \in N
      BY <1>1, <2>1
    <2> HIDE DEF Ok
    <2> QED
      BY <1>1, <2>2
  <1>5. PICK k \in [0 .. L -> Int] : Ok(L, k)
    BY <1>4
  <1>6. k = [n \in 0 .. L |-> SummedNext(v, k, n)]
    BY <1>5
  <1>7. Summed(v) = [n \in 0 .. L |-> SummedNext(v, Summed(v), n)]
    BY <1>6 DEF Summed
  <1>8. Scan!SumOf(v) = Summed(v)[L]
    BY DEF Scan!SumOf, Summed, SummedNext
  <1> DEFINE g == Summed(v)
  <1>9. \A n \in 0 .. L : g[n] = SummedNext(v, g, n)
    BY <1>7
  <1> HIDE DEF g, L
  <1> DEFINE G == {n \in Nat : n <= L => g[n] \in Int}
  <1>10. 0 \in G
    BY <1>1, <1>9 DEF SummedNext
  <1>11. ASSUME NEW n \in Nat, n \in G PROVE n + 1 \in G
    <2> SUFFICES ASSUME n + 1 <= L PROVE g[n + 1] \in Int
      OBVIOUS
    <2>1. g[n + 1] = SummedNext(v, g, n + 1) /\ g[n] \in Int /\ v[n + 1] \in Int
          /\ n + 1 # 0 /\ (n + 1) - 1 = n
      BY <1>1, <1>9, <1>11
    <2> QED
      BY <2>1 DEF SummedNext
  <1>12. Nat \subseteq G
    <2> HIDE DEF G
    <2> QED
      BY <1>10, <1>11, NaturalsByStep
  <1> QED
    BY <1>1, <1>8, <1>12 DEF g

-----------------------------------------------------------------------------
(* The candles of a symbol, none so cheap that 0.6 per cent of its price is *)
(* rounded away.                                                            *)
ScannedCandle == [high : Int, low : Int, close : Nat, volume : Int]
Traded(s) == s \in Seq(ScannedCandle) /\ \A i \in 1 .. Len(s) : s[i].close >= 84

(* The latest candles are candles.                                          *)
LEMMA LatestCandles ==
    ASSUME NEW s, Traded(s), s # <<>>, NEW n \in Nat \ {0}
    PROVE  /\ Traded(Scan!LastN(s, n)) /\ Scan!LastN(s, n) # <<>>
           /\ Len(Scan!LastN(s, n)) \in 1 .. n
           /\ Scan!Newest(Scan!LastN(s, n)) = Scan!Newest(s)
           /\ Scan!Newest(s) \in ScannedCandle /\ Scan!Newest(s).close >= 84
  <1> DEFINE first == IF Len(s) > n THEN Len(s) - n + 1 ELSE 1
             t == SubSeq(s, first, Len(s))
  <1>1. Len(s) \in Nat /\ Len(s) > 0 /\ first \in 1 .. Len(s) /\ Len(s) - first + 1 \in 1 .. n
    BY DEF Traded
  <1>2. Scan!LastN(s, n) = t
    BY DEF Scan!LastN
  <1> HIDE DEF first
  <1>3. t \in Seq(ScannedCandle) /\ Len(t) = Len(s) - first + 1
        /\ \A i \in 1 .. Len(s) - first + 1 : t[i] = s[first + i - 1]
    BY <1>1 DEF Traded
  <1> HIDE DEF t
  <1>4. \A i \in 1 .. Len(t) : t[i].close >= 84
    <2>1. ASSUME NEW i \in 1 .. Len(t)
          PROVE  first + i - 1 \in 1 .. Len(s) /\ t[i] = s[first + i - 1]
      BY <1>1, <1>3
    <2> QED
      BY <2>1 DEF Traded
  <1>5. t[Len(t)] = s[Len(s)]
    <2>1. Len(t) \in 1 .. Len(s) - first + 1 /\ first + Len(t) - 1 = Len(s)
      BY <1>1, <1>3
    <2> QED
      BY <1>3, <2>1
  <1>6. s[Len(s)] \in ScannedCandle /\ s[Len(s)].close >= 84
    BY <1>1 DEF Traded
  <1>7. t # <<>> /\ Len(t) \in 1 .. n
    BY <1>1, <1>3
  <1> QED
    BY <1>2, <1>3, <1>4, <1>5, <1>6, <1>7 DEF Traded, Scan!Newest

(* The sum of their ranges is a number.                                     *)
LEMMA RangesAre == ASSUME NEW s, Traded(s) PROVE Scan!Ranges(s) \in Int
  <1> DEFINE v == [i \in DOMAIN s |-> s[i].high - s[i].low]
  <1>1. DOMAIN s = 1 .. Len(s) /\ Len(s) \in Nat /\ \A i \in 1 .. Len(s) : s[i] \in ScannedCandle
    BY DEF Traded
  <1>2. \A i \in 1 .. Len(s) : v[i] \in Int
    BY <1>1 DEF ScannedCandle
  <1>3. v = [i \in 1 .. Len(s) |-> v[i]]
    BY <1>1
  <1> HIDE DEF v
  <1>4. v \in Seq(Int)
    BY <1>1, <1>2, <1>3
  <1> QED
    BY <1>4, SumOfIsInt DEF Scan!Ranges, v

(* So is the change of the price over the latest of them.                   *)
LEMMA ChangeIs ==
    ASSUME NEW s, Traded(s), s # <<>>, NEW n \in Nat \ {0}
    PROVE  Scan!ChangeOver(s, n) \in Int
  <1> DEFINE t == Scan!LastN(s, n)
             p == Scan!Newest(t).close - t[1].close
             x == p * 1000000
  <1>1. Traded(t) /\ t # <<>>
    BY LatestCandles
  <1>2. t[1].close \in Nat \ {0}
    <2>1. t[1] \in ScannedCandle /\ t[1].close >= 84
      BY <1>1 DEF Traded
    <2> QED
      BY <2>1 DEF ScannedCandle
  <1>3. Scan!Newest(t).close \in Nat
    <2>1. 1 \in Nat \ {0}
      OBVIOUS
    <2>2. Scan!Newest(t) \in ScannedCandle
      BY <1>1, <2>1, LatestCandles
    <2> QED
      BY <2>2 DEF ScannedCandle
  <1>4. Scan!ChangeOver(s, n) = IF Len(t) < 2 THEN 0 ELSE Scan!HalfUp(x, t[1].close)
    BY DEF Scan!ChangeOver, Scan!PercentHalfUp
  <1>5. x \in Int
    BY <1>2, <1>3, SMT
  <1> HIDE DEF x, t
  <1>6. Scan!HalfUp(x, t[1].close) \in Int
    BY <1>2, <1>5, HalfUpIsInt
  <1> QED
    BY <1>4, <1>6

(* The market scores of a symbol are numbers.                               *)
Numbered(m) ==
    /\ m.trendScore \in Int /\ m.momentumScore \in Int /\ m.volatility \in Int
    /\ m.liquidity \in Int /\ m.risk \in Int /\ m.bullish \in Int /\ m.bearish \in Int

(* The score of the traded volume is one of those of the ladder.            *)
LEMMA LiquidityScoreIs == ASSUME NEW s PROVE Scan!LiquidityScore(s) \in Int
  <1> DEFINE steps == <<<<1000, 90>>, <<250, 72>>, <<50, 48>>, <<10, 28>>>>
             x == Scan!Volumes(Scan!LastN(s, 24)) \div Len(Scan!LastN(s, 24))
             reached == {i \in DOMAIN steps : x >= steps[i][1]}
  <1>1. Scan!LiquidityScore(s) = IF reached = {} THEN 12 ELSE steps[Min(reached)][2]
    BY DEF Scan!LiquidityScore, Scan!Ladder, Scan!Min, Min
  <1>2. \A i \in 1 .. 4 : steps[i][2] \in Int
    OBVIOUS
  <1>3. reached \subseteq 1 .. 4
    OBVIOUS
  <1>4. reached # {} => Min(reached) \in reached
    <2> HIDE DEF reached
    <2>1. IsFiniteSet(1 .. 4)
      <3>1. 1 \in Int /\ 4 \in Int
        OBVIOUS
      <3> QED
        BY <3>1, FS_Interval, Zenon
    <2>2. IsFiniteSet(reached)
      BY <1>3, <2>1, FS_Subset, Zenon
    <2>3. reached \subseteq Int
      BY <1>3
    <2> QED
      BY <2>2, <2>3, FiniteExtremes, Zenon
  <1> HIDE DEF steps, reached
  <1>5. reached # {} => steps[Min(reached)][2] \in Int
    BY <1>2, <1>3, <1>4
  <1> QED
    BY <1>1, <1>5

(* What the averages, the structure and the momentum say is a number.       *)
LEMMA MarketDirectionIs ==
    ASSUME NEW s, NEW higher, NEW momentum, NEW sign
    PROVE  Scan!Direction(s, higher, momentum, sign) \in Int
  BY DEF Scan!Direction

(* ... and so is all that is scored from it.                                *)
LEMMA ScoresAre ==
    ASSUME NEW s, NEW momentum \in Int, NEW bullish \in Int, NEW bearish \in Int
    PROVE  Numbered(Scan!Scores(s, momentum, bullish, bearish))
  <1> DEFINE m == Scan!Scores(s, momentum, bullish, bearish)
             best == Scan!Greater(bullish, bearish)
             choppy == Scan!FlipRate(Scan!LastN(s, 24)) >= 58 /\ best < 70
             risk == Scan!Lesser(Scan!VolatilityQuality(s), Scan!LiquidityScore(s))
             size == Scan!Abs(momentum)
  <1>1. Scan!VolatilityQuality(s) \in Int
    BY DEF Scan!VolatilityQuality
  <1>2. Scan!LiquidityScore(s) \in Int
    BY LiquidityScoreIs
  <1>3. best \in Int /\ Scan!Score(best) \in Int
    <2>1. best \in Int
      BY DEF Scan!Greater
    <2> QED
      BY <2>1, ScoreIs
  <1>4. risk \in Int
    BY <1>1, <1>2 DEF Scan!Lesser
  <1>5. size \in Int
    BY DEF Scan!Abs
  <1>6. /\ m.trendScore = Scan!Score(best)
        /\ m.momentumScore = Scan!Lesser(100, (size * 12) \div 10000
                                              + IF size >= 3500 THEN 25 ELSE 5)
        /\ m.volatility = Scan!VolatilityQuality(s) /\ m.liquidity = Scan!LiquidityScore(s)
        /\ m.risk = IF choppy THEN Scan!Lesser(risk, 35) ELSE risk
        /\ m.bullish = Scan!Lesser(bullish, IF choppy THEN 48 ELSE 100)
        /\ m.bearish = Scan!Lesser(bearish, IF choppy THEN 48 ELSE 100)
    BY DEF Scan!Scores
  <1> HIDE DEF m, best, choppy, risk, size
  <1>7. m.momentumScore \in Int
    BY <1>5, <1>6, SMT DEF Scan!Lesser
  <1>8. m.risk \in Int /\ m.bullish \in Int /\ m.bearish \in Int
    BY <1>4, <1>6 DEF Scan!Lesser
  <1>9. Numbered(m)
    BY <1>1, <1>2, <1>3, <1>6, <1>7, <1>8 DEF Numbered
  <1> QED
    BY <1>9 DEF m

(* With any candles at all the market has its scores.                       *)
LEMMA MarketScoresAre ==
    ASSUME NEW s, Traded(s), s # <<>>, NEW higher
    PROVE  Numbered(Scan!MarketScores(s, higher))
  <1>1. Scan!ChangeOver(s, 24) \in Int
    BY ChangeIs
  <1> QED
    BY <1>1, MarketDirectionIs, ScoresAre DEF Scan!MarketScores

(* The technical analysis, where there is one, has a strength.              *)
Strong(t) == t = None \/ t.strength \in Int

(* The sides are scored from 0 to 100.                                      *)
LEMMA SideScoresAre ==
    ASSUME NEW c, NEW m, Numbered(m), Strong(c.technical)
    PROVE  Scan!LongScore(c, m) \in 0 .. 100 /\ Scan!ShortScore(c, m) \in 0 .. 100
  <1> DEFINE t == c.technical
             points(own, momenta, breakout) == Scan!TechnicalPoints(t, own, momenta, breakout)
  <1>1. ASSUME NEW own, NEW momenta, NEW breakout, t # None
        PROVE  points(own, momenta, breakout) \in Int
    <2>1. t.strength \in Int
      BY <1>1 DEF Strong
    <2>2. Scan!Lesser(10, t.strength \div 10) \in Int
      BY <2>1 DEF Scan!Lesser
    <2> QED
      BY <2>2, PointsAre DEF Scan!TechnicalPoints
  <1> HIDE DEF t
  <1> DEFINE up == points("bullish", {"bullish", "overbought"}, "upside")
             down == points("bearish", {"bearish", "oversold"}, "downside")
  <1>2. t # None => up \in Int /\ down \in Int
    BY <1>1
  <1>3. Scan!LongScore(c, m) = Scan!Score(m.bullish + (IF t = None THEN 0 ELSE up)
          + Scan!Points(c.regime \in {"trending_up", "breakout_building"}, 8)
          - Scan!Points(c.regime \in {"trending_down", "choppy", "low_liquidity"}, 20))
    BY DEF Scan!LongScore, t
  <1>4. Scan!ShortScore(c, m) = Scan!Score(m.bearish + (IF t = None THEN 0
              ELSE down + Scan!Points(t.reversal = "high" /\ t.trend = "bearish", 8))
          + Scan!Points(c.regime \in {"trending_down", "reversal_risk"}, 8)
          - Scan!Points(c.regime \in {"trending_up", "choppy", "low_liquidity"}, 20))
    BY DEF Scan!ShortScore, t
  <1> HIDE DEF up, down
  <1> QED
    BY <1>2, <1>3, <1>4, PointsAre, ScoreIs, SMTT(30) DEF Numbered

(* The score of an opportunity is one.                                      *)
LEMMA OpportunityIs ==
    ASSUME NEW direction \in Int, NEW m, Numbered(m), NEW evidence
    PROVE  Scan!OpportunityScore(direction, m, Scan!ValidationScore(evidence)) \in 0 .. 100
  <1> DEFINE v == Scan!ValidationScore(evidence)
             sum == direction * 28 + m.trendScore * 22 + m.momentumScore * 18
                    + m.volatility * 12 + m.liquidity * 10 + m.risk * 7 + v * 3
  <1>1. v \in Int
    BY DEF Scan!ValidationScore
  <1> HIDE DEF v
  <1>2. sum \in Int
    BY <1>1 DEF Numbered
  <1> HIDE DEF sum
  <1>3. Scan!HalfUp(sum, 100) \in Int
    BY <1>2, HalfUpIsInt
  <1>4. Scan!OpportunityScore(direction, m, v) = Scan!Score(Scan!HalfUp(sum, 100))
    BY DEF Scan!OpportunityScore, sum
  <1> QED
    BY <1>3, <1>4, ScoreIs DEF v

-----------------------------------------------------------------------------
(* The stop and the target.                                                 *)

(* They are on their sides of the price, by more than is rounded.           *)
LEMMA LevelsAreOutside ==
    ASSUME NEW s, Traded(s), s # <<>>, NEW direction \in {"long", "short"}
    PROVE  LET levels == Scan!RiskLevels(direction, s)
               price == Scan!Newest(s).close
           IN  /\ levels.stop \in Int /\ levels.target \in Int /\ price \in Int
               /\ direction = "long" => levels.stop < price /\ price < levels.target
               /\ direction = "short" => levels.target < price /\ price < levels.stop
  <1> DEFINE recent == Scan!LastN(s, 24)
             price == Scan!Newest(s).close
             n == Len(recent)
             ranges == Scan!Ranges(recent)
             buffer == Scan!Greater(ranges * 1000, price * 6 * n)
             sign == IF direction = "long" THEN 1 ELSE -1
             levels == Scan!RiskLevels(direction, s)
  <1>1. Traded(recent) /\ n \in 1 .. 24 /\ Scan!Newest(s) \in ScannedCandle /\ price >= 84
    <2>1. 24 \in Nat \ {0}
      OBVIOUS
    <2> QED
      BY <2>1, LatestCandles, Zenon
  <1>2. price \in Nat
    BY <1>1 DEF ScannedCandle
  <1>3. ranges \in Int
    BY <1>1, RangesAre
  <1>4. /\ levels.stop = Scan!HalfUp(price * 1000 * n - sign * buffer, 1000 * n)
        /\ levels.target = Scan!HalfUp(price * 10000 * n + sign * 18 * buffer, 10000 * n)
    BY DEF Scan!RiskLevels
  <1> HIDE DEF recent, price, ranges, levels, n
  <1> DEFINE pn == price * n
  <1>5. pn \in Nat /\ pn >= 84 * n /\ n \in Nat \ {0}
    BY <1>1, <1>2
  <1>6. price * 6 * n = 6 * pn /\ price * (1000 * n) = 1000 * pn /\ price * 1000 * n = 1000 * pn
        /\ price * (10000 * n) = 10000 * pn /\ price * 10000 * n = 10000 * pn
    BY <1>1, <1>2
  <1> HIDE DEF pn
  <1>7. buffer \in Nat /\ buffer >= 6 * pn
    BY <1>3, <1>5, <1>6 DEF Scan!Greater
  <1> HIDE DEF buffer
  <1> DEFINE c == 1000 * n
             d == 10000 * n
             x == 18 * buffer
             a == 1000 * pn
             b == 10000 * pn
  <1>8. /\ 2 * buffer > c /\ 2 * x > d
        /\ c \in Nat \ {0} /\ d \in Nat \ {0} /\ x \in Nat
    BY <1>5, <1>7
  <1>9. a \in Nat /\ b \in Nat /\ price * c = a /\ price * d = b
    BY <1>5, <1>6
  <1>10. /\ levels.stop = Scan!HalfUp(a - sign * buffer, c)
         /\ levels.target = Scan!HalfUp(b + sign * 18 * buffer, d)
    BY <1>4, <1>6
  <1>11. x = 18 * buffer
    OBVIOUS
  <1> HIDE DEF a, b, c, d, x
  <1>12. Scan!HalfUp(a - buffer, c) < price /\ Scan!HalfUp(a + buffer, c) > price
    <2>1. Scan!HalfUp(price * c - buffer, c) < price /\ Scan!HalfUp(price * c + buffer, c) > price
      BY <1>2, <1>7, <1>8, HalfUpSides
    <2> QED
      BY <1>9, <2>1
  <1>13. Scan!HalfUp(b - x, d) < price /\ Scan!HalfUp(b + x, d) > price
    <2>1. Scan!HalfUp(price * d - x, d) < price /\ Scan!HalfUp(price * d + x, d) > price
      BY <1>2, <1>8, HalfUpSides
    <2> QED
      BY <1>9, <2>1
  <1>14. /\ Scan!HalfUp(a - buffer, c) \in Int /\ Scan!HalfUp(a + buffer, c) \in Int
         /\ Scan!HalfUp(b - x, d) \in Int /\ Scan!HalfUp(b + x, d) \in Int
    <2>1. a - buffer \in Int /\ a + buffer \in Int /\ b - x \in Int /\ b + x \in Int
      BY <1>7, <1>8, <1>9
    <2> QED
      BY <1>8, <2>1, HalfUpIsInt
  <1>15. CASE direction = "long"
    <2>1. a - sign * buffer = a - buffer /\ b + sign * 18 * buffer = b + x
      BY <1>7, <1>8, <1>9, <1>11, <1>15
    <2> QED
      BY <1>2, <1>10, <1>12, <1>13, <1>14, <1>15, <2>1 DEF levels, price
  <1>16. CASE direction = "short"
    <2>1. a - sign * buffer = a + buffer /\ b + sign * 18 * buffer = b - x
      BY <1>7, <1>8, <1>9, <1>11, <1>16
    <2> QED
      BY <1>2, <1>10, <1>12, <1>13, <1>14, <1>16, <2>1 DEF levels, price
  <1> QED
    BY <1>15, <1>16

(* What the scanner makes of a symbol it has enough candles of, step by step: *)
(* the sides' scores, the opportunity, and the verdict.                     *)
Candidate == {"long", "short"}

(* Only a setup that is one is clean.                                       *)
LEMMA CleanIsASetup ==
    ASSUME NEW c, NEW m
    PROVE  Scan!SlowMarketSetup(c, m).setup \in {"none", "low_volatility_no_edge"}
               => ~Scan!SlowMarketSetup(c, m).clean
  BY DEF Scan!SlowMarketSetup, Scan!Setup, Scan!NoSetup, Scan!NoEdge

(* The direction is that of the side ahead, and only of enough of an opportunity. *)
LEMMA DirectedIs ==
    ASSUME NEW c, NEW opportunity, NEW confidence, NEW long, NEW short, NEW threshold, NEW gap,
           Scan!Directed(c, opportunity, confidence, long, short, threshold, gap).direction
               \in Candidate
    PROVE  ~(opportunity < threshold)
  BY DEF Scan!Directed, Candidate

(* Only an active trader's clean setup is let through at 62.                *)
LEMMA ThresholdIs ==
    ASSUME NEW sensitivity, NEW slow
    PROVE  /\ Scan!ActionThreshold(sensitivity, slow) \in {62, 70, 76}
           /\ Scan!ActionThreshold(sensitivity, slow) = 62
                => sensitivity = "aggressive" /\ slow.clean
  <1>1. CASE sensitivity = "conservative"
    <2>1. Scan!ActionThreshold(sensitivity, slow) = 76
      BY <1>1 DEF Scan!ActionThreshold
    <2> QED
      BY <2>1
  <1>2. CASE sensitivity = "aggressive" /\ slow.clean
    <2>1. Scan!ActionThreshold(sensitivity, slow) = 62
      BY <1>2 DEF Scan!ActionThreshold
    <2>2. 62 \in {62, 70, 76}
      OBVIOUS
    <2> QED
      BY <1>2, <2>1, <2>2, Zenon
  <1>3. CASE sensitivity # "conservative" /\ ~(sensitivity = "aggressive" /\ slow.clean)
    <2>1. Scan!ActionThreshold(sensitivity, slow) = 70
      BY <1>3 DEF Scan!ActionThreshold
    <2> QED
      BY <2>1
  <1> QED
    BY <1>1, <1>2, <1>3

(* A candidate that is shown is of no high risk, has its levels on their sides *)
(* and an opportunity that is enough.                                       *)
LEMMA ShownCandidate ==
    ASSUME NEW c, Traded(c.candles), c.candles # <<>>, NEW m, NEW slow,
           slow.setup \in {"none", "low_volatility_no_edge"} => ~slow.clean,
           NEW long, NEW short, NEW opportunity \in 0 .. 100
    PROVE  Scan!FuturesSound(Scan!SignalFrom(c, m, slow, long, short, opportunity), c.sensitivity)
  <1> DEFINE risk == Scan!RiskGrade(c, m)
             active == c.sensitivity = "aggressive" /\ slow.clean
             confidence == Scan!LiquidityAdjusted("none", c.bias,
                 Scan!ConfidenceFrom(opportunity, Scan!ValidationScore(c.evidence), m.risk))
             threshold == Scan!ActionThreshold(c.sensitivity, slow)
             d == Scan!Directed(c, opportunity, confidence, long, short, threshold,
                                IF active THEN 8 ELSE 10)
             blocked == Scan!BuildSignal(c, "avoid", m, Scan!Lesser(opportunity, 45),
                            Scan!Greater(long, short), Scan!Lesser(confidence, 45), risk, slow)
             free == Scan!BuildSignal(c, d.direction, m, opportunity, d.side, d.confidence,
                                      risk, slow)
             s == Scan!SignalFrom(c, m, slow, long, short, opportunity)
             levels == Scan!RiskLevels(d.direction, c.candles)
             price == Scan!Newest(c.candles).close
  <1>1. s = IF Scan!Blocked(c, risk, slow) THEN blocked ELSE free
    BY DEF Scan!SignalFrom
  <1>2. blocked.direction = "avoid"
    BY DEF Scan!BuildSignal
  <1>3. /\ free.direction = d.direction /\ free.opportunity = Scan!Score(opportunity)
        /\ free.risk = risk /\ free.price = price /\ free.setup = slow.setup
        /\ free.stop = levels.stop /\ free.target = levels.target
    BY DEF Scan!BuildSignal
  <1>4. d.direction \in Candidate => ~(opportunity < threshold)
    BY DirectedIs
  <1>5. Scan!Score(opportunity) = opportunity
    BY ScoreIs
  <1>6. /\ threshold \in {62, 70, 76}
        /\ threshold = 62 => c.sensitivity = "aggressive" /\ slow.clean
    BY ThresholdIs
  <1>7. ~Scan!Blocked(c, risk, slow) => risk # "high"
    BY DEF Scan!Blocked
  <1> HIDE DEF s, blocked, free, d, risk, levels, price, confidence, threshold
  <1>8. CASE s.direction \in Candidate
    <2>1. s = free /\ d.direction \in Candidate /\ risk # "high"
      BY <1>1, <1>2, <1>3, <1>7, <1>8 DEF Candidate
    <2>2. /\ levels.stop \in Int /\ levels.target \in Int /\ price \in Int
          /\ d.direction = "long" => levels.stop < price /\ price < levels.target
          /\ d.direction = "short" => levels.target < price /\ price < levels.stop
      BY <2>1, LevelsAreOutside DEF levels, price, Candidate
    <2>3. Scan!WellPlaced(s)
      BY <1>3, <2>1, <2>2 DEF Scan!WellPlaced, Candidate
    <2>4. Scan!Heartbeat(s, s.price) \notin {"invalidated", "take_profit_touched"}
      <3>1. CASE s.direction = "long"
        <4>1. Scan!Sign(s.direction) = 1
          BY <3>1 DEF Scan!Sign
        <4>2. ~(1 * (s.price - s.stop) <= 0) /\ ~(1 * (s.target - s.price) <= 0)
          BY <1>3, <2>1, <2>2, <3>1
        <4> QED
          BY <4>1, <4>2 DEF Scan!Heartbeat
      <3>2. CASE s.direction = "short"
        <4>1. Scan!Sign(s.direction) = -1
          BY <3>2 DEF Scan!Sign
        <4>2. ~((-1) * (s.price - s.stop) <= 0) /\ ~((-1) * (s.target - s.price) <= 0)
          BY <1>3, <2>1, <2>2, <3>2
        <4> QED
          BY <4>1, <4>2 DEF Scan!Heartbeat
      <3> QED
        BY <1>8, <3>1, <3>2 DEF Candidate
    <2>5. s.opportunity < 70 => c.sensitivity = "aggressive"
                                  /\ s.setup \notin {"none", "low_volatility_no_edge"}
      BY <1>3, <1>4, <1>5, <1>6, <2>1
    <2>6. Scan!NoEdge.setup = "low_volatility_no_edge"
      BY DEF Scan!NoEdge, Scan!Setup
    <2>7. Scan!FuturesSound(s, c.sensitivity)
      BY <1>3, <2>1, <2>3, <2>4, <2>5, <2>6 DEF Scan!FuturesSound
    <2> QED
      BY <2>7 DEF s
  <1>9. CASE s.direction \notin Candidate
    BY <1>9 DEF Scan!FuturesSound, Scan!Candidates, Candidate, s
  <1> QED
    BY <1>8, <1>9

(* Whatever is known of a symbol, a candidate of it is sound.               *)
LEMMA AnalysisIsSound ==
    ASSUME NEW c, Traded(c.candles), Strong(c.technical)
    PROVE  Scan!FuturesSound(Scan!AnalyzeSymbol(c), c.sensitivity)
  <1>1. CASE Len(c.candles) < Scan!MinCandles
    BY <1>1 DEF Scan!AnalyzeSymbol, Scan!Insufficient, Scan!FuturesSound, Scan!Candidates
  <1>2. CASE ~(Len(c.candles) < Scan!MinCandles)
    <2> DEFINE m == Scan!MarketScores(c.candles, c.higher)
               slow == Scan!SlowMarketSetup(c, m)
               long == Scan!Lesser(100, Scan!LongScore(c, m) + Scan!Helped(c, slow, "long"))
               short == Scan!Lesser(100, Scan!ShortScore(c, m) + Scan!Helped(c, slow, "short"))
               side == Scan!Greater(long, short)
               opportunity == Scan!OpportunityScore(side, m, Scan!ValidationScore(c.evidence))
    <2>1. c.candles # <<>>
      BY <1>2 DEF Scan!MinCandles
    <2>2. Scan!AnalyzeSymbol(c) = Scan!SignalFrom(c, m, slow, long, short, opportunity)
      BY <1>2 DEF Scan!AnalyzeSymbol, Scan!WithSetup, Scan!ScoredSides
    <2>3. slow.setup \in {"none", "low_volatility_no_edge"} => ~slow.clean
      BY CleanIsASetup
    <2>4. Numbered(m)
      BY <2>1, MarketScoresAre
    <2> HIDE DEF m, slow
    <2>5. Scan!Helped(c, slow, "long") \in Int /\ Scan!Helped(c, slow, "short") \in Int
      BY PointsAre DEF Scan!Helped
    <2>6. long \in Int /\ short \in Int
      BY <2>4, <2>5, SideScoresAre DEF Scan!Lesser
    <2> HIDE DEF long, short
    <2>7. side \in Int
      BY <2>6 DEF Scan!Greater
    <2> HIDE DEF side
    <2>8. opportunity \in 0 .. 100
      BY <2>4, <2>7, OpportunityIs
    <2> HIDE DEF opportunity
    <2> QED
      BY <2>1, <2>2, <2>3, <2>8, ShownCandidate
  <1> QED
    BY <1>1, <1>2

-----------------------------------------------------------------------------
(* What a verdict depends on.                                               *)

(* Two analyses that know the same of the market: the zones and the sensitivity *)
(* may differ.                                                              *)
SameMarket(c, d) ==
    /\ c.candles = d.candles /\ c.higher = d.higher /\ c.technical = d.technical
    /\ c.regime = d.regime /\ c.evidence = d.evidence /\ c.eligibility = d.eligibility
    /\ c.blockers = d.blockers /\ c.spread = d.spread /\ c.bias = d.bias

(* The setup, the risk and the scores are those of the market.              *)
LEMMA ReadingsAgree ==
    ASSUME NEW c, NEW d, SameMarket(c, d), NEW m
    PROVE  /\ Scan!SlowMarketSetup(c, m) = Scan!SlowMarketSetup(d, m)
           /\ Scan!RiskGrade(c, m) = Scan!RiskGrade(d, m)
           /\ Scan!LongScore(c, m) = Scan!LongScore(d, m)
           /\ Scan!ShortScore(c, m) = Scan!ShortScore(d, m)
  <1>1. Scan!SlowMarketSetup(c, m) = Scan!SlowMarketSetup(d, m)
    BY DEF SameMarket, Scan!SlowMarketSetup
  <1>2. Scan!RiskGrade(c, m) = Scan!RiskGrade(d, m)
    BY DEF SameMarket, Scan!RiskGrade
  <1>3. Scan!LongScore(c, m) = Scan!LongScore(d, m)
    BY DEF SameMarket, Scan!LongScore
  <1>4. Scan!ShortScore(c, m) = Scan!ShortScore(d, m)
    BY DEF SameMarket, Scan!ShortScore
  <1> QED
    BY <1>1, <1>2, <1>3, <1>4

(* Whom a setup helps, where it helps nobody who is not aggressive.         *)
Calmly(c) == c.sensitivity \in {"conservative", "balanced"}
LEMMA NobodyIsHelped ==
    ASSUME NEW c, Calmly(c), NEW slow, NEW side
    PROVE  Scan!Helped(c, slow, side) = 0
  BY DEF Calmly, Scan!Helped, Scan!Points

(* What is shown of a direction.                                            *)
LEMMA VerdictOf ==
    ASSUME NEW c, NEW direction, NEW m, NEW opportunity, NEW side, NEW confidence, NEW risk,
           NEW slow
    PROVE  Scan!Verdict(Scan!BuildSignal(c, direction, m, opportunity, side, confidence,
                                         risk, slow))
             = <<direction, Scan!Score(opportunity), Scan!Score(confidence), risk,
                 Scan!RiskLevels(direction, c.candles).stop,
                 Scan!RiskLevels(direction, c.candles).target>>
  BY DEF Scan!Verdict, Scan!BuildSignal

(* Neither the zones nor more caution than a balanced trader's changes what a *)
(* candidate looks like.                                                    *)
LEMMA SignalsAgree ==
    ASSUME NEW c, NEW d, SameMarket(c, d), Calmly(c), d.sensitivity = "balanced", NEW m,
           NEW slow, NEW long, NEW short, NEW opportunity \in 0 .. 100,
           \/ c.sensitivity = "balanced"
           \/ Scan!SignalFrom(c, m, slow, long, short, opportunity).direction \in Candidate
    PROVE  Scan!Verdict(Scan!SignalFrom(c, m, slow, long, short, opportunity))
             = Scan!Verdict(Scan!SignalFrom(d, m, slow, long, short, opportunity))
  <1> DEFINE risk == Scan!RiskGrade(c, m)
             Confidence(x) == Scan!LiquidityAdjusted("none", x.bias,
                 Scan!ConfidenceFrom(opportunity, Scan!ValidationScore(x.evidence), m.risk))
             confidence == Confidence(c)
             At(threshold) == Scan!Directed(c, opportunity, confidence, long, short,
                                            threshold, 10)
             e == At(Scan!ActionThreshold(c.sensitivity, slow))
             f == At(70)
             Free(x, a) == Scan!BuildSignal(x, a.direction, m, opportunity, a.side,
                                           a.confidence, risk, slow)
             Stopped(x) == Scan!BuildSignal(x, "avoid", m, Scan!Lesser(opportunity, 45),
                               Scan!Greater(long, short), Scan!Lesser(confidence, 45),
                               risk, slow)
             s == Scan!SignalFrom(c, m, slow, long, short, opportunity)
             t == Scan!SignalFrom(d, m, slow, long, short, opportunity)
  <1>1. Scan!RiskGrade(d, m) = risk /\ Confidence(d) = confidence /\ d.candles = c.candles
    BY ReadingsAgree DEF SameMarket
  <1>2. Scan!ActionThreshold(d.sensitivity, slow) = 70
    BY DEF Scan!ActionThreshold
  <1>3. \A x : Scan!Directed(d, opportunity, confidence, long, short, x, 10)
                = Scan!Directed(c, opportunity, confidence, long, short, x, 10)
    BY DEF Scan!Directed, SameMarket
  <1>4. Scan!Blocked(d, risk, slow) <=> Scan!Blocked(c, risk, slow)
    BY DEF Scan!Blocked, SameMarket, Calmly
  <1>5. s = IF Scan!Blocked(c, risk, slow) THEN Stopped(c) ELSE Free(c, e)
    BY DEF Scan!SignalFrom, Calmly
  <1>6. t = IF Scan!Blocked(d, risk, slow) THEN Stopped(d) ELSE Free(d, f)
    BY <1>1, <1>2, <1>3 DEF Scan!SignalFrom
  <1>7. \A a : Scan!Verdict(Free(c, a)) = Scan!Verdict(Free(d, a))
    BY <1>1, VerdictOf
  <1>8. Scan!Verdict(Stopped(c)) = Scan!Verdict(Stopped(d))
    BY <1>1, VerdictOf
  <1>9. CASE c.sensitivity = "balanced"
    <2>1. e = f
      BY <1>9 DEF Scan!ActionThreshold
    <2> HIDE DEF e, f, Stopped, Free, s, t, risk
    <2>2. Scan!Verdict(s) = Scan!Verdict(t)
      BY <1>4, <1>5, <1>6, <1>7, <1>8, <2>1
    <2> QED
      BY <2>2 DEF s, t
  <1>10. CASE c.sensitivity = "conservative" /\ s.direction \in Candidate
    <2>1. Stopped(c).direction = "avoid" /\ Free(c, e).direction = e.direction
      BY DEF Scan!BuildSignal
    <2>2. ~Scan!Blocked(c, risk, slow) /\ s = Free(c, e) /\ e.direction \in Candidate
      BY <1>5, <1>10, <2>1 DEF Candidate
    <2>3. Scan!ActionThreshold(c.sensitivity, slow) = 76
      BY <1>10 DEF Scan!ActionThreshold
    <2>4. ~(opportunity < 76)
      BY <2>2, <2>3, DirectedIs
    <2>5. e = f
      BY <2>3, <2>4 DEF Scan!Directed
    <2> HIDE DEF e, f, Stopped, Free, s, t, risk
    <2>6. Scan!Verdict(s) = Scan!Verdict(t)
      BY <1>4, <1>6, <1>7, <2>2, <2>5
    <2> QED
      BY <2>6 DEF s, t
  <1> QED
    BY <1>9, <1>10 DEF Calmly

(* Nor for a symbol, however few its candles are.                           *)
LEMMA AnalysesAgree ==
    ASSUME NEW c, NEW d, SameMarket(c, d), Calmly(c), d.sensitivity = "balanced",
           Traded(c.candles), Strong(c.technical), c.symbol = d.symbol,
           \/ c.sensitivity = "balanced"
           \/ Scan!AnalyzeSymbol(c).direction \in Candidate
    PROVE  Scan!Verdict(Scan!AnalyzeSymbol(c)) = Scan!Verdict(Scan!AnalyzeSymbol(d))
  <1>1. CASE Len(c.candles) < Scan!MinCandles
    <2>1. /\ Scan!AnalyzeSymbol(c) = Scan!Insufficient(c)
          /\ Scan!AnalyzeSymbol(d) = Scan!Insufficient(d)
      BY <1>1 DEF Scan!AnalyzeSymbol, SameMarket
    <2> QED
      BY <2>1 DEF Scan!Insufficient, SameMarket
  <1>2. CASE ~(Len(c.candles) < Scan!MinCandles)
    <2> DEFINE m == Scan!MarketScores(c.candles, c.higher)
               slow == Scan!SlowMarketSetup(c, m)
               Long(x) == Scan!Lesser(100, Scan!LongScore(x, m) + Scan!Helped(x, slow, "long"))
               Short(x) == Scan!Lesser(100, Scan!ShortScore(x, m) + Scan!Helped(x, slow, "short"))
               side == Scan!Greater(Long(c), Short(c))
               opportunity == Scan!OpportunityScore(side, m, Scan!ValidationScore(c.evidence))
    <2>1. c.candles # <<>>
      BY <1>2 DEF Scan!MinCandles
    <2>2. Scan!AnalyzeSymbol(c) = Scan!SignalFrom(c, m, slow, Long(c), Short(c), opportunity)
      BY <1>2 DEF Scan!AnalyzeSymbol, Scan!WithSetup, Scan!ScoredSides
    <2>3. /\ Scan!SlowMarketSetup(d, m) = slow /\ Scan!LongScore(d, m) = Scan!LongScore(c, m)
          /\ Scan!ShortScore(d, m) = Scan!ShortScore(c, m)
      BY ReadingsAgree
    <2>4. Calmly(d)
      BY DEF Calmly
    <2>5. Long(d) = Long(c) /\ Short(d) = Short(c)
      BY <2>3, <2>4, NobodyIsHelped
    <2>6. /\ d.candles = c.candles /\ Scan!MarketScores(d.candles, d.higher) = m
          /\ d.evidence = c.evidence
      BY DEF SameMarket
    <2>7. Scan!AnalyzeSymbol(d) = Scan!SignalFrom(d, m, slow, Long(d), Short(d), opportunity)
      <3>1. Scan!AnalyzeSymbol(d) = Scan!ScoredSides(d, m, slow)
        BY <1>2, <2>3, <2>6 DEF Scan!AnalyzeSymbol, Scan!WithSetup
      <3>2. Scan!ScoredSides(d, m, slow)
              = Scan!SignalFrom(d, m, slow, Long(d), Short(d),
                    Scan!OpportunityScore(Scan!Greater(Long(d), Short(d)), m,
                                          Scan!ValidationScore(d.evidence)))
        BY DEF Scan!ScoredSides
      <3> HIDE DEF m, slow, Long, Short
      <3> QED
        BY <2>5, <2>6, <3>1, <3>2
    <2>8. Numbered(m)
      BY <2>1, MarketScoresAre
    <2> HIDE DEF m, slow
    <2>9. Scan!Helped(c, slow, "long") \in Int /\ Scan!Helped(c, slow, "short") \in Int
      BY PointsAre DEF Scan!Helped
    <2>10. Long(c) \in Int /\ Short(c) \in Int
      BY <2>8, <2>9, SideScoresAre DEF Scan!Lesser
    <2> HIDE DEF Long, Short
    <2>11. side \in Int
      BY <2>10 DEF Scan!Greater
    <2> HIDE DEF side
    <2>12. opportunity \in 0 .. 100
      BY <2>8, <2>11, OpportunityIs
    <2> HIDE DEF opportunity
    <2> QED
      BY <2>2, <2>5, <2>7, <2>12, SignalsAgree
  <1> QED
    BY <1>1, <1>2

-----------------------------------------------------------------------------
(* The scan of one symbol.                                                  *)

(* What the analysis is told of the symbol x: the bias and the zones are worked *)
(* out of its derivatives data, its candles and the liquidations seen.      *)
BiasFor(x) ==
    Scan!EstimateBias(x.candles,
        [x.derivatives EXCEPT !.oiChange =
            IF x.derivatives.oiChange = 0 THEN None ELSE x.derivatives.oiChange],
        Scan!EstimateCrowd(x.derivatives),
        IF x.technical = None THEN None ELSE x.technical.volatility)
EstimatedFor(x) ==
    Scan!EstimateZones(x.candles, "none", None, None, BiasFor(x),
                       Scan!EstimateCrowd(x.derivatives), None, None)
KnownMarket(x) ==
    [symbol |-> x.symbol, candles |-> x.candles, higher |-> x.higher,
     technical |-> x.technical, regime |-> None, evidence |-> "unvalidated",
     eligibility |-> None, blockers |-> {}, spread |-> None, bias |-> BiasFor(x),
     zones |-> Scan!ValidateZones(EstimatedFor(x),
                   Scan!InterpretLiquidations(x.liquidations, x.candles, EstimatedFor(x))),
     sensitivity |-> x.sensitivity]

(* It is told that and nothing else.                                        *)
LEMMA ScanTells ==
    ASSUME NEW x
    PROVE  Scan!MarketWideSignal(x) = Scan!AnalyzeSymbol(KnownMarket(x))
  BY DEF Scan!MarketWideSignal, Scan!WithBias, Scan!WithZones, KnownMarket, BiasFor, EstimatedFor

(* Whatever is reported of a symbol, the futures scanner's candidate is sound. *)
THEOREM FuturesCandidatesAreSound ==
    ASSUME NEW x, Traded(x.candles), Strong(x.technical)
    PROVE  Scan!FuturesSound(Scan!MarketWideSignal(x), x.sensitivity)
  <1>1. /\ KnownMarket(x).candles = x.candles /\ KnownMarket(x).technical = x.technical
        /\ KnownMarket(x).sensitivity = x.sensitivity
    BY DEF KnownMarket
  <1> QED
    BY <1>1, ScanTells, AnalysisIsSound

(* The liquidations that were seen do not change the verdict, and a conservative *)
(* trader's candidate is the one a balanced trader is shown.                *)
THEOREM FuturesVerdictsAgree ==
    ASSUME NEW x, NEW y, Traded(x.candles), Strong(x.technical),
           x.symbol = y.symbol, x.candles = y.candles, x.higher = y.higher,
           x.technical = y.technical, x.derivatives = y.derivatives,
           y.sensitivity = "balanced",
           \/ x.sensitivity = "balanced"
           \/ /\ x.sensitivity = "conservative"
              /\ Scan!MarketWideSignal(x).direction \in Candidate
    PROVE  Scan!Verdict(Scan!MarketWideSignal(x)) = Scan!Verdict(Scan!MarketWideSignal(y))
  <1> DEFINE c == KnownMarket(x)
             d == KnownMarket(y)
  <1>1. BiasFor(x) = BiasFor(y)
    BY DEF BiasFor
  <1>2. SameMarket(c, d) /\ c.symbol = d.symbol
    BY <1>1 DEF SameMarket, KnownMarket
  <1>3. /\ c.candles = x.candles /\ c.technical = x.technical
        /\ c.sensitivity = x.sensitivity /\ d.sensitivity = y.sensitivity
    BY DEF KnownMarket
  <1>4. Scan!MarketWideSignal(x) = Scan!AnalyzeSymbol(c)
        /\ Scan!MarketWideSignal(y) = Scan!AnalyzeSymbol(d)
    BY ScanTells
  <1> HIDE DEF c, d
  <1>5. Calmly(c)
    BY <1>3 DEF Calmly
  <1> QED
    BY <1>2, <1>3, <1>4, <1>5, AnalysesAgree

-----------------------------------------------------------------------------
(* The markets of the questions.                                            *)

(* Their candles are candles and their prices none too low.                 *)
LEMMA MarketsAreTraded ==
    ASSUME NEW shape \in Scan!Shapes, NEW texture \in Scan!Textures
    PROVE  Traded(Scan!Market(shape, texture)) /\ Len(Scan!Market(shape, texture)) = 60
  <1>1. ASSUME NEW i \in 1 .. 60 PROVE Scan!Price(shape, i) \in Nat /\ Scan!Price(shape, i) >= 84
    <2>1. i \div 12 \in 0 .. 5 /\ i % 2 \in 0 .. 1 /\ i % 3 \in 0 .. 2 /\ i \div 4 \in 0 .. 15
      OBVIOUS
    <2>2. i >= 40 => (i - 40) \div 2 \in 0 .. 10
      OBVIOUS
    <2>3. CASE shape = "rising"
      BY <2>3 DEF Scan!Price
    <2>4. CASE shape = "falling"
      BY <2>4 DEF Scan!Price
    <2>5. CASE shape = "creeping"
      BY <2>1, <2>5 DEF Scan!Price
    <2>6. CASE shape = "sinking"
      BY <2>1, <2>6 DEF Scan!Price
    <2>7. CASE shape = "flat"
      BY <2>7 DEF Scan!Price
    <2>8. CASE shape = "sawing"
      BY <2>1, <2>8 DEF Scan!Price
    <2>9. CASE shape = "edge"
      BY <2>1, <2>2, <2>9 DEF Scan!Price
    <2>10. CASE shape = "breaking"
      BY <2>1, <2>10 DEF Scan!Price
    <2> QED
      BY <2>3, <2>4, <2>5, <2>6, <2>7, <2>8, <2>9, <2>10 DEF Scan!Shapes
  <1>2. texture.spread \in Int /\ texture.volume \in Int
    BY DEF Scan!Textures
  <1> DEFINE row(i) == [high |-> Scan!Price(shape, i) + texture.spread,
                        low |-> Scan!Price(shape, i) - texture.spread,
                        close |-> Scan!Price(shape, i), volume |-> texture.volume]
             rows == [i \in 1 .. 60 |-> row(i)]
  <1>3. Scan!Market(shape, texture) = rows
    BY DEF Scan!Market
  <1>4. ASSUME NEW i \in 1 .. 60 PROVE row(i) \in ScannedCandle /\ row(i).close >= 84
    <2>1. Scan!Price(shape, i) \in Nat /\ Scan!Price(shape, i) >= 84
      BY <1>1
    <2> QED
      BY <1>2, <2>1 DEF ScannedCandle
  <1> HIDE DEF row
  <1>5. rows \in Seq(ScannedCandle) /\ Len(rows) = 60 /\ \A i \in 1 .. 60 : rows[i] = row(i)
    BY <1>4
  <1> HIDE DEF rows
  <1> QED
    BY <1>3, <1>4, <1>5 DEF Traded

(* Their analyses have a strength.                                          *)
LEMMA AnalysesAreStrong ==
    ASSUME NEW t \in Scan!Analyses
    PROVE  Strong(t) /\ (t # None => t.strength = 70)
  BY DEF Strong, Scan!Analyses, Scan!Analysis

(* The futures scanner's answers to a question are sound and agree.         *)
LEMMA FuturesAnswersAreSound ==
    ASSUME NEW q \in Scan!Questions
    PROVE  Scan!FuturesQuestion(q)
  <1> DEFINE chart == Scan!Market(q.shape, q.texture)
             Asked(p, sensitivity) ==
                [symbol |-> 1, candles |-> chart, higher |-> chart,
                 technical |-> p.technical, derivatives |-> p.position,
                 sensitivity |-> sensitivity,
                 liquidations |-> IF p.sold
                     THEN Scan!Sales(Scan!Lowest(Scan!LastN(chart, 48))) ELSE {}]
             unsold == [q EXCEPT !.sold = FALSE]
  <1>1. /\ q.shape \in Scan!Shapes /\ q.texture \in Scan!Textures
        /\ q.technical \in Scan!Analyses
    BY DEF Scan!Questions
  <1>2. Traded(chart) /\ Strong(q.technical)
    BY <1>1, MarketsAreTraded, AnalysesAreStrong
  <1>3. \A s : Scan!Futures(q, s) = Scan!MarketWideSignal(Asked(q, s))
    BY DEF Scan!Futures
  <1>4. /\ unsold.shape = q.shape /\ unsold.texture = q.texture
        /\ unsold.technical = q.technical /\ unsold.position = q.position
    BY DEF Scan!Questions
  <1>5. Scan!Futures(unsold, "balanced") = Scan!MarketWideSignal(Asked(unsold, "balanced"))
    BY <1>4 DEF Scan!Futures
  <1> HIDE DEF chart, unsold
  <1>6. ASSUME NEW s PROVE Scan!FuturesSound(Scan!Futures(q, s), s)
    <2> DEFINE x == Asked(q, s)
    <2>1. x.candles = chart /\ x.technical = q.technical /\ x.sensitivity = s
      OBVIOUS
    <2> HIDE DEF x
    <2>2. Scan!FuturesSound(Scan!MarketWideSignal(x), x.sensitivity)
      BY <1>2, <2>1, FuturesCandidatesAreSound
    <2> QED
      BY <1>3, <2>1, <2>2 DEF x
  <1>7. Scan!Verdict(Scan!Futures(q, "balanced")) = Scan!Verdict(Scan!Futures(unsold, "balanced"))
    <2> DEFINE x == Asked(q, "balanced")
               y == Asked(unsold, "balanced")
    <2>1. /\ x.symbol = y.symbol /\ x.candles = y.candles /\ x.higher = y.higher
          /\ x.technical = y.technical /\ x.derivatives = y.derivatives
          /\ x.sensitivity = "balanced" /\ y.sensitivity = "balanced"
          /\ x.candles = chart /\ x.technical = q.technical
      BY <1>4
    <2> HIDE DEF x, y
    <2>2. Scan!Verdict(Scan!MarketWideSignal(x)) = Scan!Verdict(Scan!MarketWideSignal(y))
      BY <1>2, <2>1, FuturesVerdictsAgree
    <2> QED
      BY <1>3, <1>5, <2>2 DEF x, y
  <1>8. Scan!Futures(q, "conservative").direction \in Scan!Candidates
          => Scan!Verdict(Scan!Futures(q, "conservative"))
               = Scan!Verdict(Scan!Futures(q, "balanced"))
    <2> DEFINE x == Asked(q, "conservative")
               y == Asked(q, "balanced")
    <2> SUFFICES ASSUME Scan!Futures(q, "conservative").direction \in Scan!Candidates
                 PROVE  Scan!Verdict(Scan!MarketWideSignal(x))
                          = Scan!Verdict(Scan!MarketWideSignal(y))
      BY <1>3
    <2>1. /\ x.symbol = y.symbol /\ x.candles = y.candles /\ x.higher = y.higher
          /\ x.technical = y.technical /\ x.derivatives = y.derivatives
          /\ x.sensitivity = "conservative" /\ y.sensitivity = "balanced"
          /\ x.candles = chart /\ x.technical = q.technical
      OBVIOUS
    <2>2. Scan!MarketWideSignal(x).direction \in Candidate
      BY <1>3 DEF Scan!Candidates, Candidate
    <2> HIDE DEF x, y
    <2> QED
      BY <1>2, <2>1, <2>2, FuturesVerdictsAgree
  <1>9. Scan!FuturesQuestion(q)
    BY <1>6, <1>7, <1>8
       DEF Scan!FuturesQuestion, Scan!FuturesAnswers, Scan!FuturesAgree, unsold
  <1> QED
    BY <1>9

-----------------------------------------------------------------------------
(* The Spot scanner.                                                        *)

(* The extremes of some candles are numbers.                                *)
LEMMA ExtremesAre ==
    ASSUME NEW s, Traded(s), s # <<>>
    PROVE  Scan!Lowest(s) \in Int /\ Scan!Highest(s) \in Int
  <1> DEFINE low == [i \in 1 .. Len(s) |-> s[i].low]
             high == [i \in 1 .. Len(s) |-> s[i].high]
             lows == {low[i] : i \in 1 .. Len(s)}
             highs == {high[i] : i \in 1 .. Len(s)}
  <1>1. /\ Len(s) \in Nat /\ Len(s) > 0 /\ DOMAIN s = 1 .. Len(s)
        /\ \A i \in 1 .. Len(s) : s[i].low \in Int /\ s[i].high \in Int
    <2>1. s \in Seq(ScannedCandle) /\ Len(s) \in Nat /\ Len(s) > 0 /\ DOMAIN s = 1 .. Len(s)
      BY DEF Traded
    <2>2. \A i \in 1 .. Len(s) : s[i] \in ScannedCandle
      BY <2>1
    <2> QED
      BY <2>1, <2>2 DEF ScannedCandle
  <1>2. IsFiniteSet(1 .. Len(s)) /\ 1 \in 1 .. Len(s)
    <2>1. 1 \in Int /\ Len(s) \in Int
      BY <1>1
    <2> QED
      BY <1>1, <2>1, FS_Interval
  <1>3. Scan!Lowest(s) = Min(lows) /\ Scan!Highest(s) = Max(highs)
    BY <1>1 DEF Scan!Lowest, Scan!Highest, Scan!Min, Scan!Max, Min, Max
  <1>4. /\ DOMAIN low = 1 .. Len(s) /\ DOMAIN high = 1 .. Len(s)
        /\ \A i \in 1 .. Len(s) : low[i] \in Int /\ high[i] \in Int
    BY <1>1
  <1> HIDE DEF low, high
  <1>5. IsFiniteSet(lows) /\ IsFiniteSet(highs)
    BY <1>2, <1>4, FiniteImage
  <1>6. lows \subseteq Int /\ highs \subseteq Int /\ lows # {} /\ highs # {}
    BY <1>2, <1>4
  <1> HIDE DEF lows, highs
  <1>7. Min(lows) \in lows /\ Max(highs) \in highs
    BY <1>5, <1>6, FiniteExtremes, Zenon
  <1> QED
    BY <1>3, <1>6, <1>7

(* The lesser and the greater of two numbers.                               *)
LEMMA ExtremesOfTwo ==
    ASSUME NEW a \in Int, NEW b \in Int
    PROVE  Scan!Min({a, b}) <= a /\ a <= Scan!Max({a, b}) /\ Scan!Min({a, b}) \in Int
           /\ Scan!Max({a, b}) \in Int
  <1> DEFINE S == {a, b}
  <1>1. IsFiniteSet(S) /\ S \subseteq Int /\ S # {} /\ a \in S
    <2>1. IsFiniteSet({a}) /\ IsFiniteSet({b})
      BY FS_Singleton
    <2>2. S = {a} \cup {b}
      OBVIOUS
    <2>3. IsFiniteSet(S)
      BY <2>1, <2>2, FS_Union
    <2> QED
      BY <2>3
  <1>2. Scan!Min(S) = Min(S) /\ Scan!Max(S) = Max(S)
    BY DEF Scan!Min, Scan!Max, Min, Max
  <1> HIDE DEF S
  <1>3. /\ Max(S) \in S /\ \A x \in S : x <= Max(S)
        /\ Min(S) \in S /\ \A x \in S : Min(S) <= x
    BY <1>1, FiniteExtremes, Zenon
  <1>4. Scan!Min(S) <= a /\ a <= Scan!Max(S) /\ Scan!Min(S) \in Int /\ Scan!Max(S) \in Int
    BY <1>1, <1>2, <1>3
  <1> QED
    BY <1>4 DEF S

(* The stop of a purchase lies below the price and its target above it.     *)
LEMMA SpotLevelsAreOutside ==
    ASSUME NEW s, Traded(s), s # <<>>
    PROVE  /\ Scan!SpotLevels("buy_candidate", s).stop < 1000 * Scan!Newest(s).close
           /\ 1000 * Scan!Newest(s).close < Scan!SpotLevels("buy_candidate", s).target
  <1> DEFINE price == Scan!Newest(s).close
             recent == Scan!LastN(s, 24)
             low == Scan!Lowest(recent)
             high == Scan!Highest(recent)
             levels == Scan!SpotLevels("buy_candidate", s)
  <1>1. Traded(recent) /\ recent # <<>> /\ Scan!Newest(s) \in ScannedCandle /\ price >= 84
    <2>1. 24 \in Nat \ {0}
      OBVIOUS
    <2> QED
      BY <2>1, LatestCandles, Zenon
  <1>2. price \in Nat
    BY <1>1 DEF ScannedCandle
  <1>3. low \in Int /\ high \in Int
    BY <1>1, ExtremesAre, Zenon
  <1>4. levels.stop = Scan!Min({985 * price, 998 * low})
        /\ levels.target = Scan!Max({1025 * price, 1002 * high})
    BY DEF Scan!SpotLevels
  <1> HIDE DEF price, low, high, levels
  <1>5. /\ 985 * price \in Int /\ 998 * low \in Int
        /\ 1025 * price \in Int /\ 1002 * high \in Int
    BY <1>2, <1>3
  <1>6. /\ levels.stop \in Int /\ levels.stop <= 985 * price
        /\ levels.target \in Int /\ 1025 * price <= levels.target
    <2> DEFINE a == 985 * price
               b == 998 * low
               c == 1025 * price
               d == 1002 * high
    <2>1. /\ a \in Int /\ b \in Int /\ c \in Int /\ d \in Int
          /\ levels.stop = Scan!Min({a, b}) /\ levels.target = Scan!Max({c, d})
      BY <1>4, <1>5
    <2> HIDE DEF a, b, c, d
    <2>2. levels.stop \in Int /\ levels.stop <= a
      BY <2>1, ExtremesOfTwo
    <2>3. levels.target \in Int /\ c <= levels.target
      BY <2>1, ExtremesOfTwo
    <2> QED
      BY <2>2, <2>3 DEF a, c
  <1>7. levels.stop < 1000 * price /\ 1000 * price < levels.target
    BY <1>1, <1>2, <1>6
  <1> QED
    BY <1>7 DEF levels, price

(* A purchase is suggested on no high risk and of a trend that is one, with its *)
(* levels where they belong.                                                *)
LEMMA PurchaseIs ==
    ASSUME NEW x, Traded(x.candles), x.candles # <<>>, NEW evidence, NEW m, NEW opportunity,
           NEW risk, NEW s, s = Scan!SpotSignalFrom(x, evidence, m, opportunity, risk),
           s.action = "buy_candidate"
    PROVE  /\ risk # "high" /\ m.trend >= 58 /\ s.risk = risk
           /\ s.stop < 1000 * s.price /\ 1000 * s.price < s.target
  <1> DEFINE action == Scan!SpotAction(FALSE, opportunity,
                 Scan!SpotConfidence(opportunity, m.validation, evidence, risk), risk,
                 m.trend, m.momentum)
             levels == Scan!SpotLevels(action, x.candles)
             price == Scan!Newest(x.candles).close
  <1>1. s = [symbol |-> x.symbol, action |-> action, opportunity |-> opportunity,
             confidence |-> Scan!SpotConfidence(opportunity, m.validation, evidence, risk),
             risk |-> risk, evidence |-> evidence, price |-> price,
             stop |-> levels.stop, target |-> levels.target]
    BY Zenon DEF Scan!SpotSignalFrom
  <1>2. action = "buy_candidate" => risk # "high" /\ m.trend >= 58
    BY DEF Scan!SpotAction
  <1>3. Scan!SpotLevels("buy_candidate", x.candles).stop < 1000 * price
        /\ 1000 * price < Scan!SpotLevels("buy_candidate", x.candles).target
    <2> DEFINE c == x.candles
    <2>1. Traded(c) /\ c # <<>>
      OBVIOUS
    <2> HIDE DEF c
    <2>2. /\ Scan!SpotLevels("buy_candidate", c).stop < 1000 * Scan!Newest(c).close
          /\ 1000 * Scan!Newest(c).close < Scan!SpotLevels("buy_candidate", c).target
      BY <2>1, SpotLevelsAreOutside
    <2> QED
      BY <2>2 DEF c
  <1> HIDE DEF action, price
  <1>4. /\ s.action = action /\ s.risk = risk /\ s.price = price
        /\ s.stop = levels.stop /\ s.target = levels.target
    BY <1>1
  <1> QED
    BY <1>2, <1>3, <1>4

(* A falling trend is scored below that.                                    *)
LEMMA FallingTrendIsLow ==
    ASSUME NEW t, t # None, t.trend = "bearish", t.strength \in Nat
    PROVE  ~(Scan!TrendScore(t) >= 58)
  <1> DEFINE n == 4400 - 30 * t.strength
             x == Scan!HalfUp(n, 100)
  <1>1. Scan!TrendScore(t) = Scan!Bounded(n, 100)
    BY DEF Scan!TrendScore
  <1>2. n \in Int /\ n <= 4400
    OBVIOUS
  <1> HIDE DEF n
  <1>3. x \in Int /\ x <= 44
    <2> DEFINE q == (2 * n + 100) \div 200
               r == (100 - 2 * n) \div 200
    <2>1. x = IF n >= 0 THEN q ELSE -r
      BY DEF Scan!HalfUp
    <2>2. q \in Int /\ r \in Int /\ 200 * q <= 2 * n + 100 /\ (n < 0 => r >= 0)
      BY <1>2
    <2> HIDE DEF q, r, x
    <2> QED
      BY <1>2, <2>1, <2>2
  <1>4. Scan!Bounded(n, 100) = Scan!Clamp(x, 0, 100)
    BY DEF Scan!Bounded
  <1> HIDE DEF x
  <1> QED
    BY <1>1, <1>3, <1>4 DEF Scan!Clamp

(* No purchase is eligible in a regime that is bad for one.                 *)
BadForPurchases == {"choppy", "low_liquidity", "high_volatility", "trending_down"}
LEMMA BadRegimeIsNotEligible ==
    ASSUME NEW s, s.action = "buy", s.regime \in BadForPurchases
    PROVE  Scan!EvaluateEligibility(s).status = "not_eligible"
  <1>1. Scan!BadRegime(s)
    BY DEF Scan!BadRegime, BadForPurchases
  <1>2. Scan!MarketVerdict(s) = "not_eligible"
    BY <1>1 DEF Scan!MarketVerdict
  <1>3. \A m : Scan!EligibilityStatus(s, m) = "not_eligible"
    BY <1>2 DEF Scan!EligibilityStatus
  <1> QED
    BY <1>3 DEF Scan!EvaluateEligibility

(* ... and what is not eligible is of high risk.                            *)
LEMMA NotEligibleIsRisky ==
    ASSUME NEW volatility, NEW liquidity, NEW regime
    PROVE  Scan!SpotRisk(volatility, liquidity, regime, Scan!EligibilityScore("not_eligible"))
             = "high"
  <1>1. Scan!EligibilityScore("not_eligible") = 25
    BY DEF Scan!EligibilityScore
  <1> QED
    BY <1>1 DEF Scan!SpotRisk

(* The technical analysis, where there is one, has a strength that is no less than 0. *)
Rated(t) == t = None \/ t.strength \in Nat

(* Whatever is measured of a symbol, a Spot purchase is never suggested against its *)
(* market, on a high risk or with its stop and target on the wrong sides.   *)
THEOREM SpotPurchasesAreSound ==
    ASSUME NEW x, Traded(x.candles), Rated(x.technical), NEW s,
           s = Scan!MarketWideSpotSignal(x), s.action = "buy_candidate"
    PROVE  /\ s.risk # "high" /\ s.stop < 1000 * s.price /\ 1000 * s.price < s.target
           /\ x.technical # None => x.technical.trend # "bearish"
           /\ x.regime \notin BadForPurchases
  <1> DEFINE bias == Scan!EstimateBias(x.candles,
                 [funding |-> None, oiTrend |-> "neutral", oiChange |-> None], Scan!Balanced,
                 IF x.technical = None THEN None ELSE x.technical.volatility)
             purchase == Scan!Purchase(x, bias, Scan!SpotEdge(x.candles))
             e == Scan!EvaluateEligibility(purchase)
             m == Scan!SpotScores(x, e.status)
             opportunity == Scan!SpotOpportunity(m)
             risk == Scan!SpotRisk(m.volatility, m.liquidity, m.regime, m.eligible)
  <1>1. s = Scan!BuildSpotSignal(x, e)
    BY DEF Scan!MarketWideSpotSignal
  <1>2. Scan!EmptySpotSignal(x).action = "avoid"
    BY DEF Scan!EmptySpotSignal
  <1>3. ~(Len(x.candles) < Scan!MinSpotCandles)
    BY <1>1, <1>2, Zenon DEF Scan!BuildSpotSignal
  <1>4. s = Scan!SpotSignalFrom(x, e.evidence, m, opportunity, risk)
    BY <1>1, <1>3, Zenon DEF Scan!BuildSpotSignal, Scan!SpotWeighed
  <1>5. purchase.action = "buy" /\ purchase.regime = x.regime
    BY DEF Scan!Purchase
  <1> HIDE DEF e
  <1>6. m.trend = Scan!TrendScore(x.technical) /\ m.eligible = Scan!EligibilityScore(e.status)
    BY DEF Scan!SpotScores
  <1> HIDE DEF m, purchase, opportunity, risk
  <1>7. x.candles # <<>>
    BY <1>3 DEF Scan!MinSpotCandles
  <1>8. /\ risk # "high" /\ m.trend >= 58 /\ s.risk = risk
        /\ s.stop < 1000 * s.price /\ 1000 * s.price < s.target
    BY <1>4, <1>7, PurchaseIs
  <1>9. ASSUME x.technical # None, x.technical.trend = "bearish" PROVE FALSE
    BY <1>6, <1>8, <1>9, FallingTrendIsLow DEF Rated
  <1>10. ASSUME x.regime \in BadForPurchases PROVE FALSE
    <2>1. e.status = "not_eligible"
      BY <1>5, <1>10, BadRegimeIsNotEligible DEF e
    <2>2. risk = "high"
      BY <1>6, <2>1, NotEligibleIsRisky DEF risk
    <2> QED
      BY <1>8, <2>2
  <1> QED
    BY <1>8, <1>9, <1>10

(* The Spot scanner's answers to a question are sound.                      *)
LEMMA SpotAnswersAreSound ==
    ASSUME NEW q \in Scan!Questions
    PROVE  Scan!SpotQuestion(q)
  <1> SUFFICES ASSUME NEW regime, NEW validation
               PROVE  Scan!SpotSound(q, Scan!Spot(q, regime, validation), regime)
    BY DEF Scan!SpotQuestion
  <1> DEFINE chart == Scan!Market(q.shape, q.texture)
             x == [symbol |-> 1, candles |-> chart, technical |-> q.technical,
                   regime |-> regime, validation |-> validation, horizon |-> "7d",
                   atr |-> None]
             s == Scan!Spot(q, regime, validation)
  <1>1. /\ q.shape \in Scan!Shapes /\ q.texture \in Scan!Textures
        /\ q.technical \in Scan!Analyses
    BY DEF Scan!Questions
  <1>2. Traded(chart) /\ Rated(q.technical)
    <2>1. 70 \in Nat
      OBVIOUS
    <2> QED
      BY <1>1, <2>1, MarketsAreTraded, AnalysesAreStrong DEF Rated
  <1>3. s = Scan!MarketWideSpotSignal(x)
    BY DEF Scan!Spot
  <1> HIDE DEF chart, s
  <1>4. x.candles = chart /\ x.technical = q.technical /\ x.regime = regime
    OBVIOUS
  <1> HIDE DEF x
  <1>5. ASSUME s.action = "buy_candidate"
        PROVE  /\ s.risk # "high" /\ s.stop < 1000 * s.price /\ 1000 * s.price < s.target
               /\ x.technical # None => x.technical.trend # "bearish"
               /\ x.regime \notin BadForPurchases
    BY <1>2, <1>3, <1>4, <1>5, SpotPurchasesAreSound
  <1>6. Scan!SpotSound(q, s, regime)
    BY <1>4, <1>5 DEF Scan!SpotSound, BadForPurchases
  <1> QED
    BY <1>6 DEF s

-----------------------------------------------------------------------------
(* Whatever the market, no scanner shows a candidate of high risk, with its stop on *)
(* the wrong side, or one that depends on the liquidations seen or on being less *)
(* careful.                                                                 *)
THEOREM NoCandidateIsUnsound == ResearchSpec => []CandidatesAreSound
  <1> DEFINE Asked == focus = "decisions" => question \in Scan!Questions
  <1>1. ResearchInit => Asked
    BY DEF ResearchInit
  <1>2. Asked /\ [ResearchNext]_researchVars => Asked'
    <2> SUFFICES ASSUME Asked, [ResearchNext]_researchVars PROVE Asked'
      OBVIOUS
    <2>1. UNCHANGED <<focus, question>>
      BY DEF ResearchNext, researchVars, OutcomesStep, TuningStep, TimePasses, Only
    <2> QED
      BY <2>1
  <1>3. Asked => CandidatesAreSound
    BY FuturesAnswersAreSound, SpotAnswersAreSound DEF CandidatesAreSound
  <1> QED
    BY <1>1, <1>2, <1>3, PTL DEF ResearchSpec
=============================================================================
