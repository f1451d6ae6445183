---------------------------- MODULE ReportProofs ----------------------------
(* The reports on signals and on trades agree, for any stored signals and     *)
(* candles and any history of trades in which nothing is sold that was not    *)
(* bought before. The questions of the runs are such signals and histories.   *)
EXTENDS ResearchProofs

-----------------------------------------------------------------------------
(* The reports on signals.                                                    *)

(* A quotient is rounded to a positive number from one half on ...            *)
LEMMA HalfUpPositive ==
    ASSUME NEW n \in Int, NEW d \in Nat \ {0}
    PROVE  HalfUp(n, d) \in Int /\ (HalfUp(n, d) > 0 <=> 2 * n >= d)
  <1> DEFINE q == (2 * n + d) \div (2 * d)
             r == (d - 2 * n) \div (2 * d)
  <1>1. 2 * d \in Nat /\ 2 * d > 0
    OBVIOUS
  <1>2. q \in Int /\ (2 * d) * q <= 2 * n + d /\ 2 * n + d < (2 * d) * q + 2 * d
    BY <1>1
  <1>3. r \in Int /\ (2 * d) * r <= d - 2 * n /\ d - 2 * n < (2 * d) * r + 2 * d
    BY <1>1
  <1>4. HalfUp(n, d) = IF n >= 0 THEN q ELSE -r
    BY DEF HalfUp
  <1> HIDE DEF q, r
  <1>5. /\ q >= 1 => (2 * d) * q >= 2 * d
        /\ q <= 0 => (2 * d) * q <= 0
        /\ r <= -1 => (2 * d) * r <= -(2 * d)
    BY <1>1, <1>2, <1>3
  <1> DEFINE dq == (2 * d) * q
             dr == (2 * d) * r
  <1>6. dq \in Int /\ dr \in Int
    BY <1>1, <1>2, <1>3
  <1>7. /\ dq <= 2 * n + d /\ 2 * n + d < dq + 2 * d
        /\ dr <= d - 2 * n /\ d - 2 * n < dr + 2 * d
        /\ q >= 1 => dq >= 2 * d
        /\ q <= 0 => dq <= 0
        /\ r <= -1 => dr <= -(2 * d)
    BY <1>2, <1>3, <1>5
  <1> HIDE DEF dq, dr
  <1>8. CASE n >= 0
    BY <1>2, <1>4, <1>6, <1>7, <1>8
  <1>9. CASE n < 0
    BY <1>3, <1>4, <1>6, <1>7, <1>9
  <1> QED
    BY <1>8, <1>9

(* ... and a larger one to no smaller number.                                 *)
LEMMA HalfUpMonotone ==
    ASSUME NEW n \in Int, NEW m \in Int, n <= m, NEW d \in Nat \ {0}
    PROVE  HalfUp(n, d) <= HalfUp(m, d)
  <1> DEFINE up(x) == (2 * x + d) \div (2 * d)
             down(x) == (d - 2 * x) \div (2 * d)
  <1>1. 2 * d \in Nat /\ 2 * d > 0
    OBVIOUS
  <1>2. \A x, y \in Int : x <= y => x \div (2 * d) <= y \div (2 * d)
    <2>1. ASSUME NEW x \in Int, NEW y \in Int, x <= y
          PROVE  x \div (2 * d) <= y \div (2 * d)
      <3> DEFINE D == 2 * d
                 p == x \div D
                 q == y \div D
      <3>1. D \in Nat /\ D > 0
        OBVIOUS
      <3> HIDE DEF D
      <3>2. p \in Int /\ q \in Int /\ D * p <= x /\ y < D * q + D
        BY <2>1, <3>1
      <3> HIDE DEF p, q
      <3>3. p >= q + 1 => D * p >= D * q + D
        BY <3>1, <3>2
      <3> DEFINE dp == D * p
                 dq == D * q
      <3>4. dp \in Int /\ dq \in Int /\ dp <= x /\ y < dq + D /\ (p >= q + 1 => dp >= dq + D)
        BY <3>1, <3>2, <3>3
      <3> HIDE DEF dp, dq
      <3>5. p <= q
        BY <2>1, <3>1, <3>2, <3>4
      <3> QED
        BY <3>5 DEF p, q, D
    <2> QED
      BY <2>1
  <1>3. up(n) <= up(m) /\ down(m) <= down(n) /\ up(n) \in Int /\ up(m) \in Int
        /\ down(m) \in Int /\ down(n) \in Int
    <2>1. /\ 2 * n + d \in Int /\ 2 * m + d \in Int /\ 2 * n + d <= 2 * m + d
          /\ d - 2 * n \in Int /\ d - 2 * m \in Int /\ d - 2 * m <= d - 2 * n
      OBVIOUS
    <2>2. \A x \in Int : x \div (2 * d) \in Int
      BY <1>1
    <2> QED
      BY <1>2, <2>1, <2>2
  <1>4. n < 0 => down(n) >= 0
    <2>1. n < 0 => 0 <= d - 2 * n
      OBVIOUS
    <2>2. 0 \div (2 * d) = 0
      BY <1>1
    <2>3. d - 2 * n \in Int
      OBVIOUS
    <2> QED
      BY <1>2, <2>1, <2>2, <2>3
  <1>5. m >= 0 => up(m) >= 0
    <2>1. m >= 0 => 0 <= 2 * m + d
      OBVIOUS
    <2>2. 0 \div (2 * d) = 0
      BY <1>1
    <2>3. 2 * m + d \in Int
      OBVIOUS
    <2> QED
      BY <1>2, <2>1, <2>2, <2>3
  <1>6. /\ HalfUp(n, d) = IF n >= 0 THEN up(n) ELSE -down(n)
        /\ HalfUp(m, d) = IF m >= 0 THEN up(m) ELSE -down(m)
    BY DEF HalfUp
  <1> DEFINE un == up(n)
             um == up(m)
             dn == down(n)
             dm == down(m)
  <1>7. /\ un \in Int /\ um \in Int /\ dn \in Int /\ dm \in Int /\ un <= um /\ dm <= dn
        /\ n < 0 => dn >= 0
        /\ m >= 0 => um >= 0
        /\ HalfUp(n, d) = IF n >= 0 THEN un ELSE -dn
        /\ HalfUp(m, d) = IF m >= 0 THEN um ELSE -dm
    BY <1>3, <1>4, <1>5, <1>6
  <1> HIDE DEF un, um, dn, dm
  <1> QED
    BY <1>7

(* Not 45 per cent of the signals succeed and 60 per cent fail.               *)
LEMMA RatesExclude ==
    ASSUME NEW n \in Nat \ {0}, NEW w \in Nat, w <= n
    PROVE  ~(HalfUp(1000000 * w, n) >= 450000 /\ HalfUp(1000000 * (n - w), n) >= 600000)
  <1> DEFINE a == 1000000 * w
             b == 1000000 * (n - w)
             x == HalfUp(a, n)
             y == HalfUp(b, n)
  <1>1. a \in Int /\ b \in Int /\ a + b = 1000000 * n
    OBVIOUS
  <1> HIDE DEF a, b
  <1>2. 449999 \in Nat /\ 599999 \in Nat
    BY SMT
  <1>3. x \in Int /\ (x > 449999 => a > 449999 * n)
    BY <1>1, <1>2, HalfUpBounds
  <1>4. y \in Int /\ (y > 599999 => b > 599999 * n)
    BY <1>1, <1>2, HalfUpBounds
  <1> HIDE DEF x, y
  <1>5. ~(x >= 450000 /\ y >= 600000)
    BY <1>1, <1>3, <1>4, SMT
  <1> QED
    BY <1>5 DEF x, y, a, b

(* The libraries of the reports are those of this module.                     *)
LEMMA SameLibraries ==
    ASSUME NEW S, NEW n, NEW d
    PROVE  /\ Signals!Cardinality(S) = Cardinality(S)
           /\ Signals!Max(S) = Max(S) /\ Signals!Min(S) = Min(S)
           /\ Signals!SumFunction(S) = SumFunction(S)
           /\ Signals!HalfUp(n, d) = HalfUp(n, d)
  <1>1. Signals!Cardinality(S) = Cardinality(S)
    BY DEF Signals!Cardinality, Cardinality
  <1>2. Signals!Max(S) = Max(S) /\ Signals!Min(S) = Min(S)
    BY DEF Signals!Max, Max, Signals!Min, Min
  <1>3. Signals!SumFunction(S) = SumFunction(S)
    BY DEF Signals!SumFunction, Signals!SumFunctionOnSet, Signals!FoldFunctionOnSet,
           Signals!MapThenFoldSet, SumFunction, SumFunctionOnSet, FoldFunctionOnSet,
           MapThenFoldSet
  <1>4. Signals!HalfUp(n, d) = HalfUp(n, d)
    BY DEF Signals!HalfUp, HalfUp
  <1> QED
    BY <1>1, <1>2, <1>3, <1>4

(* Outcomes with a return, and what the reports count of some of them.        *)
Returning(X) == IsFiniteSet(X) /\ \A o \in X : o.return \in Int
Counted(m) ==
    /\ m.size \in Nat /\ m.judged \in Nat /\ m.wins \in Nat /\ m.sum \in Int
    /\ m.wins <= m.judged

(* Every set of outcomes can be counted, and their returns added up.          *)
LEMMA MetricIs ==
    ASSUME NEW X, Returning(X)
    PROVE  /\ Counted(Signals!Metric(X))
           /\ Signals!Metric(X).size = Cardinality(X)
           /\ Signals!Metric(X).judged = Cardinality(Signals!Directional(X))
           /\ Signals!Metric(X).wins = Cardinality({o \in Signals!Directional(X) : o.survived})
           /\ Signals!Metric(X).sum
                = SumFunction([o \in Signals!Directional(X) |-> o.return])
  <1> DEFINE J == Signals!Directional(X)
             W == {o \in J : o.survived}
             m == Signals!Metric(X)
             F == [o \in J |-> o.return]
  <1>1. J \subseteq X /\ W \subseteq J
    BY DEF Signals!Directional
  <1>2. m = [size |-> Cardinality(X), judged |-> Cardinality(J), wins |-> Cardinality(W),
             sum |-> SumFunction(F)]
    BY SameLibraries DEF Signals!Metric
  <1>3. F \in [J -> Int]
    BY <1>1 DEF Returning
  <1> HIDE DEF J, F, m
  <1>4. IsFiniteSet(X) /\ IsFiniteSet(J) /\ IsFiniteSet(W)
    BY <1>1, FS_Subset DEF Returning
  <1>5. /\ Cardinality(X) \in Nat /\ Cardinality(J) \in Nat /\ Cardinality(W) \in Nat
        /\ Cardinality(W) <= Cardinality(J)
    BY <1>1, <1>4, FS_Subset, FS_CardinalityType
  <1>6. SumFunction(F) \in Int
    BY <1>3, <1>4, SumType
  <1> HIDE DEF W
  <1>7. /\ m.size = Cardinality(X) /\ m.judged = Cardinality(J) /\ m.wins = Cardinality(W)
        /\ m.sum = SumFunction(F)
    BY <1>2
  <1> QED
    BY <1>5, <1>6, <1>7 DEF Counted, J, F, W, m

(* ... in every group.                                                        *)
LEMMA GroupsAreCounted ==
    ASSUME NEW X, Returning(X), NEW key
    PROVE  \A k \in DOMAIN Signals!Grouped(X, key) : Counted(Signals!Grouped(X, key)[k])
  <1> DEFINE G == Signals!Grouped(X, key)
  <1>1. G = [k \in {key[o] : o \in X} |-> Signals!Metric({o \in X : key[o] = k})]
    BY DEF Signals!Grouped
  <1>2. ASSUME NEW k \in DOMAIN G PROVE Counted(G[k])
    <2> DEFINE P == {o \in X : key[o] = k}
    <2>1. P \subseteq X
      OBVIOUS
    <2>2. G[k] = Signals!Metric(P)
      BY <1>1, <1>2
    <2> HIDE DEF P, G
    <2>3. Returning(P)
      BY <2>1, FS_Subset DEF Returning
    <2> QED
      BY <2>2, <2>3, MetricIs
  <1> QED
    BY <1>2

(* What the edge report finds weak would be restricted, what it finds useful  *)
(* would not, and neither would what is preferred, which gains.               *)
LEMMA EdgesExclude ==
    ASSUME NEW m, Counted(m)
    PROVE  /\ Signals!NegativeEdge(m) => Signals!Negative(m) /\ m.size >= 3
           /\ Signals!PositiveEdge(m) => ~Signals!Negative(m)
           /\ Signals!Positive(m) => Signals!Gains(m) /\ ~Signals!Negative(m)
           /\ Signals!Measured(m) => Signals!Expectancy(m) \in Int
  <1> DEFINE x == Signals!Expectancy(m)
             w == Signals!WinRate(m)
             f == Signals!FalsePositives(m)
  <1>1. m.judged \in Nat \ {0} => x \in Int
    <2>1. ASSUME m.judged \in Nat \ {0} PROVE HalfUp(m.sum, m.judged) \in Int
      BY <2>1, HalfUpPositive DEF Counted
    <2> QED
      BY <2>1, SameLibraries, SMT DEF Signals!Expectancy
  <1>2. m.judged \in Nat \ {0} => ~(w >= 450000 /\ f >= 600000)
    <2>1. ASSUME m.judged \in Nat \ {0}
          PROVE  ~(HalfUp(1000000 * m.wins, m.judged) >= 450000
                   /\ HalfUp(1000000 * (m.judged - m.wins), m.judged) >= 600000)
      BY <2>1, RatesExclude, SMT DEF Counted
    <2> QED
      BY <2>1, SameLibraries, SMT DEF Signals!WinRate, Signals!FalsePositives
  <1>3. m.judged \in Nat \ {0} => w \in Int
    <2>1. ASSUME m.judged \in Nat \ {0} PROVE HalfUp(1000000 * m.wins, m.judged) \in Int
      <3>1. 1000000 * m.wins \in Int
        BY SMT DEF Counted
      <3> QED
        BY <2>1, <3>1, HalfUpPositive, SMTT(30)
    <2> QED
      BY <2>1, SameLibraries, SMT DEF Signals!WinRate
  <1>4. Signals!Measured(m) <=> m.judged \in Nat \ {0}
    BY DEF Signals!Measured, Counted
  <1> HIDE DEF x, w, f
  <1>5. /\ Signals!NegativeEdge(m) <=> m.size >= 5 /\ Signals!Measured(m) /\ x < 0
        /\ Signals!PositiveEdge(m) <=>
             m.size >= 5 /\ Signals!Measured(m) /\ x > 0 /\ w >= 450000
        /\ Signals!Positive(m) <=> Signals!Measured(m) /\ x > 5000 /\ w >= 550000
        /\ Signals!Gains(m) <=> Signals!Measured(m) /\ x > 0
        /\ Signals!Negative(m) <=>
             m.size >= 3 /\ Signals!Measured(m) /\ (x < 0 \/ f >= 600000)
    BY SMT DEF Signals!NegativeEdge, Signals!PositiveEdge, Signals!Positive, Signals!Gains,
           Signals!Negative, Signals!MinReportSamples, Signals!MinGroup, x, w, f
  <1>6. m.size \in Nat
    BY DEF Counted
  <1> QED
    BY <1>1, <1>2, <1>3, <1>4, <1>5, <1>6, SMT DEF x

(* The values of a kind of advice, of one list and of two.                    *)
LEMMA ValuesAre ==
    ASSUME NEW t
    PROVE  /\ \A A, B : Signals!Values(A \cup B, t)
                          = Signals!Values(A, t) \cup Signals!Values(B, t)
           /\ \A S, type, scope, strength :
                Signals!Values(Signals!Advise(S, type, scope, strength), t)
                  = IF type = t THEN S ELSE {}
           /\ Signals!Values({}, t) = {}
           /\ \A type, scope, v, strength : type # t =>
                Signals!Values({Signals!Advice(type, scope, v, strength)}, t) = {}
  <1>1. \A A, B : Signals!Values(A \cup B, t)
                          = Signals!Values(A, t) \cup Signals!Values(B, t)
    BY DEF Signals!Values
  <1>2. ASSUME NEW S, NEW type, NEW scope, NEW strength
        PROVE  Signals!Values(Signals!Advise(S, type, scope, strength), t)
                  = IF type = t THEN S ELSE {}
    <2> DEFINE A == Signals!Advise(S, type, scope, strength)
               a(v) == [type |-> type, scope |-> scope, value |-> v, strength |-> strength]
    <2>1. A = {a(v) : v \in S}
      BY DEF Signals!Advise, Signals!Advice
    <2>2. \A v : a(v).type = type /\ a(v).value = v
      OBVIOUS
    <2> HIDE DEF a, A
    <2>3. Signals!Values(A, t) = {x.value : x \in {y \in A : y.type = t}}
      BY DEF Signals!Values
    <2>4. CASE type = t
      <3>1. \A x \in A : x.type = t
        BY <2>1, <2>2, <2>4
      <3>2. ASSUME NEW v PROVE v \in Signals!Values(A, t) <=> v \in S
        BY <2>1, <2>2, <2>3, <3>1
      <3>3. Signals!Values(A, t) = S
        BY <3>2
      <3> QED
        BY <2>4, <3>3 DEF A
    <2>5. CASE type # t
      <3>1. \A x \in A : x.type # t
        BY <2>1, <2>2, <2>5
      <3>2. Signals!Values(A, t) = {}
        BY <2>3, <3>1
      <3> QED
        BY <2>5, <3>2 DEF A
    <2> QED
      BY <2>4, <2>5
  <1>3. Signals!Values({}, t) = {}
    BY DEF Signals!Values
  <1>4. ASSUME NEW type, NEW scope, NEW v, NEW strength, type # t
        PROVE  Signals!Values({Signals!Advice(type, scope, v, strength)}, t) = {}
    <2> DEFINE a == Signals!Advice(type, scope, v, strength)
    <2>1. a.type = type
      BY DEF Signals!Advice
    <2> HIDE DEF a
    <2>2. Signals!Values({a}, t) = {}
      BY <1>4, <2>1 DEF Signals!Values
    <2> QED
      BY <2>2 DEF a
  <1> QED
    BY <1>1, <1>2, <1>3, <1>4

(* Groups of three and more.                                                  *)
LEMMA LargeIs ==
    ASSUME NEW G
    PROVE  /\ DOMAIN Signals!Large(G) = {k \in DOMAIN G : G[k].size >= 3}
           /\ \A k \in DOMAIN Signals!Large(G) : Signals!Large(G)[k] = G[k]
           /\ Signals!Failing(Signals!Large(G))
                = {k \in DOMAIN G : G[k].size >= 3 /\ Signals!Negative(G[k])}
  <1>1. Signals!Large(G) = [k \in {g \in DOMAIN G : G[g].size >= 3} |-> G[k]]
    BY DEF Signals!Large, Signals!MinGroup
  <1>2. /\ DOMAIN Signals!Large(G) = {k \in DOMAIN G : G[k].size >= 3}
        /\ \A k \in DOMAIN Signals!Large(G) : Signals!Large(G)[k] = G[k]
    BY <1>1
  <1>3. Signals!Failing(Signals!Large(G))
          = {k \in DOMAIN Signals!Large(G) : Signals!Negative(Signals!Large(G)[k])}
    BY DEF Signals!Failing
  <1>4. Signals!Failing(Signals!Large(G))
          = {k \in DOMAIN G : G[k].size >= 3 /\ Signals!Negative(G[k])}
    <2>1. ASSUME NEW k
          PROVE  k \in Signals!Failing(Signals!Large(G))
                   <=> k \in DOMAIN G /\ G[k].size >= 3 /\ Signals!Negative(G[k])
      <3>1. k \in Signals!Failing(Signals!Large(G))
              <=> k \in DOMAIN Signals!Large(G) /\ Signals!Negative(Signals!Large(G)[k])
        BY <1>3
      <3>2. k \in DOMAIN Signals!Large(G) <=> k \in DOMAIN G /\ G[k].size >= 3
        BY <1>2
      <3>3. k \in DOMAIN Signals!Large(G) => Signals!Large(G)[k] = G[k]
        BY <1>2
      <3> QED
        BY <3>1, <3>2, <3>3, Zenon
    <2> QED
      BY <2>1
  <1> QED
    BY <1>2, <1>4

Longest == {5, 15, 60, 240, 1440}
OnHorizons(X) == \A o \in X : o.horizon \in Longest

(* There are five horizons, the lengths of which are integers.                *)
LEMMA HorizonsAreFinite ==
    /\ Signals!ToSet(Signals!ValidationHorizons) = Longest
    /\ IsFiniteSet(Longest) /\ Longest \subseteq Int
  <1> DEFINE vh == <<5, 15, 60, 240, 1440>>
  <1>1. Signals!ValidationHorizons = vh
    BY DEF Signals!ValidationHorizons
  <1>2. /\ DOMAIN vh = 1 .. 5 /\ vh[1] = 5 /\ vh[2] = 15 /\ vh[3] = 60
        /\ vh[4] = 240 /\ vh[5] = 1440
    OBVIOUS
  <1> HIDE DEF vh
  <1>3. {vh[i] : i \in 1 .. 5} = Longest
    BY <1>2, SMT DEF Longest
  <1>4. IsFiniteSet(1 .. 5)
    <2>1. 1 \in Int /\ 5 \in Int
      OBVIOUS
    <2> QED
      BY <2>1, FS_Interval
  <1>5. IsFiniteSet({vh[i] : i \in 1 .. 5})
    BY <1>2, <1>4, FiniteImage
  <1>6. Longest \subseteq Int
    BY SMT DEF Longest
  <1> QED
    BY <1>1, <1>2, <1>3, <1>5, <1>6 DEF Signals!ToSet

(* The groups of a report by horizon, those that have outcomes.               *)
LEMMA GroupsByHorizon ==
    ASSUME NEW X, OnHorizons(X)
    PROVE  /\ Signals!ByHorizon(X) = [h \in Longest |-> Signals!Metric({o \in X : o.horizon = h})]
           /\ LET groups == Signals!Grouped(X, [o \in X |-> o.horizon]) IN
              \A h \in DOMAIN groups : /\ h \in DOMAIN Signals!ByHorizon(X)
                                       /\ Signals!ByHorizon(X)[h] = groups[h]
  <1> DEFINE G == Signals!Grouped(X, [o \in X |-> o.horizon])
             key == [o \in X |-> o.horizon]
  <1>1. Signals!ToSet(Signals!ValidationHorizons) = Longest
    BY HorizonsAreFinite
  <1>2. Signals!ByHorizon(X) = [h \in Longest |-> Signals!Metric({o \in X : o.horizon = h})]
    BY <1>1 DEF Signals!ByHorizon
  <1>3. G = [h \in {key[o] : o \in X} |-> Signals!Metric({o \in X : key[o] = h})]
    BY DEF Signals!Grouped
  <1>4. \A h : {o \in X : key[o] = h} = {o \in X : o.horizon = h}
    OBVIOUS
  <1>5. {key[o] : o \in X} \subseteq Longest
    BY DEF OnHorizons
  <1> HIDE DEF G, key
  <1>6. \A h \in DOMAIN G : /\ h \in DOMAIN Signals!ByHorizon(X)
                            /\ Signals!ByHorizon(X)[h] = G[h]
    BY <1>2, <1>3, <1>4, <1>5
  <1> QED
    BY <1>2, <1>6 DEF G, key

(* With enough outcomes on the horizons of the reports, the recommendations    *)
(* agree with the edge report.                                                *)
LEMMA AdviceNeverConflicts ==
    ASSUME NEW X, Returning(X), OnHorizons(X), Cardinality(Signals!Directional(X)) >= 6
    PROVE  Signals!AdviceAgrees(Signals!EdgeReport(X), Signals!Recommendations(X))
  <1> DEFINE J == Signals!Directional(X)
             R == Signals!Recommendations(X)
             V(t) == Signals!Values(R, t)
             hg == Signals!Grouped(J, [o \in J |-> o.horizon])
             sg == Signals!BySymbol(J)
             bg == Signals!ByBucket(J)
             rg == Signals!ByRisk(J)
             pref == Signals!PreferredHorizons(Signals!Large(hg))
             watch == {s \in DOMAIN Signals!Large(sg) \ Signals!Failing(Signals!Large(sg)) :
                         Signals!WatchOnly(Signals!Large(sg)[s])}
             fail(g) == Signals!Failing(Signals!Large(g))
  <1>1. Returning(J) /\ OnHorizons(J)
    BY FS_Subset DEF Returning, OnHorizons, Signals!Directional
  <1>2. /\ V("restrict_symbol") = fail(sg)
        /\ V("watch_symbol") = watch
        /\ V("raise_min_confidence") = fail(bg) \cap {"low", "medium"}
        /\ V("tighten_risk_grade") = fail(rg) \cap {"medium", "high"}
        /\ V("avoid_horizon") = fail(hg)
        /\ V("prefer_horizon") = pref
    <2> DEFINE C == Signals!ConfidenceAdvice(J)
               G == Signals!RegimeAdvice(J)
               H == Signals!HorizonAdvice(J)
               S == Signals!SymbolAdvice(J)
               A == Signals!ActionAdvice(J)
               K == Signals!RiskAdvice(J)
               B == Signals!BlockerAdvice(J)
               F == C \cup G \cup H \cup S \cup A \cup K \cup B
               Asked(t) == t \in {"restrict_symbol", "watch_symbol", "raise_min_confidence",
                                  "tighten_risk_grade", "avoid_horizon", "prefer_horizon"}
    <2>1. \A t : Asked(t) => V(t) = Signals!Values(F, t)
      <3>1. R = IF F = {} THEN {Signals!Advice("keep_current_settings", "global", "all", "mixed")}
                ELSE F
        <4>1. ~(Signals!Cardinality(J) < Signals!MinSamples)
          <5>1. Cardinality(J) \in Nat /\ Signals!MinSamples = 6
            BY <1>1, FS_CardinalityType DEF Returning, Signals!MinSamples
          <5>2. Signals!Cardinality(J) = Cardinality(J)
            BY SameLibraries
          <5> QED
            BY <5>1, <5>2
        <4> QED
          BY <4>1 DEF Signals!Recommendations
      <3> HIDE DEF F, R
      <3>2. ASSUME NEW t, Asked(t) PROVE V(t) = Signals!Values(F, t)
        <4>1. "keep_current_settings" # t
          BY <3>2
        <4>2. Signals!Values({Signals!Advice("keep_current_settings", "global", "all", "mixed")}, t)
                = {}
          BY <4>1, ValuesAre
        <4>3. Signals!Values({}, t) = {}
          BY ValuesAre
        <4> QED
          BY <3>1, <4>2, <4>3
      <3> QED
        BY <3>2
    <2> HIDE DEF R
    <2>2. ASSUME NEW t
          PROVE  Signals!Values(F, t)
                   = Signals!Values(C, t) \cup Signals!Values(G, t) \cup Signals!Values(H, t)
                     \cup Signals!Values(S, t) \cup Signals!Values(A, t)
                     \cup Signals!Values(K, t) \cup Signals!Values(B, t)
      <3> HIDE DEF C, G, H, S, A, K, B
      <3>1. \A x, y : Signals!Values(x \cup y, t) = Signals!Values(x, t) \cup Signals!Values(y, t)
        BY ValuesAre
      <3> DEFINE f1 == C \cup G
                 f2 == f1 \cup H
                 f3 == f2 \cup S
                 f4 == f3 \cup A
                 f5 == f4 \cup K
                 f6 == f5 \cup B
      <3>2. F = f6
        OBVIOUS
      <3>3. Signals!Values(f1, t) = Signals!Values(C, t) \cup Signals!Values(G, t)
        BY <3>1
      <3> HIDE DEF f1
      <3>4. Signals!Values(f2, t) = Signals!Values(f1, t) \cup Signals!Values(H, t)
        BY <3>1
      <3> HIDE DEF f2
      <3>5. Signals!Values(f3, t) = Signals!Values(f2, t) \cup Signals!Values(S, t)
        BY <3>1
      <3> HIDE DEF f3
      <3>6. Signals!Values(f4, t) = Signals!Values(f3, t) \cup Signals!Values(A, t)
        BY <3>1
      <3> HIDE DEF f4
      <3>7. Signals!Values(f5, t) = Signals!Values(f4, t) \cup Signals!Values(K, t)
        BY <3>1
      <3> HIDE DEF f5
      <3>8. Signals!Values(f6, t) = Signals!Values(f5, t) \cup Signals!Values(B, t)
        BY <3>1
      <3> HIDE DEF f6, F
      <3> QED
        BY <3>2, <3>3, <3>4, <3>5, <3>6, <3>7, <3>8
    <2>3. ASSUME NEW t, Asked(t)
          PROVE  /\ Signals!Values(C, t) = IF t = "raise_min_confidence"
                                           THEN fail(bg) \cap {"low", "medium"} ELSE {}
                 /\ Signals!Values(G, t) = {}
                 /\ Signals!Values(H, t) = IF t = "avoid_horizon" THEN fail(hg)
                                           ELSE IF t = "prefer_horizon" THEN pref ELSE {}
                 /\ Signals!Values(S, t) = IF t = "restrict_symbol" THEN fail(sg)
                                           ELSE IF t = "watch_symbol" THEN watch ELSE {}
                 /\ Signals!Values(A, t) = {}
                 /\ Signals!Values(K, t) = IF t = "tighten_risk_grade"
                                           THEN fail(rg) \cap {"medium", "high"} ELSE {}
                 /\ Signals!Values(B, t) = {}
      <3>1. /\ \A x, y : Signals!Values(x \cup y, t)
                           = Signals!Values(x, t) \cup Signals!Values(y, t)
            /\ \A x, type, scope, strength :
                 Signals!Values(Signals!Advise(x, type, scope, strength), t)
                   = IF type = t THEN x ELSE {}
            /\ Signals!Values({}, t) = {}
            /\ \A type, scope, v, strength : type # t =>
                 Signals!Values({Signals!Advice(type, scope, v, strength)}, t) = {}
        BY ValuesAre
      <3>2. Signals!Values(C, t) = IF t = "raise_min_confidence"
                                   THEN fail(bg) \cap {"low", "medium"} ELSE {}
        <4> DEFINE b == IF Signals!StrongPositive(Signals!Metric({o \in J : o.signal.blocked}))
                        THEN {Signals!Advice("lower_min_confidence", "global",
                                             "minimum_confidence", "strong")}
                        ELSE {}
                   a == fail(bg) \cap {"low", "medium"}
        <4>1. C = Signals!Advise(a, "raise_min_confidence", "confidence_bucket", "weak") \cup b
          BY DEF Signals!ConfidenceAdvice
        <4>2. Signals!Values(b, t) = {}
          <5>1. "lower_min_confidence" # t
            BY <2>3
          <5> QED
            BY <3>1, <5>1
        <4> HIDE DEF a, b, C
        <4> DEFINE one == Signals!Advise(a, "raise_min_confidence", "confidence_bucket", "weak")
        <4>4. Signals!Values(one, t) = IF t = "raise_min_confidence" THEN a ELSE {}
          BY <3>1
        <4> HIDE DEF one
        <4>5. Signals!Values(C, t) = Signals!Values(one, t) \cup Signals!Values(b, t)
          BY <3>1, <4>1 DEF one
        <4>3. Signals!Values(C, t) = IF t = "raise_min_confidence" THEN a ELSE {}
          BY <4>2, <4>4, <4>5
        <4> QED
          BY <4>3 DEF a
      <3>3. Signals!Values(G, t) = {}
        <4> DEFINE known == {o \in J : o.signal.regime # None}
                   g == Signals!Large(Signals!Grouped(known, [o \in known |-> o.signal.regime]))
                   a == Signals!Failing(g)
                   b == {r \in DOMAIN g \cap {"choppy", "high_volatility"} :
                           Signals!NeedsConfirmation(g[r])}
        <4>1. G = Signals!Advise(a, "avoid_regime", "regime", "weak")
                  \cup Signals!Advise(b, "require_confirmation", "regime", "mixed")
          BY DEF Signals!RegimeAdvice
        <4>2. "avoid_regime" # t /\ "require_confirmation" # t
          BY <2>3
        <4> HIDE DEF a, b, G
        <4> QED
          BY <3>1, <4>1, <4>2
      <3>4. Signals!Values(H, t) = IF t = "avoid_horizon" THEN fail(hg)
                                   ELSE IF t = "prefer_horizon" THEN pref ELSE {}
        <4> DEFINE g == Signals!Large(hg)
                   best == {Signals!Advice("prefer_horizon", "horizon", h, Signals!Strength(g[h])) :
                              h \in pref}
        <4>1. H = Signals!Advise(fail(hg), "avoid_horizon", "horizon", "weak") \cup best
          BY DEF Signals!HorizonAdvice
        <4>2. Signals!Values(best, t) = IF t = "prefer_horizon" THEN pref ELSE {}
          <5> DEFINE a(h) == Signals!Advice("prefer_horizon", "horizon", h, Signals!Strength(g[h]))
          <5> HIDE DEF g, pref
          <5>1. \A h : a(h).type = "prefer_horizon" /\ a(h).value = h
            BY DEF Signals!Advice
          <5> HIDE DEF a
          <5>2. best = {a(h) : h \in pref}
            BY DEF a
          <5> HIDE DEF best
          <5>3. Signals!Values(best, t) = {x.value : x \in {y \in best : y.type = t}}
            BY DEF Signals!Values
          <5>4. CASE t = "prefer_horizon"
            <6>1. ASSUME NEW v PROVE v \in Signals!Values(best, t) <=> v \in pref
              BY <5>1, <5>2, <5>3, <5>4
            <6>2. Signals!Values(best, t) = pref
              BY <6>1
            <6> QED
              BY <5>4, <6>2
          <5>5. CASE t # "prefer_horizon"
            BY <5>1, <5>2, <5>3, <5>5
          <5> QED
            BY <5>4, <5>5
        <4> DEFINE one == Signals!Advise(fail(hg), "avoid_horizon", "horizon", "weak")
        <4> HIDE DEF H, best, hg, pref, fail
        <4>3. Signals!Values(one, t) = IF t = "avoid_horizon" THEN fail(hg) ELSE {}
          BY <3>1
        <4> HIDE DEF one
        <4>4. Signals!Values(H, t) = Signals!Values(one, t) \cup Signals!Values(best, t)
          BY <3>1, <4>1 DEF one
        <4> QED
          BY <4>2, <4>3, <4>4
      <3>5. Signals!Values(S, t) = IF t = "restrict_symbol" THEN fail(sg)
                                   ELSE IF t = "watch_symbol" THEN watch ELSE {}
        <4>1. S = Signals!Advise(fail(sg), "restrict_symbol", "symbol", "weak")
                  \cup Signals!Advise(watch, "watch_symbol", "symbol", "mixed")
          BY DEF Signals!SymbolAdvice
        <4> DEFINE one == Signals!Advise(fail(sg), "restrict_symbol", "symbol", "weak")
                   two == Signals!Advise(watch, "watch_symbol", "symbol", "mixed")
        <4> HIDE DEF S, sg, watch, fail
        <4>2. /\ Signals!Values(one, t) = IF t = "restrict_symbol" THEN fail(sg) ELSE {}
              /\ Signals!Values(two, t) = IF t = "watch_symbol" THEN watch ELSE {}
          BY <3>1
        <4> HIDE DEF one, two
        <4>3. Signals!Values(S, t) = Signals!Values(one, t) \cup Signals!Values(two, t)
          BY <3>1, <4>1 DEF one, two
        <4> QED
          BY <4>2, <4>3
      <3>6. Signals!Values(A, t) = {}
        <4> DEFINE a == fail(Signals!ByAction(J)) \cap {"buy", "sell_exit"}
        <4>1. A = Signals!Advise(a, "restrict_action_type", "action_type", "weak")
          BY DEF Signals!ActionAdvice
        <4>2. "restrict_action_type" # t
          BY <2>3
        <4> HIDE DEF A, a
        <4> QED
          BY <3>1, <4>1, <4>2
      <3>7. Signals!Values(K, t) = IF t = "tighten_risk_grade"
                                   THEN fail(rg) \cap {"medium", "high"} ELSE {}
        <4> DEFINE g == Signals!Large(rg)
                   a == fail(rg) \cap {"medium", "high"}
                   b == {r \in DOMAIN g : Signals!StrongPositive(g[r])} \cap {"low"}
        <4>1. K = Signals!Advise(a, "tighten_risk_grade", "risk_grade", "weak")
                  \cup Signals!Advise(b, "loosen_risk_grade", "risk_grade", "strong")
          BY DEF Signals!RiskAdvice
        <4>2. "loosen_risk_grade" # t
          BY <2>3
        <4> HIDE DEF K, b, a
        <4> DEFINE one == Signals!Advise(a, "tighten_risk_grade", "risk_grade", "weak")
                   two == Signals!Advise(b, "loosen_risk_grade", "risk_grade", "strong")
        <4>4. /\ Signals!Values(one, t) = IF t = "tighten_risk_grade" THEN a ELSE {}
              /\ Signals!Values(two, t) = {}
          BY <3>1, <4>2
        <4> HIDE DEF one, two
        <4>5. Signals!Values(K, t) = Signals!Values(one, t) \cup Signals!Values(two, t)
          BY <3>1, <4>1 DEF one, two
        <4>3. Signals!Values(K, t) = IF t = "tighten_risk_grade" THEN a ELSE {}
          BY <4>4, <4>5
        <4> QED
          BY <4>3 DEF a
      <3>8. Signals!Values(B, t) = {}
        <4> DEFINE a == Signals!Failing(Signals!BlockersOf(J))
        <4>1. B = Signals!Advise(a, "keep_current_settings", "global", "promising")
          BY DEF Signals!BlockerAdvice
        <4>2. "keep_current_settings" # t
          BY <2>3
        <4> HIDE DEF B, a
        <4> QED
          BY <3>1, <4>1, <4>2
      <3> QED
        BY <3>2, <3>3, <3>4, <3>5, <3>6, <3>7, <3>8
    <2> HIDE DEF C, G, H, S, A, K, B, F, pref, watch, fail, hg, sg, bg, rg, V
    <2>4. ASSUME NEW t, Asked(t)
          PROVE  V(t) = Signals!Values(C, t) \cup Signals!Values(G, t) \cup Signals!Values(H, t)
                        \cup Signals!Values(S, t) \cup Signals!Values(A, t)
                        \cup Signals!Values(K, t) \cup Signals!Values(B, t)
      BY <2>1, <2>2, <2>4
    <2>5. V("restrict_symbol") = fail(sg)
      BY <2>3, <2>4
    <2>6. V("watch_symbol") = watch
      BY <2>3, <2>4
    <2>7. V("raise_min_confidence") = fail(bg) \cap {"low", "medium"}
      BY <2>3, <2>4
    <2>8. V("tighten_risk_grade") = fail(rg) \cap {"medium", "high"}
      BY <2>3, <2>4
    <2>9. V("avoid_horizon") = fail(hg)
      BY <2>3, <2>4
    <2>10. V("prefer_horizon") = pref
      BY <2>3, <2>4
    <2> HIDE DEF Asked
    <2> QED
      BY <2>5, <2>6, <2>7, <2>8, <2>9, <2>10
  <1> DEFINE gain == Signals!Gaining(Signals!ByHorizon(J))
             E == Signals!EdgeReport(X)
  <1>3. /\ E.useful = Signals!Useful(sg) /\ E.weak = Signals!Weak(sg)
        /\ E.reliable = Signals!Useful(bg) /\ E.avoid = Signals!Weak(rg)
        /\ E.horizons = gain
    BY DEF Signals!EdgeReport
  <1>4. /\ \A k \in DOMAIN sg : Counted(sg[k])
        /\ \A k \in DOMAIN bg : Counted(bg[k])
        /\ \A k \in DOMAIN rg : Counted(rg[k])
        /\ \A k \in DOMAIN hg : Counted(hg[k])
    <2> HIDE DEF J
    <2>1. \A key : \A k \in DOMAIN Signals!Grouped(J, key) : Counted(Signals!Grouped(J, key)[k])
      BY <1>1, GroupsAreCounted
    <2> QED
      BY <2>1 DEF Signals!BySymbol, Signals!ByBucket, Signals!ByRisk
  <1>5. ASSUME NEW g, \A k \in DOMAIN g : Counted(g[k])
        PROVE  /\ Signals!Weak(g) \subseteq fail(g)
               /\ Signals!Useful(g) \cap fail(g) = {}
    <2>1. fail(g) = {k \in DOMAIN g : g[k].size >= 3 /\ Signals!Negative(g[k])}
      BY LargeIs
    <2> HIDE DEF fail
    <2>2. \A k \in DOMAIN g :
             /\ Signals!NegativeEdge(g[k]) => Signals!Negative(g[k]) /\ g[k].size >= 3
             /\ Signals!PositiveEdge(g[k]) => ~Signals!Negative(g[k])
      BY <1>5, EdgesExclude
    <2> QED
      BY <2>1, <2>2 DEF Signals!Weak, Signals!Useful
  <1>6. pref \subseteq gain \ fail(hg) /\ Signals!Cardinality(pref) <= 1
    <2> DEFINE L == Signals!Large(hg)
    <2>1. pref = {h \in {k \in DOMAIN L : Signals!Positive(L[k])} :
                    \A g \in {k \in DOMAIN L : Signals!Positive(L[k])} \ {h} :
                       Signals!Expectancy(L[h]) - Signals!Expectancy(L[g]) >= 5000}
      BY DEF Signals!PreferredHorizons
    <2>2. /\ DOMAIN L \subseteq DOMAIN hg /\ \A k \in DOMAIN L : L[k] = hg[k]
          /\ fail(hg) \subseteq {k \in DOMAIN hg : Signals!Negative(hg[k])}
      BY LargeIs
    <2>3. \A k \in DOMAIN hg :
             /\ Signals!Positive(hg[k]) => Signals!Gains(hg[k]) /\ ~Signals!Negative(hg[k])
             /\ Signals!Measured(hg[k]) => Signals!Expectancy(hg[k]) \in Int
      BY <1>4, EdgesExclude
    <2>4. \A k \in DOMAIN hg : k \in DOMAIN Signals!ByHorizon(J)
                               /\ Signals!ByHorizon(J)[k] = hg[k]
      BY <1>1, GroupsByHorizon
    <2> HIDE DEF pref, fail, L, hg
    <2>5. \A k \in pref : k \in DOMAIN hg /\ Signals!Positive(hg[k]) /\ L[k] = hg[k]
                          /\ k \in DOMAIN L /\ Signals!Positive(L[k])
      BY <2>1, <2>2
    <2>6. pref \subseteq gain \ fail(hg)
      BY <2>2, <2>3, <2>4, <2>5 DEF Signals!Gaining
    <2>7. ASSUME NEW h \in pref, NEW g \in pref PROVE h = g
      <3>1. CASE h # g
        <4> DEFINE x == Signals!Expectancy(L[h])
                   y == Signals!Expectancy(L[g])
        <4>1. x - y >= 5000 /\ y - x >= 5000
          BY <2>1, <2>5, <3>1
        <4>2. x \in Int /\ y \in Int
          BY <2>3, <2>5 DEF Signals!Positive
        <4> HIDE DEF x, y
        <4> QED
          BY <4>1, <4>2, SMT
      <3> QED
        BY <3>1
    <2>8. Cardinality(pref) <= 1
      <3>1. CASE pref = {}
        BY <3>1, FS_EmptySet
      <3>2. ASSUME NEW h \in pref PROVE Cardinality(pref) <= 1
        <4>1. pref = {h}
          BY <2>7
        <4>2. Cardinality({h}) = 1
          BY FS_Singleton
        <4> QED
          BY <4>1, <4>2
      <3> QED
        BY <3>1, <3>2
    <2> QED
      BY <2>6, <2>8, SameLibraries
  <1> HIDE DEF gain, E, R, pref, fail, sg, bg, rg, hg, J
  <1>7. watch \cap fail(sg) = {}
    BY DEF fail
  <1>8. /\ Signals!Weak(sg) \subseteq fail(sg) /\ Signals!Useful(sg) \cap fail(sg) = {}
        /\ Signals!Useful(bg) \cap fail(bg) = {}
        /\ Signals!Weak(rg) \subseteq fail(rg)
    BY <1>4, <1>5
  <1> HIDE DEF watch, V
  <1>9. /\ E.useful \cap V("restrict_symbol") = {} /\ E.weak \subseteq V("restrict_symbol")
        /\ E.reliable \cap V("raise_min_confidence") = {}
        /\ E.avoid \cap {"medium", "high"} \subseteq V("tighten_risk_grade")
        /\ V("prefer_horizon") \subseteq E.horizons \ V("avoid_horizon")
        /\ Signals!Cardinality(V("prefer_horizon")) <= 1
        /\ V("watch_symbol") \cap V("restrict_symbol") = {}
    BY <1>2, <1>3, <1>6, <1>7, <1>8
  <1> QED
    BY <1>9 DEF Signals!AdviceAgrees, V, E, R

(* Groups of a set of outcomes have every outcome and every win once.         *)
LEMMA CountsAddUp ==
    ASSUME NEW X, Returning(X), NEW K, IsFiniteSet(K), NEW key \in [X -> K]
    PROVE  Signals!AddsUp([k \in K |-> Signals!Metric({o \in X : key[o] = k})], X)
  <1> DEFINE G == [k \in K |-> Signals!Metric({o \in X : key[o] = k})]
             W == {o \in Signals!Directional(X) : o.survived}
             kw == [o \in W |-> key[o]]
  <1>1. W \subseteq X /\ IsFiniteSet(W) /\ IsFiniteSet(X) /\ kw \in [W -> K]
    BY FS_Subset DEF Returning, Signals!Directional
  <1>2. \A k \in K : {o \in W : kw[o] = k} = {o \in W : key[o] = k}
    OBVIOUS
  <1>3. ASSUME NEW k \in K
        PROVE  /\ G[k].size = Cardinality({o \in X : key[o] = k})
               /\ G[k].wins = Cardinality({o \in W : kw[o] = k})
    <2> DEFINE P == {o \in X : key[o] = k}
    <2>1. Returning(P)
      BY <1>1, FS_Subset DEF Returning
    <2>2. {o \in Signals!Directional(P) : o.survived} = {o \in W : key[o] = k}
      BY DEF Signals!Directional
    <2>3. G[k] = Signals!Metric(P)
      OBVIOUS
    <2> HIDE DEF P, W, G, kw
    <2>4. /\ Signals!Metric(P).size = Cardinality(P)
          /\ Signals!Metric(P).wins = Cardinality({o \in Signals!Directional(P) : o.survived})
      BY <2>1, MetricIs
    <2> QED
      BY <1>2, <2>2, <2>3, <2>4 DEF P
  <1>4. DOMAIN G = K
    OBVIOUS
  <1>5. Signals!Metric(X).wins = Cardinality(W)
    BY MetricIs
  <1> HIDE DEF G, W, kw
  <1>6. /\ [k \in DOMAIN G |-> G[k].size] = [k \in K |-> Cardinality({o \in X : key[o] = k})]
        /\ [k \in DOMAIN G |-> G[k].wins] = [k \in K |-> Cardinality({o \in W : kw[o] = k})]
    BY <1>3, <1>4
  <1>7. SumFunction([k \in K |-> Cardinality({o \in X : key[o] = k})]) = Cardinality(X)
    BY <1>1, CountByGroup
  <1>8. SumFunction([k \in K |-> Cardinality({o \in W : kw[o] = k})]) = Cardinality(W)
    BY <1>1, CountByGroup
  <1>9. /\ Signals!SumFunction([k \in DOMAIN G |-> G[k].size]) = Signals!Cardinality(X)
        /\ Signals!SumFunction([k \in DOMAIN G |-> G[k].wins]) = Signals!Metric(X).wins
    BY <1>5, <1>6, <1>7, <1>8, SameLibraries
  <1> QED
    BY <1>9 DEF Signals!AddsUp, G

(* All groupings of a validation report add up.                               *)
LEMMA ReportAddsUp ==
    ASSUME NEW X, Returning(X), OnHorizons(X), NEW signals
    PROVE  Signals!GroupsAddUp(Signals!ValidationReport(signals, X), X)
  <1>1. ASSUME NEW key, key = [o \in X |-> key[o]]
        PROVE  Signals!AddsUp(Signals!Grouped(X, key), X)
    <2> DEFINE K == {key[o] : o \in X}
    <2>1. DOMAIN key = X
      BY <1>1
    <2>2. IsFiniteSet(K)
      BY <2>1, FiniteImage DEF Returning
    <2>3. key \in [X -> K]
      BY <1>1
    <2>4. Signals!Grouped(X, key) = [k \in K |-> Signals!Metric({o \in X : key[o] = k})]
      BY DEF Signals!Grouped
    <2> HIDE DEF K
    <2> QED
      BY <2>2, <2>3, <2>4, CountsAddUp
  <1> DEFINE R == Signals!ValidationReport(signals, X)
             byHorizon == [h \in DOMAIN R.horizons |-> R.horizons[h].metric]
  <1>2. /\ R.action = Signals!ByAction(X) /\ R.risk = Signals!ByRisk(X)
        /\ R.bucket = Signals!ByBucket(X) /\ R.symbol = Signals!BySymbol(X)
    BY DEF Signals!ValidationReport
  <1>3. byHorizon = Signals!ByHorizon(X)
    <2> DEFINE H == Signals!ToSet(Signals!ValidationHorizons)
               one(h) == Signals!HorizonMetric({o \in X : o.horizon = h})
    <2>1. R.horizons = [h \in H |-> one(h)]
      BY DEF Signals!ValidationReport
    <2>2. \A h : one(h).metric = Signals!Metric({o \in X : o.horizon = h})
      BY DEF Signals!HorizonMetric
    <2> HIDE DEF H, one, R
    <2>3. byHorizon = [h \in H |-> Signals!Metric({o \in X : o.horizon = h})]
      BY <2>1, <2>2
    <2> QED
      BY <2>3 DEF H, Signals!ByHorizon
  <1>4. Signals!AddsUp(Signals!ByHorizon(X), X)
    <2> DEFINE key == [o \in X |-> o.horizon]
    <2>1. key \in [X -> Longest]
      BY DEF OnHorizons
    <2>2. IsFiniteSet(Longest)
      BY HorizonsAreFinite
    <2>3. [h \in Longest |-> Signals!Metric({o \in X : key[o] = h})]
            = [h \in Longest |-> Signals!Metric({o \in X : o.horizon = h})]
      <3>1. \A h : {o \in X : key[o] = h} = {o \in X : o.horizon = h}
        OBVIOUS
      <3> QED
        BY <3>1
    <2> HIDE DEF key
    <2>4. Signals!AddsUp([h \in Longest |-> Signals!Metric({o \in X : key[o] = h})], X)
      BY <2>1, <2>2, CountsAddUp
    <2> QED
      BY <2>3, <2>4, GroupsByHorizon
  <1>5. /\ Signals!AddsUp(Signals!ByAction(X), X) /\ Signals!AddsUp(Signals!ByRisk(X), X)
        /\ Signals!AddsUp(Signals!ByBucket(X), X) /\ Signals!AddsUp(Signals!BySymbol(X), X)
    BY <1>1 DEF Signals!ByAction, Signals!ByRisk, Signals!ByBucket, Signals!BySymbol
  <1> HIDE DEF R
  <1>6. /\ Signals!AddsUp(R.action, X) /\ Signals!AddsUp(R.risk, X)
        /\ Signals!AddsUp(R.bucket, X) /\ Signals!AddsUp(R.symbol, X)
        /\ Signals!AddsUp(byHorizon, X)
    BY <1>2, <1>3, <1>4, <1>5
  <1> QED
    BY <1>6 DEF Signals!GroupsAddUp, R

(* The best of some horizons with outcomes is one of them, and no other is     *)
(* worth more.                                                                *)
LEMMA BestIsBest ==
    ASSUME NEW G, DOMAIN G = Longest, \A h \in Longest : Counted(G[h]),
           NEW g \in Longest, Signals!Measured(G[g])
    PROVE  /\ Signals!BestHorizon(G) \in Longest
           /\ Signals!Measured(G[Signals!BestHorizon(G)])
           /\ Signals!Worth(G[Signals!BestHorizon(G)]) >= Signals!Worth(G[g])
           /\ Signals!Worth(G[Signals!BestHorizon(G)]) \in Int
           /\ Signals!Worth(G[g]) \in Int
  <1> DEFINE M == {h \in DOMAIN G : Signals!Measured(G[h])}
             w == [h \in M |-> Signals!Worth(G[h])]
             n == [h \in M |-> G[h].judged]
             W == {w[h] : h \in M}
             M1 == {h \in M : w[h] = Max(W)}
             N1 == {n[h] : h \in M1}
             M2 == {h \in M1 : n[h] = Max(N1)}
             b == Signals!BestHorizon(G)
             top == Min(M2)
  <1>1. M \subseteq Longest /\ g \in M /\ Longest \subseteq Int /\ IsFiniteSet(Longest)
    BY HorizonsAreFinite
  <1>2. \A h \in M : w[h] \in Int /\ n[h] \in Nat
    <2>1. ASSUME NEW h \in M PROVE Signals!Worth(G[h]) \in Int /\ G[h].judged \in Nat
      <3>1. Counted(G[h]) /\ Signals!Measured(G[h])
        BY <1>1
      <3>2. Signals!Expectancy(G[h]) \in Int
        BY <3>1, EdgesExclude
      <3>3. -9990000 \in Int
        BY SMT
      <3> QED
        BY <3>1, <3>2, <3>3 DEF Signals!Worth, Counted
    <2> QED
      BY <2>1
  <1>3. IsFiniteSet(M) /\ IsFiniteSet(M1) /\ IsFiniteSet(M2) /\ M1 \subseteq M /\ M2 \subseteq M1
    BY <1>1, FS_Subset
  <1>4. b = CHOOSE h \in M : \A x \in M : ~Signals!Ahead(G, x, h)
    BY <1>1 DEF Signals!BestHorizon
  <1>5. \A x, h \in M : Signals!Ahead(G, x, h) <=>
           \/ w[x] > w[h]
           \/ w[x] = w[h] /\ (n[x] > n[h] \/ (n[x] = n[h] /\ x < h))
    BY DEF Signals!Ahead
  <1>6. DOMAIN w = M /\ DOMAIN n = M
    OBVIOUS
  <1> HIDE DEF M, w, n, b
  <1>7. IsFiniteSet(W) /\ W \subseteq Int /\ W # {}
    BY <1>1, <1>2, <1>3, <1>6, FiniteImage
  <1>8. Max(W) \in W /\ \A h \in M : w[h] <= Max(W)
    <2> HIDE DEF W
    <2>1. Max(W) \in W /\ \A x \in W : x <= Max(W)
      BY <1>7, FiniteExtremes
    <2> QED
      BY <2>1 DEF W
  <1>9. M1 # {}
    BY <1>8
  <1>10. IsFiniteSet(N1) /\ N1 \subseteq Int /\ N1 # {}
    <2> HIDE DEF M1
    <2> DEFINE f == [h \in M1 |-> n[h]]
    <2>1. IsFiniteSet({f[h] : h \in M1})
      BY <1>3, FiniteImage
    <2> QED
      BY <1>2, <1>3, <1>9, <2>1
  <1>11. Max(N1) \in N1 /\ \A h \in M1 : n[h] <= Max(N1)
    <2> HIDE DEF N1
    <2>1. Max(N1) \in N1 /\ \A x \in N1 : x <= Max(N1)
      BY <1>10, FiniteExtremes
    <2> HIDE DEF M1
    <2> QED
      BY <2>1 DEF N1
  <1>12. M2 # {}
    <2> HIDE DEF M1
    <2> QED
      BY <1>11
  <1>13. top \in M2 /\ \A h \in M2 : top <= h
    <2>1. M2 \subseteq Int
      BY <1>1, <1>3
    <2> HIDE DEF M2
    <2> QED
      BY <1>3, <1>12, <2>1, FiniteExtremes
  <1> DEFINE mw == Max(W)
             mn == Max(N1)
  <1>14. top \in M /\ w[top] = mw /\ n[top] = mn
    BY <1>13
  <1>15. \A h \in M : w[h] <= mw /\ (w[h] = mw => n[h] <= mn)
                      /\ (w[h] = mw /\ n[h] = mn => top <= h)
    BY <1>8, <1>11, <1>13
  <1> HIDE DEF top, mw, mn, M1, M2, W, N1
  <1>16. \A x \in M : ~Signals!Ahead(G, x, top)
    <2>1. ASSUME NEW x \in M PROVE ~Signals!Ahead(G, x, top)
      <3>1. x \in Int /\ top \in Int /\ w[x] \in Int /\ w[top] \in Int /\ n[x] \in Int
            /\ n[top] \in Int
        BY <1>1, <1>2, <1>14
      <3> QED
        BY <1>5, <1>14, <1>15, <3>1
    <2> QED
      BY <2>1
  <1>17. b \in M /\ \A x \in M : ~Signals!Ahead(G, x, b)
    BY <1>4, <1>14, <1>16
  <1>18. ~(w[g] > w[b]) /\ w[g] \in Int /\ w[b] \in Int
    BY <1>1, <1>2, <1>5, <1>17
  <1>19. w[b] = Signals!Worth(G[b]) /\ w[g] = Signals!Worth(G[g])
    BY <1>1, <1>17 DEF w
  <1>20. b \in Longest /\ Signals!Measured(G[b])
    BY <1>1, <1>17 DEF M
  <1> QED
    BY <1>18, <1>19, <1>20 DEF b

(* Outcomes that gain on the whole gain on some horizon.                      *)
LEMMA SomeHorizonGains ==
    ASSUME NEW X, Returning(X), OnHorizons(X), X = Signals!Directional(X),
           Signals!Gains(Signals!Metric(X))
    PROVE  \E h \in Longest : Signals!Gains(Signals!ByHorizon(X)[h])
  <1> DEFINE F == [o \in X |-> o.return]
             S == [o \in X |-> 1 - 2 * F[o]]
             key == [o \in X |-> o.horizon]
             P(h) == {o \in X : key[o] = h}
             G == Signals!ByHorizon(X)
             T == [h \in Longest |-> SumFunction([o \in P(h) |-> S[o]])]
             m == Signals!Metric(X)
  <1>1. IsFiniteSet(X) /\ F \in [X -> Int] /\ S \in [X -> Int] /\ key \in [X -> Longest]
    BY DEF Returning, OnHorizons
  <1>2. IsFiniteSet(Longest)
    BY HorizonsAreFinite
  <1>3. m.judged = Cardinality(X) /\ m.sum = SumFunction(F) /\ Counted(m)
    BY MetricIs
  <1>4. ASSUME NEW h \in Longest
        PROVE  /\ G[h] = Signals!Metric(P(h)) /\ Counted(G[h])
               /\ G[h].judged = Cardinality(P(h))
               /\ G[h].sum = SumFunction([o \in P(h) |-> F[o]])
               /\ SumFunction([o \in P(h) |-> S[o]])
                    = Cardinality(P(h)) - 2 * SumFunction([o \in P(h) |-> F[o]])
    <2> DEFINE Q == P(h)
               f == [o \in Q |-> F[o]]
    <2>1. Returning(Q) /\ Signals!Directional(Q) = Q
      <3>1. Q \subseteq X
        OBVIOUS
      <3> QED
        BY <3>1, FS_Subset DEF Returning, Signals!Directional
    <2>2. G[h] = Signals!Metric(Q)
      <3>1. Q = {o \in X : o.horizon = h}
        OBVIOUS
      <3> HIDE DEF Q
      <3> QED
        BY <3>1, GroupsByHorizon
    <2>3. f = [o \in Q |-> o.return] /\ f \in [Q -> Int]
      BY <1>1
    <2>4. [o \in Q |-> S[o]] = [o \in Q |-> 1 - 2 * f[o]]
      OBVIOUS
    <2> HIDE DEF f, G, S
    <2>5. SumFunction([o \in Q |-> 1 - 2 * f[o]]) = Cardinality(Q) - 2 * SumFunction(f)
      <3> HIDE DEF Q
      <3> QED
        BY <2>1, <2>3, SumOfShortfalls DEF Returning
    <2>6. /\ Counted(Signals!Metric(Q)) /\ Signals!Metric(Q).judged = Cardinality(Q)
          /\ Signals!Metric(Q).sum = SumFunction(f)
      <3> HIDE DEF Q
      <3> QED
        BY <2>1, <2>3, MetricIs
    <2> QED
      BY <2>2, <2>4, <2>5, <2>6 DEF f
  <1>5. SumFunction(T) = SumFunction(S)
    <2> HIDE DEF S, key
    <2> QED
      BY <1>1, <1>2, SumByGroup
  <1>6. SumFunction(S) = Cardinality(X) - 2 * SumFunction(F)
    <2> HIDE DEF F
    <2> QED
      BY <1>1, SumOfShortfalls
  <1>7. m.judged \in Nat \ {0} /\ 2 * m.sum >= m.judged
    <2>1. m.judged \in Nat \ {0} /\ Signals!Expectancy(m) > 0
      BY <1>3 DEF Counted, Signals!Gains, Signals!Measured
    <2>2. Signals!Expectancy(m) = HalfUp(m.sum, m.judged)
      BY SameLibraries DEF Signals!Expectancy
    <2> HIDE DEF m
    <2> QED
      BY <1>3, <2>1, <2>2, HalfUpPositive DEF Counted
  <1>8. SUFFICES ASSUME \A h \in Longest : ~Signals!Gains(G[h]) PROVE FALSE
    OBVIOUS
  <1>9. ASSUME NEW h \in Longest
        PROVE  /\ T[h] \in Nat
               /\ Cardinality(P(h)) # 0 => T[h] > 0
    <2> DEFINE c == Cardinality(P(h))
               t == SumFunction([o \in P(h) |-> F[o]])
    <2>1. /\ G[h].judged = c /\ G[h].sum = t /\ Counted(G[h]) /\ T[h] = c - 2 * t
      BY <1>4
    <2>2. P(h) = {} => t = 0
      <3>1. ASSUME P(h) = {} PROVE t = 0
        <4> DEFINE f == [o \in P(h) |-> F[o]]
        <4>1. f \in [{} -> Int] /\ \A x \in {} : f[x] = 0
          BY <3>1
        <4> HIDE DEF f
        <4>2. SumFunction(f) = 0
          BY <4>1, FS_EmptySet, SumOfNothing
        <4> QED
          BY <4>2 DEF f
      <3> QED
        BY <3>1
    <2>3. IsFiniteSet(P(h))
      BY <1>1, FS_Subset
    <2>4. c \in Nat /\ (c = 0 => P(h) = {})
      <3> HIDE DEF P
      <3> QED
        BY <2>3, FS_EmptySet, FS_CardinalityType
    <2>5. c # 0 => 2 * t < c
      <3>1. ASSUME c # 0 PROVE 2 * t < c
        <4>1. c \in Nat \ {0} /\ t \in Int
          BY <2>1, <2>4, <3>1 DEF Counted
        <4>2. Signals!Expectancy(G[h]) = HalfUp(t, c)
          BY <2>1, SameLibraries DEF Signals!Expectancy
        <4>3. ~(Signals!Expectancy(G[h]) > 0)
          <5>1. Signals!Measured(G[h])
            BY <2>1, <4>1 DEF Signals!Measured
          <5> QED
            BY <1>8, <5>1 DEF Signals!Gains
        <4> HIDE DEF c, t, G
        <4> QED
          BY <4>1, <4>2, <4>3, HalfUpPositive
      <3> QED
        BY <3>1
    <2>6. t \in Int
      BY <2>1 DEF Counted
    <2>7. T[h] = c - 2 * t
      BY <2>1
    <2> HIDE DEF c, t, T
    <2>8. T[h] \in Nat /\ (c # 0 => T[h] > 0)
      BY <2>2, <2>4, <2>5, <2>6, <2>7
    <2> QED
      BY <2>8 DEF c
  <1>10. \E h \in Longest : Cardinality(P(h)) # 0
    <2>1. X # {}
      BY <1>3, <1>7, FS_EmptySet
    <2>2. PICK o \in X : TRUE
      BY <2>1
    <2>3. key[o] \in Longest /\ o \in P(key[o])
      BY <1>1
    <2>4. IsFiniteSet(P(key[o]))
      BY <1>1, FS_Subset
    <2> HIDE DEF P, key
    <2>5. Cardinality(P(key[o])) # 0
      BY <2>3, <2>4, FS_EmptySet
    <2> QED
      BY <2>3, <2>5
  <1>11. T \in [Longest -> Nat]
    <2> HIDE DEF P
    <2>1. DOMAIN T = Longest /\ T = [h \in Longest |-> T[h]]
      OBVIOUS
    <2> HIDE DEF T
    <2> QED
      BY <1>9, <2>1
  <1>12. PICK h \in Longest : T[h] > 0
    BY <1>9, <1>10
  <1> HIDE DEF T, P, F, S, m
  <1>13. SumFunction(T) \in Nat /\ SumFunction(T) >= T[h]
    BY <1>2, <1>11, SumOfNaturals
  <1>14. SumFunction(F) \in Int /\ Cardinality(X) \in Nat /\ T[h] \in Nat
    BY <1>3, <1>11 DEF Counted
  <1> QED
    BY <1>3, <1>5, <1>6, <1>7, <1>12, <1>13, <1>14

(* Signals and candles as they are stored.                                    *)
StoredSignals(S) ==
    /\ IsFiniteSet(S)
    /\ \A s \in S : /\ s.time \in Nat /\ s.price \in Nat \ {0}
                    /\ s.level # None => s.level \in Int
StoredCandles(C) ==
    /\ IsFiniteSet(C)
    /\ \A c \in C : c.open \in Nat /\ c.price \in Int /\ c.high \in Int /\ c.low \in Int

(* The return of a price is an integer that does not fall with the price.     *)
LEMMA ReturnGrows ==
    ASSUME NEW s, s.price \in Nat \ {0}, NEW p \in Int, NEW q \in Int, p <= q
    PROVE  /\ Signals!Return(s, p) \in Int /\ Signals!Return(s, q) \in Int
           /\ Signals!Return(s, p) <= Signals!Return(s, q)
  <1> DEFINE d == s.price
             n == 1000000 * (p - d)
             m == 1000000 * (q - d)
  <1>1. d \in Nat \ {0}
    OBVIOUS
  <1>2. Signals!Return(s, p) = HalfUp(n, d) /\ Signals!Return(s, q) = HalfUp(m, d)
    BY SameLibraries DEF Signals!Return
  <1> HIDE DEF d
  <1>3. n \in Int /\ m \in Int /\ n <= m
    BY <1>1, SMT
  <1> HIDE DEF n, m
  <1> QED
    BY <1>1, <1>2, <1>3, HalfUpPositive, HalfUpMonotone

(* A signal has a direction.                                                  *)
LEMMA DirectionIs ==
    ASSUME NEW s
    PROVE  Signals!Direction(s) \in {1, -1, 0}
  BY DEF Signals!Direction

(* The greater and the lesser of zero and a number.                           *)
LEMMA OfZeroAnd ==
    ASSUME NEW x \in Int
    PROVE  /\ Signals!Max({0, x}) = IF x > 0 THEN x ELSE 0
           /\ Signals!Min({0, x}) = IF x < 0 THEN x ELSE 0
  <1> DEFINE P == {0, x}
  <1>1. IsFiniteSet(P) /\ P \subseteq Int /\ P # {}
    <2>1. IsFiniteSet({x})
      BY FS_Singleton
    <2>2. P = {x} \cup {0}
      OBVIOUS
    <2>3. IsFiniteSet({x} \cup {0})
      BY <2>1, FS_AddElement
    <2> QED
      BY <2>2, <2>3
  <1>2. 0 \in P /\ x \in P /\ \A y \in P : y = 0 \/ y = x
    OBVIOUS
  <1> HIDE DEF P
  <1>3. /\ Max(P) \in P /\ \A y \in P : y <= Max(P)
        /\ Min(P) \in P /\ \A y \in P : Min(P) <= y
    BY <1>1, FiniteExtremes
  <1>4. Signals!Max(P) = Max(P) /\ Signals!Min(P) = Min(P)
    BY SameLibraries
  <1> DEFINE M == Max(P)
             m == Min(P)
  <1>6. /\ M = 0 \/ M = x
        /\ m = 0 \/ m = x
        /\ 0 <= M /\ x <= M /\ m <= 0 /\ m <= x
    BY <1>2, <1>3
  <1> HIDE DEF M, m
  <1>7. M = (IF x > 0 THEN x ELSE 0) /\ m = (IF x < 0 THEN x ELSE 0)
    BY <1>6
  <1>5. /\ Max(P) = IF x > 0 THEN x ELSE 0
        /\ Min(P) = IF x < 0 THEN x ELSE 0
    BY <1>7 DEF M, m
  <1> QED
    BY <1>4, <1>5 DEF P

(* What is seen of more candles has larger excursions, and the same verdict.  *)
LEMMA MoreCandlesSeeMore ==
    ASSUME NEW s, s.price \in Nat \ {0}, s.level # None => s.level \in Int,
           NEW h, NEW price \in Int,
           NEW V, StoredCandles(V), NEW W \in SUBSET V, W # {}
    PROVE  Signals!SeesMore(Signals!Judged(s, h, price, V), Signals!Judged(s, h, price, W))
  <1> DEFINE high(X) == Signals!Max({c.high : c \in X})
             low(X) == Signals!Min({c.low : c \in X})
             d == Signals!Direction(s)
             one == Signals!Judged(s, h, price, W)
             more == Signals!Judged(s, h, price, V)
             up(x) == Signals!Return(s, x)
  <1>1. ASSUME NEW X \in SUBSET V, X # {}
        PROVE  /\ high(X) \in Int /\ low(X) \in Int
               /\ high(X) \in {c.high : c \in X} /\ low(X) \in {c.low : c \in X}
               /\ \A c \in X : low(X) <= c.low /\ c.high <= high(X)
    <2> DEFINE f == [c \in X |-> c.high]
               g == [c \in X |-> c.low]
               H == {f[c] : c \in X}
               L == {g[c] : c \in X}
    <2>1. IsFiniteSet(X) /\ f \in [X -> Int] /\ g \in [X -> Int]
      BY FS_Subset DEF StoredCandles
    <2>2. H = {c.high : c \in X} /\ L = {c.low : c \in X}
      OBVIOUS
    <2> HIDE DEF f, g
    <2>3. IsFiniteSet(H) /\ IsFiniteSet(L)
      BY <2>1, FiniteImage
    <2>4. H \subseteq Int /\ L \subseteq Int /\ H # {} /\ L # {}
      BY <1>1, <2>1
    <2> HIDE DEF H, L
    <2>5. /\ Max(H) \in H /\ \A x \in H : x <= Max(H)
          /\ Min(L) \in L /\ \A x \in L : Min(L) <= x
      BY <2>3, <2>4, FiniteExtremes
    <2>6. high(X) = Max(H) /\ low(X) = Min(L)
      BY <2>2, SameLibraries
    <2>7. \A c \in X : c.high \in H /\ c.low \in L
      BY <2>2
    <2> HIDE DEF high, low
    <2>8. /\ high(X) \in Int /\ low(X) \in Int /\ high(X) \in H /\ low(X) \in L
          /\ \A c \in X : low(X) <= c.low /\ c.high <= high(X)
      BY <2>4, <2>5, <2>6, <2>7
    <2> QED
      BY <2>2, <2>8
  <1>2. V # {} /\ V \in SUBSET V
    OBVIOUS
  <1> DEFINE hv == high(V)
             hw == high(W)
             lv == low(V)
             lw == low(W)
  <1>3. /\ hv \in Int /\ hw \in Int /\ lv \in Int /\ lw \in Int
        /\ hw <= hv /\ lv <= lw
    <2> HIDE DEF high, low
    <2>1. /\ \E c \in W : hw = c.high
          /\ \E c \in W : lw = c.low
      BY <1>1
    <2>2. \A c \in V : lv <= c.low /\ c.high <= hv
      BY <1>1, <1>2
    <2>3. hv \in Int /\ hw \in Int /\ lv \in Int /\ lw \in Int
      BY <1>1, <1>2
    <2> QED
      BY <2>1, <2>2, <2>3
  <1>4. /\ up(hw) \in Int /\ up(hv) \in Int /\ up(hw) <= up(hv)
        /\ up(lw) \in Int /\ up(lv) \in Int /\ up(lv) <= up(lw)
    <2> HIDE DEF hv, hw, lv, lw
    <2> QED
      BY <1>3, ReturnGrows
  <1>5. /\ more.favorable = CASE d = 1 -> Signals!Max({0, up(hv)})
                              [] d = -1 -> Signals!Max({0, -up(lv)})
                              [] d = 0 -> Signals!Abs(up(price))
        /\ one.favorable = CASE d = 1 -> Signals!Max({0, up(hw)})
                             [] d = -1 -> Signals!Max({0, -up(lw)})
                             [] d = 0 -> Signals!Abs(up(price))
        /\ more.adverse = CASE d = 1 -> Signals!Min({0, up(lv)})
                            [] d = -1 -> Signals!Min({0, -up(hv)})
                            [] d = 0 -> 0
        /\ one.adverse = CASE d = 1 -> Signals!Min({0, up(lw)})
                           [] d = -1 -> Signals!Min({0, -up(hw)})
                           [] d = 0 -> 0
        /\ more.invalidated <=> s.level # None /\ ((d = 1 /\ lv <= s.level)
                                                   \/ (d = -1 /\ hv >= s.level))
        /\ one.invalidated <=> s.level # None /\ ((d = 1 /\ lw <= s.level)
                                                  \/ (d = -1 /\ hw >= s.level))
        /\ Signals!Judgement(more) = Signals!Judgement(one)
    BY DEF Signals!Judged, Signals!Judgement
  <1> HIDE DEF one, more
  <1>6. d \in {1, -1, 0} /\ Signals!Abs(up(price)) \in Int
    <2>1. up(price) \in Int
      BY ReturnGrows
    <2> QED
      BY <2>1, DirectionIs DEF Signals!Abs
  <1> DEFINE a == up(hv)
             b == up(lv)
             x == up(hw)
             y == up(lw)
             z == Signals!Abs(up(price))
  <1>7. /\ \A i \in {a, b, x, y, -a, -b, -x, -y} :
              /\ Signals!Max({0, i}) = IF i > 0 THEN i ELSE 0
              /\ Signals!Min({0, i}) = IF i < 0 THEN i ELSE 0
    <2> HIDE DEF a, b, x, y
    <2>1. \A i \in {a, b, x, y, -a, -b, -x, -y} : i \in Int
      BY <1>4 DEF a, b, x, y
    <2> QED
      BY <2>1, OfZeroAnd
  <1> HIDE DEF a, b, x, y, z, hv, hw, lv, lw, up, d
  <1>8. more.favorable >= one.favorable /\ more.adverse <= one.adverse
    <2>1. CASE d = 1
      BY <1>4, <1>5, <1>7, <2>1 DEF a, b, x, y
    <2>2. CASE d = -1
      BY <1>4, <1>5, <1>7, <2>2 DEF a, b, x, y
    <2>3. CASE d = 0
      BY <1>5, <1>6, <2>3
    <2> QED
      BY <1>6, <2>1, <2>2, <2>3
  <1>9. one.invalidated => more.invalidated
    <2>1. ASSUME s.level # None, d = 1, lw <= s.level PROVE lv <= s.level
      BY <1>3, <2>1
    <2>2. ASSUME s.level # None, d = -1, hw >= s.level PROVE hv >= s.level
      BY <1>3, <2>2
    <2> QED
      BY <1>5, <2>1, <2>2, Zenon
  <1> QED
    BY <1>5, <1>8, <1>9 DEF Signals!SeesMore, one, more

(* A signal is judged by the same candle with and without other signals, when  *)
(* there is one for it alone; with them, perhaps by more candles in between,   *)
(* but only by those it falls into.                                           *)
LEMMA SameCandleDecides ==
    ASSUME NEW S, StoredSignals(S), NEW C, StoredCandles(C), NEW s \in S, NEW h \in Longest,
           NEW A, A = Signals!Loaded(C, {s}), NEW B, B = Signals!Loaded(C, S),
           Signals!Later(A, s, h) # {}
    PROVE  /\ Signals!Later(B, s, h) # {}
           /\ Signals!Deciding(A, s, h) = Signals!Deciding(B, s, h)
           /\ Signals!Deciding(A, s, h) \in C
           /\ Signals!Window(A, s, h) \subseteq Signals!Window(B, s, h)
           /\ Signals!Window(B, s, h) \subseteq C
           /\ ~Signals!FallsIntoACandle(s, C)
                => Signals!Window(A, s, h) = Signals!Window(B, s, h)
  <1> DEFINE end == s.time + 60 * h
             day == s.time + 90000
             LA == Signals!Later(A, s, h)
             LB == Signals!Later(B, s, h)
             E(X) == {c \in X : \A e \in X : c.open <= e.open}
             d == Signals!Deciding(A, s, h)
  <1>1. s.time \in Nat /\ h \in {5, 15, 60, 240, 1440}
    BY DEF StoredSignals, Longest
  <1>2. /\ end \in Nat /\ day \in Nat
        /\ end - 60 > s.time /\ end <= day
    BY <1>1, SMT
  <1>3. \A c \in C : c.open \in Nat
    BY DEF StoredCandles
  <1>4. A = {c \in C : s.symbol = c.symbol /\ s.time <= c.open /\ c.open <= day}
    <2>1. 1500 * Signals!Minute = 90000
      BY SMT DEF Signals!Minute
    <2> QED
      BY <2>1 DEF Signals!Loaded
  <1>5. /\ B \subseteq C /\ A \subseteq B
    BY <1>4 DEF Signals!Loaded
  <1>6. /\ LA = {c \in A : c.symbol = s.symbol /\ c.open + 60 > end}
        /\ LB = {c \in B : c.symbol = s.symbol /\ c.open + 60 > end}
    BY DEF Signals!Later, Signals!ClosesAfter, Signals!Minute
  <1>7. /\ Signals!Window(A, s, h) =
             {c \in A : c.symbol = s.symbol /\ c.open + 60 > s.time /\ ~(c.open + 60 > end)}
             \cup {d}
        /\ Signals!Window(B, s, h) =
             {c \in B : c.symbol = s.symbol /\ c.open + 60 > s.time /\ ~(c.open + 60 > end)}
             \cup {Signals!Deciding(B, s, h)}
    BY DEF Signals!Window, Signals!ClosesAfter, Signals!Minute
  <1>8. /\ d = CHOOSE c \in E(LA) : TRUE
        /\ Signals!Deciding(B, s, h) = CHOOSE c \in E(LB) : TRUE
    BY DEF Signals!Deciding, Signals!Earliest
  <1>9. Signals!FallsIntoACandle(s, C)
          <=> \E c \in C : c.symbol = s.symbol /\ c.open < s.time /\ c.open + 60 > s.time
    BY DEF Signals!FallsIntoACandle, Signals!ClosesAfter, Signals!Minute
  <1> HIDE DEF LA, LB, d, end, day
  <1>10. LA \subseteq LB /\ LA # {} /\ LB \subseteq C
    BY <1>5, <1>6 DEF LA
  <1>11. \A c \in LB \ LA : c.open > day
    <2>1. ASSUME NEW c \in LB \ LA PROVE c.open > day
      <3>1. c \in C /\ c \notin A /\ c.symbol = s.symbol /\ c.open + 60 > end /\ c.open \in Nat
        BY <1>3, <1>5, <1>6, <2>1
      <3>2. s.time <= c.open
        BY <1>1, <1>2, <3>1
      <3>3. ~(c.open <= day)
        BY <1>4, <3>1, <3>2, Zenon
      <3> QED
        BY <1>2, <3>1, <3>3
    <2> QED
      BY <2>1
  <1>12. \A c \in LA : c.open <= day /\ c.open \in Nat
    BY <1>3, <1>4, <1>6
  <1>13. E(LA) = E(LB)
    <2>1. ASSUME NEW c \in E(LA) PROVE c \in E(LB)
      <3>1. ASSUME NEW e \in LB PROVE c.open <= e.open
        <4>1. CASE e \in LA
          BY <2>1, <4>1
        <4>2. CASE e \notin LA
          BY <1>2, <1>3, <1>10, <1>11, <1>12, <2>1, <3>1, <4>2
        <4> QED
          BY <4>1, <4>2
      <3> QED
        BY <1>10, <2>1, <3>1
    <2>2. ASSUME NEW c \in E(LB) PROVE c \in E(LA)
      <3>1. PICK a \in LA : TRUE
        BY <1>10
      <3>2. c.open <= a.open /\ a.open <= day /\ c.open \in Nat /\ a.open \in Nat
        BY <1>3, <1>10, <1>12, <2>2, <3>1
      <3>3. c \in LA
        BY <1>2, <1>11, <2>2, <3>2
      <3> QED
        BY <1>10, <2>2, <3>3
    <2> QED
      BY <2>1, <2>2
  <1>14. d \in LA
    <2> DEFINE f == [c \in LA |-> c.open]
               T == {f[c] : c \in LA}
    <2>1. IsFiniteSet(LA) /\ f \in [LA -> Nat]
      BY <1>3, <1>10, FS_Subset DEF StoredCandles
    <2>2. T # {} /\ T \subseteq Nat
      BY <1>10, <2>1
    <2> HIDE DEF T
    <2>3. PICK t \in T : \A u \in T : t <= u
      BY <2>2, LeastNatural
    <2>4. PICK c \in LA : t = c.open
      BY <2>3 DEF T
    <2>5. c \in E(LA)
      BY <2>3, <2>4 DEF T
    <2> QED
      BY <1>8, <2>5
  <1>15. Signals!Deciding(B, s, h) = d
    BY <1>8, <1>13
  <1>16. ~Signals!FallsIntoACandle(s, C)
           => \A c \in B : c.symbol = s.symbol /\ c.open + 60 > s.time /\ ~(c.open + 60 > end)
                           => c \in A
    <2>1. ASSUME ~Signals!FallsIntoACandle(s, C), NEW c \in B,
                 c.symbol = s.symbol, c.open + 60 > s.time, ~(c.open + 60 > end)
          PROVE  c \in A
      <3>1. c \in C /\ c.open \in Nat
        BY <1>3, <1>5
      <3>2. ~(c.open < s.time)
        BY <1>9, <2>1, <3>1
      <3>3. s.time <= c.open /\ c.open <= day
        BY <1>1, <1>2, <2>1, <3>1, <3>2
      <3> QED
        BY <1>4, <2>1, <3>1, <3>3, Zenon
    <2> QED
      BY <2>1
  <1>17. LB # {}
    BY <1>10
  <1>18. Signals!Window(A, s, h) \subseteq Signals!Window(B, s, h)
    BY <1>5, <1>7, <1>15
  <1>19. Signals!Window(B, s, h) \subseteq C /\ d \in C
    BY <1>5, <1>7, <1>10, <1>14, <1>15
  <1>20. ~Signals!FallsIntoACandle(s, C)
            => Signals!Window(A, s, h) = Signals!Window(B, s, h)
    BY <1>5, <1>7, <1>15, <1>16
  <1> QED
    BY <1>15, <1>17, <1>18, <1>19, <1>20 DEF LB, d

(* The outcomes of signals: one for every horizon their candles reach beyond.  *)
LEMMA OutcomesAre ==
    ASSUME NEW S, NEW C
    PROVE  /\ \A o : o \in Signals!Outcomes(S, C) <=>
                \E s \in S, h \in Longest : Signals!Later(C, s, h) # {}
                                            /\ o = Signals!Outcome(s, h, C)
           /\ \A s, h : /\ Signals!Outcome(s, h, C).signal = s
                        /\ Signals!Outcome(s, h, C).horizon = h
  <1> DEFINE P == {q \in S \X Longest : Signals!Later(C, q[1], q[2]) # {}}
  <1>1. Signals!Outcomes(S, C) = {Signals!Outcome(p[1], p[2], C) : p \in P}
    BY HorizonsAreFinite DEF Signals!Outcomes
  <1>2. \A s, h : <<s, h>> \in P <=> s \in S /\ h \in Longest /\ Signals!Later(C, s, h) # {}
    OBVIOUS
  <1>3. \A p \in P : p = <<p[1], p[2]>>
    OBVIOUS
  <1>4. \A s, h : <<s, h>>[1] = s /\ <<s, h>>[2] = h
    OBVIOUS
  <1>5. \A s, h : /\ Signals!Outcome(s, h, C).signal = s
                  /\ Signals!Outcome(s, h, C).horizon = h
    BY DEF Signals!Outcome, Signals!Judged
  <1> HIDE DEF P
  <1>6. ASSUME NEW o
        PROVE  o \in Signals!Outcomes(S, C) <=>
                \E s \in S, h \in Longest : Signals!Later(C, s, h) # {}
                                            /\ o = Signals!Outcome(s, h, C)
    <2>1. ASSUME o \in Signals!Outcomes(S, C)
          PROVE  \E s \in S, h \in Longest : Signals!Later(C, s, h) # {}
                                            /\ o = Signals!Outcome(s, h, C)
      BY <1>1, <1>2, <1>3, <2>1
    <2>2. ASSUME NEW s \in S, NEW h \in Longest, Signals!Later(C, s, h) # {},
                 o = Signals!Outcome(s, h, C)
          PROVE  o \in Signals!Outcomes(S, C)
      <3>1. <<s, h>> \in P
        BY <1>2, <2>2
      <3>2. o = Signals!Outcome(<<s, h>>[1], <<s, h>>[2], C)
        BY <1>4, <2>2
      <3> QED
        BY <1>1, <3>1, <3>2
    <2> QED
      BY <2>1, <2>2
  <1> QED
    BY <1>5, <1>6

(* So is a signal judged with and without the others.                         *)
LEMMA JudgedTheSame ==
    ASSUME NEW S, StoredSignals(S), NEW C, StoredCandles(C)
    PROVE  Signals!JudgedAlone(S, C, Signals!Outcomes(S, Signals!Loaded(C, S)))
  <1> DEFINE B == Signals!Loaded(C, S)
             X == Signals!Outcomes(S, B)
  <1>1. ASSUME NEW s \in S
        PROVE  /\ \A o \in Signals!Outcomes({s}, Signals!Loaded(C, {s})) :
                     \E more \in {o2 \in X : o2.signal = s} : Signals!SeesMore(more, o)
               /\ \A more \in {o2 \in X : o2.signal = s} :
                    \/ \E o \in Signals!Outcomes({s}, Signals!Loaded(C, {s})) :
                          Signals!SeesMore(more, o)
                    \/ Signals!Later(Signals!Loaded(C, {s}), s, more.horizon) = {}
               /\ \/ Signals!FallsIntoACandle(s, C)
                  \/ Signals!Outcomes({s}, Signals!Loaded(C, {s}))
                       \subseteq {o2 \in X : o2.signal = s}
    <2> DEFINE A == Signals!Loaded(C, {s})
               alone == Signals!Outcomes({s}, A)
               oa(h) == Signals!Outcome(s, h, A)
               ob(h) == Signals!Outcome(s, h, B)
    <2> HIDE DEF A, B
    <2>1. ASSUME NEW h \in Longest, Signals!Later(A, s, h) # {}
          PROVE  /\ Signals!Later(B, s, h) # {} /\ Signals!SeesMore(ob(h), oa(h))
                 /\ Signals!FallsIntoACandle(s, C) \/ oa(h) = ob(h)
      <3> DEFINE d == Signals!Deciding(A, s, h)
                 V == Signals!Window(B, s, h)
                 W == Signals!Window(A, s, h)
      <3>1. /\ Signals!Later(B, s, h) # {} /\ Signals!Deciding(B, s, h) = d /\ d \in C
            /\ W \subseteq V /\ V \subseteq C /\ (~Signals!FallsIntoACandle(s, C) => W = V)
        BY <2>1, SameCandleDecides DEF A, B
      <3>2. /\ oa(h) = Signals!Judged(s, h, d.price, W)
            /\ ob(h) = Signals!Judged(s, h, d.price, V)
        BY <3>1 DEF Signals!Outcome
      <3>3. W # {}
        BY DEF Signals!Window
      <3> HIDE DEF d, V, W
      <3>4. StoredCandles(V) /\ d.price \in Int
        BY <3>1, FS_Subset DEF StoredCandles
      <3>5. s.price \in Nat \ {0} /\ (s.level # None => s.level \in Int)
        BY DEF StoredSignals
      <3> DEFINE p == d.price
      <3> HIDE DEF p
      <3>6. Signals!SeesMore(Signals!Judged(s, h, p, V), Signals!Judged(s, h, p, W))
        <4>1. W \in SUBSET V /\ p \in Int
          BY <3>1, <3>4 DEF p
        <4> QED
          BY <3>3, <3>4, <3>5, <4>1, MoreCandlesSeeMore
      <3> QED
        BY <3>1, <3>2, <3>6 DEF p
    <2>2. \A o : o \in alone <=>
             \E h \in Longest : Signals!Later(A, s, h) # {} /\ o = oa(h)
      BY OutcomesAre
    <2>3. \A o : o \in X /\ o.signal = s <=>
             \E h \in Longest : Signals!Later(B, s, h) # {} /\ o = ob(h)
      BY OutcomesAre
    <2>4. \A h : ob(h).horizon = h
      BY DEF Signals!Outcome, Signals!Judged
    <2> HIDE DEF oa, ob, alone, X
    <2>5. \A o \in alone : \E more \in {o2 \in X : o2.signal = s} : Signals!SeesMore(more, o)
      BY <2>1, <2>2, <2>3
    <2>6. \A more \in {o2 \in X : o2.signal = s} :
            \/ \E o \in alone : Signals!SeesMore(more, o)
            \/ Signals!Later(A, s, more.horizon) = {}
      BY <2>1, <2>2, <2>3, <2>4
    <2>7. Signals!FallsIntoACandle(s, C) \/ alone \subseteq {o2 \in X : o2.signal = s}
      BY <2>1, <2>2, <2>3
    <2> QED
      BY <2>5, <2>6, <2>7 DEF A, alone
  <1> HIDE DEF X
  <1>2. Signals!JudgedAlone(S, C, X)
    BY <1>1 DEF Signals!JudgedAlone
  <1> QED
    BY <1>2 DEF X

(* Outcomes of stored signals and candles have a return and a horizon.        *)
LEMMA OutcomesReturn ==
    ASSUME NEW S, StoredSignals(S), NEW C, StoredCandles(C)
    PROVE  /\ Returning(Signals!Outcomes(S, C)) /\ OnHorizons(Signals!Outcomes(S, C))
           /\ Returning(Signals!Directional(Signals!Outcomes(S, C)))
           /\ OnHorizons(Signals!Directional(Signals!Outcomes(S, C)))
  <1> DEFINE X == Signals!Outcomes(S, C)
             P == {q \in S \X Longest : Signals!Later(C, q[1], q[2]) # {}}
             f == [p \in P |-> Signals!Outcome(p[1], p[2], C)]
  <1>1. IsFiniteSet(X)
    <2>1. IsFiniteSet(S \X Longest)
      BY HorizonsAreFinite, FS_Product DEF StoredSignals
    <2>2. IsFiniteSet(P)
      BY <2>1, FS_Subset
    <2>3. X = {f[p] : p \in P}
      <3>1. X = {Signals!Outcome(p[1], p[2], C) : p \in P}
        BY HorizonsAreFinite DEF Signals!Outcomes
      <3> HIDE DEF X, P
      <3> QED
        BY <3>1
    <2> HIDE DEF P
    <2>4. DOMAIN f = P
      OBVIOUS
    <2> HIDE DEF f, X
    <2> QED
      BY <2>2, <2>3, <2>4, FiniteImage
  <1>2. ASSUME NEW o \in X PROVE o.return \in Int /\ o.horizon \in Longest
    <2>1. PICK s \in S, h \in Longest : /\ Signals!Later(C, s, h) # {}
                                        /\ o = Signals!Outcome(s, h, C)
      BY OutcomesAre
    <2> DEFINE L == Signals!Later(C, s, h)
               d == Signals!Deciding(C, s, h)
               p == d.price
               g == [c \in L |-> c.open]
               T == {g[c] : c \in L}
    <2>2. L \subseteq C /\ L # {} /\ \A c \in C : c.open \in Nat /\ c.price \in Int
      BY <2>1 DEF StoredCandles, Signals!Later
    <2>3. d = CHOOSE c \in {x \in L : \A e \in L : x.open <= e.open} : TRUE
      BY DEF Signals!Deciding, Signals!Earliest
    <2> HIDE DEF L, d
    <2>4. T # {} /\ T \subseteq Nat
      BY <2>2
    <2> HIDE DEF T
    <2>5. PICK t \in T : \A u \in T : t <= u
      BY <2>4, LeastNatural
    <2>6. PICK c \in L : t = c.open
      BY <2>5 DEF T
    <2>7. c \in {x \in L : \A e \in L : x.open <= e.open}
      BY <2>5, <2>6 DEF T
    <2>8. d \in L
      BY <2>3, <2>7
    <2>9. p \in Int
      BY <2>2, <2>8
    <2>10. s.price \in Nat \ {0}
      BY DEF StoredSignals
    <2>11. o.horizon = h /\ o.return = Signals!Direction(s) * Signals!Return(s, p)
      BY <2>1 DEF Signals!Outcome, Signals!Judged, d
    <2> HIDE DEF p
    <2>12. Signals!Return(s, p) \in Int
      BY <2>9, <2>10, ReturnGrows
    <2>13. Signals!Direction(s) \in Int
      BY DirectionIs
    <2> QED
      BY <2>11, <2>12, <2>13
  <1>3. Returning(X) /\ OnHorizons(X)
    <2> HIDE DEF X
    <2> QED
      BY <1>1, <1>2 DEF Returning, OnHorizons
  <1>4. Signals!Directional(X) \subseteq X
    BY DEF Signals!Directional
  <1>5. Returning(Signals!Directional(X)) /\ OnHorizons(Signals!Directional(X))
    <2> HIDE DEF X
    <2> QED
      BY <1>3, <1>4, FS_Subset DEF Returning, OnHorizons
  <1> QED
    BY <1>3, <1>5

(* A report on similar setups knows a best horizon when there are outcomes, and *)
(* this horizon gains when it calls the setup promising.                      *)
LEMMA SetupsNeverMislead ==
    ASSUME NEW S, StoredSignals(S), NEW C, StoredCandles(C)
    PROVE  Signals!SetupsAgree(S, C)
  <1>1. ASSUME NEW symbol \in {btc, eth}, NEW R, R = Signals!SimilarToLatest(S, symbol, C, None)
        PROVE  /\ \A h \in DOMAIN R.horizons :
                     Signals!Measured(R.horizons[h]) => R.best \in DOMAIN R.horizons
               /\ R.reliability \in {"strong", "promising"} =>
                     Signals!Gains(R.horizons[R.best])
    <2> DEFINE latest == Signals!Latest(S, symbol)
               setup == Signals!Descriptor(latest)
               M == Signals!Similar(S \ {latest}, setup)
               J == Signals!Directional(Signals!Chosen(Signals!Outcomes(M, C), None))
               G == Signals!ByHorizon(J)
               m == Signals!Metric(J)
               b == Signals!BestHorizon(G)
    <2>1. R.reliability = Signals!Reliability(m) /\ R.horizons = G /\ R.best = b
      BY <1>1 DEF Signals!SimilarToLatest, Signals!SimilarReport
    <2>2. StoredSignals(M)
      <3>1. M \subseteq S
        BY DEF Signals!Similar
      <3> HIDE DEF M
      <3> QED
        BY <3>1, FS_Subset DEF StoredSignals
    <2> HIDE DEF M
    <2>3. Returning(J) /\ OnHorizons(J) /\ J = Signals!Directional(J)
      <3> DEFINE X == Signals!Outcomes(M, C)
      <3>1. Returning(X) /\ OnHorizons(X)
        BY <2>2, OutcomesReturn
      <3> HIDE DEF X
      <3>2. J \subseteq X /\ J = Signals!Directional(J)
        BY DEF Signals!Directional, Signals!Chosen, X
      <3> HIDE DEF J
      <3> QED
        BY <3>1, <3>2, FS_Subset DEF Returning, OnHorizons
    <2> HIDE DEF J
    <2>4. DOMAIN G = Longest /\ \A h \in Longest : Counted(G[h])
      <3>1. G = [h \in Longest |-> Signals!Metric({o \in J : o.horizon = h})]
        BY <2>3, GroupsByHorizon
      <3>2. ASSUME NEW h \in Longest PROVE Counted(G[h])
        <4> DEFINE Q == {o \in J : o.horizon = h}
        <4>1. Q \subseteq J /\ G[h] = Signals!Metric(Q)
          BY <3>1
        <4> HIDE DEF Q, G
        <4>2. Returning(Q)
          BY <2>3, <4>1, FS_Subset DEF Returning
        <4> QED
          BY <4>1, <4>2, MetricIs
      <3> QED
        BY <3>1, <3>2
    <2>5. \A h \in DOMAIN R.horizons :
             Signals!Measured(R.horizons[h]) => R.best \in DOMAIN R.horizons
      <3>1. ASSUME NEW h \in Longest, Signals!Measured(G[h]) PROVE b \in Longest
        <4> HIDE DEF G
        <4> QED
          BY <2>4, <3>1, BestIsBest
      <3> QED
        BY <2>1, <2>4, <3>1
    <2>6. ASSUME R.reliability \in {"strong", "promising"}
          PROVE  Signals!Gains(R.horizons[R.best])
      <3>1. Signals!Gains(m)
        <4>1. Counted(m)
          BY <2>3, MetricIs
        <4>2. Signals!Reliability(m) \in {"strong", "promising"}
          BY <2>1, <2>6
        <4> HIDE DEF m
        <4>3. ~(m.judged < 3) /\ Signals!Expectancy(m) > 0
          BY <4>2 DEF Signals!Reliability
        <4>4. m.judged > 0
          BY <4>1, <4>3 DEF Counted
        <4> QED
          BY <4>3, <4>4 DEF Signals!Gains, Signals!Measured
      <3> HIDE DEF G
      <3>2. PICK h \in Longest : Signals!Gains(G[h])
        BY <2>3, <3>1, SomeHorizonGains DEF G, m
      <3>3. Signals!Measured(G[h]) /\ Signals!Expectancy(G[h]) > 0
            /\ Signals!Expectancy(G[h]) \in Int
        BY <2>4, <3>2, EdgesExclude DEF Signals!Gains
      <3>4. /\ b \in Longest /\ Signals!Measured(G[b])
            /\ Signals!Worth(G[b]) >= Signals!Worth(G[h])
            /\ Signals!Worth(G[b]) \in Int /\ Signals!Worth(G[h]) \in Int
        BY <2>4, <3>3, BestIsBest
      <3> HIDE DEF b
      <3>5. Signals!Worth(G[h]) = Signals!Expectancy(G[h])
        BY <3>3 DEF Signals!Worth
      <3>6. Signals!Worth(G[b]) > 0
        BY <3>3, <3>4, <3>5
      <3>7. Signals!Worth(G[b]) = Signals!Expectancy(G[b])
        <4>1. ~(-9990000 > 0)
          BY SMT
        <4> QED
          BY <3>6, <4>1 DEF Signals!Worth
      <3>8. Signals!Gains(G[b])
        BY <3>4, <3>6, <3>7 DEF Signals!Gains
      <3> QED
        BY <2>1, <3>8
    <2> QED
      BY <2>5, <2>6
  <1> QED
    BY <1>1 DEF Signals!SetupsAgree

(* Whatever signals and candles are stored: no report on signals restricts what *)
(* another finds useful, all groupings of a report have every outcome once,    *)
(* no verdict depends on the signals it is asked for with but in what it says  *)
(* of the candle the signal fell into, or where a day has no later candle, and *)
(* no setup is called promising that gains on no horizon.                     *)
THEOREM SignalReportsAlwaysAgree ==
    ASSUME NEW S, StoredSignals(S), NEW C, StoredCandles(C)
    PROVE  Signals!AgreeOn(S, C)
  <1> DEFINE B == Signals!Loaded(C, S)
             X == Signals!Outcomes(S, B)
  <1>1. StoredCandles(B)
    <2>1. B \subseteq C
      BY DEF Signals!Loaded
    <2> HIDE DEF B
    <2> QED
      BY <2>1, FS_Subset DEF StoredCandles
  <1>2. Signals!JudgedAlone(S, C, X)
    BY JudgedTheSame
  <1> HIDE DEF B
  <1>3. Returning(X) /\ OnHorizons(X)
    BY <1>1, OutcomesReturn
  <1>4. Signals!SetupsAgree(S, B)
    BY <1>1, SetupsNeverMislead
  <1> HIDE DEF X
  <1>5. Signals!GroupsAddUp(Signals!ValidationReport(S, X), X)
    BY <1>3, ReportAddsUp
  <1>6. Signals!Cardinality(Signals!Directional(X)) >= Signals!MinSamples =>
          Signals!AdviceAgrees(Signals!EdgeReport(X), Signals!Recommendations(X))
    <2>1. Signals!Cardinality(Signals!Directional(X)) = Cardinality(Signals!Directional(X))
          /\ Signals!MinSamples = 6
      BY SameLibraries DEF Signals!MinSamples
    <2> QED
      BY <1>3, <2>1, AdviceNeverConflicts
  <1> QED
    BY <1>2, <1>4, <1>5, <1>6 DEF Signals!AgreeOn, X, B

(* Every question about signals is one about stored signals and candles.       *)
LEMMA QuestionsAreStored ==
    ASSUME NEW q \in Signals!SignalQuestions
    PROVE  StoredSignals(Signals!Snapshots(q)) /\ StoredCandles(Signals!Candles(q))
  <1> DEFINE Kept(s) == /\ s.time \in Nat /\ s.price \in Nat \ {0}
                        /\ s.level # None => s.level \in Int
             Sold(c) == c.open \in Nat /\ c.price \in Int /\ c.high \in Int /\ c.low \in Int
  <1>1. \A id, symbol : \A price \in Nat \ {0} : Kept(Signals!Signal(id, symbol, price))
    BY DEF Signals!Signal
  <1>2. ASSUME NEW s \in Signals!Others PROVE Kept(s)
    <2>1. CASE s = [Signals!Signal(2, btc, 1010) EXCEPT !.time = 36 * 60 - 10, !.risk = "low"]
      <3>1. s.time = 36 * 60 - 10 /\ s.price = 1010 /\ s.level = None
        BY <2>1 DEF Signals!Signal
      <3> QED
        BY <3>1, SMT
    <2>2. CASE s = [Signals!Signal(2, btc, 1012) EXCEPT !.action = "sell_exit",
                        !.risk = "high"]
      <3>1. s.time = 0 /\ s.price = 1012 /\ s.level = None
        BY <2>2 DEF Signals!Signal
      <3> QED
        BY <3>1, SMT
    <2>3. CASE s = [Signals!Signal(2, btc, 1001) EXCEPT !.action = "hold", !.blocked = TRUE,
                        !.risk = "low", !.cost = 1000, !.blockers = {"spread"}, !.regime = None]
      <3>1. s.time = 0 /\ s.price = 1001 /\ s.level = None
        BY <2>3 DEF Signals!Signal
      <3> QED
        BY <3>1, SMT
    <2>4. CASE s = [Signals!Signal(2, btc, 1012) EXCEPT !.action = "avoid",
                        !.fusion = "short", !.time = 600 * 60]
      <3>1. s.time = 600 * 60 /\ s.price = 1012 /\ s.level = None
        BY <2>4 DEF Signals!Signal
      <3> QED
        BY <3>1, SMT
    <2>5. CASE s = [Signals!Signal(2, btc, 1000) EXCEPT !.action = "hold"]
      <3>1. s.time = 0 /\ s.price = 1000 /\ s.level = None
        BY <2>5 DEF Signals!Signal
      <3> QED
        BY <3>1, SMT
    <2> QED
      BY <2>1, <2>2, <2>3, <2>4, <2>5 DEF Signals!Others, Signals!Minute
  <1>3. q.other \in Signals!Others /\ q.prices \in [1 .. 5 -> {985, 1004, 1030}]
        /\ q.other.time \in Nat
    BY <1>2 DEF Signals!SignalQuestions
  <1>4. StoredSignals(Signals!Snapshots(q))
    <2> DEFINE one == Signals!Signal(1, btc, 1000)
               three == [Signals!Signal(0, eth, 1000) EXCEPT !.level = 990]
    <2>1. Kept(three)
      <3>1. three.time = 0 /\ three.price = 1000 /\ three.level = 990
        BY DEF Signals!Signal
      <3> QED
        BY <3>1, SMT
    <2>2. Kept(one)
      <3>1. 1000 \in Nat \ {0}
        BY SMT
      <3> QED
        BY <1>1, <3>1
    <2>3. Kept(q.other)
      BY <1>2, <1>3
    <2>4. Signals!Snapshots(q) = {one, q.other, three}
      BY DEF Signals!Snapshots
    <2> HIDE DEF one, three
    <2>5. {one, q.other, three} = ({one} \cup {q.other}) \cup {three}
      OBVIOUS
    <2>6. IsFiniteSet(Signals!Snapshots(q))
      <3>1. IsFiniteSet({one}) /\ IsFiniteSet({q.other}) /\ IsFiniteSet({three})
        BY FS_Singleton
      <3>2. IsFiniteSet({one} \cup {q.other})
        BY <3>1, FS_Union
      <3>3. IsFiniteSet(({one} \cup {q.other}) \cup {three})
        BY <3>1, <3>2, FS_Union
      <3> QED
        BY <2>4, <2>5, <3>3
    <2> QED
      BY <2>1, <2>2, <2>3, <2>4, <2>6 DEF StoredSignals
  <1>5. StoredCandles(Signals!Candles(q))
    <2>1. \A symbol : \A m \in Nat, p \in Int : Sold(Signals!Candle(symbol, m, p))
      BY SMT DEF Signals!Candle, Signals!Minute
    <2> DEFINE opens == Signals!Opens(q)
               f == [i \in 1 .. 5 |-> Signals!Candle(btc, opens[i], q.prices[i])]
               g == [i \in 1 .. 5 |-> Signals!Candle(btc, opens[i] + 30, q.prices[i] + 1)]
               k == [h \in {5, 15, 60, 240} |->
                        Signals!Candle(eth, h, IF h < 20 THEN 988 ELSE 1006)]
               F == {f[i] : i \in 1 .. 5}
               G == {g[i] : i \in 1 .. 5}
               K == {k[h] : h \in {5, 15, 60, 240}}
    <2>2. Signals!Candles(q) = (F \cup G) \cup K
      BY DEF Signals!Candles
    <2>3. ASSUME NEW i \in 1 .. 5 PROVE opens[i] \in Nat /\ q.prices[i] \in Int
      <3>1. q.prices[i] \in Int
        BY <1>3
      <3> DEFINE vh == <<5, 15, 60, 240, 1440>>
      <3>2. vh[i] \in Nat
        BY SMT
      <3>3. Signals!ValidationHorizons = vh
        BY DEF Signals!ValidationHorizons
      <3> HIDE DEF vh
      <3>4. opens[i] = 1510 \/ opens[i] = vh[i]
        BY <3>3 DEF Signals!Opens
      <3>5. 1510 \in Nat
        BY SMT
      <3> QED
        BY <3>1, <3>2, <3>4, <3>5
    <2> HIDE DEF opens
    <2>4. \A i \in 1 .. 5 : Sold(f[i]) /\ Sold(g[i])
      <3> SUFFICES ASSUME NEW i \in 1 .. 5 PROVE Sold(f[i]) /\ Sold(g[i])
        OBVIOUS
      <3> DEFINE m == opens[i]
                 p == q.prices[i]
      <3>1. m \in Nat /\ p \in Int
        BY <2>3
      <3>2. f[i] = Signals!Candle(btc, m, p) /\ g[i] = Signals!Candle(btc, m + 30, p + 1)
        OBVIOUS
      <3> HIDE DEF m, p, f, g, Sold
      <3>3. m + 30 \in Nat /\ p + 1 \in Int
        BY <3>1
      <3> QED
        BY <2>1, <3>1, <3>2, <3>3
    <2>5. \A h \in {5, 15, 60, 240} : Sold(k[h])
      <3> SUFFICES ASSUME NEW h \in {5, 15, 60, 240} PROVE Sold(k[h])
        OBVIOUS
      <3> DEFINE p == IF h < 20 THEN 988 ELSE 1006
      <3>1. h \in Nat /\ p \in Int
        BY SMT
      <3>2. k[h] = Signals!Candle(eth, h, p)
        OBVIOUS
      <3> HIDE DEF p, k, Sold
      <3> QED
        BY <2>1, <3>1, <3>2
    <2>6. IsFiniteSet(1 .. 5) /\ IsFiniteSet({5, 15, 60, 240})
      <3>1. IsFiniteSet(1 .. 5)
        <4>1. 1 \in Int /\ 5 \in Int
          OBVIOUS
        <4> QED
          BY <4>1, FS_Interval, Zenon
      <3>2. {5, 15, 60, 240} \subseteq Longest
        BY DEF Longest
      <3> QED
        BY <3>1, <3>2, HorizonsAreFinite, FS_Subset
    <2>7. DOMAIN f = 1 .. 5 /\ DOMAIN g = 1 .. 5 /\ DOMAIN k = {5, 15, 60, 240}
      OBVIOUS
    <2> HIDE DEF f, g, k, Sold
    <2>8. IsFiniteSet(F) /\ IsFiniteSet(G) /\ IsFiniteSet(K)
      BY <2>6, <2>7, FiniteImage
    <2>9. \A c \in (F \cup G) \cup K : Sold(c)
      BY <2>4, <2>5
    <2> HIDE DEF F, G, K
    <2>10. IsFiniteSet((F \cup G) \cup K)
      BY <2>8, FS_Union
    <2> QED
      BY <2>2, <2>9, <2>10 DEF StoredCandles, Sold
  <1> QED
    BY <1>4, <1>5

-----------------------------------------------------------------------------
(* The trades of a table one by one, and what they leave of the lots.         *)

(* The rows of a table: finitely many, one for each of their ids.            *)
Table(rows) ==
    /\ IsFiniteSet(rows)
    /\ \A r \in rows : r.id \in Nat
    /\ \A r, x \in rows : r.id = x.id => r = x

(* Some of the rows of a table are a table.                                   *)
LEMMA PartsAreTables ==
    ASSUME NEW rows, Table(rows), NEW s \in SUBSET rows
    PROVE  Table(s)
  BY FS_Subset DEF Table

(* The latest row comes after all the others.                                 *)
LEMMA LatestIsLast ==
    ASSUME NEW rows, Table(rows), rows # {}
    PROVE  /\ Trades!Latest(rows) \in rows
           /\ \A x \in rows : x.id <= Trades!Latest(rows).id
           /\ rows \ {Trades!Latest(rows)} = Trades!Earlier(rows, Trades!Latest(rows))
           /\ Trades!Through(rows, Trades!Latest(rows)) = rows
  <1> DEFINE f == [r \in rows |-> r.id]
             ids == {f[r] : r \in rows}
             last == Trades!Latest(rows)
  <1>1. IsFiniteSet(ids)
    <2>1. IsFiniteSet(rows) /\ DOMAIN f = rows
      BY DEF Table
    <2> HIDE DEF f
    <2> QED
      BY <2>1, FiniteImage, Zenon
  <1>2. ids # {} /\ ids \subseteq Int
    BY DEF Table
  <1>3. Max(ids) \in ids /\ \A x \in ids : x <= Max(ids)
    <2> HIDE DEF ids
    <2> QED
      BY <1>1, <1>2, FiniteExtremes, Zenon
  <1>4. \E r \in rows : \A x \in rows : x.id <= r.id
    BY <1>3
  <1>5. last \in rows /\ \A x \in rows : x.id <= last.id
    BY <1>4 DEF Trades!Latest
  <1> HIDE DEF last
  <1>6. \A x \in rows : x # last => x.id < last.id
    BY <1>5 DEF Table
  <1>7. last.id \in Nat
    BY <1>5 DEF Table
  <1> QED
    BY <1>5, <1>6, <1>7 DEF last, Trades!Earlier, Trades!Through

(* What is left of the lots after each part of the trades ...                 *)
NextLeft(g, s) ==
    IF s = {} THEN [lot \in {} |-> 0]
    ELSE Trades!Replayed(g[s \ {Trades!Latest(s)}], Trades!Latest(s))
Lefts(S) == CHOOSE g : g = [s \in SUBSET S |-> NextLeft(g, s)]

(* What is left of the lots after each part of the trades.                    *)
LEMMA LeftsExist ==
    ASSUME NEW S, Table(S)
    PROVE  \E g : g = [s \in SUBSET S |-> NextLeft(g, s)]
  <1> DEFINE Small(n) == {s \in SUBSET S : Cardinality(s) <= n}
             N == {n \in Nat : \E g : g = [s \in Small(n) |-> NextLeft(g, s)]}
  <1>1. \A s \in SUBSET S : IsFiniteSet(s) /\ Cardinality(s) \in Nat
    BY FS_Subset, FS_CardinalityType DEF Table
  <1>2. ASSUME NEW n \in Nat, NEW s \in Small(n + 1), s # {}
        PROVE  s \ {Trades!Latest(s)} \in Small(n)
    <2>1. s \in SUBSET S /\ Cardinality(s) <= n + 1 /\ Cardinality(s) \in Nat
      BY <1>1
    <2>2. Trades!Latest(s) \in s
      BY <1>2, <2>1, PartsAreTables, LatestIsLast, Zenon
    <2>3. Cardinality(s \ {Trades!Latest(s)}) = Cardinality(s) - 1
      BY <1>1, <2>1, <2>2, FS_RemoveElement
    <2> QED
      BY <2>1, <2>3
  <1>3. 0 \in N
    <2> DEFINE g == [s \in Small(0) |-> [lot \in {} |-> 0]]
    <2>1. \A s \in Small(0) : s = {}
      BY <1>1, FS_EmptySet
    <2>2. \A s \in Small(0) : NextLeft(g, s) = [lot \in {} |-> 0]
      BY <2>1 DEF NextLeft
    <2>3. g = [s \in Small(0) |-> NextLeft(g, s)]
      <3> HIDE DEF Small
      <3> QED
        BY <2>2
    <2> HIDE DEF g, Small
    <2> QED
      BY <2>3
  <1>4. ASSUME NEW n \in Nat, n \in N PROVE n + 1 \in N
    <2>1. PICK g : g = [s \in Small(n) |-> NextLeft(g, s)]
      BY <1>4
    <2> DEFINE h == [s \in Small(n + 1) |-> NextLeft(g, s)]
    <2>2. \A s \in Small(n) : s \in Small(n + 1)
      BY <1>1
    <2> HIDE DEF Small
    <2>3. \A s \in Small(n) : h[s] = g[s]
      BY <2>1, <2>2
    <2>4. ASSUME NEW s \in Small(n + 1) PROVE NextLeft(g, s) = NextLeft(h, s)
      <3>1. CASE s = {}
        BY <3>1 DEF NextLeft
      <3>2. CASE s # {}
        <4>1. h[s \ {Trades!Latest(s)}] = g[s \ {Trades!Latest(s)}]
          BY <1>2, <2>3, <3>2
        <4> HIDE DEF h
        <4> QED
          BY <3>2, <4>1 DEF NextLeft
      <3> QED
        BY <3>1, <3>2
    <2>5. h = [s \in Small(n + 1) |-> NextLeft(h, s)]
      BY <2>4
    <2> HIDE DEF h
    <2> QED
      BY <2>5
  <1>5. Cardinality(S) \in N
    <2> HIDE DEF N
    <2>1. Nat \subseteq N
      BY <1>3, <1>4, NaturalsByStep
    <2> QED
      BY <1>1, <2>1
  <1>6. Small(Cardinality(S)) = SUBSET S
    BY FS_Subset DEF Table
  <1> QED
    BY <1>5, <1>6

(* ... are found trade by trade.                                              *)
LEMMA LeftTradeByTrade ==
    ASSUME NEW S, Table(S)
    PROVE  /\ Trades!LeftOf({}) = [lot \in {} |-> 0]
           /\ S # {} => Trades!LeftOf(S) =
                Trades!Replayed(Trades!LeftOf(S \ {Trades!Latest(S)}), Trades!Latest(S))
  <1>1. ASSUME NEW T, Table(T)
        PROVE  /\ \A s \in SUBSET T : Lefts(T)[s] = NextLeft(Lefts(T), s)
               /\ Trades!LeftOf(T) = Lefts(T)[T]
    <2>1. Lefts(T) = [s \in SUBSET T |-> NextLeft(Lefts(T), s)]
      BY <1>1, LeftsExist DEF Lefts
    <2>2. Trades!LeftOf(T) = Lefts(T)[T]
      BY DEF Trades!LeftOf, Lefts, NextLeft
    <2> DEFINE g == Lefts(T)
    <2> HIDE DEF g
    <2>3. \A s \in SUBSET T : g[s] = NextLeft(g, s)
      BY <2>1 DEF g
    <2> QED
      BY <2>2, <2>3 DEF g
  <1>2. Trades!LeftOf({}) = [lot \in {} |-> 0]
    <2>1. Table({})
      BY FS_EmptySet DEF Table
    <2> QED
      BY <1>1, <2>1 DEF NextLeft
  <1>3. ASSUME S # {}
        PROVE  Trades!LeftOf(S) =
                 Trades!Replayed(Trades!LeftOf(S \ {Trades!Latest(S)}), Trades!Latest(S))
    <2> DEFINE T == S \ {Trades!Latest(S)}
               f == Lefts(S)
               g == Lefts(T)
               G == {s \in SUBSET T : g[s] = f[s]}
    <2>1. Table(T) /\ T \in SUBSET S
      BY PartsAreTables
    <2>2. /\ \A s \in SUBSET S : f[s] = NextLeft(f, s)
          /\ \A s \in SUBSET T : g[s] = NextLeft(g, s)
          /\ Trades!LeftOf(S) = f[S] /\ Trades!LeftOf(T) = g[T]
      <3> HIDE DEF T
      <3> QED
        BY <1>1, <2>1
    <2> HIDE DEF f, g
    <2>3. {} \in G
      BY <2>2 DEF NextLeft
    <2>4. ASSUME NEW s \in SUBSET T, s # {}
          PROVE  \E a \in s : s \ {a} \in G => s \in G
      <3>1. Trades!Latest(s) \in s
        <4> HIDE DEF T
        <4> QED
          BY <2>1, <2>4, PartsAreTables, LatestIsLast, Zenon
      <3>2. ASSUME s \ {Trades!Latest(s)} \in G PROVE s \in G
        <4>1. g[s \ {Trades!Latest(s)}] = f[s \ {Trades!Latest(s)}]
          BY <3>2
        <4>2. NextLeft(f, s) = NextLeft(g, s)
          BY <2>4, <4>1 DEF NextLeft
        <4> HIDE DEF T
        <4>3. f[s] = NextLeft(f, s) /\ g[s] = NextLeft(g, s)
          BY <2>1, <2>2
        <4> QED
          BY <4>2, <4>3
      <3> HIDE DEF G
      <3> QED
        BY <3>1, <3>2
    <2>5. \A s \in SUBSET T : s \in G
      <3> HIDE DEF G, T
      <3>1. IsFiniteSet(T)
        BY <2>1 DEF Table
      <3> QED
        BY <2>3, <2>4, <3>1, SubsetsByOne
    <2>6. g[T] = f[T]
      <3> HIDE DEF T
      <3> QED
        BY <2>5
    <2>7. f[S] = Trades!Replayed(f[T], Trades!Latest(S))
      BY <1>3, <2>2 DEF NextLeft
    <2> QED
      BY <2>2, <2>6, <2>7
  <1> QED
    BY <1>2, <1>3

-----------------------------------------------------------------------------
(* Sums, prefixes of a table and what a sale takes.                           *)

(* The instance of the trade reports has the library's operators.            *)
LEMMA SameLibrariesOfTrades ==
    ASSUME NEW S, NEW n, NEW d, NEW k
    PROVE  /\ Trades!Cardinality(S) = Cardinality(S)
           /\ Trades!Max(S) = Max(S) /\ Trades!Min(S) = Min(S)
           /\ Trades!SumFunction(S) = SumFunction(S)
           /\ Trades!HalfUp(n, d) = HalfUp(n, d)
           /\ Trades!Clamp(n, d, k) = Clamp(n, d, k)
  <1>1. Trades!Cardinality(S) = Cardinality(S)
    BY DEF Trades!Cardinality, Cardinality
  <1>2. Trades!Max(S) = Max(S) /\ Trades!Min(S) = Min(S)
    BY DEF Trades!Max, Max, Trades!Min, Min
  <1>3. Trades!SumFunction(S) = SumFunction(S)
    BY DEF Trades!SumFunction, Trades!SumFunctionOnSet, Trades!FoldFunctionOnSet,
           Trades!MapThenFoldSet, SumFunction, SumFunctionOnSet, FoldFunctionOnSet,
           MapThenFoldSet
  <1>4. Trades!HalfUp(n, d) = HalfUp(n, d) /\ Trades!Clamp(n, d, k) = Clamp(n, d, k)
    BY DEF Trades!HalfUp, HalfUp, Trades!Clamp, Clamp
  <1> QED
    BY <1>1, <1>2, <1>3, <1>4

(* The rows of a table up to some point.                                      *)
Prefix(s, rows) == /\ s \in SUBSET rows
                   /\ \A x \in rows, y \in s : x.id < y.id => x \in s

(* What comes before the latest row of a prefix is a prefix, and all that     *)
(* comes before it.                                                           *)
LEMMA PrefixWithoutLatest ==
    ASSUME NEW rows, Table(rows), NEW s, Prefix(s, rows), s # {},
           NEW a, a = Trades!Latest(s)
    PROVE  /\ a \in s
           /\ Prefix(s \ {a}, rows)
           /\ s \ {a} = Trades!Earlier(rows, a)
           /\ s = Trades!Through(rows, a)
  <1>1. Table(s) /\ s \in SUBSET rows
    BY PartsAreTables DEF Prefix
  <1>2. /\ a \in s /\ \A x \in s : x.id <= a.id
        /\ s \ {a} = Trades!Earlier(s, a) /\ Trades!Through(s, a) = s
    BY <1>1, LatestIsLast
  <1>3. Trades!Earlier(s, a) = Trades!Earlier(rows, a)
    BY <1>1, <1>2 DEF Prefix, Trades!Earlier
  <1>4. Trades!Through(rows, a) = s
    BY <1>1, <1>2 DEF Prefix, Trades!Through, Table
  <1>5. Prefix(s \ {a}, rows)
    <2> SUFFICES ASSUME NEW x \in rows, NEW y \in s \ {a}, x.id < y.id
                 PROVE  x \in s \ {a}
      BY <1>1 DEF Prefix
    <2>1. x \in s
      BY DEF Prefix
    <2>2. y.id <= a.id /\ x.id \in Nat /\ y.id \in Nat /\ a.id \in Nat
      BY <1>1, <1>2 DEF Table
    <2>3. x # a
      BY <2>2
    <2> QED
      BY <2>1, <2>3
  <1> QED
    BY <1>2, <1>3, <1>4, <1>5

(* A sale takes what it wants, or all that is left.                           *)
LEMMA TakenAddsUp ==
    ASSUME NEW S, Table(S), NEW left \in [S -> Nat], NEW w \in Nat
    PROVE  /\ Trades!Taken(left, w) \in [S -> Nat]
           /\ \A lot \in S : Trades!Taken(left, w)[lot] <= left[lot]
           /\ SumFunction(Trades!Taken(left, w))
                = IF w <= SumFunction(left) THEN w ELSE SumFunction(left)
  <1> DEFINE taken == Trades!Taken(left, w)
             f == Sums(left, S)
             h == Sums(taken, S)
             G == {s \in SUBSET S : Prefix(s, S) => h[s] = IF w <= f[s] THEN w ELSE f[s]}
  <1>1. IsFiniteSet(S) /\ left \in [S -> Int] /\ DOMAIN left = S
    BY DEF Table
  <1>2. /\ \A s \in SUBSET S : f[s] = NextSum(left, f, s) /\ f[s] \in Int
        /\ \A s \in SUBSET S : \A a \in s : f[s] = left[a] + f[s \ {a}]
        /\ SumFunction(left) = f[S]
    BY <1>1, SumsAre, SumTakesAny
  <1>3. \A s \in SUBSET S : SumFunction([x \in s |-> left[x]]) = f[s] /\ f[s] \in Nat
    <2> SUFFICES ASSUME NEW s \in SUBSET S
                 PROVE  SumFunction([x \in s |-> left[x]]) = f[s] /\ f[s] \in Nat
      OBVIOUS
    <2>1. SumFunction([x \in s |-> left[x]]) = f[s]
      BY <1>1, SumOfPart
    <2>2. SumFunction([x \in s |-> left[x]]) \in Nat
      <3> DEFINE g == [x \in s |-> left[x]]
      <3>1. IsFiniteSet(s) /\ g \in [s -> Nat]
        BY <1>1, FS_Subset
      <3> HIDE DEF g
      <3>2. SumFunction(g) \in Nat
        BY <3>1, SumOfNaturals
      <3> QED
        BY <3>2 DEF g
    <2> QED
      BY <2>1, <2>2
  <1> HIDE DEF f
  <1>4. /\ DOMAIN taken = S
        /\ \A a \in S : taken[a] = Clamp(w - f[Trades!Earlier(S, a)], 0, left[a])
    <2>1. \A a \in S : Trades!SumFunction([l \in Trades!Earlier(S, a) |-> left[l]])
                         = f[Trades!Earlier(S, a)]
      BY <1>3, SameLibrariesOfTrades DEF Trades!Earlier
    <2> QED
      BY <1>1, <2>1, SameLibrariesOfTrades DEF Trades!Taken
  <1> HIDE DEF taken
  <1>5. \A a \in S : taken[a] \in Nat /\ taken[a] <= left[a]
    <2> SUFFICES ASSUME NEW a \in S PROVE taken[a] \in Nat /\ taken[a] <= left[a]
      OBVIOUS
    <2>1. f[Trades!Earlier(S, a)] \in Nat /\ left[a] \in Nat
      BY <1>3 DEF Trades!Earlier
    <2> QED
      BY <1>4, <2>1 DEF Clamp
  <1>6. taken \in [S -> Nat] /\ taken \in [S -> Int]
    <2>1. taken = [a \in S |-> taken[a]]
      <3>1. taken = [a \in DOMAIN taken |-> taken[a]]
        BY DEF taken, Trades!Taken
      <3> QED
        BY <1>4, <3>1
    <2> QED
      BY <1>5, <2>1
  <1>7. /\ \A s \in SUBSET S : h[s] = NextSum(taken, h, s) /\ h[s] \in Int
        /\ \A s \in SUBSET S : \A a \in s : h[s] = taken[a] + h[s \ {a}]
        /\ SumFunction(taken) = h[S]
    <2>1. /\ \A s \in SUBSET S : h[s] = NextSum(taken, h, s)
          /\ \A s \in SUBSET S : h[s] \in Int
          /\ SumFunction(taken) = h[S]
      BY <1>1, <1>6, SumsAre, Zenon
    <2>2. \A s \in SUBSET S : \A a \in s : h[s] = taken[a] + h[s \ {a}]
      <3>1. IsFiniteSet(S) /\ taken \in [S -> Int]
        BY <1>1, <1>6
      <3> QED
        BY <3>1, SumTakesAny
    <2> HIDE DEF h
    <2> QED
      BY <2>1, <2>2
  <1> HIDE DEF h
  <1>8. {} \in G
    <2>1. f[{}] = 0 /\ h[{}] = 0
      BY <1>2, <1>7 DEF NextSum
    <2> QED
      BY <2>1
  <1>9. ASSUME NEW s \in SUBSET S, s # {} PROVE \E a \in s : s \ {a} \in G => s \in G
    <2> DEFINE a == Trades!Latest(s)
    <2>1. a \in s
      BY <1>9, PartsAreTables, LatestIsLast, Zenon
    <2>2. ASSUME s \ {a} \in G, Prefix(s, S)
          PROVE  h[s] = IF w <= f[s] THEN w ELSE f[s]
      <3>1. Prefix(s \ {a}, S) /\ s \ {a} = Trades!Earlier(S, a)
        BY <1>9, <2>2, PrefixWithoutLatest
      <3> HIDE DEF a
      <3>2. h[s \ {a}] = IF w <= f[s \ {a}] THEN w ELSE f[s \ {a}]
        BY <2>2, <3>1
      <3>3. h[s] = taken[a] + h[s \ {a}] /\ f[s] = left[a] + f[s \ {a}]
        BY <1>2, <1>7, <2>1
      <3>4. taken[a] = Clamp(w - f[s \ {a}], 0, left[a])
        BY <1>4, <2>1, <3>1
      <3>5. f[s \ {a}] \in Nat /\ left[a] \in Nat
        BY <1>3, <2>1
      <3> QED
        BY <3>2, <3>3, <3>4, <3>5 DEF Clamp
    <2> HIDE DEF a
    <2>3. s \ {a} \in G => s \in G
      BY <2>2
    <2> QED
      BY <2>1, <2>3
  <1>10. S \in G
    <2> HIDE DEF G
    <2>1. \A s \in SUBSET S : s \in G
      BY <1>1, <1>8, <1>9, SubsetsByOne
    <2> QED
      BY <2>1
  <1>11. Prefix(S, S)
    BY DEF Prefix
  <1>12. h[S] = IF w <= f[S] THEN w ELSE f[S]
    BY <1>10, <1>11
  <1> QED
    BY <1>2, <1>5, <1>6, <1>7, <1>12 DEF taken

-----------------------------------------------------------------------------
(* Everything sold was bought before: each sale is matched as a whole.        *)

(* Trades as they are stored.                                                 *)
StoredTrades(trades) ==
    /\ Table(trades)
    /\ \A t \in trades : /\ t.quantity \in Nat /\ t.time \in Nat
                         /\ t.price \in Nat \ {0} /\ t.pnl \in Int

(* Some of the stored trades are stored trades.                               *)
LEMMA PartsAreStored ==
    ASSUME NEW trades, StoredTrades(trades), NEW s \in SUBSET trades
    PROVE  StoredTrades(s)
  BY PartsAreTables DEF StoredTrades

(* A trade buys, sells or does neither.                                       *)
LEMMA BuysOrSells ==
    ASSUME NEW t, t.quantity \in Nat
    PROVE  /\ Trades!Lot(t) \in Nat /\ Trades!Wanted(t) \in Nat
           /\ Trades!Lot(t) = 0 \/ Trades!Wanted(t) = 0
           /\ Trades!Net(t) = Trades!Lot(t) - Trades!Wanted(t) /\ Trades!Net(t) \in Int
  <1>1. Trades!Lot(t) \in Nat /\ Trades!Wanted(t) \in Nat
    BY DEF Trades!Lot, Trades!Wanted
  <1>2. Trades!Lot(t) = 0 \/ Trades!Wanted(t) = 0
    BY DEF Trades!Lot, Trades!Wanted, Trades!Bought, Trades!Sold
  <1> QED
    BY <1>1, <1>2 DEF Trades!Net

(* What a trade leaves of the lots that were left before it: its own, and of  *)
(* the others as much less as it takes.                                       *)
LEMMA ReplayedAddsUp ==
    ASSUME NEW S, Table(S), NEW left \in [S -> Nat], NEW t, t \notin S, t.quantity \in Nat
    PROVE  /\ Trades!Replayed(left, t) \in [S \cup {t} -> Nat]
           /\ Trades!Wanted(t) <= SumFunction(left)
                => SumFunction(Trades!Replayed(left, t)) = SumFunction(left) + Trades!Net(t)
  <1> DEFINE w == Trades!Wanted(t)
             taken == Trades!Taken(left, w)
             r == Trades!Replayed(left, t)
             rest == [x \in S |-> left[x] - taken[x]]
  <1>1. w \in Nat /\ Trades!Lot(t) \in Nat /\ Trades!Net(t) = Trades!Lot(t) - w
    BY BuysOrSells
  <1> HIDE DEF w
  <1>2. /\ taken \in [S -> Nat] /\ \A x \in S : taken[x] <= left[x]
        /\ SumFunction(taken) = IF w <= SumFunction(left) THEN w ELSE SumFunction(left)
    BY <1>1, TakenAddsUp
  <1>3. /\ r = [x \in S \cup {t} |-> IF x = t THEN Trades!Lot(t) ELSE left[x] - taken[x]]
    BY DEF Trades!Replayed, w
  <1> HIDE DEF taken, r
  <1>4. r \in [S \cup {t} -> Nat]
    BY <1>1, <1>2, <1>3
  <1>5. IsFiniteSet(S) /\ IsFiniteSet(S \cup {t}) /\ left \in [S -> Int] /\ taken \in [S -> Int]
    BY <1>2, FS_AddElement DEF Table
  <1>6. SumFunction(rest) = SumFunction(left) - SumFunction(taken)
    BY <1>5, SumOfDifference
  <1>7. SumFunction(r) = r[t] + SumFunction([x \in (S \cup {t}) \ {t} |-> r[x]])
    <2> DEFINE U == S \cup {t}
    <2>1. r \in [U -> Int] /\ t \in U /\ IsFiniteSet(U)
      BY <1>4, <1>5
    <2> HIDE DEF U
    <2>2. SumFunction(r) = r[t] + SumFunction([x \in U \ {t} |-> r[x]])
      BY <2>1, SumWithoutOne
    <2> QED
      BY <2>2 DEF U
  <1>8. (S \cup {t}) \ {t} = S /\ r[t] = Trades!Lot(t) /\ [x \in S |-> r[x]] = rest
    BY <1>3
  <1>9. SumFunction(r) = Trades!Lot(t) + SumFunction(rest)
    BY <1>7, <1>8
  <1>10. SumFunction(left) \in Nat
    BY <1>5, SumOfNaturals
  <1> HIDE DEF rest
  <1>11. w <= SumFunction(left) => SumFunction(r) = SumFunction(left) + Trades!Net(t)
    BY <1>1, <1>2, <1>6, <1>9, <1>10
  <1> QED
    BY <1>4, <1>11 DEF r, w

(* What is left of each lot is a quantity.                                    *)
LEMMA LeftType ==
    ASSUME NEW S, StoredTrades(S)
    PROVE  Trades!LeftOf(S) \in [S -> Nat]
  <1> DEFINE G == {s \in SUBSET S : Trades!LeftOf(s) \in [s -> Nat]}
  <1>1. IsFiniteSet(S)
    BY DEF StoredTrades, Table
  <1>2. {} \in G
    BY LeftTradeByTrade, PartsAreTables DEF StoredTrades
  <1>3. ASSUME NEW s \in SUBSET S, s # {} PROVE \E a \in s : s \ {a} \in G => s \in G
    <2> DEFINE a == Trades!Latest(s)
    <2>1. Table(s) /\ StoredTrades(s)
      BY PartsAreStored DEF StoredTrades
    <2>2. a \in s
      BY <1>3, <2>1, LatestIsLast
    <2>3. Trades!LeftOf(s) = Trades!Replayed(Trades!LeftOf(s \ {a}), a)
      BY <1>3, <2>1, LeftTradeByTrade
    <2> HIDE DEF a
    <2>4. ASSUME s \ {a} \in G PROVE s \in G
      <3>1. Table(s \ {a}) /\ a.quantity \in Nat
        BY <2>1, <2>2, PartsAreTables DEF StoredTrades
      <3>2. Trades!LeftOf(s \ {a}) \in [s \ {a} -> Nat] /\ a \notin s \ {a}
        BY <2>4
      <3>3. Trades!Replayed(Trades!LeftOf(s \ {a}), a) \in [(s \ {a}) \cup {a} -> Nat]
        BY <3>1, <3>2, ReplayedAddsUp
      <3>4. (s \ {a}) \cup {a} = s
        BY <2>2
      <3> QED
        BY <2>3, <3>3, <3>4
    <2> HIDE DEF G
    <2> QED
      BY <2>2, <2>4
  <1> QED
    <2> HIDE DEF G
    <2>1. \A s \in SUBSET S : s \in G
      BY <1>1, <1>2, <1>3, SubsetsByOne
    <2> QED
      BY <2>1 DEF G

(* The quantity bought and not sold by the trades of a part.                 *)
NetOf(S) == SumFunction([t \in S |-> Trades!Net(t)])

(* What is bought and not sold, of all trades, trade by trade.                *)
LEMMA NetType ==
    ASSUME NEW S, StoredTrades(S)
    PROVE  /\ NetOf(S) \in Int
           /\ \A a \in S : NetOf(S) = Trades!Net(a) + NetOf(S \ {a})
  <1> DEFINE f == [t \in S |-> Trades!Net(t)]
  <1>1. IsFiniteSet(S) /\ f \in [S -> Int]
    BY BuysOrSells DEF StoredTrades, Table
  <1>2. \A a \in S : [t \in S \ {a} |-> f[t]] = [t \in S \ {a} |-> Trades!Net(t)]
    OBVIOUS
  <1>3. \A a \in S : f[a] = Trades!Net(a)
    OBVIOUS
  <1> HIDE DEF f
  <1>4. SumFunction(f) \in Int
    BY <1>1, SumType
  <1>5. \A a \in S : SumFunction(f) = f[a] + SumFunction([t \in S \ {a} |-> f[t]])
    BY <1>1, SumWithoutOne
  <1>6. \A a \in S : SumFunction(f) = Trades!Net(a) + SumFunction([t \in S \ {a} |-> Trades!Net(t)])
    BY <1>2, <1>3, <1>5
  <1> QED
    BY <1>4, <1>6 DEF f, NetOf

(* Nothing is sold that has not been bought before, so what is left is what   *)
(* was bought and not sold.                                                   *)
LEMMA LeftAddsUp ==
    ASSUME NEW S, StoredTrades(S), Trades!Covered(S)
    PROVE  SumFunction(Trades!LeftOf(S)) = NetOf(S)
  <1> DEFINE Ok(s) == SumFunction(Trades!LeftOf(s)) = NetOf(s)
             G == {s \in SUBSET S : Prefix(s, S) => Ok(s)}
  <1>1. IsFiniteSet(S) /\ Table(S)
    BY DEF StoredTrades, Table
  <1>2. {} \in G
    <2>1. Trades!LeftOf({}) = [lot \in {} |-> 0]
      BY <1>1, LeftTradeByTrade
    <2>2. [lot \in {} |-> 0] = [t \in {} |-> Trades!Net(t)]
      OBVIOUS
    <2> QED
      BY <2>1, <2>2 DEF NetOf
  <1>3. ASSUME NEW s \in SUBSET S, s # {} PROVE \E a \in s : s \ {a} \in G => s \in G
    <2> DEFINE a == Trades!Latest(s)
               u == s \ {a}
               left == Trades!LeftOf(u)
    <2>1. StoredTrades(s) /\ StoredTrades(u) /\ Table(s) /\ Table(u)
      BY PartsAreStored DEF StoredTrades
    <2>2. a \in s
      BY <1>3, <2>1, LatestIsLast
    <2>3. ASSUME u \in G, Prefix(s, S) PROVE Ok(s)
      <3>1. Prefix(u, S) /\ s = Trades!Through(S, a)
        BY <1>1, <1>3, <2>3, PrefixWithoutLatest
      <3>2. Trades!LeftOf(s) = Trades!Replayed(left, a)
        BY <1>3, <2>1, LeftTradeByTrade
      <3>3. left \in [u -> Nat]
        <4> HIDE DEF u
        <4> QED
          BY <2>1, LeftType
      <3>4. SumFunction(left) = NetOf(u)
        BY <2>3, <3>1
      <3>5. NetOf(s) \in Int /\ NetOf(u) \in Int /\ NetOf(s) = Trades!Net(a) + NetOf(u)
        BY <2>1, <2>2, NetType
      <3>6. NetOf(s) >= 0
        <4>1. Trades!SumFunction([x \in s |-> Trades!Net(x)]) = NetOf(s)
          BY SameLibrariesOfTrades DEF NetOf
        <4>2. Trades!SumFunction([x \in Trades!Through(S, a) |-> Trades!Net(x)]) >= 0
          <5>1. a \in S
            BY <2>2
          <5> HIDE DEF a
          <5> QED
            BY <5>1 DEF Trades!Covered
        <4> QED
          BY <3>1, <4>1, <4>2
      <3>7. a.quantity \in Nat /\ a \notin u
        BY <2>1, <2>2 DEF StoredTrades
      <3>8. SumFunction(left) \in Nat
        <4>1. IsFiniteSet(u)
          BY <2>1 DEF Table
        <4> HIDE DEF u, left
        <4> QED
          BY <3>3, <4>1, SumOfNaturals
      <3>9. Trades!Wanted(a) <= SumFunction(left)
        <4> HIDE DEF a, u, left
        <4> QED
          BY <3>4, <3>5, <3>6, <3>7, <3>8, BuysOrSells
      <3>10. SumFunction(Trades!Replayed(left, a)) = SumFunction(left) + Trades!Net(a)
        <4> HIDE DEF a, u, left
        <4> QED
          BY <2>1, <3>3, <3>7, <3>9, ReplayedAddsUp
      <3>11. SumFunction(Trades!LeftOf(s)) = NetOf(u) + Trades!Net(a)
        <4> HIDE DEF a, u, left
        <4> QED
          BY <3>2, <3>4, <3>10
      <3>12. Trades!Net(a) \in Int
        <4> HIDE DEF a, u, left
        <4> QED
          BY <3>7, BuysOrSells
      <3> HIDE DEF a, u, left
      <3> QED
        BY <3>5, <3>11, <3>12
    <2>4. u \in G => s \in G
      <3> HIDE DEF Ok, u
      <3> QED
        BY <2>3
    <2> HIDE DEF a, G
    <2> QED
      BY <2>2, <2>4
  <1>4. S \in G
    <2> HIDE DEF G
    <2>1. \A s \in SUBSET S : s \in G
      BY <1>1, <1>2, <1>3, SubsetsByOne
    <2> QED
      BY <2>1
  <1> QED
    BY <1>4 DEF Prefix

(* A prefix sells no more than it bought either.                              *)
LEMMA PrefixIsCovered ==
    ASSUME NEW S, Trades!Covered(S), NEW s, Prefix(s, S), Table(S)
    PROVE  Trades!Covered(s)
  <1>1. \A t \in s : Trades!Through(s, t) = Trades!Through(S, t)
    BY DEF Prefix, Trades!Through, Table
  <1> QED
    BY <1>1 DEF Trades!Covered, Prefix

(* The trades before a trade are a prefix.                                    *)
LEMMA EarlierIsPrefix ==
    ASSUME NEW S, Table(S), NEW t \in S
    PROVE  /\ Prefix(Trades!Earlier(S, t), S) /\ t \notin Trades!Earlier(S, t)
           /\ Trades!Through(S, t) = Trades!Earlier(S, t) \cup {t}
           /\ Prefix(Trades!Through(S, t), S)
  BY DEF Prefix, Trades!Earlier, Trades!Through, Table

(* A sale is matched with its whole quantity.                                 *)
LEMMA MatchedWhole ==
    ASSUME NEW S, StoredTrades(S), Trades!Covered(S), NEW t \in S, Trades!Sold(t),
           NEW m, m = Trades!Matched(t, Trades!LeftOf(Trades!Earlier(S, t)))
    PROVE  /\ m.trade = t /\ m.quantity = t.quantity
           /\ m.held \in Int /\ m.cost \in Int /\ m.since \in Int
  <1> DEFINE u == Trades!Earlier(S, t)
             left == Trades!LeftOf(u)
             taken == Trades!Taken(left, t.quantity)
             hold == [lot \in DOMAIN left |-> (t.time - lot.time) * taken[lot]]
             cost == [lot \in DOMAIN left |-> lot.price * taken[lot]]
             since == {t.time} \cup {lot.time : lot \in {l \in DOMAIN left : taken[l] > 0}}
  <1>1. /\ m.trade = t /\ m.quantity = SumFunction(taken)
        /\ m.held = SumFunction(hold) /\ m.cost = SumFunction(cost) /\ m.since = Min(since)
    BY SameLibrariesOfTrades DEF Trades!Matched
  <1>2. Table(S) /\ Prefix(u, S) /\ t \notin u /\ Trades!Through(S, t) = u \cup {t}
    BY EarlierIsPrefix DEF StoredTrades
  <1> HIDE DEF u
  <1>3. u \in SUBSET S /\ StoredTrades(u) /\ Trades!Covered(u) /\ Table(u) /\ IsFiniteSet(u)
    BY <1>2, PartsAreStored, PrefixIsCovered DEF Prefix, StoredTrades, Table
  <1>4. left \in [u -> Nat] /\ SumFunction(left) = NetOf(u)
    BY <1>3, LeftType, LeftAddsUp
  <1>5. t.quantity \in Nat /\ t.time \in Nat /\ Trades!Wanted(t) = t.quantity
    BY DEF StoredTrades, Trades!Wanted
  <1>6. t.quantity <= NetOf(u)
    <2>1. StoredTrades(u \cup {t}) /\ (u \cup {t}) \ {t} = u
      BY <1>2, <1>3, PartsAreStored
    <2>2. NetOf(u \cup {t}) = Trades!Net(t) + NetOf(u) /\ NetOf(u) \in Int
      BY <1>3, <2>1, NetType
    <2>3. NetOf(u \cup {t}) >= 0
      <3>1. Trades!SumFunction([x \in u \cup {t} |-> Trades!Net(x)]) = NetOf(u \cup {t})
        BY SameLibrariesOfTrades DEF NetOf
      <3>2. Trades!SumFunction([x \in Trades!Through(S, t) |-> Trades!Net(x)]) >= 0
        BY DEF Trades!Covered
      <3> QED
        BY <1>2, <3>1, <3>2
    <2>4. Trades!Net(t) = 0 - t.quantity
      BY <1>5, BuysOrSells DEF Trades!Sold, Trades!Bought, Trades!Lot
    <2> QED
      BY <1>5, <2>2, <2>3, <2>4
  <1> HIDE DEF left
  <1>7. taken \in [u -> Nat] /\ SumFunction(taken) = t.quantity
    BY <1>3, <1>4, <1>5, <1>6, TakenAddsUp
  <1> HIDE DEF taken
  <1>8. hold \in [u -> Int] /\ cost \in [u -> Int]
    <2>1. \A lot \in u : lot.time \in Nat /\ lot.price \in Nat
      BY <1>3 DEF StoredTrades
    <2> QED
      BY <1>4, <1>5, <1>7, <2>1
  <1> HIDE DEF hold, cost
  <1>9. SumFunction(hold) \in Int /\ SumFunction(cost) \in Int
    BY <1>3, <1>8, SumType
  <1>10. Min(since) \in Int
    <2> DEFINE D == {l \in u : taken[l] > 0}
               f == [lot \in D |-> lot.time]
               T == {f[lot] : lot \in D}
    <2>1. since = {t.time} \cup T
      BY <1>4
    <2>2. IsFiniteSet(D)
      BY <1>3, FS_Subset
    <2>3. DOMAIN f = D
      OBVIOUS
    <2>4. T \subseteq Int
      <3>1. \A lot \in u : lot.time \in Nat
        BY <1>3 DEF StoredTrades
      <3>2. \A lot \in D : f[lot] \in Int
        BY <3>1
      <3> HIDE DEF D, f
      <3> QED
        BY <3>2
    <2> HIDE DEF D, f
    <2>5. IsFiniteSet(T)
      BY <2>2, <2>3, FiniteImage, Zenon
    <2> HIDE DEF T, since
    <2>6. IsFiniteSet(since) /\ since \subseteq Int /\ since # {}
      <3>1. IsFiniteSet(T \cup {t.time})
        BY <2>5, FS_AddElement
      <3>2. since = T \cup {t.time}
        BY <2>1
      <3>3. since \subseteq Int /\ since # {}
        <4>1. t.time \in Int
          BY <1>5
        <4> QED
          BY <2>4, <3>2, <4>1, Zenon
      <3> QED
        BY <3>1, <3>2, <3>3
    <2>7. Min(since) \in since
      BY <2>6, FiniteExtremes
    <2> QED
      BY <2>6, <2>7
  <1> HIDE DEF since
  <1> QED
    BY <1>1, <1>7, <1>9, <1>10

-----------------------------------------------------------------------------
(* The histories the reports are asked about.                                 *)

(* Later times are on later days.                                             *)
LEMMA DaysInOrder ==
    ASSUME NEW x \in Nat, NEW y \in Nat, x <= y
    PROVE  /\ x \div DayLength \in Nat /\ y \div DayLength \in Nat
           /\ x \div DayLength <= y \div DayLength
  <1> DEFINE a == x \div DayLength
             b == y \div DayLength
  <1>1. DayLength \in Nat /\ DayLength > 0
    BY ReportsAssumption
  <1>2. a \in Int /\ DayLength * a <= x /\ x < DayLength * a + DayLength
    BY <1>1
  <1>3. b \in Int /\ DayLength * b <= y /\ y < DayLength * b + DayLength
    BY <1>1
  <1> HIDE DEF a, b
  <1>4. /\ \A i, j \in Int : i <= j => DayLength * i <= DayLength * j
        /\ DayLength * (b + 1) = DayLength * b + DayLength
        /\ DayLength * (0 - 1) = 0 - DayLength
        /\ DayLength * a \in Int /\ DayLength * b \in Int
    BY <1>1, <1>2, <1>3
  <1>5. a <= b
    <2>1. b + 1 <= a => DayLength * (b + 1) <= DayLength * a
      BY <1>2, <1>3, <1>4
    <2> QED
      BY <1>1, <1>2, <1>3, <1>4, <2>1
  <1>6. a >= 0 /\ b >= 0
    <2>1. a <= 0 - 1 => DayLength * a <= DayLength * (0 - 1)
      BY <1>2, <1>4
    <2>2. a >= 0
      BY <1>1, <1>2, <1>4, <2>1
    <2> QED
      BY <1>2, <1>3, <1>5, <2>2
  <1> QED
    BY <1>2, <1>3, <1>5, <1>6 DEF a, b

(* A history as the paper broker and its storage leave it.                    *)
TradesOf(db, symbol) == {t \in db.trades : symbol \in {None, t.symbol}}
StoredHistory(db) ==
    /\ StoredTrades(db.trades)
    /\ \A x, y \in db.trades : x.id < y.id => x.time <= y.time
    /\ \A t \in db.trades : /\ Trades!Sold(t) => t.quantity > 0
                            /\ t.profile \in Trades!Profiles
                            /\ t.source \in {"auto", "manual"}
    /\ None \notin Trades!Traded(db)
    /\ \A symbol \in Trades!Traded(db) : Trades!Covered(TradesOf(db, symbol))
    /\ IsFiniteSet(db.candles) /\ \A c \in db.candles : c.time \in Nat /\ c.price \in Nat
    /\ IsFiniteSet(db.equity) /\ \A s \in db.equity : s.equity \in Int

(* The symbols traded are finitely many.                                      *)
LEMMA SymbolsAreFinite ==
    ASSUME NEW db, StoredHistory(db)
    PROVE  IsFiniteSet(Trades!Traded(db))
  <1> DEFINE f == [t \in db.trades |-> t.symbol]
  <1>1. IsFiniteSet(db.trades) /\ DOMAIN f = db.trades
    BY DEF StoredHistory, StoredTrades, Table
  <1>2. Trades!Traded(db) = {f[t] : t \in db.trades}
    BY DEF Trades!Traded
  <1> HIDE DEF f
  <1> QED
    BY <1>1, <1>2, FiniteImage

(* What each symbol's trades cover, the trades of all of them cover.          *)
LEMMA AllIsCovered ==
    ASSUME NEW db, StoredHistory(db), NEW symbol \in Trades!Traded(db) \cup {None}
    PROVE  /\ Trades!Covered(TradesOf(db, symbol))
           /\ StoredTrades(TradesOf(db, symbol))
  <1>1. StoredTrades(db.trades) /\ StoredTrades(TradesOf(db, symbol)) /\ Table(db.trades)
    BY PartsAreStored DEF StoredHistory, TradesOf, StoredTrades
  <1>2. CASE symbol \in Trades!Traded(db)
    BY <1>1, <1>2 DEF StoredHistory
  <1>3. CASE symbol = None
    <2>1. TradesOf(db, symbol) = db.trades
      BY <1>3 DEF TradesOf
    <2>2. SUFFICES ASSUME NEW t \in db.trades
                   PROVE  NetOf(Trades!Through(db.trades, t)) >= 0
      BY <1>1, <2>1, SameLibrariesOfTrades DEF Trades!Covered, NetOf
    <2> DEFINE P == Trades!Through(db.trades, t)
               K == Trades!Traded(db)
               F == [x \in P |-> Trades!Net(x)]
               key == [x \in P |-> x.symbol]
               part(k) == {y \in P : key[y] = k}
               of == [k \in K |-> SumFunction([x \in part(k) |-> F[x]])]
    <2>3. P \in SUBSET db.trades /\ StoredTrades(P) /\ IsFiniteSet(P) /\ IsFiniteSet(K)
      BY <1>1, PartsAreStored, SymbolsAreFinite
         DEF Trades!Through, StoredTrades, Table
    <2>4. F \in [P -> Int] /\ key \in [P -> K]
      <3>1. \A x \in P : Trades!Net(x) \in Int
        BY <2>3, BuysOrSells DEF StoredTrades
      <3>2. \A x \in P : x.symbol \in K
        BY <2>3 DEF Trades!Traded
      <3> HIDE DEF P, K
      <3> QED
        BY <3>1, <3>2
    <2>5. SumFunction(of) = SumFunction(F)
      <3> HIDE DEF P, K, F, key
      <3> QED
        BY <2>3, <2>4, SumByGroup
    <2>6. ASSUME NEW k \in K PROVE of[k] \in Nat
      <3> DEFINE g == part(k)
                 rows == TradesOf(db, k)
      <3>1. g \in SUBSET P /\ g = {x \in P : x.symbol = k}
        BY DEF key
      <3>2. [x \in g |-> F[x]] = [x \in g |-> Trades!Net(x)]
        BY <3>1
      <3>3. of[k] = NetOf(g)
        BY <3>2 DEF NetOf
      <3>4. rows = {x \in db.trades : x.symbol = k}
        BY DEF StoredHistory, TradesOf
      <3>5. Prefix(g, rows)
        <4>1. \A x \in db.trades : x \in P <=> x.id <= t.id
          BY DEF Trades!Through
        <4>2. \A x \in db.trades : x.id \in Nat
          BY <1>1 DEF Table
        <4> HIDE DEF P
        <4> QED
          BY <2>3, <3>1, <3>4, <4>1, <4>2 DEF Prefix
      <3>6. Table(rows) /\ StoredTrades(rows) /\ StoredTrades(g) /\ Trades!Covered(rows)
        <4>1. g \in SUBSET db.trades /\ rows \in SUBSET db.trades
          BY <2>3, <3>1, <3>4
        <4>2. StoredTrades(g) /\ StoredTrades(rows)
          <5> HIDE DEF g, rows
          <5> QED
            BY <1>1, <4>1, PartsAreStored
        <4> QED
          BY <4>2 DEF StoredTrades, StoredHistory
      <3> HIDE DEF g, rows, of
      <3>7. NetOf(g) \in Int
        BY <3>6, NetType
      <3>8. CASE g = {}
        <4>1. NetOf(g) = SumFunction([x \in {} |-> 0])
          <5>1. [x \in {} |-> Trades!Net(x)] = [x \in {} |-> 0]
            OBVIOUS
          <5> QED
            BY <3>8, <5>1 DEF NetOf
        <4> DEFINE z == [x \in {} |-> 0]
        <4>2. z \in [{} -> Int] /\ \A x \in {} : z[x] = 0
          OBVIOUS
        <4> HIDE DEF z
        <4>3. SumFunction(z) = 0
          BY <4>2, FS_EmptySet, SumOfNothing
        <4> QED
          BY <3>3, <4>1, <4>3 DEF z
      <3>9. CASE g # {}
        <4> DEFINE a == Trades!Latest(g)
        <4>1. a \in g /\ g = Trades!Through(rows, a)
          BY <3>5, <3>6, <3>9, PrefixWithoutLatest
        <4> HIDE DEF a
        <4>2. a \in rows
          BY <3>5, <4>1 DEF Prefix
        <4>3. NetOf(g) >= 0
          <5>1. Trades!SumFunction([u \in Trades!Through(rows, a) |-> Trades!Net(u)]) >= 0
            BY <3>6, <4>2 DEF Trades!Covered
          <5> QED
            BY <4>1, <5>1, SameLibrariesOfTrades DEF NetOf
        <4> QED
          BY <3>3, <3>7, <4>3
      <3> QED
        BY <3>8, <3>9
    <2>7. SumFunction(of) \in Nat
      <3>1. of \in [K -> Nat]
        <4>1. of = [k \in K |-> of[k]]
          OBVIOUS
        <4> HIDE DEF of
        <4> QED
          BY <2>6, <4>1
      <3> HIDE DEF of, K
      <3> QED
        BY <2>3, <3>1, SumOfNaturals
    <2>8. SumFunction(F) = NetOf(P)
      BY DEF NetOf
    <2> HIDE DEF of, F, P
    <2>9. NetOf(P) >= 0
      BY <2>5, <2>7, <2>8
    <2> QED
      BY <2>9 DEF P
  <1> QED
    BY <1>2, <1>3, <1>1

-----------------------------------------------------------------------------
(* What the endpoints read of a history.                                      *)

(* The sales of a range, each matched with the lots of the whole past.       *)
ClosedIn(db, symbol, from, to) ==
    {t \in TradesOf(db, symbol) : Trades!Sold(t) /\ t.time \div DayLength \in from .. to}
MatchOf(db, symbol, t) ==
    Trades!Matched(t, Trades!LeftOf(Trades!Earlier(TradesOf(db, symbol), t)))

(* The trades up to a day are a prefix of the table.                          *)
LEMMA DaysArePrefix ==
    ASSUME NEW db, StoredHistory(db), NEW symbol, NEW to \in Nat, NEW P,
           P = {t \in TradesOf(db, symbol) : t.time \div DayLength \in 0 .. to}
    PROVE  Prefix(P, TradesOf(db, symbol))
  <1> DEFINE rows == TradesOf(db, symbol)
  <1> SUFFICES ASSUME NEW x \in rows, NEW y \in P, x.id < y.id PROVE x \in P
    BY DEF Prefix
  <1>1. x \in db.trades /\ y \in db.trades /\ y.time \div DayLength \in 0 .. to
    BY DEF TradesOf
  <1>2. x.time \in Nat /\ y.time \in Nat /\ x.time <= y.time
    BY <1>1 DEF StoredHistory, StoredTrades
  <1>3. /\ x.time \div DayLength \in Nat /\ y.time \div DayLength \in Nat
        /\ x.time \div DayLength <= y.time \div DayLength
    BY <1>2, DaysInOrder
  <1>4. x.time \div DayLength \in 0 .. to
    <2> DEFINE a == x.time \div DayLength
               b == y.time \div DayLength
    <2> SUFFICES a \in 0 .. to
      OBVIOUS
    <2>1. a \in Nat /\ b \in Nat /\ a <= b /\ b \in 0 .. to
      BY <1>1, <1>3
    <2> HIDE DEF a, b
    <2> QED
      BY <2>1
  <1> QED
    BY <1>4

(* What the endpoints read of the trades.                                     *)
LEMMA RowsRead ==
    ASSUME NEW db, StoredHistory(db), NEW symbol, NEW from, NEW to
    PROVE  LET q == Trades!Query(symbol, from, to)
               upTo == {t \in TradesOf(db, symbol) : t.time \div DayLength \in 0 .. to}
           IN /\ Trades!PerformanceTrades(db, q) = upTo
              /\ Trades!QualityTrades(db, q) = upTo
              /\ Trades!ReviewTrades(db, q)
                   = {t \in TradesOf(db, symbol) : t.time \div DayLength \in from .. to}
              /\ \A r : Trades!InRange(r, q) <=> r.time \div DayLength \in from .. to
  <1> DEFINE q == Trades!Query(symbol, from, to)
  <1>1. q.symbol = symbol /\ q.from = from /\ q.to = to
    BY DEF Trades!Query
  <1>2. /\ Trades!WithPast(q).symbol = symbol /\ Trades!WithPast(q).from = 0
        /\ Trades!WithPast(q).to = to
    BY DEF Trades!Query, Trades!WithPast
  <1> HIDE DEF q
  <1>3. \A r : Trades!InRange(r, q) <=> r.time \div DayLength \in from .. to
    BY <1>1 DEF Trades!InRange
  <1>4. \A r : Trades!InRange(r, Trades!WithPast(q)) <=> r.time \div DayLength \in 0 .. to
    BY <1>2 DEF Trades!InRange
  <1>5. Trades!History(db.trades, q)
          = {t \in TradesOf(db, symbol) : t.time \div DayLength \in from .. to}
    BY <1>1, <1>3 DEF Trades!History, TradesOf
  <1>6. Trades!History(db.trades, Trades!WithPast(q))
          = {t \in TradesOf(db, symbol) : t.time \div DayLength \in 0 .. to}
    BY <1>2, <1>4 DEF Trades!History, TradesOf
  <1> QED
    BY <1>3, <1>5, <1>6
       DEF Trades!PerformanceTrades, Trades!QualityTrades, Trades!ReviewTrades, q

(* The trades up to a day match each sale with the lots of the whole past.    *)
LEMMA MatchedFromThePast ==
    ASSUME NEW db, StoredHistory(db), NEW symbol, NEW to \in Nat, NEW from \in Nat, NEW P,
           P = {t \in TradesOf(db, symbol) : t.time \div DayLength \in 0 .. to}
    PROVE  /\ {t \in DOMAIN Trades!MatchedSales(P) : t.time \div DayLength \in from .. to}
                = ClosedIn(db, symbol, from, to)
           /\ \A t \in ClosedIn(db, symbol, from, to) :
                Trades!MatchedSales(P)[t] = MatchOf(db, symbol, t)
  <1>1. Prefix(P, TradesOf(db, symbol))
    BY DaysArePrefix
  <1>2. DOMAIN Trades!MatchedSales(P) = {t \in P : Trades!Sold(t)}
    BY DEF Trades!MatchedSales, Trades!Sales
  <1>3. \A d : d \in from .. to => d \in 0 .. to
    OBVIOUS
  <1>4. {t \in DOMAIN Trades!MatchedSales(P) : t.time \div DayLength \in from .. to}
          = ClosedIn(db, symbol, from, to)
    BY <1>2, <1>3 DEF ClosedIn
  <1>5. ASSUME NEW t \in ClosedIn(db, symbol, from, to)
        PROVE  Trades!MatchedSales(P)[t] = MatchOf(db, symbol, t)
    <2>1. t \in P /\ t \in Trades!Sales(P)
      BY <1>3 DEF ClosedIn, Trades!Sales
    <2>2. Trades!Earlier(P, t) = Trades!Earlier(TradesOf(db, symbol), t)
      BY <1>1, <2>1 DEF Prefix, Trades!Earlier
    <2>3. Trades!MatchedSales(P)[t] = Trades!Matched(t, Trades!LeftOf(Trades!Earlier(P, t)))
      BY <2>1 DEF Trades!MatchedSales
    <2> QED
      BY <2>2, <2>3 DEF MatchOf
  <1> QED
    BY <1>4, <1>5

(* Each sale is matched as a whole, by lots whose times and prices add up.    *)
LEMMA MatchesAreWhole ==
    ASSUME NEW db, StoredHistory(db), NEW symbol \in Trades!Traded(db) \cup {None},
           NEW t \in TradesOf(db, symbol), Trades!Sold(t)
    PROVE  /\ MatchOf(db, symbol, t).trade = t
           /\ MatchOf(db, symbol, t).quantity = t.quantity
           /\ MatchOf(db, symbol, t).held \in Int /\ MatchOf(db, symbol, t).cost \in Int
           /\ MatchOf(db, symbol, t).since \in Int
           /\ t.quantity \in Nat \ {0} /\ t.price \in Nat /\ t.pnl \in Int /\ t.time \in Nat
  <1> DEFINE S == TradesOf(db, symbol)
             m == MatchOf(db, symbol, t)
  <1>1. Trades!Covered(S) /\ StoredTrades(S)
    BY AllIsCovered
  <1>2. m = Trades!Matched(t, Trades!LeftOf(Trades!Earlier(S, t)))
    BY DEF MatchOf
  <1>3. t \in db.trades
    BY DEF TradesOf
  <1> HIDE DEF S, m
  <1>4. /\ m.trade = t /\ m.quantity = t.quantity
        /\ m.held \in Int /\ m.cost \in Int /\ m.since \in Int
    BY <1>1, <1>2, MatchedWhole DEF S
  <1>5. t.quantity \in Nat \ {0} /\ t.price \in Nat /\ t.pnl \in Int /\ t.time \in Nat
    BY <1>3 DEF StoredHistory, StoredTrades
  <1> QED
    BY <1>4, <1>5 DEF m

(* The performance page counts and adds up the sales of the range.            *)
Performed(db, symbol, from, to, p) ==
    LET C == ClosedIn(db, symbol, from, to)
    IN /\ p.closed = Cardinality(C)
       /\ p.pnl = SumFunction([t \in C |-> t.pnl])
       /\ p.held = SumFunction([t \in C |-> MatchOf(db, symbol, t).held])
       /\ p.quantity = SumFunction([t \in C |-> MatchOf(db, symbol, t).quantity])
       /\ p.drawdown = Trades!Drawdown(
                          {s \in db.equity : s.time \div DayLength \in from .. to})

(* The performance page of a history does.                                    *)
LEMMA PerformanceIs ==
    ASSUME NEW db, StoredHistory(db), NEW symbol, NEW from \in Nat, NEW to \in Nat
    PROVE  Performed(db, symbol, from, to,
                     Trades!Performance(db, Trades!Query(symbol, from, to)))
  <1> DEFINE p == Trades!Performance(db, Trades!Query(symbol, from, to))
             C == ClosedIn(db, symbol, from, to)
             q == Trades!Query(symbol, from, to)
             P == Trades!PerformanceTrades(db, q)
             sales == Trades!MatchedSales(P)
             E == Trades!EquityHistory(db, q)
             of == [t \in {x \in DOMAIN sales : Trades!InRange(x, q)} |-> sales[t]]
             latest == Trades!LatestEquity(E)
             fall == Trades!Drawdown(E)
             match == [t \in C |-> MatchOf(db, symbol, t)]
  <1>1. p = Trades!PerformanceOf(of, latest, fall)
    BY DEF Trades!Performance
  <1>2. /\ P = {t \in TradesOf(db, symbol) : t.time \div DayLength \in 0 .. to}
        /\ \A r : Trades!InRange(r, q) <=> r.time \div DayLength \in from .. to
    BY RowsRead
  <1>3. E = {s \in db.equity : s.time \div DayLength \in from .. to}
    BY <1>2 DEF Trades!EquityHistory
  <1>4. of = match
    <2>1. /\ {t \in DOMAIN sales : t.time \div DayLength \in from .. to} = C
          /\ \A t \in C : sales[t] = MatchOf(db, symbol, t)
      <3> HIDE DEF P
      <3> QED
        BY <1>2, MatchedFromThePast
    <2>2. {x \in DOMAIN sales : Trades!InRange(x, q)} = C
      <3> HIDE DEF sales, q
      <3> QED
        BY <1>2, <2>1
    <2> HIDE DEF sales, q
    <2> QED
      BY <2>1, <2>2
  <1> HIDE DEF of, latest, fall
  <1>5. DOMAIN of = C /\ \A t \in C : of[t] = MatchOf(db, symbol, t)
    BY <1>4
  <1>6. /\ p.closed = Trades!Cardinality(DOMAIN of)
        /\ p.pnl = Trades!Pnl(DOMAIN of)
        /\ p.held = Trades!SumFunction([t \in DOMAIN of |-> of[t].held])
        /\ p.quantity = Trades!SumFunction([t \in DOMAIN of |-> of[t].quantity])
        /\ p.drawdown = fall
    BY <1>1 DEF Trades!PerformanceOf
  <1>7. /\ [t \in DOMAIN of |-> of[t].held] = [t \in C |-> MatchOf(db, symbol, t).held]
        /\ [t \in DOMAIN of |-> of[t].quantity] = [t \in C |-> MatchOf(db, symbol, t).quantity]
    BY <1>5
  <1>8. fall = Trades!Drawdown({s \in db.equity : s.time \div DayLength \in from .. to})
    BY <1>3 DEF fall
  <1> HIDE DEF match, p
  <1> QED
    BY <1>5, <1>6, <1>7, <1>8, SameLibrariesOfTrades DEF Trades!Pnl, p, Performed

-----------------------------------------------------------------------------
(* Ranges and symbols add up.                                                 *)

(* Fewer snapshots show no deeper fall.                                       *)
LEMMA ShorterFalls ==
    ASSUME NEW E, IsFiniteSet(E), \A s \in E : s.equity \in Int, NEW D \in SUBSET E
    PROVE  /\ Trades!Drawdown(D).worst \in Int /\ Trades!Drawdown(E).worst \in Int
           /\ Trades!Drawdown(D).worst <= Trades!Drawdown(E).worst
  <1> DEFINE Points(X, s) == {0} \cup {x.equity : x \in Trades!Through(X, s)}
             falls(X) == {0} \cup {Trades!Fall(X, s) : s \in X}
  <1>1. ASSUME NEW X \in SUBSET E, NEW s \in X
        PROVE  /\ IsFiniteSet(Points(X, s)) /\ Points(X, s) \subseteq Int
               /\ Trades!Fall(X, s) = Max(Points(X, s)) - s.equity
               /\ Trades!Fall(X, s) \in Int /\ Max(Points(X, s)) \in Int
               /\ s.equity \in Int
    <2> DEFINE T == Trades!Through(X, s)
               f == [x \in T |-> x.equity]
    <2>1. T \in SUBSET E /\ IsFiniteSet(T)
      BY FS_Subset DEF Trades!Through
    <2> HIDE DEF T
    <2>2. DOMAIN f = T /\ \A x \in T : f[x] \in Int /\ f[x] = x.equity
      BY <2>1
    <2>3. Points(X, s) = {0} \cup {f[x] : x \in T}
      BY DEF T
    <2> HIDE DEF f, Points
    <2>4. IsFiniteSet(Points(X, s)) /\ Points(X, s) \subseteq Int
      BY <2>1, <2>2, <2>3, WithZero
    <2>5. Points(X, s) # {}
      BY <2>3
    <2>6. Max(Points(X, s)) \in Int
      BY <2>4, <2>5, FiniteExtremes
    <2>7. Trades!Fall(X, s) = Max(Points(X, s)) - s.equity
      BY SameLibrariesOfTrades DEF Trades!Fall, Trades!EquityPeak, Points
    <2>8. s.equity \in Int
      OBVIOUS
    <2> QED
      BY <2>4, <2>6, <2>7, <2>8
  <1>2. ASSUME NEW X \in SUBSET E
        PROVE  /\ IsFiniteSet(falls(X)) /\ falls(X) \subseteq Int /\ falls(X) # {}
               /\ Trades!Drawdown(X).worst = Max(falls(X))
               /\ Max(falls(X)) \in falls(X) /\ \A v \in falls(X) : v <= Max(falls(X))
    <2> DEFINE f == [s \in X |-> Trades!Fall(X, s)]
    <2>1. IsFiniteSet(X)
      BY FS_Subset
    <2>2. DOMAIN f = X /\ \A s \in X : f[s] \in Int
      BY <1>1
    <2>3. falls(X) = {0} \cup {f[s] : s \in X}
      OBVIOUS
    <2> HIDE DEF f, falls
    <2>4. IsFiniteSet(falls(X)) /\ falls(X) \subseteq Int
      BY <2>1, <2>2, <2>3, WithZero
    <2>5. falls(X) # {}
      BY <2>3
    <2>6. Trades!Drawdown(X).worst = Max(falls(X))
      BY SameLibrariesOfTrades DEF Trades!Drawdown, falls
    <2> QED
      BY <2>4, <2>5, <2>6, FiniteExtremes
  <1>3. ASSUME NEW s \in D PROVE Trades!Fall(D, s) <= Trades!Fall(E, s)
    <2>1. Points(D, s) \in SUBSET Points(E, s) /\ Points(D, s) # {}
      BY DEF Trades!Through
    <2>2. s \in E /\ E \in SUBSET E
      OBVIOUS
    <2> HIDE DEF Points
    <2>3. Max(Points(D, s)) <= Max(Points(E, s))
      BY <1>1, <2>1, <2>2, GreatestOfMore
    <2> QED
      BY <1>1, <2>2, <2>3
  <1> DEFINE top == Max(falls(D))
  <1>4. E \in SUBSET E
    OBVIOUS
  <1>5. top <= Max(falls(E)) /\ top \in Int /\ Max(falls(E)) \in Int
    <2>1. \A v \in falls(E) : v <= Max(falls(E)) /\ v \in Int
      <3> HIDE DEF falls
      <3> QED
        BY <1>2, <1>4
    <2>2. Max(falls(E)) \in Int
      <3> HIDE DEF falls
      <3> QED
        BY <1>2, <1>4
    <2>3. top \in falls(D)
      <3> HIDE DEF falls
      <3> QED
        BY <1>2
    <2> DEFINE highest == Max(falls(E))
    <2>4. 0 <= highest /\ \A s \in E : Trades!Fall(E, s) <= highest
      BY <2>1
    <2> HIDE DEF highest
    <2>5. CASE top = 0
      BY <2>2, <2>4, <2>5 DEF highest
    <2>6. CASE \E s \in D : top = Trades!Fall(D, s)
      <3>1. PICK s \in D : top = Trades!Fall(D, s)
        BY <2>6
      <3> HIDE DEF top
      <3>2. Trades!Fall(D, s) \in Int /\ Trades!Fall(E, s) \in Int /\ s \in E
        BY <1>1, <1>4
      <3>3. Trades!Fall(D, s) <= Trades!Fall(E, s) /\ Trades!Fall(E, s) <= highest
        BY <1>3, <2>4, <3>2
      <3> QED
        BY <2>2, <3>1, <3>2, <3>3 DEF highest
    <2> QED
      <3>1. top = 0 \/ \E s \in D : top = Trades!Fall(D, s)
        <4> HIDE DEF top
        <4> QED
          BY <2>3
      <3> QED
        BY <2>5, <2>6, <3>1
  <1> HIDE DEF falls, top
  <1> QED
    BY <1>2, <1>4, <1>5 DEF top

(* The sales of a range are finitely many.                                    *)
LEMMA ClosedAreFinite ==
    ASSUME NEW db, StoredHistory(db), NEW symbol, NEW from, NEW to
    PROVE  IsFiniteSet(ClosedIn(db, symbol, from, to))
  <1>1. IsFiniteSet(db.trades) /\ ClosedIn(db, symbol, from, to) \in SUBSET db.trades
    BY DEF StoredHistory, StoredTrades, Table, ClosedIn, TradesOf
  <1> QED
    BY <1>1, FS_Subset

(* Two adjoining ranges add up.                                               *)
LEMMA RangesAlwaysAddUp ==
    ASSUME NEW db, StoredHistory(db), NEW symbol \in Trades!Traded(db) \cup {None},
           NEW last \in Nat
    PROVE  Trades!RangesAddUp(db, symbol, last)
  <1> SUFFICES ASSUME NEW day \in 1 .. last
               PROVE  Trades!AddUp(Trades!Performance(db, Trades!Query(symbol, 0, day - 1)),
                                   Trades!Performance(db, Trades!Query(symbol, day, last)),
                                   Trades!Performance(db, Trades!Query(symbol, 0, last)))
    BY DEF Trades!RangesAddUp
  <1> DEFINE A == ClosedIn(db, symbol, 0, day - 1)
             B == ClosedIn(db, symbol, day, last)
             C == ClosedIn(db, symbol, 0, last)
             a == Trades!Performance(db, Trades!Query(symbol, 0, day - 1))
             b == Trades!Performance(db, Trades!Query(symbol, day, last))
             c == Trades!Performance(db, Trades!Query(symbol, 0, last))
             Equity(from, to) == {s \in db.equity : s.time \div DayLength \in from .. to}
             pnl(X) == [t \in X |-> t.pnl]
             held(X) == [t \in X |-> MatchOf(db, symbol, t).held]
             quantity(X) == [t \in X |-> MatchOf(db, symbol, t).quantity]
  <1>1. 0 \in Nat /\ day - 1 \in Nat /\ day \in Nat
    OBVIOUS
  <1>2. /\ \A x : x \in 0 .. last <=> (x \in 0 .. day - 1 \/ x \in day .. last)
        /\ \A x : ~(x \in 0 .. day - 1 /\ x \in day .. last)
    OBVIOUS
  <1>3. /\ a.closed = Cardinality(A) /\ a.pnl = SumFunction(pnl(A))
        /\ a.held = SumFunction(held(A)) /\ a.quantity = SumFunction(quantity(A))
        /\ a.drawdown = Trades!Drawdown(Equity(0, day - 1))
    <2>1. Performed(db, symbol, 0, day - 1, a)
      BY <1>1, PerformanceIs
    <2> HIDE DEF a
    <2> QED
      BY <2>1 DEF Performed
  <1>4. /\ b.closed = Cardinality(B) /\ b.pnl = SumFunction(pnl(B))
        /\ b.held = SumFunction(held(B)) /\ b.quantity = SumFunction(quantity(B))
        /\ b.drawdown = Trades!Drawdown(Equity(day, last))
    <2>1. Performed(db, symbol, day, last, b)
      BY <1>1, PerformanceIs
    <2> HIDE DEF b
    <2> QED
      BY <2>1 DEF Performed
  <1>5. /\ c.closed = Cardinality(C) /\ c.pnl = SumFunction(pnl(C))
        /\ c.held = SumFunction(held(C)) /\ c.quantity = SumFunction(quantity(C))
        /\ c.drawdown = Trades!Drawdown(Equity(0, last))
    <2>1. Performed(db, symbol, 0, last, c)
      BY <1>1, PerformanceIs
    <2> HIDE DEF c
    <2> QED
      BY <2>1 DEF Performed
  <1>6. A \in SUBSET C /\ C \ A = B /\ A \cap B = {} /\ C = A \cup B
    BY <1>2 DEF ClosedIn
  <1>7. IsFiniteSet(A) /\ IsFiniteSet(B) /\ IsFiniteSet(C)
    BY ClosedAreFinite
  <1>8. \A t \in C : t.pnl \in Int /\ MatchOf(db, symbol, t).held \in Int
                     /\ MatchOf(db, symbol, t).quantity \in Int
    <2> SUFFICES ASSUME NEW t \in C
                 PROVE  t.pnl \in Int /\ MatchOf(db, symbol, t).held \in Int
                        /\ MatchOf(db, symbol, t).quantity \in Int
      OBVIOUS
    <2>1. t \in TradesOf(db, symbol) /\ Trades!Sold(t)
      BY DEF ClosedIn
    <2> QED
      BY <2>1, MatchesAreWhole
  <1> HIDE DEF A, B, C, a, b, c
  <1>9. Cardinality(A) + Cardinality(B) = Cardinality(C)
    <2>1. Cardinality(A) \in Nat /\ Cardinality(B) \in Nat /\ Cardinality(C) \in Nat
      BY <1>7, FS_CardinalityType
    <2>2. Cardinality(C) = Cardinality(A) + Cardinality(B) - Cardinality({})
      BY <1>6, <1>7, FS_Union
    <2> QED
      BY <2>1, <2>2, FS_EmptySet
  <1>10. ASSUME NEW F \in [C -> Int]
         PROVE  SumFunction([t \in A |-> F[t]]) + SumFunction([t \in B |-> F[t]])
                  = SumFunction(F)
    BY <1>6, <1>7, SumOfHalves
  <1>11. SumFunction(pnl(A)) + SumFunction(pnl(B)) = SumFunction(pnl(C))
    <2> DEFINE F == pnl(C)
    <2>1. F \in [C -> Int]
      BY <1>8
    <2>2. [t \in A |-> F[t]] = pnl(A) /\ [t \in B |-> F[t]] = pnl(B)
      BY <1>6
    <2> HIDE DEF pnl
    <2> QED
      BY <1>10, <2>1, <2>2
  <1>12. SumFunction(held(A)) + SumFunction(held(B)) = SumFunction(held(C))
    <2> DEFINE F == held(C)
    <2>1. F \in [C -> Int]
      BY <1>8
    <2>2. [t \in A |-> F[t]] = held(A) /\ [t \in B |-> F[t]] = held(B)
      BY <1>6
    <2> HIDE DEF held
    <2> QED
      BY <1>10, <2>1, <2>2
  <1>13. SumFunction(quantity(A)) + SumFunction(quantity(B)) = SumFunction(quantity(C))
    <2> DEFINE F == quantity(C)
    <2>1. F \in [C -> Int]
      BY <1>8
    <2>2. [t \in A |-> F[t]] = quantity(A) /\ [t \in B |-> F[t]] = quantity(B)
      BY <1>6
    <2> HIDE DEF quantity
    <2> QED
      BY <1>10, <2>1, <2>2
  <1>14. /\ Trades!Drawdown(Equity(0, day - 1)).worst <= Trades!Drawdown(Equity(0, last)).worst
         /\ Trades!Drawdown(Equity(day, last)).worst <= Trades!Drawdown(Equity(0, last)).worst
    <2> DEFINE E == Equity(0, last)
    <2>1. Equity(0, day - 1) \in SUBSET E /\ Equity(day, last) \in SUBSET E
      BY <1>2
    <2>2. IsFiniteSet(E) /\ \A s \in E : s.equity \in Int
      BY FS_Subset DEF StoredHistory
    <2> HIDE DEF E, Equity
    <2> QED
      BY <2>1, <2>2, ShorterFalls DEF E
  <1> HIDE DEF pnl, held, quantity, Equity
  <1>15. Trades!AddUp(a, b, c)
    BY <1>3, <1>4, <1>5, <1>9, <1>11, <1>12, <1>13, <1>14 DEF Trades!AddUp
  <1> QED
    BY <1>15 DEF a, b, c

(* The symbols add up.                                                        *)
LEMMA SymbolsAlwaysAddUp ==
    ASSUME NEW db, StoredHistory(db), NEW last \in Nat
    PROVE  Trades!SymbolsAddUp(db, last)
  <1> DEFINE K == Trades!Traded(db)
             C == ClosedIn(db, None, 0, last)
             key == [t \in C |-> t.symbol]
             closed == [s \in K |->
                          Trades!Performance(db, Trades!Query(s, 0, last)).closed]
             counted == [s \in K |-> Cardinality({t \in C : key[t] = s})]
  <1>1. \A s : Trades!Performance(db, Trades!Query(s, 0, last)).closed
                 = Cardinality(ClosedIn(db, s, 0, last))
    <2>1. 0 \in Nat /\ \A s : Performed(db, s, 0, last,
                                       Trades!Performance(db, Trades!Query(s, 0, last)))
      BY PerformanceIs
    <2> QED
      BY <2>1 DEF Performed
  <1>2. IsFiniteSet(C) /\ IsFiniteSet(K)
    BY ClosedAreFinite, SymbolsAreFinite
  <1>3. key \in [C -> K]
    BY DEF ClosedIn, TradesOf, Trades!Traded
  <1>4. \A s \in K : {t \in C : key[t] = s} = ClosedIn(db, s, 0, last)
    BY DEF ClosedIn, TradesOf, StoredHistory
  <1>5. closed = counted
    BY <1>1, <1>4
  <1>6. SumFunction(counted) = Cardinality(C)
    <2> HIDE DEF C, K, key
    <2> QED
      BY <1>2, <1>3, CountByGroup
  <1>7. C = {t \in Trades!Sales(db.trades) : t.time \div DayLength <= last}
    <2>1. \A t \in db.trades : t.time \div DayLength \in Nat
      BY DaysInOrder DEF StoredHistory, StoredTrades
    <2>2. ASSUME NEW d \in Nat PROVE d \in 0 .. last <=> d <= last
      OBVIOUS
    <2>3. \A t \in db.trades : t.time \div DayLength \in 0 .. last
                                 <=> t.time \div DayLength <= last
      BY <2>1, <2>2
    <2> QED
      BY <2>3 DEF ClosedIn, TradesOf, Trades!Sales
  <1>8. Trades!Performance(db, Trades!Query(None, 0, last)).closed = Cardinality(C)
    BY <1>1
  <1>9. SumFunction(closed) = Cardinality(C)
    BY <1>5, <1>6
  <1> HIDE DEF C
  <1> QED
    BY <1>7, <1>8, <1>9, SameLibrariesOfTrades DEF Trades!SymbolsAddUp

-----------------------------------------------------------------------------
(* Shares of a move, rounded.                                                 *)

(* A quotient rounded to the nearest is half of the divisor away at most.     *)
LEMMA HalfUpIsNearest ==
    ASSUME NEW n \in Nat, NEW d \in Nat \ {0}
    PROVE  /\ HalfUp(n, d) \in Nat /\ d * HalfUp(n, d) \in Nat
           /\ 2 * (d * HalfUp(n, d)) <= 2 * n + d
           /\ 2 * n < 2 * (d * HalfUp(n, d)) + d
  <1> DEFINE q == (2 * n + d) \div (2 * d)
  <1>1. 2 * d \in Nat /\ 2 * d > 0
    OBVIOUS
  <1>2. q \in Int /\ (2 * d) * q <= 2 * n + d /\ 2 * n + d < (2 * d) * q + 2 * d
    BY <1>1
  <1>3. HalfUp(n, d) = q
    BY DEF HalfUp
  <1>4. HalfUp(n, d) >= 0
    <2>1. 0 \in Nat /\ n >= 0 * d /\ n \in Int
      OBVIOUS
    <2> QED
      BY <2>1, HalfUpBounds
  <1> HIDE DEF q
  <1>5. (2 * d) * q = 2 * (d * q) /\ d * q \in Int
    BY <1>2
  <1>6. q >= 0 => d * q >= d * 0
    BY <1>2
  <1>7. d * 0 = 0
    OBVIOUS
  <1> QED
    BY <1>2, <1>3, <1>4, <1>5, <1>6, <1>7

(* A share, and the two shares of a whole, in hundredths of a per cent.       *)
Within(x) == Clamp(x, 0, 10000)

(* What is a share, and what a share is cut to.                               *)
LEMMA SharesAreBounds ==
    /\ \A x \in Nat : x <= 10000 => x \in Trades!Shares
    /\ \A x \in Nat : x <= 10001 /\ x >= 9999 => x \in Trades!Wholes
    /\ \A x \in Int : Within(x) \in Trades!Shares
    /\ \A x \in Trades!Shares : Within(x) = x
    /\ \A x \in Nat : Within(x) = 0 => x = 0
    /\ \A x \in Int : x >= 10000 => Within(x) = 10000
    /\ Trades!Shares \subseteq Int /\ 0 \in Trades!Shares /\ 5000 \in Trades!Shares
  <1>1. \A x \in Nat : x <= 10000 => x \in Trades!Shares
    BY SMTT(30) DEF Trades!Shares
  <1>2. \A x \in Nat : x <= 10001 /\ x >= 9999 => x \in Trades!Wholes
    BY SMT DEF Trades!Wholes
  <1>3. \A x \in Int : Within(x) \in Trades!Shares
    BY SMTT(30) DEF Trades!Shares, Within, Clamp
  <1>4. \A x \in Trades!Shares : Within(x) = x
    BY SMT DEF Trades!Shares, Within, Clamp
  <1>5. \A x \in Nat : Within(x) = 0 => x = 0
    BY SMT DEF Within, Clamp
  <1>6. \A x \in Int : x >= 10000 => Within(x) = 10000
    BY SMT DEF Within, Clamp
  <1>7. Trades!Shares \subseteq Int /\ 0 \in Trades!Shares /\ 5000 \in Trades!Shares
    BY SMT DEF Trades!Shares
  <1> QED
    BY <1>1, <1>2, <1>3, <1>4, <1>5, <1>6, <1>7, SMTT(30)

(* The shares of the two parts of a whole.                                    *)
LEMMA SharesOfAWhole ==
    ASSUME NEW a \in Nat, NEW b \in Nat, NEW w \in Nat \ {0}, w = a + b
    PROVE  /\ Rate(a, w) \in Trades!Shares /\ Rate(b, w) \in Trades!Shares
           /\ Rate(a, w) + Rate(b, w) \in Trades!Wholes
  <1> DEFINE x == Rate(a, w)
             y == Rate(b, w)
             u == w * x
             v == w * y
  <1>1. 10000 * a \in Nat /\ 10000 * b \in Nat
    BY SMT
  <1>2. /\ x \in Nat /\ u \in Nat /\ 2 * u <= 2 * (10000 * a) + w
        /\ 2 * (10000 * a) < 2 * u + w
    BY <1>1, HalfUpIsNearest DEF Rate
  <1>3. /\ y \in Nat /\ v \in Nat /\ 2 * v <= 2 * (10000 * b) + w
        /\ 2 * (10000 * b) < 2 * v + w
    BY <1>1, HalfUpIsNearest DEF Rate
  <1> HIDE DEF x, y
  <1>4. \A i, j \in Int : i <= j => w * i <= w * j
    OBVIOUS
  <1>5. w * (x + y) = u + v
    BY <1>2, <1>3
  <1>6. /\ w * 10001 = 10001 * w /\ w * 10002 = 10002 * w
        /\ w * 9998 = 9998 * w
    BY SMT
  <1>7. x >= 10001 => w * 10001 <= u
    <2>1. x >= 10001 => w * 10001 <= w * x
      BY <1>2, <1>4, SMT
    <2> QED
      BY <2>1, SMT
  <1>8. y >= 10001 => w * 10001 <= v
    <2>1. y >= 10001 => w * 10001 <= w * y
      BY <1>3, <1>4, SMT
    <2> QED
      BY <2>1, SMT
  <1>9. /\ x + y >= 10002 => w * 10002 <= w * (x + y)
        /\ x + y <= 9998 => w * (x + y) <= w * 9998
    BY <1>2, <1>3, <1>4, SMT
  <1> HIDE DEF u, v
  <1>10. x <= 10000 /\ y <= 10000
    BY <1>2, <1>3, <1>6, <1>7, <1>8, SMT
  <1>11. x + y <= 10001 /\ x + y >= 9999
    BY <1>2, <1>3, <1>5, <1>6, <1>9, SMT
  <1>12. x \in Nat /\ y \in Nat /\ x + y \in Nat
    BY <1>2, <1>3
  <1>13. x \in Trades!Shares /\ y \in Trades!Shares
    BY <1>10, <1>12, SharesAreBounds, SMT
  <1>14. x + y \in Trades!Wholes
    BY <1>11, <1>12, SharesAreBounds, SMT
  <1> QED
    BY <1>13, <1>14 DEF x, y

(* Next to nothing given back of a part is nothing given back of the whole.   *)
LEMMA NothingGivenBack ==
    ASSUME NEW g \in Nat, NEW w \in Nat \ {0}, NEW s \in Nat, w <= s, g <= s,
           Rate(g, w) = 0
    PROVE  Rate(s - g, s) >= 10000
  <1> DEFINE n == 10000 * g
             m == 10000 * (s - g)
             x == HalfUp(m, s)
             u == s * x
  <1>1. n \in Nat /\ m \in Nat /\ m = 10000 * s - n
    BY SMT
  <1>2. HalfUp(n, w) = 0 /\ Rate(s - g, s) = x
    BY SMT DEF Rate
  <1> HIDE DEF n, m
  <1>3. w * 0 = 0 /\ s \in Nat \ {0}
    OBVIOUS
  <1>4. 2 * n < 2 * (w * 0) + w
    <2>1. n \in Nat /\ w \in Nat \ {0}
      BY <1>1
    <2>2. 2 * n < 2 * (w * HalfUp(n, w)) + w
      BY <2>1, HalfUpIsNearest, Zenon
    <2> QED
      BY <2>2, <1>2
  <1>5. x \in Nat /\ u \in Nat /\ 2 * m < 2 * u + s
    <2>1. m \in Nat /\ s \in Nat \ {0}
      BY <1>1, <1>3
    <2> QED
      BY <2>1, HalfUpIsNearest, Zenon
  <1> HIDE DEF x
  <1>6. x <= 9999 => u <= s * 9999
    BY <1>5, SMT
  <1>7. s * 9999 = 9999 * s
    BY SMT
  <1> HIDE DEF u
  <1>8. x >= 10000
    BY <1>1, <1>3, <1>4, <1>5, <1>6, <1>7, SMT
  <1> QED
    BY <1>2, <1>8, SMT

(* A share is one.                                                            *)
LEMMA SharesAreShares ==
    ASSUME NEW part \in Int, NEW whole \in Nat \ {0}
    PROVE  /\ Trades!Share(part, whole) \in Trades!Shares
           /\ Rate(part, whole) \in Int
           /\ Trades!Share(part, whole) = Within(Rate(part, whole))
  <1>1. Trades!Share(part, whole) = Within(Rate(part, whole))
    BY SameLibrariesOfTrades, SMT DEF Trades!Share, Within, Rate
  <1>2. Rate(part, whole) \in Int
    <2> DEFINE n == 10000 * part
    <2>1. n \in Int /\ 0 \in Nat
      BY SMT
    <2>2. Rate(part, whole) = HalfUp(n, whole)
      BY SMT DEF Rate
    <2> HIDE DEF n
    <2> QED
      BY <2>1, <2>2, HalfUpBounds
  <1> QED
    BY <1>1, <1>2, SharesAreBounds

(* The description of a matched sale adds up.                                 *)
LEMMA DetailsAddUp ==
    ASSUME NEW sale, NEW cs, IsFiniteSet(cs),
           \A c \in cs : c.time \in Nat /\ c.price \in Nat,
           sale.quantity \in Nat \ {0}, sale.quantity = sale.trade.quantity,
           sale.trade.price \in Nat, sale.cost \in Int
    PROVE  Trades!DetailAddsUp(Trades!Detail(sale, cs))
  <1> DEFINE d == Trades!Detail(sale, cs)
             prices == Trades!SeenPrices(sale, cs)
             top == Max(prices)
             bottom == Min(prices)
             entry == sale.cost
             exit == sale.quantity * sale.trade.price
             favorable == top - entry
             span == top - bottom
             gain == Max({exit - entry, 0})
  <1>1. entry \in Int /\ exit \in Int
    OBVIOUS
  <1>2. IsFiniteSet(prices) /\ prices \subseteq Int /\ entry \in prices /\ exit \in prices
    <2> DEFINE seen == {x \in cs : x.time \in sale.since .. sale.trade.time}
               f == [c \in seen |-> sale.quantity * c.price]
               T == {f[c] : c \in seen}
    <2>1. IsFiniteSet(seen) /\ DOMAIN f = seen
      BY FS_Subset
    <2>2. \A c \in seen : f[c] \in Int
      OBVIOUS
    <2>3. prices = T \cup {entry, exit}
      BY DEF Trades!SeenPrices
    <2> HIDE DEF seen, f
    <2>4. IsFiniteSet(T) /\ T \subseteq Int
      BY <2>1, <2>2, FiniteImage
    <2> HIDE DEF T, prices, entry, exit
    <2>5. T \cup {entry, exit} = (T \cup {entry}) \cup {exit}
      OBVIOUS
    <2>6. IsFiniteSet((T \cup {entry}) \cup {exit})
      BY <2>4, FS_AddElement
    <2> QED
      BY <1>1, <2>3, <2>4, <2>5, <2>6, Zenon
  <1> HIDE DEF prices, entry, exit
  <1>3. /\ top \in Int /\ bottom \in Int
        /\ bottom <= entry /\ entry <= top /\ bottom <= exit /\ exit <= top
    <2>1. prices # {}
      BY <1>2
    <2> QED
      BY <1>2, <2>1, FiniteExtremes
  <1>4. /\ d.trade = sale.trade /\ d.quantity = sale.quantity
        /\ d.entry = <<entry, sale.quantity>>
        /\ d.mfe = Trades!Change100(favorable, entry)
        /\ d.captured = IF favorable > 0 THEN Trades!Share(gain, favorable) ELSE 0
        /\ d.giveback = IF favorable > 0 THEN Trades!Share(top - exit, favorable) ELSE 0
        /\ d.entryScore = Trades!Score(top - entry, span)
        /\ d.exitScore = Trades!Score(exit - bottom, span)
    BY SameLibrariesOfTrades DEF Trades!Detail, entry, exit, prices
  <1> HIDE DEF d, top, bottom
  <1>5. gain = IF exit >= entry THEN exit - entry ELSE 0
    <2>1. exit - entry \in Int /\ 0 \in Int /\ (exit - entry >= 0 <=> exit >= entry)
      BY <1>1
    <2> QED
      BY <2>1, GreaterOfTwo
  <1> HIDE DEF gain
  <1>6. favorable \in Nat /\ span \in Nat /\ favorable <= span /\ gain \in Nat
        /\ top - exit \in Nat /\ top - exit <= span /\ exit - bottom = span - (top - exit)
        /\ top - entry \in Int /\ exit - bottom \in Int
    BY <1>1, <1>3, <1>5
  <1>7. d.mfe > 0 => favorable > 0
    <2> SUFFICES ASSUME d.mfe > 0, favorable = 0 PROVE FALSE
      BY <1>6
    <2>1. CASE entry <= 0
      BY <1>1, <1>4, <2>1 DEF Trades!Change100
    <2>2. CASE entry > 0
      <3> DEFINE n == 10000 * favorable
      <3>1. d.mfe = HalfUp(n, entry) /\ entry \in Nat \ {0}
        BY <1>1, <1>4, <2>2, SameLibrariesOfTrades DEF Trades!Change100
      <3>2. n = 0 /\ n \in Int
        BY SMT
      <3> HIDE DEF n
      <3>3. HalfUp(n, entry) > 0 => 2 * n >= entry
        BY <3>1, <3>2, HalfUpPositive
      <3> QED
        BY <2>2, <3>1, <3>2, <3>3, <1>1
    <2> QED
      BY <1>1, <2>1, <2>2
  <1>8. Trades!Score(top - entry, span) \in Trades!Shares
        /\ Trades!Score(exit - bottom, span) \in Trades!Shares
    <2>1. CASE span > 0
      <3>1. /\ Trades!Score(top - entry, span) = Trades!Share(top - entry, span)
            /\ Trades!Score(exit - bottom, span) = Trades!Share(exit - bottom, span)
        BY <2>1 DEF Trades!Score
      <3>2. span \in Nat \ {0} /\ top - entry \in Int /\ exit - bottom \in Int
        BY <1>6, <2>1
      <3> HIDE DEF span
      <3> QED
        BY <3>1, <3>2, SharesAreShares
    <2>2. CASE ~(span > 0)
      <3>1. /\ Trades!Score(top - entry, span) = 5000
            /\ Trades!Score(exit - bottom, span) = 5000
        BY <2>2 DEF Trades!Score
      <3> QED
        BY <3>1, SharesAreBounds
    <2> QED
      BY <2>1, <2>2
  <1>9. d.captured \in Trades!Shares /\ d.giveback \in Trades!Shares
    <2>1. CASE favorable > 0
      <3> DEFINE rest == top - exit
      <3>1. favorable \in Nat \ {0} /\ gain \in Int /\ rest \in Int
        BY <1>6, <2>1
      <3> HIDE DEF rest, favorable
      <3>2. Trades!Share(gain, favorable) \in Trades!Shares
            /\ Trades!Share(rest, favorable) \in Trades!Shares
        BY <3>1, SharesAreShares
      <3>3. /\ d.captured = Trades!Share(gain, favorable)
            /\ d.giveback = Trades!Share(rest, favorable)
        BY <1>4, <2>1 DEF rest
      <3> QED
        BY <3>2, <3>3
    <2>2. CASE ~(favorable > 0)
      <3>1. d.captured = 0 /\ d.giveback = 0
        BY <1>4, <2>2
      <3> QED
        BY <3>1, SharesAreBounds
    <2> QED
      BY <2>1, <2>2
  <1>10. {d.captured, d.giveback, d.entryScore, d.exitScore} \subseteq Trades!Shares
    BY <1>4, <1>8, <1>9
  <1>11. ASSUME favorable > 0, exit >= entry PROVE d.captured + d.giveback \in Trades!Wholes
    <2> DEFINE rest == top - exit
    <2>1. /\ gain \in Nat /\ rest \in Nat /\ favorable \in Nat \ {0}
          /\ favorable = gain + rest
      BY <1>1, <1>3, <1>5, <1>6, <1>11
    <2>2. /\ d.captured = Trades!Share(gain, favorable)
          /\ d.giveback = Trades!Share(rest, favorable)
      BY <1>4, <1>11
    <2> HIDE DEF rest, favorable
    <2>3. /\ Rate(gain, favorable) \in Trades!Shares /\ Rate(rest, favorable) \in Trades!Shares
          /\ Rate(gain, favorable) + Rate(rest, favorable) \in Trades!Wholes
      BY <2>1, SharesOfAWhole
    <2> DEFINE x == Rate(gain, favorable)
               y == Rate(rest, favorable)
    <2>4. gain \in Int /\ rest \in Int
      BY <2>1
    <2>5. Trades!Share(gain, favorable) = Within(x) /\ Trades!Share(rest, favorable) = Within(y)
      BY <2>1, <2>4, SharesAreShares
    <2> HIDE DEF x, y
    <2>6. x \in Trades!Shares /\ y \in Trades!Shares /\ x + y \in Trades!Wholes
      BY <2>3 DEF x, y
    <2>7. Within(x) = x /\ Within(y) = y
      BY <2>6, SharesAreBounds
    <2> QED
      BY <2>2, <2>5, <2>6, <2>7
  <1>12. ASSUME favorable > 0, d.giveback = 0 PROVE d.exitScore = 10000
    <2> DEFINE rest == top - exit
               y == Rate(span - rest, span)
    <2>1. /\ rest \in Nat /\ favorable \in Nat \ {0} /\ span \in Nat \ {0}
          /\ favorable <= span /\ rest <= span /\ exit - bottom = span - rest
      BY <1>6, <1>12
    <2>2. Trades!Share(rest, favorable) = 0
      BY <1>4, <1>12
    <2>3. d.exitScore = Trades!Share(span - rest, span)
      BY <1>4, <2>1 DEF Trades!Score
    <2> HIDE DEF rest, favorable, span
    <2>4. Rate(rest, favorable) = 0
      <3>1. Within(Rate(rest, favorable)) = 0
        BY <2>1, <2>2, SharesAreShares
      <3>2. Rate(rest, favorable) \in Nat
        <4>1. 10000 * rest \in Nat
          BY <2>1, SMT
        <4> QED
          BY <2>1, <4>1, HalfUpIsNearest DEF Rate
      <3> QED
        BY <3>1, <3>2, SharesAreBounds
    <2>5. y >= 10000
      BY <2>1, <2>4, NothingGivenBack
    <2>6. y \in Int /\ Trades!Share(span - rest, span) = Within(y)
      <3>1. span - rest \in Int
        BY <2>1
      <3> QED
        BY <2>1, <3>1, SharesAreShares
    <2> HIDE DEF y
    <2>7. Within(y) = 10000
      BY <2>5, <2>6, SharesAreBounds, SMT
    <2> QED
      BY <2>3, <2>6, <2>7, SMT
  <1> HIDE DEF favorable, span
  <1>13. d.trade.price * d.quantity = exit /\ d.entry[1] = entry
    BY <1>4 DEF exit
  <1>14. d.quantity = d.trade.quantity
    BY <1>4
  <1>16. d.mfe > 0 /\ d.trade.price * d.quantity >= d.entry[1]
           => d.captured + d.giveback \in Trades!Wholes
    BY <1>7, <1>11, <1>13
  <1>17. d.mfe > 0 /\ d.giveback = 0 => d.exitScore \in {5000, 10000}
    <2>1. ASSUME d.mfe > 0, d.giveback = 0 PROVE d.exitScore = 10000
      BY <2>1, <1>7, <1>12
    <2> QED
      BY <2>1, SMT
  <1>18. Trades!DetailAddsUp(d)
    BY <1>10, <1>14, <1>16, <1>17, SMT DEF Trades!DetailAddsUp
  <1> QED
    BY <1>18 DEF d

-----------------------------------------------------------------------------
(* The pages have the same sales.                                             *)

(* The groups of a review add up to the page that has the same sales.         *)
LEMMA GroupsAlwaysAddUp ==
    ASSUME NEW C, IsFiniteSet(C), \A t \in C : t.pnl \in Int,
           NEW K, IsFiniteSet(K), NEW key \in [C -> K],
           NEW groups, groups = [k \in K |-> Trades!Compare({t \in C : key[t] = k})],
           NEW p, p.closed = Cardinality(C), p.pnl = SumFunction([t \in C |-> t.pnl])
    PROVE  Trades!GroupsAddUp(groups, p)
  <1> DEFINE F == [t \in C |-> t.pnl]
             of(k) == {t \in C : key[t] = k}
             counted == [k \in K |-> Cardinality({t \in C : key[t] = k})]
             summed == [k \in K |-> SumFunction([t \in {y \in C : key[y] = k} |-> F[t]])]
             trades == [k \in DOMAIN groups |-> groups[k].trades]
             pnl == [k \in DOMAIN groups |-> groups[k].pnl]
  <1>1. F \in [C -> Int]
    OBVIOUS
  <1>2. SumFunction(counted) = Cardinality(C)
    BY CountByGroup
  <1>3. SumFunction(summed) = SumFunction(F)
    <2> HIDE DEF F
    <2> QED
      BY <1>1, SumByGroup
  <1>4. \A k \in K : groups[k].trades = Cardinality(of(k))
    BY SameLibrariesOfTrades, Zenon DEF Trades!Compare
  <1>5. \A k \in K : groups[k].pnl = SumFunction([t \in of(k) |-> t.pnl])
    BY SameLibrariesOfTrades, Zenon DEF Trades!Compare, Trades!Pnl
  <1>6. trades = counted
    BY <1>4
  <1>7. pnl = summed
    <2>1. \A k \in K : [t \in of(k) |-> t.pnl] = [t \in of(k) |-> F[t]]
      OBVIOUS
    <2> HIDE DEF F
    <2> QED
      BY <1>5, <2>1
  <1> HIDE DEF F, counted, summed
  <1> QED
    BY <1>2, <1>3, <1>6, <1>7, SameLibrariesOfTrades DEF Trades!GroupsAddUp, F

(* The trades of every page, of a range and of its past, are the same sales.  *)
LEMMA SameSalesEverywhere ==
    ASSUME NEW db, StoredHistory(db), NEW symbol \in Trades!Traded(db) \cup {None},
           NEW from \in Nat, NEW to \in Nat
    PROVE  Trades!SameTrades(db, Trades!Query(symbol, from, to))
  <1> DEFINE q == Trades!Query(symbol, from, to)
             p == Trades!Performance(db, q)
             C == ClosedIn(db, symbol, from, to)
             upTo == {t \in TradesOf(db, symbol) : t.time \div DayLength \in 0 .. to}
             sales == Trades!MatchedSales(Trades!QualityTrades(db, q))
             cs == Trades!QualityCandles(db, q)
             details == Trades!Details(sales, cs, q)
             quality == Trades!Quality(db, q)
             review == Trades!Review(db, q)
  <1>1. /\ p.closed = Cardinality(C)
        /\ p.pnl = SumFunction([t \in C |-> t.pnl])
    <2>1. Performed(db, symbol, from, to, p)
      BY PerformanceIs
    <2> HIDE DEF p
    <2> QED
      BY <2>1 DEF Performed
  <1>2. IsFiniteSet(C)
    BY ClosedAreFinite
  <1>3. \A t \in C : t \in TradesOf(db, symbol) /\ Trades!Sold(t) /\ t \in db.trades
    BY DEF ClosedIn, TradesOf
  <1>4. /\ Trades!QualityTrades(db, q) = upTo
        /\ Trades!ReviewTrades(db, q)
             = {t \in TradesOf(db, symbol) : t.time \div DayLength \in from .. to}
        /\ \A r : Trades!InRange(r, q) <=> r.time \div DayLength \in from .. to
    BY RowsRead
  <1>5. /\ {t \in DOMAIN sales : t.time \div DayLength \in from .. to} = C
        /\ \A t \in C : sales[t] = MatchOf(db, symbol, t)
    <2> DEFINE P == Trades!QualityTrades(db, q)
    <2>1. P = upTo
      BY <1>4
    <2> HIDE DEF P
    <2> QED
      BY <2>1, MatchedFromThePast DEF P
  <1>6. \A t \in C : sales[t].quantity > 0
    BY <1>3, <1>5, MatchesAreWhole
  <1>7. DOMAIN details = C /\ \A t \in C : details[t] = Trades!Detail(sales[t], cs)
    <2> DEFINE D == {x \in DOMAIN sales : sales[x].quantity > 0 /\ Trades!InRange(x, q)}
    <2>1. details = [t \in D |-> Trades!Detail(sales[t], cs)]
      BY DEF Trades!Details
    <2>2. D = C
      <3> HIDE DEF sales, q, C
      <3> QED
        BY <1>4, <1>5, <1>6
    <2> HIDE DEF D, details, sales, cs
    <2> QED
      BY <2>1, <2>2
  <1>8. quality.closed = Cardinality(C) /\ quality.details = details
    <2>1. /\ quality.closed = Trades!Cardinality(DOMAIN details)
          /\ quality.details = details
      BY DEF Trades!Quality, Trades!Describe
    <2> HIDE DEF quality, details
    <2> QED
      BY <1>7, <2>1, SameLibrariesOfTrades
  <1>9. IsFiniteSet(cs) /\ \A c \in cs : c.time \in Nat /\ c.price \in Nat
    <2>1. cs \in SUBSET db.candles
      BY DEF Trades!QualityCandles, Trades!History
    <2> HIDE DEF cs
    <2> QED
      BY <2>1, FS_Subset DEF StoredHistory
  <1>10. ASSUME NEW t \in C PROVE Trades!DetailAddsUp(details[t])
    <2> DEFINE m == MatchOf(db, symbol, t)
    <2>1. /\ m.trade = t /\ m.quantity = t.quantity /\ m.cost \in Int
          /\ t.quantity \in Nat \ {0} /\ t.price \in Nat
      BY <1>3, MatchesAreWhole
    <2>2. details[t] = Trades!Detail(m, cs)
      BY <1>5, <1>7
    <2> HIDE DEF m, cs, details
    <2>3. /\ m.quantity \in Nat \ {0} /\ m.quantity = m.trade.quantity
          /\ m.trade.price \in Nat /\ m.cost \in Int
      BY <2>1
    <2>4. Trades!DetailAddsUp(Trades!Detail(m, cs))
      BY <1>9, <2>3, DetailsAddUp
    <2> QED
      BY <2>2, <2>4
  <1>11. Trades!Sales(Trades!ReviewTrades(db, q)) = C
    <2> HIDE DEF q
    <2> QED
      BY <1>4 DEF ClosedIn, Trades!Sales
  <1>12. /\ review.closed = Cardinality(C)
         /\ review.profiles = Trades!ByProfile(C)
         /\ review.sources = Trades!BySource(C)
    <2>1. /\ review.closed = Trades!Cardinality(Trades!Sales(Trades!ReviewTrades(db, q)))
          /\ review.profiles = Trades!ByProfile(Trades!Sales(Trades!ReviewTrades(db, q)))
          /\ review.sources = Trades!BySource(Trades!Sales(Trades!ReviewTrades(db, q)))
      BY DEF Trades!Review, Trades!ReviewOfTrades, Trades!ReviewOf
    <2> HIDE DEF review, q, C
    <2> QED
      BY <1>11, <2>1, SameLibrariesOfTrades
  <1> HIDE DEF C, q, p, quality, review, details
  <1>13. \A t \in C : t.pnl \in Int
    BY <1>3 DEF StoredHistory, StoredTrades
  <1>14. Trades!GroupsAddUp(review.profiles, p)
    <2> DEFINE K == Trades!Profiles
               key == [t \in C |-> t.profile]
               groups == [k \in K |-> Trades!Compare({t \in C : key[t] = k})]
    <2>1. IsFiniteSet(K)
      <3>1. IsFiniteSet({"conservative"}) /\ IsFiniteSet({"balanced"})
            /\ IsFiniteSet({"aggressive"})
        BY FS_Singleton
      <3>2. K = ({"conservative"} \cup {"balanced"}) \cup {"aggressive"}
        BY DEF Trades!Profiles
      <3> QED
        BY <3>1, <3>2, FS_Union
    <2>2. key \in [C -> K]
      BY <1>3 DEF StoredHistory
    <2>3. review.profiles = groups
      <3>1. \A k \in K : {t \in C : key[t] = k} = {t \in C : t.profile = k}
        OBVIOUS
      <3>2. review.profiles = [k \in K |-> Trades!Compare({t \in C : t.profile = k})]
        BY <1>12 DEF Trades!ByProfile
      <3> HIDE DEF key, K
      <3> QED
        BY <3>1, <3>2
    <2> HIDE DEF K, key
    <2> DEFINE rows == review.profiles
    <2>4. rows = groups
      BY <2>3
    <2> HIDE DEF rows
    <2>5. Trades!GroupsAddUp(rows, p)
      BY <1>1, <1>2, <1>13, <2>1, <2>2, <2>4, GroupsAlwaysAddUp
    <2> QED
      BY <2>5 DEF rows
  <1>15. Trades!GroupsAddUp(review.sources, p)
    <2> DEFINE K == {"auto", "manual"}
               key == [t \in C |-> t.source]
               groups == [k \in K |-> Trades!Compare({t \in C : key[t] = k})]
    <2>1. IsFiniteSet(K)
      <3>1. IsFiniteSet({"auto"}) /\ IsFiniteSet({"manual"})
        BY FS_Singleton
      <3>2. K = {"auto"} \cup {"manual"}
        OBVIOUS
      <3> QED
        BY <3>1, <3>2, FS_Union
    <2>2. key \in [C -> K]
      BY <1>3 DEF StoredHistory
    <2>3. review.sources = groups
      <3>1. \A k \in K : {t \in C : key[t] = k} = {t \in C : t.source = k}
        OBVIOUS
      <3>2. review.sources = [k \in K |-> Trades!Compare({t \in C : t.source = k})]
        BY <1>12 DEF Trades!BySource
      <3> HIDE DEF key, K
      <3> QED
        BY <3>1, <3>2
    <2> HIDE DEF K, key
    <2> DEFINE rows == review.sources
    <2>4. rows = groups
      BY <2>3
    <2> HIDE DEF rows
    <2>5. Trades!GroupsAddUp(rows, p)
      BY <1>1, <1>2, <1>13, <2>1, <2>2, <2>4, GroupsAlwaysAddUp
    <2> QED
      BY <2>5 DEF rows
  <1>16. Trades!SameSales(p, quality, review)
    BY <1>1, <1>7, <1>8, <1>10, <1>12, <1>14, <1>15 DEF Trades!SameSales
  <1> QED
    BY <1>16 DEF Trades!SameTrades, p, quality, review, q

(* On every history the paper broker leaves behind, of any length, the reports *)
(* on trades agree.                                                            *)
THEOREM TradeReportsAlwaysAgree ==
    ASSUME NEW db, StoredHistory(db), NEW last \in Nat
    PROVE  Trades!HistoryAgrees(db, last)
  <1>1. \A symbol \in Trades!Traded(db) \cup {None} : Trades!RangesAddUp(db, symbol, last)
    BY RangesAlwaysAddUp
  <1>2. \A symbol \in Trades!Traded(db) \cup {None} :
          \A from, to \in 0 .. last : Trades!SameTrades(db, Trades!Query(symbol, from, to))
    <2>1. \A d \in 0 .. last : d \in Nat
      OBVIOUS
    <2> QED
      BY <2>1, SameSalesEverywhere
  <1>3. Trades!SymbolsAddUp(db, last)
    BY SymbolsAlwaysAddUp
  <1> QED
    BY <1>1, <1>2, <1>3 DEF Trades!HistoryAgrees

-----------------------------------------------------------------------------
(* The histories of the questions.                                            *)

(* A row the paper broker can have written.                                   *)
Moment == <<3, 5, 8, 14, 15, 26>>
PaperTrade(t, symbol) ==
    /\ t.id \in 1 .. 6 /\ t.time = Moment[t.id] /\ t.symbol = symbol
    /\ t.quantity \in Nat \ {0} /\ t.price \in Nat \ {0} /\ t.pnl \in Int
    /\ t.profile \in Trades!Profiles /\ t.source \in {"auto", "manual"}

(* The rows of a question are in the order of time.                           *)
LEMMA MomentsPass ==
    /\ \A i \in 1 .. 6 : Moment[i] \in Nat
    /\ \A i, j \in 1 .. 6 : i < j => Moment[i] <= Moment[j]
  <1>1. /\ Moment[1] = 3 /\ Moment[2] = 5 /\ Moment[3] = 8
        /\ Moment[4] = 14 /\ Moment[5] = 15 /\ Moment[6] = 26
    BY DEF Moment
  <1>2. \A i \in 1 .. 6 : i = 1 \/ i = 2 \/ i = 3 \/ i = 4 \/ i = 5 \/ i = 6
    OBVIOUS
  <1> QED
    BY <1>1, <1>2

(* The prices of both shapes are positive while they last.                    *)
LEMMA PricesArePositive ==
    ASSUME NEW shape \in Trades!PriceShapes, NEW t \in 1 .. 28
    PROVE  Trades!PriceAt(shape, t) \in Nat \ {0}
  <1>1. CASE shape = "dipping"
    <2> DEFINE x == 1000 - 4 * t
               y == 900 + 3 * t
    <2>1. Trades!PriceAt(shape, t) = IF t < 10 THEN x ELSE y
      BY <1>1 DEF Trades!PriceAt
    <2>2. x \in Nat \ {0} /\ y \in Nat \ {0}
      BY SMT
    <2> HIDE DEF x, y
    <2> QED
      BY <2>1, <2>2, SMT
  <1>2. CASE shape = "swinging"
    <2> DEFINE x == 1040 - t
               y == 980 + t
    <2>1. Trades!PriceAt(shape, t) = IF t % 2 = 0 THEN x ELSE y
      BY <1>2 DEF Trades!PriceAt
    <2>2. x \in Nat \ {0} /\ y \in Nat \ {0}
      BY SMT
    <2> HIDE DEF x, y
    <2> QED
      BY <2>1, <2>2, SMT
  <1> QED
    BY <1>1, <1>2 DEF Trades!PriceShapes

(* An order is for some quantity.                                             *)
LEMMA OrdersAre ==
    ASSUME NEW o \in Trades!Orders
    PROVE  o[2] \in Nat \ {0}
  BY DEF Trades!Orders

(* What is held, what it cost and what is booked are integers.                *)
LEMMA BookedType ==
    ASSUME NEW held \in Int, NEW basis \in Int, NEW o \in Trades!Orders, NEW price \in Int
    PROVE  /\ Trades!Held(held, o) \in Int
           /\ Trades!Basis(held, basis, o, price) \in Int
           /\ Trades!Booked(held, basis, o, price) \in Int
  <1> DEFINE sold == Trades!CostSold(held, basis, o)
  <1>1. o[2] \in Int
    BY OrdersAre
  <1>2. sold \in Int
    <2>1. CASE held > 0
      <3> DEFINE n == basis * o[2]
      <3>1. n \in Int /\ held \in Nat \ {0} /\ 0 \in Nat
        BY <1>1, <2>1
      <3>2. sold = HalfUp(n, held)
        BY <2>1, SameLibrariesOfTrades DEF Trades!CostSold
      <3> HIDE DEF n, sold
      <3> QED
        BY <3>1, <3>2, HalfUpBounds
    <2>2. CASE ~(held > 0)
      BY <2>2 DEF Trades!CostSold
    <2> QED
      BY <2>1, <2>2
  <1> HIDE DEF sold
  <1>3. o[2] * price \in Int
    BY <1>1
  <1>4. Trades!Held(held, o) \in Int
    BY <1>1 DEF Trades!Held
  <1>5. Trades!Basis(held, basis, o, price) \in Int
    BY <1>2, <1>3 DEF Trades!Basis, sold
  <1>6. Trades!Booked(held, basis, o, price) \in Int
    BY <1>2, <1>3 DEF Trades!Booked, sold
  <1> QED
    BY <1>4, <1>5, <1>6

(* The row of an order is one.                                                *)
LEMMA RowsOfOrders ==
    ASSUME NEW id \in 1 .. 6, NEW symbol, NEW o \in Trades!Orders,
           NEW price \in Nat \ {0}, NEW pnl \in Int, NEW time, time = Moment[id],
           NEW t, t = Trades!Trade(id, time, symbol, o, price, pnl)
    PROVE  PaperTrade(t, symbol) /\ t.id = id
  <1>1. /\ t.id = id /\ t.time = time /\ t.symbol = symbol /\ t.quantity = o[2]
        /\ t.price = price /\ t.pnl = pnl
        /\ t.profile = IF time < 10 THEN "balanced" ELSE "aggressive"
        /\ t.source = IF time % 2 = 0 THEN "manual" ELSE "auto"
    BY DEF Trades!Trade
  <1>2. t.profile \in Trades!Profiles /\ t.source \in {"auto", "manual"}
    BY <1>1, Zenon DEF Trades!Profiles
  <1>3. o[2] \in Nat \ {0}
    BY OrdersAre
  <1> QED
    BY <1>1, <1>2, <1>3 DEF PaperTrade

(* A plan's trades are rows of its symbol.                                    *)
LEMMA AlphaIsTraded ==
    ASSUME NEW plan \in [1 .. 4 -> Trades!Orders], NEW shape \in Trades!PriceShapes
    PROVE  \E r : /\ Trades!AlphaRows(plan, shape) = {r[i] : i \in 1 .. 4}
                  /\ \A i \in 1 .. 4 : PaperTrade(r[i], btc) /\ r[i].id = Trades!Ids[i]
                  /\ DOMAIN r = 1 .. 4
  <1> DEFINE price == [i \in 1 .. 4 |-> Trades!PriceAt(shape, Trades!Slots[i])]
             held2 == Trades!Held(0, plan[1])
             held3 == Trades!Held(held2, plan[2])
             held4 == Trades!Held(held3, plan[3])
             basis2 == Trades!Basis(0, 0, plan[1], price[1])
             basis3 == Trades!Basis(held2, basis2, plan[2], price[2])
             basis4 == Trades!Basis(held3, basis3, plan[3], price[3])
             pnl == <<Trades!Booked(0, 0, plan[1], price[1]),
                      Trades!Booked(held2, basis2, plan[2], price[2]),
                      Trades!Booked(held3, basis3, plan[3], price[3]),
                      Trades!Booked(held4, basis4, plan[4], price[4])>>
             r == [i \in 1 .. 4 |-> Trades!Trade(Trades!Ids[i], Trades!Slots[i], btc,
                                                 plan[i], price[i], pnl[i])]
  <1>1. \A i \in 1 .. 4 : Trades!Slots[i] = Moment[Trades!Ids[i]] /\ Trades!Ids[i] \in 1 .. 6
                          /\ Trades!Slots[i] \in 1 .. 28
    <2>1. /\ Trades!Slots[1] = 3 /\ Trades!Slots[2] = 8
          /\ Trades!Slots[3] = 14 /\ Trades!Slots[4] = 26
      BY DEF Trades!Slots
    <2>2. /\ Trades!Ids[1] = 1 /\ Trades!Ids[2] = 3
          /\ Trades!Ids[3] = 4 /\ Trades!Ids[4] = 6
      BY DEF Trades!Ids
    <2>3. Moment[1] = 3 /\ Moment[3] = 8 /\ Moment[4] = 14 /\ Moment[6] = 26
      BY DEF Moment
    <2>4. \A i \in 1 .. 4 : i = 1 \/ i = 2 \/ i = 3 \/ i = 4
      OBVIOUS
    <2> QED
      BY <2>1, <2>2, <2>3, <2>4
  <1>2. \A i \in 1 .. 4 : price[i] \in Nat \ {0}
    BY <1>1, PricesArePositive
  <1>3. \A i \in 1 .. 4 : plan[i] \in Trades!Orders
    OBVIOUS
  <1>4. Trades!AlphaRows(plan, shape) = {r[i] : i \in 1 .. 4} /\ DOMAIN r = 1 .. 4
    BY DEF Trades!AlphaRows
  <1>5. r = [i \in 1 .. 4 |-> Trades!Trade(Trades!Ids[i], Trades!Slots[i], btc,
                                           plan[i], price[i], pnl[i])]
    OBVIOUS
  <1> HIDE DEF price, r
  <1>6. /\ price[1] \in Int /\ price[2] \in Int /\ price[3] \in Int /\ price[4] \in Int
        /\ plan[1] \in Trades!Orders /\ plan[2] \in Trades!Orders
        /\ plan[3] \in Trades!Orders /\ plan[4] \in Trades!Orders /\ 0 \in Int
    BY <1>2, <1>3
  <1>7. held2 \in Int /\ basis2 \in Int /\ Trades!Booked(0, 0, plan[1], price[1]) \in Int
    <2> DEFINE o == plan[1]
               x == price[1]
    <2>1. 0 \in Int /\ 0 \in Int /\ o \in Trades!Orders /\ x \in Int
      BY <1>6
    <2> HIDE DEF o, x
    <2>2. /\ Trades!Held(0, o) \in Int /\ Trades!Basis(0, 0, o, x) \in Int
          /\ Trades!Booked(0, 0, o, x) \in Int
      BY <2>1, BookedType
    <2> QED
      BY <2>2 DEF o, x
  <1> HIDE DEF held2, basis2
  <1>8. /\ held3 \in Int /\ basis3 \in Int
        /\ Trades!Booked(held2, basis2, plan[2], price[2]) \in Int
    <2> DEFINE o == plan[2]
               x == price[2]
    <2>1. held2 \in Int /\ basis2 \in Int /\ o \in Trades!Orders /\ x \in Int
      BY <1>6, <1>7
    <2> HIDE DEF o, x
    <2>2. /\ Trades!Held(held2, o) \in Int /\ Trades!Basis(held2, basis2, o, x) \in Int
          /\ Trades!Booked(held2, basis2, o, x) \in Int
      BY <2>1, BookedType
    <2> QED
      BY <2>2 DEF o, x
  <1> HIDE DEF held3, basis3
  <1>9. /\ held4 \in Int /\ basis4 \in Int
        /\ Trades!Booked(held3, basis3, plan[3], price[3]) \in Int
    <2> DEFINE o == plan[3]
               x == price[3]
    <2>1. held3 \in Int /\ basis3 \in Int /\ o \in Trades!Orders /\ x \in Int
      BY <1>6, <1>8
    <2> HIDE DEF o, x
    <2>2. /\ Trades!Held(held3, o) \in Int /\ Trades!Basis(held3, basis3, o, x) \in Int
          /\ Trades!Booked(held3, basis3, o, x) \in Int
      BY <2>1, BookedType
    <2> QED
      BY <2>2 DEF o, x
  <1> HIDE DEF held4, basis4
  <1>10. Trades!Booked(held4, basis4, plan[4], price[4]) \in Int
    BY <1>6, <1>9, BookedType
  <1>11. \A i \in 1 .. 4 : pnl[i] \in Int
    <2>1. /\ pnl[1] \in Int /\ pnl[2] \in Int /\ pnl[3] \in Int /\ pnl[4] \in Int
      BY <1>7, <1>8, <1>9, <1>10
    <2> HIDE DEF pnl
    <2>2. \A i \in 1 .. 4 : i = 1 \/ i = 2 \/ i = 3 \/ i = 4
      OBVIOUS
    <2> QED
      BY <2>1, <2>2
  <1> HIDE DEF pnl
  <1>12. ASSUME NEW i \in 1 .. 4
         PROVE  PaperTrade(r[i], btc) /\ r[i].id = Trades!Ids[i]
    <2>1. r[i] = Trades!Trade(Trades!Ids[i], Trades!Slots[i], btc, plan[i], price[i], pnl[i])
      BY <1>5
    <2> QED
      BY <1>1, <1>2, <1>3, <1>11, <2>1, RowsOfOrders
  <1> QED
    BY <1>4, <1>12

(* Beta is bought and sold again.                                             *)
LEMMA BetaIsTraded ==
    \E b, s : /\ Trades!BetaRows = {b, s} /\ PaperTrade(b, eth) /\ PaperTrade(s, eth)
              /\ b.id = 2 /\ s.id = 5
              /\ Trades!Net(b) = 1 /\ Trades!Net(s) = -1
  <1> DEFINE b == Trades!Trade(2, 5, eth, <<"BUY", 1>>, 500, 0)
             s == Trades!Trade(5, 15, eth, <<"SELL", 1>>, 520, 20)
  <1>1. Trades!BetaRows = {b, s}
    BY DEF Trades!BetaRows
  <1>2. /\ 2 \in 1 .. 6 /\ 5 \in 1 .. 6 /\ 0 \in Int /\ Moment[2] = 5 /\ Moment[5] = 15
        /\ <<"BUY", 1>> \in Trades!Orders /\ <<"SELL", 1>> \in Trades!Orders
    BY DEF Moment, Trades!Orders
  <1>3. 500 \in Nat \ {0} /\ 520 \in Nat \ {0} /\ 20 \in Int
    BY SMT
  <1>4. PaperTrade(b, eth) /\ b.id = 2
    BY <1>2, <1>3, RowsOfOrders
  <1>5. PaperTrade(s, eth) /\ s.id = 5
    BY <1>2, <1>3, RowsOfOrders
  <1>6. /\ b.side = "BUY" /\ b.quantity = 1 /\ b.status = "executed"
        /\ s.side = "SELL" /\ s.quantity = 1 /\ s.status = "executed"
    BY DEF Trades!Trade
  <1> HIDE DEF b, s
  <1>7. Trades!Net(b) = 1 /\ Trades!Net(s) = -1
    BY <1>6 DEF Trades!Net, Trades!Lot, Trades!Wanted, Trades!Bought, Trades!Sold
  <1> QED
    BY <1>1, <1>4, <1>5, <1>7

(* The trades of a question are six rows, of either symbol.                   *)
LEMMA TradesOfQuestion ==
    ASSUME NEW q \in Trades!TradeQuestions,
           NEW A, A = Trades!AlphaRows(q.plan, q.shape)
    PROVE  /\ StoredTrades(A \cup Trades!BetaRows)
           /\ \A t \in A : PaperTrade(t, btc)
           /\ \A t \in Trades!BetaRows : PaperTrade(t, eth)
           /\ Trades!Covered(A) /\ Trades!Covered(Trades!BetaRows)
           /\ q.shape \in Trades!PriceShapes
  <1> DEFINE B == Trades!BetaRows
  <1>1. /\ q.plan \in [1 .. 4 -> Trades!Orders] /\ q.shape \in Trades!PriceShapes
        /\ Trades!Covered(A)
    BY DEF Trades!TradeQuestions, Trades!Plans
  <1>2. PICK r : /\ A = {r[i] : i \in 1 .. 4}
                 /\ \A i \in 1 .. 4 : PaperTrade(r[i], btc) /\ r[i].id = Trades!Ids[i]
                 /\ DOMAIN r = 1 .. 4
    BY <1>1, AlphaIsTraded
  <1>3. PICK b, s : /\ B = {b, s} /\ PaperTrade(b, eth) /\ PaperTrade(s, eth)
                    /\ b.id = 2 /\ s.id = 5 /\ Trades!Net(b) = 1 /\ Trades!Net(s) = -1
    BY BetaIsTraded
  <1> HIDE DEF B
  <1>4. IsFiniteSet(A)
    <2>1. IsFiniteSet(1 .. 4)
      BY FiniteInterval
    <2> DEFINE I == 1 .. 4
    <2>2. IsFiniteSet(I) /\ DOMAIN r = I /\ A = {r[i] : i \in I}
      BY <1>2, <2>1
    <2> HIDE DEF I
    <2> QED
      BY <2>2, FiniteImage
  <1>5. IsFiniteSet(B)
    <2>1. IsFiniteSet({b}) /\ {b, s} = {b} \cup {s}
      BY FS_Singleton
    <2> QED
      BY <1>3, <2>1, FS_AddElement
  <1>6. /\ Trades!Ids[1] = 1 /\ Trades!Ids[2] = 3
        /\ Trades!Ids[3] = 4 /\ Trades!Ids[4] = 6
        /\ \A i \in 1 .. 4 : i = 1 \/ i = 2 \/ i = 3 \/ i = 4
    BY DEF Trades!Ids
  <1>7. \A t \in A \cup B : PaperTrade(t, btc) \/ PaperTrade(t, eth)
    BY <1>2, <1>3
  <1>8. \A t, x \in A \cup B : t.id = x.id => t = x
    <2>1. \A t \in A : \E i \in 1 .. 4 : t = r[i]
      BY <1>2
    <2>2. \A i, j \in 1 .. 4 : Trades!Ids[i] = Trades!Ids[j] => i = j
      BY <1>6
    <2>3. \A i \in 1 .. 4 : Trades!Ids[i] # 2 /\ Trades!Ids[i] # 5
      BY <1>6
    <2>4. \A t, x \in A : t.id = x.id => t = x
      BY <1>2, <2>1, <2>2
    <2>5. \A t \in A, x \in B : t.id # x.id
      BY <1>2, <1>3, <2>1, <2>3
    <2>6. \A t, x \in B : t.id = x.id => t = x
      BY <1>3
    <2> QED
      BY <2>4, <2>5, <2>6
  <1>9. StoredTrades(A \cup B)
    <2>1. IsFiniteSet(A \cup B)
      BY <1>4, <1>5, FS_Union
    <2>2. \A t \in A \cup B : /\ t.id \in Nat /\ t.quantity \in Nat /\ t.time \in Nat
                              /\ t.price \in Nat \ {0} /\ t.pnl \in Int
      <3> SUFFICES ASSUME NEW t \in A \cup B
                   PROVE  /\ t.id \in Nat /\ t.quantity \in Nat /\ t.time \in Nat
                          /\ t.price \in Nat \ {0} /\ t.pnl \in Int
        OBVIOUS
      <3>1. t.id \in 1 .. 6 /\ t.time = Moment[t.id]
        BY <1>7 DEF PaperTrade
      <3>2. t.time \in Nat
        BY <3>1, MomentsPass
      <3> QED
        BY <1>7, <3>1, <3>2 DEF PaperTrade
    <2> QED
      BY <1>8, <2>1, <2>2 DEF StoredTrades, Table
  <1>10. Trades!Covered(B)
    <2>1. StoredTrades(B)
      BY <1>9, PartsAreStored
    <2> SUFFICES ASSUME NEW t \in B PROVE NetOf(Trades!Through(B, t)) >= 0
      BY SameLibrariesOfTrades DEF Trades!Covered, NetOf
    <2>2. Trades!Through(B, b) = {b} /\ Trades!Through(B, s) = {b, s} /\ b # s
      BY <1>3 DEF Trades!Through
    <2>3. StoredTrades({b}) /\ StoredTrades({})
      BY <1>3, <2>1, PartsAreStored
    <2>4. NetOf({}) = 0
      <3> DEFINE z == [x \in {} |-> Trades!Net(x)]
      <3>1. z \in [{} -> Int] /\ \A x \in {} : z[x] = 0
        OBVIOUS
      <3> HIDE DEF z
      <3>2. SumFunction(z) = 0
        BY <3>1, FS_EmptySet, SumOfNothing
      <3> QED
        BY <3>2 DEF z, NetOf
    <2>5. NetOf({b}) = 1
      <3>1. NetOf({b}) = Trades!Net(b) + NetOf({b} \ {b})
        BY <2>3, NetType
      <3>2. {b} \ {b} = {}
        OBVIOUS
      <3> QED
        BY <1>3, <2>4, <3>1, <3>2
    <2>6. NetOf({b, s}) = 0
      <3>1. NetOf({b, s}) = Trades!Net(s) + NetOf({b, s} \ {s})
        BY <1>3, <2>1, NetType
      <3>2. {b, s} \ {s} = {b}
        BY <2>2
      <3> QED
        BY <1>3, <2>5, <3>1, <3>2
    <2> QED
      BY <1>3, <2>2, <2>5, <2>6
  <1> QED
    BY <1>1, <1>2, <1>3, <1>9, <1>10 DEF B

(* A history the broker leaves behind is one the reports agree on.            *)
LEMMA HistoriesAreStored ==
    ASSUME NEW q \in Trades!TradeQuestions
    PROVE  StoredHistory(Trades!TradeHistory(q))
  <1> DEFINE db == Trades!TradeHistory(q)
             A == Trades!AlphaRows(q.plan, q.shape)
             B == Trades!BetaRows
             rows == A \cup B
             candle == [i \in 1 .. 28 |->
                          [time |-> i, symbol |-> btc, price |-> Trades!PriceAt(q.shape, i)]]
             written(t) ==
                 [id |-> t.id, time |-> t.time,
                  realized |-> Trades!Pnl(Trades!Through(rows, t)),
                  total |-> Trades!Pnl(Trades!Through(rows, t)) + 3 * (t.id % 2),
                  equity |-> 5000 + Trades!Pnl(Trades!Through(rows, t)) + 3 * (t.id % 2)]
             snapshot == [t \in rows |-> written(t)]
  <1>1. /\ db.trades = rows
        /\ db.candles = {candle[i] : i \in 1 .. 28}
        /\ db.equity = {snapshot[t] : t \in rows}
    <2>1. db = Trades!HistoryOf(rows, q.shape)
      BY DEF Trades!TradeHistory
    <2> DEFINE closes == {[time |-> i, symbol |-> btc, price |-> Trades!PriceAt(q.shape, i)] :
                             i \in 1 .. 28}
               balances == {written(t) : t \in rows}
    <2>2. closes = {candle[i] : i \in 1 .. 28}
      OBVIOUS
    <2>3. balances = {snapshot[t] : t \in rows}
      <3> HIDE DEF rows, written
      <3> QED
        OBVIOUS
    <2> HIDE DEF rows, db
    <2>4. db.trades = rows /\ db.candles = closes /\ db.equity = balances
      BY <2>1 DEF Trades!HistoryOf
    <2> QED
      BY <2>2, <2>3, <2>4
  <1>2. /\ StoredTrades(rows)
        /\ \A t \in A : PaperTrade(t, btc)
        /\ \A t \in B : PaperTrade(t, eth)
        /\ Trades!Covered(A) /\ Trades!Covered(B)
        /\ q.shape \in Trades!PriceShapes
    BY TradesOfQuestion
  <1> HIDE DEF A, B
  <1>3. \A t \in rows : PaperTrade(t, btc) \/ PaperTrade(t, eth)
    BY <1>2
  <1>4. \A x, y \in rows : x.id < y.id => x.time <= y.time
    <2> SUFFICES ASSUME NEW x \in rows, NEW y \in rows, x.id < y.id PROVE x.time <= y.time
      OBVIOUS
    <2>1. /\ x.id \in 1 .. 6 /\ x.time = Moment[x.id]
          /\ y.id \in 1 .. 6 /\ y.time = Moment[y.id]
      BY <1>3 DEF PaperTrade
    <2> QED
      BY <2>1, MomentsPass
  <1>5. \A t \in rows : /\ Trades!Sold(t) => t.quantity > 0
                        /\ t.profile \in Trades!Profiles
                        /\ t.source \in {"auto", "manual"}
                        /\ t.symbol \in {btc, eth}
    BY <1>3 DEF PaperTrade
  <1>6. None \notin Trades!Traded(db)
    BY <1>1, <1>5, ReportsAssumption DEF Trades!Traded
  <1>7. ASSUME NEW symbol \in Trades!Traded(db)
        PROVE  Trades!Covered(TradesOf(db, symbol))
    <2>1. symbol \in {btc, eth}
      BY <1>1, <1>5 DEF Trades!Traded
    <2>2. (\A t \in A : t.symbol = btc) /\ (\A t \in B : t.symbol = eth)
      BY <1>2 DEF PaperTrade
    <2>3. TradesOf(db, symbol) = IF symbol = btc THEN A ELSE B
      BY <1>1, <2>1, <2>2, ReportsAssumption DEF TradesOf
    <2> QED
      BY <1>2, <2>3
  <1>8. IsFiniteSet(db.candles) /\ \A c \in db.candles : c.time \in Nat /\ c.price \in Nat
    <2> DEFINE I == 1 .. 28
    <2>1. IsFiniteSet(I)
      BY FiniteInterval
    <2>2. DOMAIN candle = I /\ db.candles = {candle[i] : i \in I}
      BY <1>1
    <2>3. \A i \in I : candle[i].time \in Nat /\ candle[i].price \in Nat
      BY <1>2, PricesArePositive
    <2> HIDE DEF I, candle, db
    <2>4. IsFiniteSet(db.candles)
      BY <2>1, <2>2, FiniteImage
    <2> QED
      BY <2>2, <2>3, <2>4
  <1>9. IsFiniteSet(db.equity) /\ \A s \in db.equity : s.equity \in Int
    <2>1. IsFiniteSet(rows)
      BY <1>2 DEF StoredTrades, Table
    <2> HIDE DEF rows, db
    <2>2. DOMAIN snapshot = rows /\ db.equity = {snapshot[t] : t \in rows}
      BY <1>1
    <2>3. ASSUME NEW t \in rows PROVE snapshot[t].equity \in Int
      <3> DEFINE S == Trades!Through(rows, t)
                 F == [x \in S |-> x.pnl]
                 sum == Trades!Pnl(S)
      <3>1. S \in SUBSET rows
        BY DEF Trades!Through
      <3>2. IsFiniteSet(S)
        BY <2>1, <3>1, FS_Subset
      <3>3. F \in [S -> Int]
        BY <1>2, <3>1 DEF StoredTrades
      <3>4. sum = SumFunction(F)
        BY SameLibrariesOfTrades DEF Trades!Pnl
      <3> HIDE DEF S, F, sum
      <3>5. sum \in Int
        BY <3>2, <3>3, <3>4, SumType
      <3>6. snapshot[t].equity = 5000 + sum + 3 * (t.id % 2)
        BY DEF sum, S
      <3>7. t.id \in Nat
        BY <1>2 DEF StoredTrades, Table
      <3> HIDE DEF snapshot
      <3> DEFINE odd == 3 * (t.id % 2)
      <3>8. odd \in Int
        BY <3>7
      <3>9. snapshot[t].equity = 5000 + sum + odd
        BY <3>6
      <3> HIDE DEF odd
      <3> QED
        BY <3>5, <3>8, <3>9, SMT
    <2> HIDE DEF snapshot
    <2>4. IsFiniteSet(db.equity)
      BY <2>1, <2>2, FiniteImage
    <2> QED
      BY <2>2, <2>3, <2>4
  <1> HIDE DEF rows, db
  <1>10. StoredHistory(db)
    BY <1>1, <1>2, <1>4, <1>5, <1>6, <1>7, <1>8, <1>9 DEF StoredHistory
  <1> QED
    BY <1>10 DEF db

(* In every state of the research specification the reports agree: those on   *)
(* trades and those on signals.                                               *)
THEOREM ReportsAlwaysAgree == ResearchSpec => []ReportsAgree
  <1> DEFINE Asked == /\ focus = "trades" => question \in Trades!TradeQuestions
                      /\ focus = "signals" => question \in Signals!SignalQuestions
  <1>1. ResearchInit => Asked
    BY DEF ResearchInit
  <1>2. Asked /\ [ResearchNext]_researchVars => Asked'
    <2> SUFFICES ASSUME Asked, [ResearchNext]_researchVars PROVE Asked'
      OBVIOUS
    <2>1. UNCHANGED <<focus, question>>
      BY DEF ResearchNext, researchVars, OutcomesStep, TuningStep, TimePasses, Only
    <2> QED
      BY <2>1
  <1>3. Asked => ReportsAgree
    <2> SUFFICES ASSUME Asked PROVE ReportsAgree
      OBVIOUS
    <2>1. ASSUME focus = "trades" PROVE Trades!TradeReportsAgree(question)
      <3> DEFINE db == Trades!TradeHistory(question)
                 last == Trades!LastDay
      <3>1. StoredHistory(db)
        BY <2>1, HistoriesAreStored
      <3>2. last \in Nat
        BY DEF Trades!LastDay
      <3> HIDE DEF db, last
      <3>3. Trades!HistoryAgrees(db, last)
        BY <3>1, <3>2, TradeReportsAlwaysAgree
      <3> QED
        BY <3>3 DEF Trades!TradeReportsAgree, db, last
    <2>2. ASSUME focus = "signals" PROVE Signals!SignalReportsAgree(question)
      BY <2>2, QuestionsAreStored, SignalReportsAlwaysAgree DEF Signals!SignalReportsAgree
    <2> QED
      BY <2>1, <2>2 DEF ReportsAgree
  <1> QED
    BY <1>1, <1>2, <1>3, PTL DEF ResearchSpec
=============================================================================
