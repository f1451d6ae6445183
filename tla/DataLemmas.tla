----------------------------- MODULE DataLemmas -----------------------------
(***************************************************************************)
(* Facts about numbers, sets and sums that the proofs of several modules   *)
(* rest on: least and greatest elements, the first ones of a set,          *)
(* multiples, induction for properties given as a set, and the sum of a    *)
(* function on a finite set.                                               *)
(***************************************************************************)
EXTENDS Integers, Functions, FiniteSetsExt, FiniteSetTheorems,
        WellFoundedInduction, TLAPS

(* A non-empty set of naturals has a least element.                           *)
LEMMA LeastNatural ==
    ASSUME NEW T, T \subseteq Nat, T # {}
    PROVE  \E d \in T : \A e \in T : d <= e
  <1>1. PICK d \in T : \A e \in T : ~(<<e, d>> \in OpToRel(<, Nat))
    BY WFMin, NatLessThanWellFounded
  <1>2. ASSUME NEW e \in T PROVE d <= e
    <2>1. d \in Nat /\ e \in Nat
      OBVIOUS
    <2>2. <<e, d>> \in Nat \X Nat /\ <<e, d>>[1] = e /\ <<e, d>>[2] = d
      BY <2>1
    <2>3. ~(e < d)
      BY <1>1, <2>2 DEF OpToRel
    <2> QED
      BY <2>1, <2>3
  <1> QED
    BY <1>2

(* A non-empty set of integers within bounds has a least element.              *)
LEMMA LeastOf ==
    ASSUME NEW lo \in Int, NEW hi \in Int, NEW S, S \subseteq lo .. hi, S # {}
    PROVE  \E x \in S : \A y \in S : x <= y
  <1> DEFINE T == {d \in Nat : lo + d \in S}
  <1>1. \A x \in S : x - lo \in Nat /\ lo + (x - lo) = x /\ x \in Int
    OBVIOUS
  <1>2. \A x \in S : x - lo \in T
    BY <1>1
  <1>3. PICK d \in T : \A e \in T : d <= e
    <2>1. T # {} /\ T \subseteq Nat
      BY <1>2
    <2> HIDE DEF T
    <2> QED
      BY <2>1, LeastNatural
  <1>4. d \in Nat /\ lo + d \in S
    OBVIOUS
  <1>5. \A y \in S : d <= y - lo
    BY <1>2, <1>3
  <1> QED
    BY <1>1, <1>4, <1>5

(* ... and a greatest one, which Max returns.                                 *)
LEMMA GreatestOf ==
    ASSUME NEW lo \in Int, NEW hi \in Int, NEW S, S \subseteq lo .. hi, S # {}
    PROVE  Max(S) \in S /\ \A y \in S : Max(S) >= y
  <1> DEFINE T == {d \in Nat : hi - d \in S}
  <1>1. \A x \in S : hi - x \in Nat /\ hi - (hi - x) = x /\ x \in Int
    OBVIOUS
  <1>2. \A x \in S : hi - x \in T
    BY <1>1
  <1>3. PICK d \in T : \A e \in T : d <= e
    <2>1. T # {} /\ T \subseteq Nat
      BY <1>2
    <2> HIDE DEF T
    <2> QED
      BY <2>1, LeastNatural
  <1>4. d \in Nat /\ hi - d \in S
    OBVIOUS
  <1>5. \A y \in S : d <= hi - y
    BY <1>2, <1>3
  <1>6. \E x \in S : \A y \in S : x >= y
    BY <1>1, <1>4, <1>5
  <1> QED
    BY <1>6 DEF Max

(* A page that is not full is the last one: if the first n elements are not n,  *)
(* they are all.                                                              *)
LEMMA FirstOnes ==
    ASSUME NEW lo \in Int, NEW hi \in Int, NEW S, S \subseteq lo .. hi,
           NEW n \in Nat \ {0}, NEW P,
           P = {t \in S : Cardinality({u \in S : u < t}) < n}, Cardinality(P) # n
    PROVE  P = S
  <1> DEFINE Before(t) == {u \in S : u < t}
  <1>1. \A t \in S : t \in Int
    OBVIOUS
  <1>2. IsFiniteSet(S)
    BY FS_Interval, FS_Subset
  <1>3. \A t : Before(t) \subseteq S /\ \A u \in S : u \in Before(t) <=> u < t
    OBVIOUS
  <1>4. P \subseteq S /\ \A t \in S : t \in P <=> Cardinality(Before(t)) < n
    OBVIOUS
  <1> HIDE DEF Before
  <1>5. \A t : IsFiniteSet(Before(t)) /\ Cardinality(Before(t)) \in Nat
    BY <1>2, <1>3, FS_Subset, FS_CardinalityType
  <1>6. IsFiniteSet(P) /\ Cardinality(P) \in Nat
    BY <1>2, <1>4, FS_Subset, FS_CardinalityType
  <1>7. SUFFICES ASSUME P # S PROVE FALSE
    OBVIOUS
  <1>8. PICK t \in S \ P : \A u \in S \ P : t <= u
    <2>1. S \ P # {} /\ S \ P \subseteq lo .. hi
      BY <1>4, <1>7
    <2> QED
      BY <2>1, LeastOf
  <1>9. t \in S /\ t \in Int /\ t \notin P
    BY <1>1, <1>8
  <1>10. Cardinality(Before(t)) >= n
    BY <1>4, <1>5, <1>9
  <1>11. ASSUME NEW p \in P PROVE p < t
    <2>1. p \in S /\ Cardinality(Before(p)) < n /\ p \in Int /\ p # t
      BY <1>1, <1>4, <1>9
    <2>2. CASE p > t
      <3>1. \A u \in S : u < t => u < p
        BY <2>1, <2>2, <1>1, <1>9
      <3>2. Before(t) \subseteq Before(p)
        BY <3>1, <1>3
      <3>3. Cardinality(Before(t)) <= Cardinality(Before(p))
        BY <3>2, <1>5, FS_Subset
      <3>4. Cardinality(Before(t)) \in Nat /\ Cardinality(Before(p)) \in Nat
        BY <1>5
      <3> QED
        BY <3>3, <3>4, <2>1, <1>10
    <2> QED
      BY <2>1, <2>2, <1>9
  <1>12. \A u \in S : u < t => u \in P
    BY <1>1, <1>8, <1>9
  <1>13. P = Before(t)
    BY <1>3, <1>4, <1>11, <1>12
  <1>14. Cardinality(P) > n
    <2>1. Cardinality(P) = Cardinality(Before(t))
      BY <1>13, Zenon
    <2>2. Cardinality(P) >= n
      BY <2>1, <1>10, Zenon
    <2> QED
      BY <2>2, <1>6
  <1>15. P # {}
    <2>1. P = {} => Cardinality(P) = 0
      BY FS_EmptySet, Zenon
    <2> QED
      BY <2>1, <1>14
  <1> DEFINE p == Max(P)
  <1>16. p \in P /\ \A x \in P : p >= x
    BY <1>4, <1>15, GreatestOf
  <1> HIDE DEF p
  <1>17. Before(p) = P \ {p}
    <2>1. ASSUME NEW u \in S PROVE u \in Before(p) <=> u \in P \ {p}
      <3>1. p \in Int /\ u \in Int /\ p < t
        BY <1>1, <1>4, <1>11, <1>16
      <3>2. u < p => u \in P
        BY <3>1, <1>9, <1>12
      <3>3. u \in P /\ u # p => u < p
        BY <3>1, <1>16
      <3> QED
        BY <3>1, <3>2, <3>3, <1>3
    <2> QED
      BY <2>1, <1>3, <1>4
  <1>18. Cardinality(Before(p)) = Cardinality(P) - 1
    BY <1>6, <1>16, <1>17, FS_RemoveElement
  <1>19. Cardinality(Before(p)) < n
    BY <1>4, <1>16
  <1> QED
    BY <1>6, <1>14, <1>18, <1>19

(* There is no multiple of m between one multiple and the next.                *)
LEMMA NextMultiple ==
    ASSUME NEW m \in Nat \ {0}, NEW p \in Int, NEW t \in Int, p % m = 0, t % m = 0, p < t
    PROVE  t >= p + m
  <1> DEFINE q == p \div m
             r == t \div m
  <1>1. q \in Int /\ r \in Int /\ p = m * q /\ t = m * r
    OBVIOUS
  <1> HIDE DEF q, r
  <1>2. r >= q + 1
    BY <1>1
  <1>3. m * r >= m * (q + 1)
    BY <1>1, <1>2
  <1> QED
    BY <1>1, <1>3
-----------------------------------------------------------------------------
(* Induction over the naturals, for a property given as a set.             *)
LEMMA NaturalsByStep ==
    ASSUME NEW G, 0 \in G, \A n \in Nat : n \in G => n + 1 \in G
    PROVE  Nat \subseteq G
  <1> DEFINE B == {n \in Nat : n \notin G}
  <1>1. SUFFICES ASSUME B # {} PROVE FALSE
    OBVIOUS
  <1>2. PICK d \in B : \A e \in B : d <= e
    <2>1. B \subseteq Nat
      OBVIOUS
    <2> HIDE DEF B
    <2> QED
      BY <1>1, <2>1, LeastNatural
  <1>3. d \in Nat /\ d # 0 /\ d \notin G
    OBVIOUS
  <1>4. d - 1 \in Nat /\ (d - 1) + 1 = d
    BY <1>3
  <1>5. d - 1 \in G
    BY <1>2, <1>4
  <1> QED
    BY <1>3, <1>4, <1>5

-----------------------------------------------------------------------------
(* The element a sum takes next, and the sums of the subsets of S.         *)
Pick(s) == CHOOSE x \in s : TRUE

NextSum(F, g, s) == IF s = {} THEN 0 ELSE F[Pick(s)] + g[s \ {Pick(s)}]

Sums(F, S) == CHOOSE g : g = [s \in SUBSET S |-> NextSum(F, g, s)]

(* What is picked from a set is in it.                                        *)
LEMMA PickedIsIn ==
    ASSUME NEW s, s # {}
    PROVE  Pick(s) \in s
  BY DEF Pick

(* Picking takes one element out of a finite set.                             *)
LEMMA PickedFromFinite ==
    ASSUME NEW S, IsFiniteSet(S), NEW s \in SUBSET S, s # {}
    PROVE  /\ IsFiniteSet(s) /\ Cardinality(s) \in Nat
           /\ s \ {Pick(s)} \in SUBSET S
           /\ Cardinality(s \ {Pick(s)}) = Cardinality(s) - 1
  <1>1. Pick(s) \in s
    BY PickedIsIn
  <1>2. IsFiniteSet(s) /\ Cardinality(s) \in Nat
    BY FS_Subset, FS_CardinalityType
  <1> QED
    BY <1>1, <1>2, FS_RemoveElement

(* Induction over the subsets of a finite set, in the order a sum takes    *)
(* their elements, for a property given as a set.                          *)
LEMMA SubsetsByPick ==
    ASSUME NEW S, IsFiniteSet(S), NEW G, {} \in G,
           \A s \in SUBSET S : s # {} /\ s \ {Pick(s)} \in G => s \in G
    PROVE  \A s \in SUBSET S : s \in G
  <1> DEFINE N == {n \in Nat : \A s \in SUBSET S : Cardinality(s) = n => s \in G}
  <1>1. 0 \in N
    <2>1. ASSUME NEW s \in SUBSET S, Cardinality(s) = 0 PROVE s \in G
      BY <2>1, FS_Subset, FS_EmptySet
    <2> QED
      BY <2>1
  <1>2. ASSUME NEW n \in Nat, n \in N PROVE n + 1 \in N
    <2>1. ASSUME NEW s \in SUBSET S, Cardinality(s) = n + 1 PROVE s \in G
      <3>1. s # {}
        <4>1. n + 1 # 0
          OBVIOUS
        <4> HIDE DEF N
        <4> QED
          BY <2>1, <4>1, FS_EmptySet
      <3>2. s \ {Pick(s)} \in SUBSET S /\ Cardinality(s \ {Pick(s)}) = n
        <4> HIDE DEF N
        <4>1. s \ {Pick(s)} \in SUBSET S /\ Cardinality(s \ {Pick(s)}) = Cardinality(s) - 1
          BY <3>1, PickedFromFinite
        <4> QED
          BY <2>1, <4>1
      <3> QED
        BY <1>2, <3>1, <3>2
    <2> QED
      BY <2>1
  <1>3. Nat \subseteq N
    <2> HIDE DEF N
    <2> QED
      BY <1>1, <1>2, NaturalsByStep
  <1> QED
    <2>1. ASSUME NEW s \in SUBSET S PROVE Cardinality(s) \in Nat
      BY FS_Subset, FS_CardinalityType
    <2> QED
      BY <1>3, <2>1

(* The values of a function on a finite set are finitely many.              *)
LEMMA FiniteImage ==
    ASSUME NEW S, IsFiniteSet(S), NEW f, DOMAIN f = S
    PROVE  IsFiniteSet({f[x] : x \in S})
  <1> DEFINE T == {f[x] : x \in S}
             g == [x \in S |-> f[x]]
  <1>1. g \in Surjection(S, T)
    BY DEF Surjection
  <1> QED
    BY <1>1, FS_Surjection

(* A finite set of integers lies within bounds ...                            *)
LEMMA FiniteIsBounded ==
    ASSUME NEW S, IsFiniteSet(S), S \subseteq Int
    PROVE  \E lo, hi \in Int : S \subseteq lo .. hi
  <1> DEFINE G == {s \in SUBSET S : \E lo, hi \in Int : s \subseteq lo .. hi}
  <1>1. {} \in G
    <2>1. {} \in SUBSET S /\ {} \subseteq 0 .. 0 /\ 0 \in Int
      OBVIOUS
    <2> QED
      BY <2>1
  <1>2. ASSUME NEW s \in SUBSET S, s # {}, s \ {Pick(s)} \in G PROVE s \in G
    <2> DEFINE p == Pick(s)
    <2>1. p \in s
      BY <1>2, PickedIsIn
    <2> HIDE DEF p
    <2>2. PICK lo, hi \in Int : s \ {p} \subseteq lo .. hi
      BY <1>2 DEF p
    <2> DEFINE low == IF p < lo THEN p ELSE lo
               high == IF p > hi THEN p ELSE hi
    <2>3. p \in Int /\ low \in Int /\ high \in Int
      BY <2>1, <2>2
    <2>4. ASSUME NEW x \in s PROVE x \in low .. high
      <3>1. x = p \/ x \in lo .. hi
        BY <2>2
      <3> QED
        BY <2>2, <2>3, <3>1
    <2>5. s \subseteq low .. high
      BY <2>4
    <2> HIDE DEF low, high
    <2> QED
      BY <2>3, <2>5
  <1>3. \A s \in SUBSET S : s \in G
    <2> HIDE DEF G
    <2> QED
      BY <1>1, <1>2, SubsetsByPick
  <1> QED
    BY <1>3

(* ... so that, when it has elements, Max and Min are the greatest and least.  *)
LEMMA FiniteExtremes ==
    ASSUME NEW S, IsFiniteSet(S), S \subseteq Int, S # {}
    PROVE  /\ Max(S) \in S /\ \A x \in S : x <= Max(S)
           /\ Min(S) \in S /\ \A x \in S : Min(S) <= x
  <1>1. PICK lo, hi \in Int : S \subseteq lo .. hi
    BY FiniteIsBounded
  <1>2. Max(S) \in S /\ \A y \in S : Max(S) >= y
    BY <1>1, GreatestOf, Zenon
  <1>3. \E x \in S : \A y \in S : x <= y
    BY <1>1, LeastOf, Zenon
  <1>4. Min(S) \in S /\ \A x \in S : Min(S) <= x
    BY <1>3 DEF Min
  <1> QED
    BY <1>2, <1>4

(* The sums of the subsets exist: those of n elements give those of n + 1. *)
LEMMA SumsExist ==
    ASSUME NEW S, IsFiniteSet(S), NEW F \in [S -> Int]
    PROVE  \E g \in [SUBSET S -> Int] : g = [s \in SUBSET S |-> NextSum(F, g, s)]
  <1> DEFINE Small(n) == {s \in SUBSET S : Cardinality(s) <= n}
             Ok(n, g) == \A s \in Small(n) : g[s] = NextSum(F, g, s)
             N == {n \in Nat : \E g \in [Small(n) -> Int] : Ok(n, g)}
  <1>1. \A s \in SUBSET S : IsFiniteSet(s) /\ Cardinality(s) \in Nat
    BY FS_Subset, FS_CardinalityType
  <1>2. 0 \in N
    <2> DEFINE g == [s \in Small(0) |-> 0]
    <2>1. \A s \in Small(0) : s = {}
      BY <1>1, FS_EmptySet
    <2>2. g \in [Small(0) -> Int]
      OBVIOUS
    <2>3. \A s \in Small(0) : g[s] = NextSum(F, g, s)
      BY <2>1 DEF NextSum
    <2> QED
      BY <2>2, <2>3
  <1>3. ASSUME NEW n \in Nat, n \in N PROVE n + 1 \in N
    <2>1. PICK g \in [Small(n) -> Int] : Ok(n, g)
      BY <1>3
    <2> DEFINE h == [s \in Small(n + 1) |-> NextSum(F, g, s)]
    <2>2. ASSUME NEW s \in Small(n + 1), s # {}
          PROVE  s \ {Pick(s)} \in Small(n) /\ Pick(s) \in S
      <3>1. s \in SUBSET S /\ Cardinality(s) <= n + 1
        OBVIOUS
      <3>2. s \ {Pick(s)} \in SUBSET S /\ Cardinality(s \ {Pick(s)}) = Cardinality(s) - 1
        BY <2>2, <3>1, PickedFromFinite
      <3>3. Pick(s) \in S
        BY <2>2, <3>1, PickedIsIn
      <3> QED
        BY <1>1, <3>1, <3>2, <3>3
    <2>3. ASSUME NEW s \in Small(n + 1) PROVE NextSum(F, g, s) \in Int
      BY <2>2 DEF NextSum
    <2>4. h \in [Small(n + 1) -> Int]
      BY <2>3
    <2>5. \A s \in Small(n) : s \in Small(n + 1) /\ h[s] = g[s]
      <3>1. \A s \in Small(n) : s \in Small(n + 1)
        BY <1>1
      <3> QED
        BY <2>1, <3>1
    <2>6. ASSUME NEW s \in Small(n + 1) PROVE h[s] = NextSum(F, h, s)
      <3>1. CASE s = {}
        BY <3>1 DEF NextSum
      <3>2. CASE s # {}
        <4>1. h[s \ {Pick(s)}] = g[s \ {Pick(s)}]
          BY <2>2, <2>5, <3>2
        <4> HIDE DEF Small
        <4> QED
          BY <3>2, <4>1 DEF NextSum
      <3> QED
        BY <3>1, <3>2
    <2>7. Ok(n + 1, h)
      BY <2>6
    <2> HIDE DEF h, Small, Ok
    <2> QED
      BY <2>4, <2>7
  <1>4. Cardinality(S) \in N
    <2> HIDE DEF N
    <2>1. Nat \subseteq N
      BY <1>2, <1>3, NaturalsByStep
    <2> QED
      BY <1>1, <2>1
  <1>5. Small(Cardinality(S)) = SUBSET S
    BY FS_Subset
  <1>6. PICK g \in [SUBSET S -> Int] : \A s \in SUBSET S : g[s] = NextSum(F, g, s)
    BY <1>4, <1>5
  <1>7. g = [s \in SUBSET S |-> NextSum(F, g, s)]
    BY <1>6
  <1> QED
    BY <1>7

(* ... so that Sums is one.                                                *)
LEMMA SumsAre ==
    ASSUME NEW S, IsFiniteSet(S), NEW F \in [S -> Int]
    PROVE  /\ \A s \in SUBSET S : Sums(F, S)[s] = NextSum(F, Sums(F, S), s)
           /\ \A s \in SUBSET S : Sums(F, S)[s] \in Int
           /\ SumFunction(F) = Sums(F, S)[S]
  <1>1. Sums(F, S) = [s \in SUBSET S |-> NextSum(F, Sums(F, S), s)]
    BY SumsExist DEF Sums
  <1> DEFINE g == Sums(F, S)
  <1> HIDE DEF g
  <1>2. \A s \in SUBSET S : g[s] = NextSum(F, g, s)
    BY <1>1 DEF g
  <1> DEFINE G == {s \in SUBSET S : g[s] \in Int}
  <1>3. {} \in G
    <2>1. {} \in SUBSET S /\ NextSum(F, g, {}) = 0
      BY DEF NextSum
    <2> QED
      BY <1>2, <2>1
  <1>4. ASSUME NEW s \in SUBSET S, s # {}, s \ {Pick(s)} \in G PROVE s \in G
    <2>1. F[Pick(s)] \in Int /\ g[s \ {Pick(s)}] \in Int
      BY <1>4, PickedIsIn
    <2>2. g[s] = F[Pick(s)] + g[s \ {Pick(s)}]
      BY <1>2, <1>4 DEF NextSum
    <2>3. g[s] \in Int
      BY <2>1, <2>2
    <2> QED
      BY <2>3
  <1>5. \A s \in SUBSET S : s \in G
    <2> HIDE DEF G
    <2> QED
      BY <1>3, <1>4, SubsetsByPick
  <1>6. SumFunction(F) = g[S]
    BY DEF SumFunction, SumFunctionOnSet, FoldFunctionOnSet, MapThenFoldSet,
           g, Sums, NextSum, Pick
  <1> QED
    BY <1>2, <1>5, <1>6 DEF g

(* The sum of a function of integers on a finite set is an integer.        *)
LEMMA SumType ==
    ASSUME NEW S, IsFiniteSet(S), NEW F \in [S -> Int]
    PROVE  SumFunction(F) \in Int
  BY SumsAre

(* A function that is zero everywhere sums to zero.                        *)
LEMMA SumOfNothing ==
    ASSUME NEW S, IsFiniteSet(S), NEW F \in [S -> Int], \A x \in S : F[x] = 0
    PROVE  SumFunction(F) = 0
  <1> DEFINE g == Sums(F, S)
             G == {s \in SUBSET S : g[s] = 0}
  <1>1. \A s \in SUBSET S : g[s] = NextSum(F, g, s)
    BY SumsAre
  <1> HIDE DEF g
  <1>2. {} \in G
    BY <1>1 DEF NextSum
  <1>3. ASSUME NEW s \in SUBSET S, s # {}, s \ {Pick(s)} \in G PROVE s \in G
    BY <1>1, <1>3, PickedIsIn DEF NextSum
  <1>4. \A s \in SUBSET S : s \in G
    <2> HIDE DEF G
    <2> QED
      BY <1>2, <1>3, SubsetsByPick
  <1> QED
    BY <1>4, SumsAre DEF g

(* Changing the function at one point changes its sum by as much.          *)
LEMMA SumOfUpdate ==
    ASSUME NEW S, IsFiniteSet(S), NEW F \in [S -> Int], NEW a \in S, NEW v \in Int
    PROVE  SumFunction([F EXCEPT ![a] = v]) = SumFunction(F) + (v - F[a])
  <1> DEFINE H == [F EXCEPT ![a] = v]
             f == Sums(F, S)
             h == Sums(H, S)
             More(s) == IF a \in s THEN v - F[a] ELSE 0
             G == {s \in SUBSET S : h[s] = f[s] + More(s)}
  <1>1. H \in [S -> Int] /\ H[a] = v /\ \A x \in S : x # a => H[x] = F[x]
    OBVIOUS
  <1> HIDE DEF H
  <1>2. /\ \A s \in SUBSET S : f[s] = NextSum(F, f, s) /\ f[s] \in Int
        /\ \A s \in SUBSET S : h[s] = NextSum(H, h, s) /\ h[s] \in Int
    BY <1>1, SumsAre
  <1> HIDE DEF f, h
  <1>3. {} \in G
    <2>1. {} \in SUBSET S /\ NextSum(F, f, {}) = 0 /\ NextSum(H, h, {}) = 0 /\ More({}) = 0
      BY DEF NextSum
    <2>2. f[{}] = 0 /\ h[{}] = 0
      BY <1>2, <2>1
    <2>3. h[{}] = f[{}] + More({})
      BY <2>1, <2>2
    <2> QED
      BY <2>1, <2>3
  <1>4. ASSUME NEW s \in SUBSET S, s # {}, s \ {Pick(s)} \in G PROVE s \in G
    <2> DEFINE p == Pick(s)
               r == s \ {p}
    <2>1. p \in s /\ p \in S
      BY <1>4, PickedIsIn
    <2>2. /\ r \in SUBSET S /\ f[r] \in Int /\ h[r] = f[r] + More(r)
          /\ F[p] \in Int /\ H[p] \in Int /\ F[a] \in Int
      BY <1>1, <1>2, <1>4, <2>1
    <2>3. f[s] = F[p] + f[r] /\ h[s] = H[p] + h[r]
      BY <1>2, <1>4 DEF NextSum
    <2>4. CASE p = a
      <3>1. a \notin r /\ a \in s /\ H[p] = v
        BY <1>1, <2>1, <2>4
      <3> HIDE DEF p, r
      <3>2. h[s] = f[s] + More(s)
        BY <2>2, <2>3, <2>4, <3>1
      <3> QED
        BY <3>2
    <2>5. CASE p # a
      <3>1. (a \in r <=> a \in s) /\ H[p] = F[p]
        BY <1>1, <2>1, <2>5
      <3> HIDE DEF p, r
      <3>2. h[s] = f[s] + More(s)
        BY <2>2, <2>3, <3>1
      <3> QED
        BY <3>2
    <2> QED
      BY <2>4, <2>5
  <1>5. \A s \in SUBSET S : s \in G
    <2> HIDE DEF G
    <2> QED
      BY <1>3, <1>4, SubsetsByPick
  <1>6. h[S] = f[S] + (v - F[a])
    BY <1>5
  <1> QED
    BY <1>1, <1>6, SumsAre DEF H, f, h

(* A sum of naturals is one, and no less than any of its parts.            *)
LEMMA SumOfNaturals ==
    ASSUME NEW S, IsFiniteSet(S), NEW F \in [S -> Nat]
    PROVE  SumFunction(F) \in Nat /\ \A a \in S : SumFunction(F) >= F[a]
  <1> DEFINE g == Sums(F, S)
             G == {s \in SUBSET S : g[s] \in Nat /\ \A a \in s : g[s] >= F[a]}
  <1>1. /\ \A s \in SUBSET S : g[s] = NextSum(F, g, s) /\ g[s] \in Int
        /\ SumFunction(F) = g[S]
    BY SumsAre
  <1> HIDE DEF g
  <1>2. {} \in G
    <2>1. {} \in SUBSET S /\ NextSum(F, g, {}) = 0
      BY DEF NextSum
    <2>2. g[{}] \in Nat
      BY <1>1, <2>1
    <2> QED
      BY <2>1, <2>2
  <1>3. ASSUME NEW s \in SUBSET S, s # {}, s \ {Pick(s)} \in G PROVE s \in G
    <2> DEFINE p == Pick(s)
               r == s \ {p}
    <2>1. p \in S /\ F[p] \in Nat /\ s = r \cup {p} /\ g[s] = F[p] + g[r]
      BY <1>1, <1>3, PickedIsIn DEF NextSum
    <2>2. g[r] \in Nat /\ \A a \in r : g[r] >= F[a]
      BY <1>3
    <2> HIDE DEF p, r
    <2>3. g[s] \in Nat
      BY <2>1, <2>2
    <2>4. ASSUME NEW a \in s PROVE g[s] >= F[a]
      <3>1. F[a] \in Nat
        OBVIOUS
      <3> QED
        BY <2>1, <2>2, <3>1
    <2> QED
      BY <2>3, <2>4
  <1>4. \A s \in SUBSET S : s \in G
    <2> HIDE DEF G
    <2> QED
      BY <1>2, <1>3, SubsetsByPick
  <1> QED
    BY <1>1, <1>4

(* Whatever element of a set comes first, the sum is its value and the sum of  *)
(* the others.                                                                *)
LEMMA SumTakesAny ==
    ASSUME NEW S, IsFiniteSet(S), NEW F \in [S -> Int]
    PROVE  \A s \in SUBSET S : \A a \in s : Sums(F, S)[s] = F[a] + Sums(F, S)[s \ {a}]
  <1> DEFINE g == Sums(F, S)
             Ok(s) == \A a \in s : g[s] = F[a] + g[s \ {a}]
             N == {n \in Nat : \A s \in SUBSET S : Cardinality(s) = n => Ok(s)}
  <1>1. /\ \A s \in SUBSET S : g[s] = NextSum(F, g, s) /\ g[s] \in Int
        /\ \A s \in SUBSET S : IsFiniteSet(s) /\ Cardinality(s) \in Nat
    BY SumsAre, FS_Subset, FS_CardinalityType
  <1> HIDE DEF g
  <1>2. 0 \in N
    <2>1. ASSUME NEW s \in SUBSET S, Cardinality(s) = 0 PROVE Ok(s)
      BY <1>1, <2>1, FS_EmptySet
    <2> QED
      BY <2>1
  <1>3. ASSUME NEW n \in Nat, n \in N PROVE n + 1 \in N
    <2>1. ASSUME NEW s \in SUBSET S, Cardinality(s) = n + 1, NEW a \in s
          PROVE  g[s] = F[a] + g[s \ {a}]
      <3> DEFINE p == Pick(s)
      <3>1. p \in s /\ g[s] = F[p] + g[s \ {p}]
        BY <1>1, PickedIsIn DEF NextSum
      <3> HIDE DEF p
      <3>2. CASE a = p
        BY <3>1, <3>2
      <3>3. CASE a # p
        <4> DEFINE sp == s \ {p}
                   sa == s \ {a}
                   both == s \ {a, p}
        <4>1. /\ sp \in SUBSET S /\ sa \in SUBSET S /\ both \in SUBSET S
              /\ a \in sp /\ p \in sa /\ sp \ {a} = both /\ sa \ {p} = both
          BY <3>1, <3>3
        <4> HIDE DEF both
        <4>2. Cardinality(sp) = n /\ Cardinality(sa) = n
          <5>1. IsFiniteSet(s)
            BY <1>1
          <5>2. Cardinality(sp) = Cardinality(s) - 1
            BY <3>1, <5>1, FS_RemoveElement
          <5>3. Cardinality(sa) = Cardinality(s) - 1
            BY <2>1, <5>1, FS_RemoveElement
          <5> HIDE DEF sp, sa
          <5> QED
            BY <2>1, <5>2, <5>3
        <4> HIDE DEF sp, sa
        <4>3. \A t \in SUBSET S : Cardinality(t) = n => Ok(t)
          BY <1>3
        <4>4. g[sp] = F[a] + g[both] /\ g[sa] = F[p] + g[both]
          BY <4>1, <4>2, <4>3
        <4>5. F[a] \in Int /\ F[p] \in Int /\ g[both] \in Int
          BY <1>1, <2>1, <3>1, <4>1
        <4>6. g[s] = F[p] + g[sp]
          BY <3>1 DEF sp
        <4>7. g[s] = F[a] + g[sa]
          BY <4>4, <4>5, <4>6
        <4> QED
          BY <4>7 DEF sa
      <3> QED
        BY <3>2, <3>3
    <2> QED
      BY <2>1
  <1>4. Nat \subseteq N
    <2> HIDE DEF N
    <2> QED
      BY <1>2, <1>3, NaturalsByStep
  <1>5. ASSUME NEW s \in SUBSET S PROVE Ok(s)
    BY <1>1, <1>4
  <1> QED
    BY <1>5 DEF g

(* The sum over a part of a set.                                              *)
LEMMA SumOfPart ==
    ASSUME NEW S, IsFiniteSet(S), NEW F \in [S -> Int], NEW T \in SUBSET S
    PROVE  SumFunction([x \in T |-> F[x]]) = Sums(F, S)[T]
  <1> DEFINE f == [x \in T |-> F[x]]
             g == Sums(F, S)
             h == Sums(f, T)
             G == {s \in SUBSET T : h[s] = g[s]}
  <1>1. IsFiniteSet(T) /\ f \in [T -> Int] /\ \A x \in T : f[x] = F[x]
    BY FS_Subset
  <1> HIDE DEF f
  <1>2. /\ \A s \in SUBSET S : g[s] = NextSum(F, g, s)
        /\ \A s \in SUBSET T : h[s] = NextSum(f, h, s)
        /\ SumFunction(f) = h[T]
    BY <1>1, SumsAre
  <1> HIDE DEF g, h
  <1>3. {} \in G
    BY <1>2 DEF NextSum
  <1>4. ASSUME NEW s \in SUBSET T, s # {}, s \ {Pick(s)} \in G PROVE s \in G
    BY <1>1, <1>2, <1>4, PickedIsIn DEF NextSum
  <1>5. \A s \in SUBSET T : s \in G
    <2> HIDE DEF G
    <2> QED
      BY <1>1, <1>3, <1>4, SubsetsByPick
  <1>6. SumFunction(f) = g[T]
    BY <1>2, <1>5
  <1> QED
    BY <1>6 DEF f, g

(* The sum of what every element counts once is the number of elements.       *)
LEMMA SumOfOnes ==
    ASSUME NEW S, IsFiniteSet(S), NEW F \in [S -> Int], \A x \in S : F[x] = 1
    PROVE  \A s \in SUBSET S : Sums(F, S)[s] = Cardinality(s)
  <1> DEFINE g == Sums(F, S)
             G == {s \in SUBSET S : g[s] = Cardinality(s)}
  <1>1. \A s \in SUBSET S : g[s] = NextSum(F, g, s) /\ g[s] \in Int
    BY SumsAre
  <1> HIDE DEF g
  <1>2. {} \in G
    BY <1>1, FS_EmptySet DEF NextSum
  <1>3. ASSUME NEW s \in SUBSET S, s # {}, s \ {Pick(s)} \in G PROVE s \in G
    <2>1. /\ s \ {Pick(s)} \in SUBSET S /\ Cardinality(s) \in Nat
          /\ Cardinality(s \ {Pick(s)}) = Cardinality(s) - 1
      BY <1>3, PickedFromFinite
    <2>2. Pick(s) \in s
      BY <1>3, PickedIsIn
    <2> QED
      BY <1>1, <1>3, <2>1, <2>2 DEF NextSum
  <1>4. \A s \in SUBSET S : s \in G
    <2> HIDE DEF G
    <2> QED
      BY <1>2, <1>3, SubsetsByPick
  <1> QED
    BY <1>4 DEF g

(* The sums of the groups of a set add up to its sum.                         *)
LEMMA SumByGroup ==
    ASSUME NEW S, IsFiniteSet(S), NEW F \in [S -> Int],
           NEW K, IsFiniteSet(K), NEW key \in [S -> K]
    PROVE  SumFunction([k \in K |-> SumFunction([x \in {y \in S : key[y] = k} |-> F[x]])])
             = SumFunction(F)
  <1> DEFINE g == Sums(F, S)
             Of(s) == [k \in K |-> g[{y \in s : key[y] = k}]]
             G == {s \in SUBSET S : SumFunction(Of(s)) = g[s]}
  <1>1. /\ \A s \in SUBSET S : g[s] = NextSum(F, g, s) /\ g[s] \in Int
        /\ \A s \in SUBSET S : \A a \in s : g[s] = F[a] + g[s \ {a}]
        /\ SumFunction(F) = g[S]
    BY SumsAre, SumTakesAny
  <1>2. \A T \in SUBSET S : SumFunction([x \in T |-> F[x]]) = g[T]
    BY SumOfPart
  <1> HIDE DEF g
  <1>3. \A s \in SUBSET S : Of(s) \in [K -> Int]
    BY <1>1
  <1>4. {} \in G
    <2>1. g[{}] = 0
      BY <1>1 DEF NextSum
    <2>2. \A k \in K : Of({})[k] = 0
      <3>1. ASSUME NEW k \in K PROVE {y \in {} : key[y] = k} = {}
        OBVIOUS
      <3> QED
        BY <2>1, <3>1
    <2>3. Of({}) \in [K -> Int]
      BY <1>3
    <2> HIDE DEF Of
    <2>4. SumFunction(Of({})) = 0
      BY <2>2, <2>3, SumOfNothing
    <2> QED
      BY <2>1, <2>4
  <1>5. ASSUME NEW s \in SUBSET S, s # {}, s \ {Pick(s)} \in G PROVE s \in G
    <2> DEFINE p == Pick(s)
               t == s \ {p}
    <2>1. p \in s /\ t \in SUBSET S /\ p \in S
      BY <1>5, PickedIsIn
    <2>2. g[s] = F[p] + g[t] /\ SumFunction(Of(t)) = g[t]
      BY <1>1, <1>5, <2>1
    <2> HIDE DEF p
    <2>3. F[p] \in Int /\ key[p] \in K /\ g[t] \in Int
      BY <1>1, <2>1
    <2>4. ASSUME NEW k \in K
          PROVE  g[{y \in s : key[y] = k}]
                   = IF k = key[p] THEN g[{y \in t : key[y] = k}] + F[p]
                     ELSE g[{y \in t : key[y] = k}]
      <3> DEFINE a == {y \in s : key[y] = k}
                 b == {y \in t : key[y] = k}
      <3>1. a \in SUBSET S /\ b \in SUBSET S /\ b = a \ {p}
        BY <2>1
      <3>2. (p \in a <=> k = key[p]) /\ (p \notin a => a = b)
        BY <2>1
      <3> HIDE DEF a, b
      <3>3. p \in a => g[a] = g[b] + F[p]
        BY <1>1, <2>3, <3>1
      <3>4. g[a] = IF k = key[p] THEN g[b] + F[p] ELSE g[b]
        BY <3>2, <3>3
      <3> QED
        BY <3>4 DEF a, b
    <2>5. Of(s) = [Of(t) EXCEPT ![key[p]] = Of(t)[key[p]] + F[p]]
      <3> HIDE DEF t
      <3>1. \A k \in K : Of(s)[k] = IF k = key[p] THEN Of(t)[k] + F[p] ELSE Of(t)[k]
        BY <2>4
      <3>2. Of(s) \in [K -> Int] /\ Of(t) \in [K -> Int]
        BY <1>3, <2>1
      <3> HIDE DEF Of
      <3> QED
        BY <2>3, <3>1, <3>2
    <2>6. Of(t) \in [K -> Int] /\ Of(t)[key[p]] \in Int
      BY <1>3, <2>1, <2>3
    <2> HIDE DEF Of, t
    <2> DEFINE v == Of(t)[key[p]] + F[p]
    <2>7. v \in Int
      BY <2>3, <2>6
    <2> HIDE DEF v
    <2>8. SumFunction([Of(t) EXCEPT ![key[p]] = v])
            = SumFunction(Of(t)) + (v - Of(t)[key[p]])
      BY <2>3, <2>6, <2>7, SumOfUpdate, Zenon
    <2>9. SumFunction(Of(s)) = g[t] + (v - Of(t)[key[p]])
      BY <2>2, <2>5, <2>8 DEF v
    <2>10. v - Of(t)[key[p]] = F[p]
      BY <2>3, <2>6 DEF v
    <2> QED
      BY <2>2, <2>3, <2>9, <2>10
  <1>6. \A s \in SUBSET S : s \in G
    <2> HIDE DEF G
    <2> QED
      BY <1>4, <1>5, SubsetsByPick
  <1>7. [k \in K |-> SumFunction([x \in {y \in S : key[y] = k} |-> F[x]])] = Of(S)
    <2>1. ASSUME NEW k \in K
          PROVE  SumFunction([x \in {y \in S : key[y] = k} |-> F[x]]) = g[{y \in S : key[y] = k}]
      BY <1>2
    <2> QED
      BY <2>1
  <1>8. SumFunction(Of(S)) = g[S]
    BY <1>6
  <1> QED
    BY <1>1, <1>7, <1>8

(* ... and so do the numbers of their elements.                               *)
LEMMA CountByGroup ==
    ASSUME NEW S, IsFiniteSet(S), NEW K, IsFiniteSet(K), NEW key \in [S -> K]
    PROVE  SumFunction([k \in K |-> Cardinality({y \in S : key[y] = k})]) = Cardinality(S)
  <1> DEFINE F == [x \in S |-> 1]
  <1>1. F \in [S -> Int] /\ \A x \in S : F[x] = 1
    OBVIOUS
  <1> HIDE DEF F
  <1>2. /\ \A T \in SUBSET S : Sums(F, S)[T] = Cardinality(T)
        /\ SumFunction(F) = Sums(F, S)[S]
    BY <1>1, SumOfOnes, SumsAre
  <1>3. \A T \in SUBSET S : SumFunction([x \in T |-> F[x]]) = Sums(F, S)[T]
    BY <1>1, SumOfPart
  <1>4. ASSUME NEW k \in K
        PROVE  SumFunction([x \in {y \in S : key[y] = k} |-> F[x]])
                 = Cardinality({y \in S : key[y] = k})
    BY <1>2, <1>3
  <1>5. [k \in K |-> SumFunction([x \in {y \in S : key[y] = k} |-> F[x]])]
          = [k \in K |-> Cardinality({y \in S : key[y] = k})]
    BY <1>4
  <1>6. SumFunction([k \in K |-> SumFunction([x \in {y \in S : key[y] = k} |-> F[x]])])
          = SumFunction(F)
    BY <1>1, SumByGroup
  <1> QED
    BY <1>2, <1>5, <1>6

(* How often a sum, twice, falls short of the number of what is summed.       *)
LEMMA SumOfShortfalls ==
    ASSUME NEW S, IsFiniteSet(S), NEW F \in [S -> Int]
    PROVE  SumFunction([x \in S |-> 1 - 2 * F[x]]) = Cardinality(S) - 2 * SumFunction(F)
  <1> DEFINE H == [x \in S |-> 1 - 2 * F[x]]
             f == Sums(F, S)
             h == Sums(H, S)
             G == {s \in SUBSET S : h[s] = Cardinality(s) - 2 * f[s]}
  <1>1. H \in [S -> Int] /\ \A x \in S : H[x] = 1 - 2 * F[x]
    OBVIOUS
  <1> HIDE DEF H
  <1>2. /\ \A s \in SUBSET S : f[s] = NextSum(F, f, s) /\ f[s] \in Int
        /\ \A s \in SUBSET S : h[s] = NextSum(H, h, s) /\ h[s] \in Int
        /\ SumFunction(F) = f[S] /\ SumFunction(H) = h[S]
    BY <1>1, SumsAre
  <1> HIDE DEF f, h
  <1>3. {} \in G
    <2>1. f[{}] = 0 /\ h[{}] = 0
      BY <1>2 DEF NextSum
    <2>2. Cardinality({}) = 0
      BY FS_EmptySet
    <2>3. h[{}] = Cardinality({}) - 2 * f[{}]
      BY <2>1, <2>2
    <2> QED
      BY <2>3
  <1>4. ASSUME NEW s \in SUBSET S, s # {}, s \ {Pick(s)} \in G PROVE s \in G
    <2> DEFINE p == Pick(s)
               t == s \ {p}
    <2>1. t \in SUBSET S /\ Cardinality(s) \in Nat /\ Cardinality(t) = Cardinality(s) - 1
      BY <1>4, PickedFromFinite
    <2>2. p \in S /\ F[p] \in Int /\ H[p] = 1 - 2 * F[p]
      BY <1>1, <1>4, PickedIsIn
    <2>3. f[s] = F[p] + f[t] /\ h[s] = H[p] + h[t] /\ f[t] \in Int
      BY <1>2, <1>4, <2>1 DEF NextSum
    <2>4. h[t] = Cardinality(t) - 2 * f[t]
      BY <1>4
    <2> HIDE DEF p, t
    <2> DEFINE fs == f[s]
               ft == f[t]
               hs == h[s]
               ht == h[t]
               fp == F[p]
               cs == Cardinality(s)
               ct == Cardinality(t)
    <2>6. /\ fp \in Int /\ ft \in Int /\ cs \in Nat /\ ct = cs - 1 /\ ht = ct - 2 * ft
          /\ fs = fp + ft /\ hs = (1 - 2 * fp) + ht
      BY <2>1, <2>2, <2>3, <2>4
    <2> HIDE DEF fs, ft, hs, ht, fp, cs, ct
    <2>7. hs = cs - 2 * fs
      BY <2>6
    <2>5. h[s] = Cardinality(s) - 2 * f[s]
      BY <2>7 DEF fs, hs, cs
    <2> QED
      BY <2>5
  <1>5. \A s \in SUBSET S : s \in G
    <2> HIDE DEF G
    <2> QED
      BY <1>3, <1>4, SubsetsByPick
  <1>6. SumFunction(H) = Cardinality(S) - 2 * SumFunction(F)
    BY <1>2, <1>5
  <1> QED
    BY <1>6 DEF H

-----------------------------------------------------------------------------
(* One element more or less.                                                  *)

(* Induction over the subsets of a finite set, for a property given as a set  *)
(* that each of them has when it has it without some element.                 *)
LEMMA SubsetsByOne ==
    ASSUME NEW S, IsFiniteSet(S), NEW G, {} \in G,
           \A s \in SUBSET S : s # {} => \E a \in s : s \ {a} \in G => s \in G
    PROVE  \A s \in SUBSET S : s \in G
  <1> DEFINE N == {n \in Nat : \A s \in SUBSET S : Cardinality(s) = n => s \in G}
  <1>1. \A s \in SUBSET S : IsFiniteSet(s) /\ Cardinality(s) \in Nat
    BY FS_Subset, FS_CardinalityType
  <1>2. 0 \in N
    <2>1. ASSUME NEW s \in SUBSET S, Cardinality(s) = 0 PROVE s \in G
      BY <2>1, FS_Subset, FS_EmptySet
    <2> QED
      BY <2>1
  <1>3. ASSUME NEW n \in Nat, n \in N PROVE n + 1 \in N
    <2>1. ASSUME NEW s \in SUBSET S, Cardinality(s) = n + 1 PROVE s \in G
      <3>1. s # {}
        <4>1. n + 1 # 0
          OBVIOUS
        <4> HIDE DEF N
        <4> QED
          BY <2>1, <4>1, FS_EmptySet
      <3>2. PICK a \in s : s \ {a} \in G => s \in G
        <4> HIDE DEF N
        <4> QED
          BY <3>1
      <3>3. s \ {a} \in SUBSET S /\ Cardinality(s \ {a}) = n
        <4> HIDE DEF N
        <4>1. Cardinality(s \ {a}) = Cardinality(s) - 1
          BY <1>1, FS_RemoveElement
        <4> QED
          BY <2>1, <4>1
      <3> QED
        BY <1>3, <3>2, <3>3
    <2> QED
      BY <2>1
  <1>4. Nat \subseteq N
    <2> HIDE DEF N
    <2> QED
      BY <1>2, <1>3, NaturalsByStep
  <1> QED
    BY <1>1, <1>4

(* The sum of the differences is the difference of the sums.                 *)
LEMMA SumOfDifference ==
    ASSUME NEW S, IsFiniteSet(S), NEW F \in [S -> Int], NEW H \in [S -> Int]
    PROVE  SumFunction([x \in S |-> F[x] - H[x]]) = SumFunction(F) - SumFunction(H)
  <1> DEFINE D == [x \in S |-> F[x] - H[x]]
             f == Sums(F, S)
             h == Sums(H, S)
             d == Sums(D, S)
             G == {s \in SUBSET S : d[s] = f[s] - h[s]}
  <1>1. D \in [S -> Int]
    OBVIOUS
  <1>2. \A x \in S : D[x] = F[x] - H[x]
    OBVIOUS
  <1> HIDE DEF D
  <1>3. /\ \A s \in SUBSET S : f[s] = NextSum(F, f, s) /\ f[s] \in Int
        /\ \A s \in SUBSET S : h[s] = NextSum(H, h, s) /\ h[s] \in Int
        /\ \A s \in SUBSET S : d[s] = NextSum(D, d, s) /\ d[s] \in Int
        /\ SumFunction(F) = f[S] /\ SumFunction(H) = h[S] /\ SumFunction(D) = d[S]
    BY <1>1, SumsAre
  <1> HIDE DEF f, h, d
  <1>4. {} \in G
    <2>1. f[{}] = 0 /\ h[{}] = 0 /\ d[{}] = 0
      BY <1>3 DEF NextSum
    <2> QED
      BY <2>1
  <1>5. ASSUME NEW s \in SUBSET S, s # {}, s \ {Pick(s)} \in G PROVE s \in G
    <2>1. Pick(s) \in S /\ s \ {Pick(s)} \in SUBSET S
      BY <1>5, PickedIsIn
    <2>2. d[s \ {Pick(s)}] = f[s \ {Pick(s)}] - h[s \ {Pick(s)}]
      BY <1>5
    <2>3. /\ f[s] = F[Pick(s)] + f[s \ {Pick(s)}]
          /\ h[s] = H[Pick(s)] + h[s \ {Pick(s)}]
          /\ d[s] = D[Pick(s)] + d[s \ {Pick(s)}]
      BY <1>3, <1>5 DEF NextSum
    <2>4. d[s] = f[s] - h[s]
      BY <1>2, <1>3, <2>1, <2>2, <2>3
    <2> QED
      BY <2>4
  <1>6. S \in G
    <2> HIDE DEF G
    <2>1. \A s \in SUBSET S : s \in G
      BY <1>4, <1>5, SubsetsByPick
    <2> QED
      BY <2>1
  <1> QED
    BY <1>3, <1>6 DEF D

(* A sum is one of its terms and the sum of the others.                       *)
LEMMA SumWithoutOne ==
    ASSUME NEW S, IsFiniteSet(S), NEW F \in [S -> Int], NEW a \in S
    PROVE  SumFunction(F) = F[a] + SumFunction([x \in S \ {a} |-> F[x]])
  <1>1. SumFunction(F) = Sums(F, S)[S]
    BY SumsAre
  <1>2. Sums(F, S)[S] = F[a] + Sums(F, S)[S \ {a}]
    BY SumTakesAny
  <1>3. SumFunction([x \in S \ {a} |-> F[x]]) = Sums(F, S)[S \ {a}]
    <2>1. S \ {a} \in SUBSET S
      OBVIOUS
    <2> QED
      BY <2>1, SumOfPart
  <1> QED
    BY <1>1, <1>2, <1>3

(* A sum is that over a part and that over the rest.                          *)
LEMMA SumOfHalves ==
    ASSUME NEW S, IsFiniteSet(S), NEW F \in [S -> Int], NEW T \in SUBSET S
    PROVE  SumFunction(F)
             = SumFunction([x \in T |-> F[x]]) + SumFunction([x \in S \ T |-> F[x]])
  <1> DEFINE f == Sums(F, S)
             G == {s \in SUBSET S : f[s] = f[s \cap T] + f[s \ T]}
  <1>1. /\ \A s \in SUBSET S : f[s] = NextSum(F, f, s) /\ f[s] \in Int
        /\ \A s \in SUBSET S : \A a \in s : f[s] = F[a] + f[s \ {a}]
        /\ SumFunction(F) = f[S]
    BY SumsAre, SumTakesAny
  <1>2. /\ SumFunction([x \in T |-> F[x]]) = f[T]
        /\ SumFunction([x \in S \ T |-> F[x]]) = f[S \ T]
    <2>1. S \ T \in SUBSET S
      OBVIOUS
    <2> HIDE DEF f
    <2> QED
      BY <2>1, SumOfPart DEF f
  <1> HIDE DEF f
  <1>3. {} \in G
    <2>1. f[{}] = 0
      BY <1>1 DEF NextSum
    <2>2. {} \cap T = {} /\ {} \ T = {}
      OBVIOUS
    <2> QED
      BY <2>1, <2>2
  <1>4. ASSUME NEW s \in SUBSET S, s # {}, s \ {Pick(s)} \in G PROVE s \in G
    <2> DEFINE a == Pick(s)
               u == s \ {a}
    <2>1. a \in s
      BY <1>4, PickedIsIn
    <2> HIDE DEF a
    <2>2. u \in SUBSET S /\ u \cap T \in SUBSET S /\ u \ T \in SUBSET S
      OBVIOUS
    <2>3. f[u] = f[u \cap T] + f[u \ T]
      BY <1>4 DEF a
    <2>4. f[s] = F[a] + f[u]
      BY <1>1, <2>1
    <2>5. f[s] = f[s \cap T] + f[s \ T]
      <3>1. f[u \cap T] \in Int /\ f[u \ T] \in Int /\ F[a] \in Int
        <4> HIDE DEF u
        <4> QED
          BY <1>1, <2>1, <2>2
      <3>2. s \cap T \in SUBSET S /\ s \ T \in SUBSET S
        OBVIOUS
      <3>3. CASE a \in T
        <4>1. s \ T = u \ T /\ (s \cap T) \ {a} = u \cap T /\ a \in s \cap T
          BY <2>1, <3>3
        <4> HIDE DEF u
        <4>2. f[s \cap T] = F[a] + f[u \cap T]
          BY <1>1, <3>2, <4>1
        <4>3. f[s \ T] = f[u \ T]
          BY <4>1
        <4> QED
          BY <2>3, <2>4, <3>1, <4>2, <4>3
      <3>4. CASE a \notin T
        <4>1. s \cap T = u \cap T /\ (s \ T) \ {a} = u \ T /\ a \in s \ T
          BY <2>1, <3>4
        <4> HIDE DEF u
        <4>2. f[s \ T] = F[a] + f[u \ T]
          BY <1>1, <3>2, <4>1
        <4>3. f[s \cap T] = f[u \cap T]
          BY <4>1
        <4> QED
          BY <2>3, <2>4, <3>1, <4>2, <4>3
      <3> QED
        BY <3>3, <3>4
    <2> QED
      BY <2>5
  <1>5. S \in G
    <2> HIDE DEF G
    <2>1. \A s \in SUBSET S : s \in G
      BY <1>3, <1>4, SubsetsByPick
    <2> QED
      BY <2>1
  <1>6. S \cap T = T
    OBVIOUS
  <1> QED
    BY <1>1, <1>2, <1>5, <1>6

(* The greatest of more numbers is no less.                                   *)
LEMMA GreatestOfMore ==
    ASSUME NEW S, IsFiniteSet(S), S \subseteq Int, NEW T \in SUBSET S, T # {}
    PROVE  Max(T) \in Int /\ Max(S) \in Int /\ Max(T) <= Max(S)
  <1>1. IsFiniteSet(T) /\ T \subseteq Int /\ S # {}
    BY FS_Subset
  <1>2. Max(T) \in T /\ \A x \in T : x <= Max(T)
    BY <1>1, FiniteExtremes
  <1>3. Max(S) \in S /\ \A x \in S : x <= Max(S)
    BY <1>1, FiniteExtremes
  <1> QED
    BY <1>2, <1>3

(* Zero and finitely many numbers are finitely many numbers.                  *)
LEMMA WithZero ==
    ASSUME NEW S, IsFiniteSet(S), NEW f, DOMAIN f = S, \A x \in S : f[x] \in Int
    PROVE  IsFiniteSet({0} \cup {f[x] : x \in S}) /\ {0} \cup {f[x] : x \in S} \subseteq Int
  <1> DEFINE T == {f[x] : x \in S}
  <1>1. IsFiniteSet(T) /\ T \subseteq Int
    BY FiniteImage
  <1> HIDE DEF T
  <1>2. IsFiniteSet(T \cup {0}) /\ T \cup {0} = {0} \cup T
    BY <1>1, FS_AddElement
  <1>3. {0} \cup T \subseteq Int
    BY <1>1
  <1> QED
    BY <1>2, <1>3 DEF T

(* The greatest of two numbers.                                               *)
LEMMA GreaterOfTwo ==
    ASSUME NEW x \in Int, NEW y \in Int
    PROVE  Max({x, y}) = IF x >= y THEN x ELSE y
  <1>1. IsFiniteSet({x, y})
    <2>1. IsFiniteSet({x}) /\ {x, y} = {x} \cup {y}
      BY FS_Singleton
    <2> QED
      BY <2>1, FS_AddElement
  <1>2. {x, y} \subseteq Int /\ {x, y} # {}
    OBVIOUS
  <1> DEFINE m == Max({x, y})
  <1>3. m \in {x, y} /\ x <= m /\ y <= m
    BY <1>1, <1>2, FiniteExtremes
  <1> HIDE DEF m
  <1>4. m = IF x >= y THEN x ELSE y
    BY <1>3
  <1> QED
    BY <1>4 DEF m

(* The numbers up to a bound are finitely many.                               *)
LEMMA FiniteInterval ==
    ASSUME NEW n \in Nat
    PROVE  IsFiniteSet(1 .. n)
  <1>1. 1 \in Int /\ n \in Int
    OBVIOUS
  <1> QED
    BY <1>1, FS_Interval, Zenon
=============================================================================
