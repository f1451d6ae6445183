------------------------- MODULE PaperBrokerProofs -------------------------
(***************************************************************************)
(* For every set of symbols, prices and quantities, every opening balance  *)
(* every grid of average prices, and every fee and slippage rate up to     *)
(* 100%: the account never goes into debt or short, closed positions are   *)
(* empty, money is conserved up to the roundings, which are bounded, and   *)
(* the broker implements the ledger.                                       *)
(***************************************************************************)
EXTENDS PaperBroker, DataLemmas

(* A quotient of natural numbers is bounded by what bounds the dividend.   *)
LEMMA DivBounds ==
    ASSUME NEW x \in Nat, NEW k \in Nat, NEW d \in Nat \ {0}, x <= k * d
    PROVE  x \div d \in 0..k
<1> DEFINE q == x \div d
<1>1. q \in Int /\ x = d * q + (x % d) /\ x % d \in 0..(d - 1)
  BY SMT
<1>2. q >= 0
  <2>1. SUFFICES ASSUME q <= -1 PROVE FALSE
    BY <1>1
  <2>2. d * q <= d * (-1)
    BY <1>1, <2>1, SMT
  <2> QED BY <1>1, <2>2, SMT
<1>3. q <= k
  <2>1. SUFFICES ASSUME q >= k + 1 PROVE FALSE
    BY <1>1
  <2>2. d * q >= d * (k + 1)
    BY <1>1, <2>1, SMT
  <2>3. d * (k + 1) = k * d + d
    BY SMT
  <2> QED BY <1>1, <2>2, <2>3, SMT
<1> QED BY <1>1, <1>2, <1>3

(* Multiplying by a natural number keeps an inequality.                    *)
LEMMA MulMono ==
    ASSUME NEW x \in Nat, NEW a \in Int, NEW b \in Int, a <= b
    PROVE  x * a <= x * b
<1>1. x * (b - a) >= 0
  BY SMT
<1>2. x * (b - a) = x * b - x * a
  BY SMT
<1> QED BY <1>1, <1>2, SMT

(* A product of natural numbers is one.                                    *)
LEMMA MulNat ==
    ASSUME NEW x \in Nat, NEW y \in Nat
    PROVE  x * y \in Nat
  BY SMT

(* A positive factor on both sides of an inequality can be dropped.        *)
LEMMA Cancel ==
    ASSUME NEW d \in Nat \ {0}, NEW a \in Int, NEW b \in Int, d * a <= d * b
    PROVE  a <= b
<1>1. SUFFICES ASSUME b + 1 <= a PROVE FALSE
  OBVIOUS
<1>2. d * (b + 1) <= d * a
  BY <1>1, MulMono
<1>3. d * (b + 1) = d * b + d /\ d * a \in Int /\ d * b \in Int
  BY SMT
<1> QED BY <1>2, <1>3

(* An absolute value is a natural number.                                  *)
LEMMA AbsType ==
    ASSUME NEW x \in Int
    PROVE  Abs(x) \in Nat
  BY DEF Abs

(* What is off by x and moves to y is off by at most both.                 *)
LEMMA Triangle ==
    ASSUME NEW x \in Int, NEW y \in Int
    PROVE  /\ Abs(x) \in Nat /\ Abs(y) \in Nat /\ Abs(y - x) \in Nat
           /\ Abs(y) <= Abs(x) + Abs(y - x)
  BY DEF Abs

(* A multiple of an absolute value is bounded by what bounds the multiple. *)
LEMMA AbsScaled ==
    ASSUME NEW d \in Nat, NEW x \in Int, NEW k \in Int, d * x <= k, -k <= d * x
    PROVE  d * Abs(x) <= k
<1>1. d * (-x) = -(d * x) /\ d * x \in Int
  BY SMT
<1>2. CASE x >= 0
  BY <1>2 DEF Abs
<1>3. CASE ~(x >= 0)
  <2>1. Abs(x) = -x
    BY <1>3 DEF Abs
  <2> QED BY <1>1, <2>1
<1> QED BY <1>2, <1>3

(* Rounding half to even is off by at most a half.                         *)
LEMMA HalfEvenNear ==
    ASSUME NEW n \in Nat, NEW d \in Nat \ {0}
    PROVE  /\ HalfEven(n, d) \in Nat
           /\ 2 * (d * HalfEven(n, d)) <= 2 * n + d
           /\ 2 * n <= 2 * (d * HalfEven(n, d)) + d
<1> DEFINE q == n \div d
           r == n % d
<1>1. q \in Nat
  <2>1. n * 1 <= n * d
    BY MulMono
  <2>2. n <= n * d
    BY <2>1
  <2> QED BY <2>2, DivBounds
<1>2. n = d * q + r /\ r \in 0..(d - 1)
  BY SMT
<1>3. HalfEven(n, d) = q + 1 \/ HalfEven(n, d) = q
  BY DEF HalfEven
<1>4. HalfEven(n, d) = q + 1 => 2 * r >= d
  BY <1>1, <1>2 DEF HalfEven
<1>5. HalfEven(n, d) = q => 2 * r <= d
  BY <1>1, <1>2 DEF HalfEven
<1> HIDE DEF q, r
<1>6. d * (q + 1) = d * q + d /\ d * q \in Int
  BY <1>1, SMT
<1>7. CASE HalfEven(n, d) = q + 1
  BY <1>1, <1>2, <1>4, <1>6, <1>7
<1>8. CASE HalfEven(n, d) = q
  BY <1>1, <1>2, <1>5, <1>6, <1>8
<1> QED BY <1>3, <1>7, <1>8

(* What is rounded down to a multiple does not exceed the multiple.        *)
LEMMA HalfEvenBounds ==
    ASSUME NEW x \in Nat, NEW k \in Nat, NEW d \in Nat \ {0}, x <= k * d
    PROVE  HalfEven(x, d) \in 0..k
<1> DEFINE h == HalfEven(x, d)
<1>1. h \in Nat /\ 2 * (d * h) <= 2 * x + d
  BY HalfEvenNear
<1> HIDE DEF h
<1>2. d * (2 * h) = 2 * (d * h) /\ d * (2 * k + 1) = 2 * (k * d) + d
  BY <1>1, SMT
<1>3. k * d \in Int /\ d * h \in Int
  BY <1>1, SMT
<1>4. d * (2 * h) <= d * (2 * k + 1)
  BY <1>1, <1>2, <1>3
<1>5. 2 * h <= 2 * k + 1
  <2>1. 2 * h \in Int /\ 2 * k + 1 \in Int
    BY <1>1
  <2> QED BY <1>4, <2>1, Cancel
<1> QED BY <1>1, <1>5 DEF h

(* Rounding keeps order.                                                   *)
LEMMA HalfEvenMono ==
    ASSUME NEW n \in Nat, NEW m \in Nat, NEW d \in Nat \ {0}, n <= m
    PROVE  HalfEven(n, d) <= HalfEven(m, d)
<1> DEFINE q == n \div d
           r == n % d
           u == m \div d
           v == m % d
<1>1. q \in Int /\ n = d * q + r /\ r \in 0..(d - 1)
  BY SMT
<1>2. u \in Int /\ m = d * u + v /\ v \in 0..(d - 1)
  BY SMT
<1>3. /\ HalfEven(n, d) =
            IF 2 * r > d \/ (2 * r = d /\ q % 2 = 1) THEN q + 1 ELSE q
      /\ HalfEven(m, d) =
            IF 2 * v > d \/ (2 * v = d /\ u % 2 = 1) THEN u + 1 ELSE u
  BY DEF HalfEven
<1> HIDE DEF q, r, u, v
<1>4. q <= u
  <2>1. SUFFICES ASSUME u + 1 <= q PROVE FALSE
    BY <1>1, <1>2
  <2>2. d * (u + 1) <= d * q
    BY <1>1, <1>2, <2>1, MulMono
  <2>3. d * (u + 1) = d * u + d /\ d * u \in Int /\ d * q \in Int
    BY <1>1, <1>2, SMT
  <2> QED BY <1>1, <1>2, <2>2, <2>3
<1>5. CASE q = u
  <2>1. r <= v
    <3>1. d * u \in Int /\ d * q = d * u
      BY <1>2, <1>5, SMT
    <3> QED BY <1>1, <1>2, <3>1
  <2> QED BY <1>1, <1>2, <1>3, <1>5, <2>1
<1>6. CASE q # u
  BY <1>1, <1>2, <1>3, <1>4, <1>6
<1> QED BY <1>5, <1>6

(* Every order with a quantity and a price that are natural numbers: the   *)
(* lemmas serve the runner too, whose orders are not the bounded ones.     *)
AnyOrder == [symbol : Symbols, side : {"BUY", "SELL"}, qty : Nat, price : Nat,
             mode : {"paper", "live"}]

(* What an order is made of.                                               *)
LEMMA OrderTypes ==
    ASSUME NEW o \in AnyOrder
    PROVE  o.symbol \in Symbols /\ o.qty \in Nat /\ o.price \in Nat
  BY DEF AnyOrder

(* The orders of the broker's own specification are among them.            *)
LEMMA OrdersAreOrders ==
    Orders \subseteq AnyOrder /\ \A o \in Orders : o.qty <= LargestOrder
<1>1. /\ Prices \subseteq Nat /\ Quantities \subseteq Nat
      /\ \A q \in Quantities : q <= LargestOrder
  BY BrokerAssumption
<1> QED BY <1>1 DEF Orders, AnyOrder

(* The executed price is a price: slippage of at most 100% cannot turn it  *)
(* negative.                                                               *)
LEMMA FillPriceNat ==
    ASSUME NEW o \in AnyOrder
    PROVE  FillPrice(o) \in Nat
<1> USE BrokerAssumption DEF AnyOrder
<1>1. o.price \in Nat /\ RateDen \in Nat \ {0} /\ SlipNum \in 0..RateDen
  OBVIOUS
<1>2. HalfEven(o.price * (RateDen - SlipNum), RateDen) \in 0..o.price
  <2>1. o.price * (RateDen - SlipNum) <= o.price * RateDen
    BY <1>1, MulMono
  <2>2. o.price * (RateDen - SlipNum) \in Nat
    BY <1>1, MulNat
  <2> QED BY <1>1, <2>1, <2>2, HalfEvenBounds
<1>3. HalfEven(o.price * (RateDen + SlipNum), RateDen) \in 0..(2 * o.price)
  <2>1. o.price * (RateDen + SlipNum) <= o.price * (2 * RateDen)
    BY <1>1, MulMono
  <2>2. o.price * (2 * RateDen) = (2 * o.price) * RateDen
    BY <1>1, SMT
  <2>3. o.price * (RateDen + SlipNum) \in Nat
    BY <1>1, MulNat
  <2> HIDE BrokerAssumption DEF AnyOrder
  <2> QED BY <1>1, <2>1, <2>2, <2>3, HalfEvenBounds
<1> QED BY <1>1, <1>2, <1>3 DEF FillPrice

(* What is traded is worth something non-negative, and the fee never       *)
(* exceeds it.                                                             *)
LEMMA FeeBounds ==
    ASSUME NEW o \in AnyOrder
    PROVE  Notional(o) \in Nat /\ Fee(o) \in 0..Notional(o)
<1>1. o.qty \in Nat /\ RateDen \in Nat \ {0} /\ FeeNum \in 0..RateDen
  BY BrokerAssumption DEF AnyOrder
<1>2. Notional(o) \in Nat
  BY <1>1, FillPriceNat, MulNat DEF Notional
<1>3. Notional(o) * FeeNum \in Nat
  BY <1>1, <1>2, MulNat
<1>4. Notional(o) * FeeNum <= Notional(o) * RateDen
  BY <1>1, <1>2, MulMono
<1>5. HalfEven(Notional(o) * FeeNum, RateDen) \in 0..Notional(o)
  BY <1>1, <1>2, <1>3, <1>4, HalfEvenBounds
<1> QED BY <1>2, <1>5 DEF Fee

(* What is released is the quantity's share at the average price, rounded. *)
LEMMA ReleasedNear ==
    ASSUME NEW p \in Position, NEW qty \in Nat
    PROVE  /\ Released(p, qty) \in Nat
           /\ 2 * (EntryDen * Released(p, qty)) <= 2 * (p.entry * qty) + EntryDen
           /\ 2 * (p.entry * qty) <= 2 * (EntryDen * Released(p, qty)) + EntryDen
<1>1. p.entry \in Nat /\ EntryDen \in Nat \ {0}
  BY BrokerAssumption DEF Position
<1>2. p.entry * qty \in Nat
  BY <1>1, MulNat
<1> QED BY <1>1, <1>2, HalfEvenNear DEF Released

(* A sale never releases more than the position cost.                      *)
LEMMA ReleasedBounds ==
    ASSUME NEW p \in Position, NEW qty \in 1..p.qty
    PROVE  Basis(p) \in Nat /\ Released(p, qty) \in 0..Basis(p)
<1>1. /\ p.qty \in Nat /\ qty \in Nat /\ qty <= p.qty /\ p.entry \in Nat
      /\ EntryDen \in Nat \ {0}
  BY BrokerAssumption DEF Position
<1>2. p.entry * qty \in Nat /\ p.entry * p.qty \in Nat
  BY <1>1, MulNat
<1>3. p.entry * qty <= p.entry * p.qty
  BY <1>1, MulMono
<1>4. Released(p, qty) <= Basis(p)
  BY <1>1, <1>2, <1>3, HalfEvenMono DEF Released, Basis
<1>5. Released(p, qty) \in Nat /\ Basis(p) \in Nat
  BY <1>1, ReleasedNear DEF Basis
<1> QED BY <1>4, <1>5

(* What a position cost is a natural number.                               *)
LEMMA BasisType ==
    ASSUME NEW p \in Position
    PROVE  Basis(p) \in Nat
  BY ReleasedNear DEF Basis, Position

(* A position that was added to cost what it cost before and the new cost, *)
(* up to half a grid step for each unit and half a unit of money.          *)
LEMMA EnlargedNear ==
    ASSUME NEW p \in Position, NEW qty \in Nat \ {0}, NEW cost \in Nat
    PROVE  LET new == Enlarged(p, qty, cost) IN
           /\ new \in Position /\ new.qty = p.qty + qty
           /\ 2 * EntryDen * Abs(Basis(new) - (Basis(p) + cost))
                 <= p.qty + qty + EntryDen
<1> DEFINE n == p.qty + qty
           c == Basis(p) + cost
           t == c * EntryDen
           x == HalfEven(t, n)
           new == Enlarged(p, qty, cost)
           b == Basis(new)
<1>1. /\ p.qty \in Nat /\ p.pnl \in Int /\ EntryDen \in Nat \ {0}
      /\ n \in Nat \ {0} /\ c \in Nat
  BY BrokerAssumption, BasisType DEF Position
<1>2. t \in Nat
  BY <1>1, MulNat
<1>3. x \in Nat /\ 2 * (n * x) <= 2 * t + n /\ 2 * t <= 2 * (n * x) + n
  <2> HIDE DEF t, n
  <2> QED BY <1>1, <1>2, HalfEvenNear
<1>4. new = [qty |-> n, entry |-> x, pnl |-> p.pnl]
  BY DEF Enlarged
<1> HIDE DEF x
<1>5. new \in Position /\ new.qty = n /\ new.entry = x
  BY <1>1, <1>3, <1>4 DEF Position
<1> HIDE DEF new, t, n, c
<1>6. /\ b \in Nat
      /\ 2 * (EntryDen * b) <= 2 * (x * n) + EntryDen
      /\ 2 * (x * n) <= 2 * (EntryDen * b) + EntryDen
  BY <1>1, <1>5, ReleasedNear DEF Basis
<1> HIDE DEF b
<1>7. n * x = x * n /\ x * n \in Int /\ EntryDen * b \in Int
  BY <1>1, <1>3, <1>6, SMT
<1>8. (2 * EntryDen) * (b - c) = 2 * (EntryDen * b) - 2 * t
  BY <1>1, <1>6, SMT DEF t
<1>9. /\ (2 * EntryDen) * (b - c) <= n + EntryDen
      /\ -(n + EntryDen) <= (2 * EntryDen) * (b - c)
  BY <1>1, <1>2, <1>3, <1>6, <1>7, <1>8
<1>10. (2 * EntryDen) * Abs(b - c) <= n + EntryDen
  <2>1. 2 * EntryDen \in Nat /\ b - c \in Int /\ n + EntryDen \in Int
    BY <1>1, <1>6
  <2> QED BY <1>9, <2>1, AbsScaled
<1> QED BY <1>5, <1>10 DEF new, n, c, b

(* Nothing was bought with a position that is flat.                        *)
LEMMA FlatBasis == Basis(Flat) = 0
<1>1. Flat.qty = 0 /\ Flat.entry = 0 /\ 0 * 0 = 0
  BY DEF Flat
<1>2. Basis(Flat) = HalfEven(0, EntryDen)
  BY <1>1 DEF Basis, Released
<1>3. EntryDen \in Nat \ {0}
  BY BrokerAssumption
<1>4. 0 <= 0 * EntryDen
  BY <1>3, SMT
<1>5. HalfEven(0, EntryDen) \in 0..0
  BY <1>3, <1>4, HalfEvenBounds
<1> QED BY <1>2, <1>5

(* A sale leaves what the position cost less what was released, up to a    *)
(* unit of money, and nothing when all is sold.                            *)
LEMMA ReducedNear ==
    ASSUME NEW p \in Position, NEW qty \in 1..p.qty, NEW pnl \in Int
    PROVE  LET new == Reduced(p, qty, pnl) IN
           /\ new \in Position /\ new.qty = p.qty - qty
           /\ qty = p.qty => /\ new = Flat /\ Basis(new) = 0
                             /\ Released(p, qty) = Basis(p)
           /\ Abs((Basis(p) - Basis(new)) - Released(p, qty)) <= 1
<1> DEFINE new == Reduced(p, qty, pnl)
           rest == [qty |-> p.qty - qty, entry |-> p.entry, pnl |-> p.pnl + pnl]
<1>1. /\ p.qty \in Nat /\ p.entry \in Nat /\ p.pnl \in Int /\ qty \in Nat
      /\ qty <= p.qty /\ EntryDen \in Nat \ {0}
  BY BrokerAssumption DEF Position
<1>2. CASE qty = p.qty
  <2>1. new = Flat /\ Flat \in Position /\ Flat.qty = 0
    BY <1>2 DEF Reduced, Flat, Position
  <2>2. Basis(Flat) = 0
    BY FlatBasis
  <2>3. Released(p, qty) = Basis(p) /\ Basis(p) \in Nat
    BY <1>2, BasisType DEF Basis
  <2> QED BY <1>1, <1>2, <2>1, <2>2, <2>3 DEF Abs
<1>3. CASE qty # p.qty
  <2> DEFINE b == Basis(p)
             c == Basis(new)
             rel == Released(p, qty)
  <2>1. /\ new = rest /\ rest \in Position /\ rest.qty = p.qty - qty
        /\ rest.entry = p.entry /\ p.qty - qty \in Nat
    BY <1>1, <1>3 DEF Reduced, Position
  <2> HIDE DEF new, rest
  <2>2. /\ b \in Nat /\ 2 * (EntryDen * b) <= 2 * (p.entry * p.qty) + EntryDen
        /\ 2 * (p.entry * p.qty) <= 2 * (EntryDen * b) + EntryDen
    BY <1>1, ReleasedNear DEF Basis
  <2>3. /\ rel \in Nat /\ 2 * (EntryDen * rel) <= 2 * (p.entry * qty) + EntryDen
        /\ 2 * (p.entry * qty) <= 2 * (EntryDen * rel) + EntryDen
    BY <1>1, ReleasedNear
  <2>4. /\ c \in Nat
        /\ 2 * (EntryDen * c) <= 2 * (p.entry * (p.qty - qty)) + EntryDen
        /\ 2 * (p.entry * (p.qty - qty)) <= 2 * (EntryDen * c) + EntryDen
    BY <2>1, ReleasedNear DEF Basis
  <2> HIDE DEF b, c, rel
  <2>5. /\ p.entry * (p.qty - qty) = p.entry * p.qty - p.entry * qty
        /\ p.entry * p.qty \in Int /\ p.entry * qty \in Int
    BY <1>1, SMT
  <2>6. /\ EntryDen * (2 * ((b - c) - rel))
              = (2 * (EntryDen * b) - 2 * (EntryDen * c)) - 2 * (EntryDen * rel)
        /\ EntryDen * 3 = 3 * EntryDen /\ EntryDen * (-3) = -(3 * EntryDen)
        /\ EntryDen * b \in Int /\ EntryDen * c \in Int /\ EntryDen * rel \in Int
    BY <1>1, <2>2, <2>3, <2>4, SMT
  <2>7. /\ EntryDen * (2 * ((b - c) - rel)) <= EntryDen * 3
        /\ EntryDen * (-3) <= EntryDen * (2 * ((b - c) - rel))
    BY <1>1, <2>2, <2>3, <2>4, <2>5, <2>6
  <2>8. 2 * ((b - c) - rel) \in Int /\ 3 \in Int /\ -3 \in Int
    BY <2>2, <2>3, <2>4
  <2>9. 2 * ((b - c) - rel) <= 3
    BY <1>1, <2>7, <2>8, Cancel
  <2>10. -3 <= 2 * ((b - c) - rel)
    BY <1>1, <2>7, <2>8, Cancel
  <2>11. Abs((b - c) - rel) <= 1
    BY <2>2, <2>3, <2>4, <2>9, <2>10 DEF Abs
  <2> QED BY <1>3, <2>1, <2>11 DEF new, b, c, rel
<1> QED BY <1>2, <1>3

(* What is released is the share of the cost that the quantity sold is of  *)
(* the quantity held.                                                      *)
LEMMA ReleasedShare ==
    ASSUME NEW p \in Position, NEW qty \in 1..p.qty
    PROVE  Abs(Released(p, qty) * p.qty - Basis(p) * qty) <= p.qty
<1> DEFINE b == Basis(p)
           rel == Released(p, qty)
           n == p.qty
           y == rel * n - b * qty
           s1 == p.entry * qty
           s2 == p.entry * n
<1>1. /\ n \in Nat /\ p.entry \in Nat /\ qty \in Nat /\ qty <= n
      /\ EntryDen \in Nat \ {0}
  BY BrokerAssumption DEF Position
<1>2. /\ b \in Nat /\ 2 * (EntryDen * b) <= 2 * s2 + EntryDen
      /\ 2 * s2 <= 2 * (EntryDen * b) + EntryDen
  BY <1>1, ReleasedNear DEF Basis
<1>3. /\ rel \in Nat /\ 2 * (EntryDen * rel) <= 2 * s1 + EntryDen
      /\ 2 * s1 <= 2 * (EntryDen * rel) + EntryDen
  BY <1>1, ReleasedNear
<1>4. s1 \in Nat /\ s2 \in Nat /\ n * s1 = qty * s2
  <2>1. s1 \in Nat /\ s2 \in Nat
    BY <1>1, MulNat
  <2>2. n * s1 = qty * s2
    BY <1>1, SMT
  <2> QED BY <2>1, <2>2
<1> HIDE DEF b, rel, n, s1, s2
<1>5. /\ n * (2 * (EntryDen * rel)) <= n * (2 * s1 + EntryDen)
      /\ n * (2 * s1) <= n * (2 * (EntryDen * rel) + EntryDen)
  <2>1. /\ 2 * (EntryDen * rel) \in Int /\ 2 * s1 + EntryDen \in Int
        /\ 2 * s1 \in Int /\ 2 * (EntryDen * rel) + EntryDen \in Int
    BY <1>1, <1>3, <1>4, SMT
  <2> QED BY <1>1, <1>3, <2>1, MulMono
<1>6. /\ qty * (2 * (EntryDen * b)) <= qty * (2 * s2 + EntryDen)
      /\ qty * (2 * s2) <= qty * (2 * (EntryDen * b) + EntryDen)
  <2>1. /\ 2 * (EntryDen * b) \in Int /\ 2 * s2 + EntryDen \in Int
        /\ 2 * s2 \in Int /\ 2 * (EntryDen * b) + EntryDen \in Int
    BY <1>1, <1>2, <1>4, SMT
  <2> QED BY <1>1, <1>2, <2>1, MulMono
<1> DEFINE X == n * (EntryDen * rel)
           Z == qty * (EntryDen * b)
           S == n * s1
           N == n * EntryDen
           Q == qty * EntryDen
<1>7. /\ X \in Int /\ Z \in Int /\ S \in Int /\ N \in Nat /\ Q \in Nat
      /\ S = qty * s2
  <2>1. EntryDen * rel \in Nat /\ EntryDen * b \in Nat
    BY <1>1, <1>2, <1>3, MulNat
  <2>2. X \in Nat /\ Z \in Nat /\ S \in Nat /\ N \in Nat /\ Q \in Nat
    BY <1>1, <1>4, <2>1, MulNat
  <2> QED BY <1>4, <2>2
<1>8. /\ n * (2 * (EntryDen * rel)) = 2 * X /\ n * (2 * s1 + EntryDen) = 2 * S + N
      /\ n * (2 * s1) = 2 * S /\ n * (2 * (EntryDen * rel) + EntryDen) = 2 * X + N
  BY <1>1, <1>3, <1>4, SMT
<1>9. /\ qty * (2 * (EntryDen * b)) = 2 * Z /\ qty * (2 * s2 + EntryDen) = 2 * S + Q
      /\ qty * (2 * s2) = 2 * S /\ qty * (2 * (EntryDen * b) + EntryDen) = 2 * Z + Q
  <2>1. /\ qty * (2 * (EntryDen * b)) = 2 * Z
        /\ qty * (2 * (EntryDen * b) + EntryDen) = 2 * Z + Q
    BY <1>1, <1>2, SMT
  <2>2. /\ qty * (2 * s2 + EntryDen) = 2 * (qty * s2) + Q
        /\ qty * (2 * s2) = 2 * (qty * s2)
    BY <1>1, <1>4, SMT
  <2> HIDE DEF S
  <2> QED BY <1>7, <2>1, <2>2
<1>10. Q <= N
  <2>1. EntryDen * qty <= EntryDen * n
    BY <1>1, MulMono
  <2>2. EntryDen * qty = Q /\ EntryDen * n = N
    BY <1>1, SMT
  <2> QED BY <2>1, <2>2
<1>11. y \in Int /\ EntryDen * y = X - Z
  <2>1. rel * n \in Int /\ b * qty \in Int
    BY <1>1, <1>2, <1>3, SMT
  <2>2. EntryDen * y = EntryDen * (rel * n) - EntryDen * (b * qty)
    BY <1>1, <2>1, SMT
  <2>3. EntryDen * (rel * n) = X /\ EntryDen * (b * qty) = Z
    BY <1>1, <1>2, <1>3, SMT
  <2> QED BY <2>1, <2>2, <2>3
<1> HIDE DEF y, X, Z, S, N, Q
<1>12. X - Z <= N /\ -N <= X - Z
  BY <1>5, <1>6, <1>7, <1>8, <1>9, <1>10
<1>13. N = EntryDen * n /\ -N = EntryDen * (-n)
  BY <1>1, SMT DEF N
<1>14. y <= n /\ -n <= y
  <2>1. EntryDen * y <= EntryDen * n /\ EntryDen * (-n) <= EntryDen * y
    BY <1>11, <1>12, <1>13
  <2>2. n \in Int /\ -n \in Int
    BY <1>1
  <2>3. y <= n
    BY <1>1, <1>11, <2>1, <2>2, Cancel
  <2>4. -n <= y
    BY <1>1, <1>11, <2>1, <2>2, Cancel
  <2> QED BY <2>3, <2>4
<1>15. Abs(y) <= n
  BY <1>1, <1>11, <1>14 DEF Abs
<1> QED BY <1>15 DEF y, n, b, rel

-----------------------------------------------------------------------------
(* The inductive invariant: types, and nothing left on a closed position.  *)
BrokerInv == BrokerTypeOK /\ FlatIsEmpty

(* The opening account satisfies it.                                       *)
LEMMA BrokerInitInv == BrokerInit => BrokerInv
<1> SUFFICES ASSUME BrokerInit PROVE BrokerInv
  OBVIOUS
<1>1. Flat \in Position
  BY DEF Flat, Position
<1>2. positions \in [Symbols -> Position] /\ FlatIsEmpty
  BY <1>1 DEF BrokerInit, FlatIsEmpty
<1>3. fill \in FillResult
  BY DEF BrokerInit, NoFill, FillResult
<1> QED BY <1>2, <1>3, BrokerAssumption DEF BrokerInit, BrokerInv, BrokerTypeOK

(* What the guards of the two trades give.                                 *)
LEMMA BuyGuard ==
    ASSUME BrokerInv, NEW o \in AnyOrder, Buy(o)
    PROVE  o.qty \in Nat \ {0} /\ positions[o.symbol] \in Position
<1>1. o.qty > 0
  BY DEF Buy, CanBuy, Executable
<1>2. positions \in [Symbols -> Position]
  BY DEF BrokerInv, BrokerTypeOK
<1> QED BY <1>1, <1>2, OrderTypes

(* What is sold is held.                                                   *)
LEMMA SellGuard ==
    ASSUME BrokerInv, NEW o \in AnyOrder, Sell(o)
    PROVE  positions[o.symbol] \in Position /\ o.qty \in 1..positions[o.symbol].qty
<1>1. o.qty > 0 /\ o.qty <= positions[o.symbol].qty
  BY DEF Sell, CanSell, Executable
<1>2. positions[o.symbol] \in Position
  BY OrderTypes DEF BrokerInv, BrokerTypeOK
<1>3. positions[o.symbol].qty \in Nat
  BY <1>2 DEF Position
<1> QED BY <1>1, <1>2, <1>3, OrderTypes

(* A purchase is paid from the cash and leaves an open position.           *)
LEMMA BuyInv ==
    ASSUME BrokerInv, NEW o \in AnyOrder, Buy(o)
    PROVE  BrokerInv'
<1> DEFINE s == o.symbol
           cost == Notional(o) + Fee(o)
           p == positions[s]
<1>1. s \in Symbols /\ o.qty \in Nat \ {0} /\ p \in Position
  BY OrderTypes, BuyGuard
<1>2. cost \in Nat /\ cost <= cash
  BY FeeBounds DEF Buy, CanBuy
<1>3. cash' \in Nat /\ realized' \in Int /\ orderCounter' \in Nat
  BY <1>2 DEF Buy, BrokerInv, BrokerTypeOK
<1>4. fill' \in FillResult
  BY <1>1 DEF Buy, Execution, FillResult
<1>5. positions' = [positions EXCEPT ![s] = Enlarged(p, o.qty, cost)]
  BY DEF Buy
<1>6. Enlarged(p, o.qty, cost) \in Position /\ Enlarged(p, o.qty, cost).qty # 0
  <2>1. p.qty \in Nat
    BY <1>1 DEF Position
  <2> HIDE DEF p, cost
  <2>2. /\ Enlarged(p, o.qty, cost) \in Position
        /\ Enlarged(p, o.qty, cost).qty = p.qty + o.qty
    BY <1>1, <1>2, EnlargedNear
  <2> QED BY <1>1, <2>1, <2>2
<1>7. positions' \in [Symbols -> Position] /\ FlatIsEmpty'
  BY <1>1, <1>5, <1>6 DEF FlatIsEmpty, BrokerInv, BrokerTypeOK
<1> QED BY <1>3, <1>4, <1>7 DEF BrokerInv, BrokerTypeOK

(* A sale leaves a smaller position, or none and nothing of it.            *)
LEMMA SellInv ==
    ASSUME BrokerInv, NEW o \in AnyOrder, Sell(o)
    PROVE  BrokerInv'
<1> DEFINE s == o.symbol
           p == positions[s]
           proceeds == Notional(o) - Fee(o)
           pnl == proceeds - Released(p, o.qty)
<1>1. s \in Symbols /\ p \in Position /\ o.qty \in 1..p.qty
  BY OrderTypes, SellGuard
<1>2. proceeds \in Nat /\ Released(p, o.qty) \in Nat /\ pnl \in Int
  BY <1>1, FeeBounds, ReleasedBounds
<1>3. cash' \in Nat /\ realized' \in Int /\ orderCounter' \in Nat
  BY <1>2 DEF Sell, BrokerInv, BrokerTypeOK
<1>4. fill' \in FillResult
  BY <1>1, <1>2 DEF Sell, Execution, FillResult, Position
<1>5. positions' = [positions EXCEPT ![s] = Reduced(p, o.qty, pnl)]
  BY DEF Sell
<1>6. /\ Reduced(p, o.qty, pnl) \in Position
      /\ Reduced(p, o.qty, pnl).qty = 0 => Reduced(p, o.qty, pnl) = Flat
  <2>1. p.qty \in Nat
    BY <1>1 DEF Position
  <2> HIDE DEF p, pnl
  <2>2. /\ Reduced(p, o.qty, pnl) \in Position
        /\ Reduced(p, o.qty, pnl).qty = p.qty - o.qty
        /\ o.qty = p.qty => Reduced(p, o.qty, pnl) = Flat
    BY <1>1, <1>2, ReducedNear
  <2> QED BY <1>1, <2>1, <2>2
<1>7. positions' \in [Symbols -> Position] /\ FlatIsEmpty'
  BY <1>1, <1>5, <1>6 DEF FlatIsEmpty, BrokerInv, BrokerTypeOK
<1> QED BY <1>3, <1>4, <1>7 DEF BrokerInv, BrokerTypeOK

(* A refused order changes the answer and nothing else.                    *)
LEMMA RejectInv ==
    ASSUME BrokerInv, NEW o \in AnyOrder, Reject(o)
    PROVE  BrokerInv'
<1>1. fill' \in FillResult
  BY DEF Reject, Rejection, Refusal, FillResult
<1> QED BY <1>1 DEF Reject, BrokerInv, BrokerTypeOK, FlatIsEmpty

(* The invariant is inductive.                                             *)
LEMMA StepInv == BrokerInv /\ [BrokerNext]_brokerVars => BrokerInv'
<1> SUFFICES ASSUME BrokerInv, [BrokerNext]_brokerVars PROVE BrokerInv'
  OBVIOUS
<1>1. CASE BrokerNext
  BY <1>1, OrdersAreOrders, BuyInv, SellInv, RejectInv DEF BrokerNext, ExecuteOrder
<1>2. CASE UNCHANGED brokerVars
  BY <1>2 DEF brokerVars, BrokerInv, BrokerTypeOK, FlatIsEmpty
<1> QED BY <1>1, <1>2

(* Types hold for ever: no debt, no short position, no negative basis.     *)
THEOREM BrokerTypes == BrokerSpec => []BrokerTypeOK
<1>1. BrokerInv => BrokerTypeOK
  BY DEF BrokerInv
<1> QED BY <1>1, BrokerInitInv, StepInv, PTL DEF BrokerSpec

(* A closed position never keeps a cost basis or booked profit.            *)
THEOREM ClosedPositionsAreEmpty == BrokerSpec => []FlatIsEmpty
<1>1. BrokerInv => FlatIsEmpty
  BY DEF BrokerInv
<1> QED BY <1>1, BrokerInitInv, StepInv, PTL DEF BrokerSpec

-----------------------------------------------------------------------------
(* What the positions cost, symbol by symbol.                              *)
Bases == [s \in Symbols |-> Basis(positions[s])]

(* Two accounts that differ in one position differ in what is invested by  *)
(* the difference of what that position cost.                              *)
LEMMA InvestedChange ==
    ASSUME BrokerInv, NEW s \in Symbols, NEW p \in Position,
           positions' = [positions EXCEPT ![s] = p]
    PROVE  /\ Invested \in Int
           /\ Invested' = Invested + (Basis(p) - Basis(positions[s]))
<1>1. positions \in [Symbols -> Position] /\ Basis(p) \in Int
  BY BasisType DEF BrokerInv, BrokerTypeOK
<1>2. Bases \in [Symbols -> Int] /\ Bases[s] = Basis(positions[s])
  BY <1>1, BasisType DEF Bases
<1>3. Bases' = [Bases EXCEPT ![s] = Basis(p)]
  BY <1>1 DEF Bases
<1>4. Invested = SumFunction(Bases) /\ Invested' = SumFunction(Bases')
  BY DEF Invested, Bases
<1>5. IsFiniteSet(Symbols)
  BY BrokerAssumption
<1> HIDE DEF Bases
<1>6. SumFunction(Bases) \in Int
  BY <1>2, <1>5, SumType
<1>7. SumFunction([Bases EXCEPT ![s] = Basis(p)])
        = SumFunction(Bases) + (Basis(p) - Bases[s])
  BY <1>1, <1>2, <1>5, SumOfUpdate
<1> QED BY <1>2, <1>3, <1>4, <1>6, <1>7

(* The drift is a number whatever the positions.                           *)
LEMMA DriftType == BrokerInv => Drift \in Int
<1> SUFFICES ASSUME BrokerInv PROVE Drift \in Int
  OBVIOUS
<1>1. positions \in [Symbols -> Position] /\ cash \in Int /\ realized \in Int
  BY DEF BrokerInv, BrokerTypeOK
<1>2. Bases \in [Symbols -> Int]
  BY <1>1, BasisType DEF Bases
<1>3. Invested \in Int
  BY <1>2, BrokerAssumption, SumType DEF Invested, Bases
<1> QED BY <1>1, <1>3, BrokerAssumption DEF Drift

(* At the start nothing is invested.                                       *)
LEMMA NoDriftAtFirst == BrokerInit => Drift = 0
<1> SUFFICES ASSUME BrokerInit PROVE Drift = 0
  OBVIOUS
<1>1. Bases \in [Symbols -> Int] /\ \A s \in Symbols : Bases[s] = 0
  BY FlatBasis DEF BrokerInit, Bases
<1>2. Invested = 0
  BY <1>1, BrokerAssumption, SumOfNothing DEF Invested, Bases
<1> QED BY <1>2, BrokerAssumption DEF Drift, BrokerInit

(* What a purchase does to the account.                                    *)
LEMMA BuyEffect ==
    ASSUME BrokerInv, NEW o \in AnyOrder, Buy(o)
    PROVE  LET p    == positions[o.symbol]
               cost == Notional(o) + Fee(o)
               new  == Enlarged(p, o.qty, cost)
           IN  /\ o.symbol \in Symbols /\ p \in Position /\ new \in Position
               /\ o.qty \in Nat \ {0} /\ new.qty = p.qty + o.qty
               /\ cost \in Nat /\ cost <= cash
               /\ cash' = cash - cost /\ realized' = realized
               /\ positions' = [positions EXCEPT ![o.symbol] = new]
               /\ 2 * EntryDen * Abs(Basis(new) - (Basis(p) + cost))
                     <= new.qty + EntryDen
<1> DEFINE p == positions[o.symbol]
           cost == Notional(o) + Fee(o)
           new == Enlarged(p, o.qty, cost)
<1>1. o.symbol \in Symbols /\ o.qty \in Nat \ {0} /\ p \in Position
  BY OrderTypes, BuyGuard
<1>2. cost \in Nat /\ cost <= cash
  BY FeeBounds DEF Buy, CanBuy
<1>3. /\ cash' = cash - cost /\ realized' = realized
      /\ positions' = [positions EXCEPT ![o.symbol] = new]
  BY DEF Buy
<1> HIDE DEF p, cost
<1>4. /\ new \in Position /\ new.qty = p.qty + o.qty
      /\ 2 * EntryDen * Abs(Basis(new) - (Basis(p) + cost)) <= new.qty + EntryDen
  BY <1>1, <1>2, EnlargedNear
<1> QED BY <1>1, <1>2, <1>3, <1>4 DEF p, cost

(* What a sale does to it.                                                 *)
LEMMA SellEffect ==
    ASSUME BrokerInv, NEW o \in AnyOrder, Sell(o)
    PROVE  LET p        == positions[o.symbol]
               proceeds == Notional(o) - Fee(o)
               rel      == Released(p, o.qty)
               new      == Reduced(p, o.qty, proceeds - rel)
           IN  /\ o.symbol \in Symbols /\ p \in Position /\ new \in Position
               /\ o.qty \in 1..p.qty /\ new.qty = p.qty - o.qty
               /\ proceeds \in Nat /\ Basis(p) \in Nat /\ rel \in 0..Basis(p)
               /\ cash' = cash + proceeds
               /\ realized' = realized + (proceeds - rel)
               /\ positions' = [positions EXCEPT ![o.symbol] = new]
               /\ Abs((Basis(p) - Basis(new)) - rel) <= 1
               /\ o.qty = p.qty => Basis(new) = 0 /\ rel = Basis(p)
<1> DEFINE p == positions[o.symbol]
           proceeds == Notional(o) - Fee(o)
           rel == Released(p, o.qty)
           new == Reduced(p, o.qty, proceeds - rel)
<1>1. o.symbol \in Symbols /\ p \in Position /\ o.qty \in 1..p.qty
  BY OrderTypes, SellGuard
<1>2. proceeds \in Nat
  BY FeeBounds
<1>3. /\ cash' = cash + proceeds /\ realized' = realized + (proceeds - rel)
      /\ positions' = [positions EXCEPT ![o.symbol] = new]
  BY DEF Sell
<1> HIDE DEF p, proceeds
<1>4. Basis(p) \in Nat /\ rel \in 0..Basis(p)
  BY <1>1, ReleasedBounds
<1>5. proceeds - rel \in Int
  BY <1>2, <1>4
<1>6. /\ new \in Position /\ new.qty = p.qty - o.qty
      /\ Abs((Basis(p) - Basis(new)) - rel) <= 1
      /\ o.qty = p.qty => Basis(new) = 0 /\ rel = Basis(p)
  BY <1>1, <1>5, ReducedNear
<1> QED BY <1>1, <1>2, <1>3, <1>4, <1>6 DEF p, proceeds

(* A purchase drifts by the two roundings of the new average, which grow   *)
(* with the quantity held ...                                              *)
LEMMA BuyDrift ==
    ASSUME BrokerInv, NEW o \in AnyOrder, Buy(o)
    PROVE  2 * EntryDen * Abs(Drift' - Drift) <= positions'[o.symbol].qty + EntryDen
<1> DEFINE p == positions[o.symbol]
           cost == Notional(o) + Fee(o)
           new == Enlarged(p, o.qty, cost)
<1>1. /\ o.symbol \in Symbols /\ p \in Position /\ new \in Position
      /\ cost \in Nat /\ cash' = cash - cost /\ realized' = realized
      /\ positions' = [positions EXCEPT ![o.symbol] = new]
      /\ 2 * EntryDen * Abs(Basis(new) - (Basis(p) + cost)) <= new.qty + EntryDen
  BY BuyEffect
<1>2. positions'[o.symbol] = new
  BY <1>1 DEF BrokerInv, BrokerTypeOK
<1> HIDE DEF new, cost
<1>3. Invested \in Int /\ Invested' = Invested + (Basis(new) - Basis(p))
  BY <1>1, InvestedChange
<1>4. Basis(new) \in Int /\ Basis(p) \in Int /\ cash \in Int /\ realized \in Int
  BY <1>1, BasisType DEF BrokerInv, BrokerTypeOK
<1> HIDE DEF p
<1>5. Drift' - Drift = Basis(new) - (Basis(p) + cost)
  BY <1>1, <1>3, <1>4, BrokerAssumption DEF Drift
<1> QED BY <1>1, <1>2, <1>5

(* ... and a sale by a unit of money at most.                              *)
LEMMA SellDrift ==
    ASSUME BrokerInv, NEW o \in AnyOrder, Sell(o)
    PROVE  Abs(Drift' - Drift) <= 1
<1> DEFINE p == positions[o.symbol]
           proceeds == Notional(o) - Fee(o)
           rel == Released(p, o.qty)
           new == Reduced(p, o.qty, proceeds - rel)
<1>1. /\ o.symbol \in Symbols /\ p \in Position /\ new \in Position
      /\ proceeds \in Nat /\ rel \in 0..Basis(p) /\ Basis(p) \in Nat
      /\ cash' = cash + proceeds /\ realized' = realized + (proceeds - rel)
      /\ positions' = [positions EXCEPT ![o.symbol] = new]
      /\ Abs((Basis(p) - Basis(new)) - rel) <= 1
  BY SellEffect
<1> HIDE DEF new, rel, proceeds
<1>2. Invested \in Int /\ Invested' = Invested + (Basis(new) - Basis(p))
  BY <1>1, InvestedChange
<1>3. /\ Basis(new) \in Int /\ cash \in Int /\ realized \in Int /\ rel \in Int
  BY <1>1, BasisType DEF BrokerInv, BrokerTypeOK
<1> HIDE DEF p
<1>4. Drift' - Drift = -((Basis(p) - Basis(new)) - rel)
  BY <1>1, <1>2, <1>3, BrokerAssumption DEF Drift
<1>5. (Basis(p) - Basis(new)) - rel \in Int
  BY <1>1, <1>3
<1> QED BY <1>1, <1>4, <1>5 DEF Abs

(* No position outgrows the orders handed out.                             *)
SizesBounded ==
    \A s \in Symbols : positions[s].qty <= LargestOrder * orderCounter

(* What MoneyConserved allows after n orders.                              *)
Allowed(n) == n * (LargestOrder * (n + 1) + 4 * EntryDen)

(* One more order allows twice the largest size, and a unit of money more. *)
LEMMA AllowedGrows ==
    ASSUME NEW n \in Nat
    PROVE  /\ LargestOrder * (n + 1) \in Nat /\ Allowed(n) \in Nat
           /\ LargestOrder * (n + 1) = LargestOrder * n + LargestOrder
           /\ Allowed(n + 1) =
                  Allowed(n) + 2 * (LargestOrder * (n + 1)) + 4 * EntryDen
<1> DEFINE a == LargestOrder * (n + 1)
           e == 4 * EntryDen
<1>1. LargestOrder \in Nat /\ EntryDen \in Nat
  BY BrokerAssumption
<1>2. a \in Nat /\ e \in Nat /\ LargestOrder * n \in Nat
  BY <1>1, MulNat
<1>3. a = LargestOrder * n + LargestOrder
  BY <1>1, SMT
<1>4. LargestOrder * ((n + 1) + 1) = a + LargestOrder
  BY <1>1, SMT
<1>5. n * LargestOrder = LargestOrder * n
  BY <1>1, SMT
<1>6. Allowed(n) = n * (a + e) /\ Allowed(n + 1) = (n + 1) * ((a + LargestOrder) + e)
  BY <1>4 DEF Allowed
<1> HIDE DEF a, e
<1>7. n * (a + e) \in Nat
  BY <1>2, MulNat
<1>8. (n + 1) * ((a + LargestOrder) + e)
        = n * (a + e) + n * LargestOrder + LargestOrder + a + e
  BY <1>1, <1>2, SMT
<1>9. Allowed(n + 1) = Allowed(n) + 2 * a + e
  BY <1>1, <1>2, <1>3, <1>5, <1>6, <1>7, <1>8
<1> QED BY <1>2, <1>3, <1>6, <1>7, <1>9 DEF a, e

(* Every order is counted.                                                 *)
LEMMA OrdersAreCounted ==
    ASSUME NEW o \in AnyOrder, ExecuteOrder(o)
    PROVE  orderCounter' = orderCounter + 1
  BY DEF ExecuteOrder, Buy, Sell, Reject

(* No order lets a position outgrow them.                                  *)
LEMMA OrderSizes ==
    ASSUME BrokerInv, SizesBounded, NEW o \in AnyOrder, o.qty <= LargestOrder,
           ExecuteOrder(o)
    PROVE  SizesBounded'
<1> DEFINE L1 == LargestOrder * orderCounter
           L2 == LargestOrder * (orderCounter + 1)
<1>1. orderCounter' = orderCounter + 1 /\ orderCounter \in Nat
  BY OrdersAreCounted DEF BrokerInv, BrokerTypeOK
<1>2. L2 = L1 + LargestOrder /\ L1 \in Int /\ LargestOrder \in Nat
  <2>1. LargestOrder \in Nat
    BY BrokerAssumption
  <2>2. L1 \in Nat
    BY <1>1, <2>1, MulNat
  <2> QED BY <1>1, <2>1, <2>2, AllowedGrows
<1>3. positions \in [Symbols -> Position]
  BY DEF BrokerInv, BrokerTypeOK
<1>4. \A s \in Symbols : positions[s].qty <= L1
  BY DEF SizesBounded
<1>5. \A s \in Symbols : positions[s].qty \in Nat
  BY <1>3 DEF Position
<1> HIDE DEF L1, L2
<1>6. \A s \in Symbols : positions[s].qty <= L2
  BY <1>2, <1>4, <1>5
<1>7. ASSUME NEW s \in Symbols PROVE positions'[s].qty <= L2
  <2>1. CASE Buy(o)
    <3> DEFINE new == Enlarged(positions[o.symbol], o.qty, Notional(o) + Fee(o))
    <3>1. /\ positions' = [positions EXCEPT ![o.symbol] = new]
          /\ o.symbol \in Symbols /\ o.qty \in Nat
          /\ new.qty = positions[o.symbol].qty + o.qty
      BY <2>1, BuyEffect
    <3> HIDE DEF new
    <3>2. new.qty <= L2
      BY <1>2, <1>4, <1>5, <3>1
    <3> QED BY <1>3, <1>6, <3>1, <3>2
  <2>2. CASE Sell(o)
    <3> DEFINE p == positions[o.symbol]
               new == Reduced(p, o.qty, (Notional(o) - Fee(o)) - Released(p, o.qty))
    <3>1. /\ positions' = [positions EXCEPT ![o.symbol] = new]
          /\ o.symbol \in Symbols /\ o.qty \in 1..p.qty
          /\ new.qty = p.qty - o.qty
      BY <2>2, SellEffect
    <3> HIDE DEF new
    <3>2. new.qty <= L2
      BY <1>2, <1>4, <1>5, <3>1
    <3> QED BY <1>3, <1>6, <3>1, <3>2
  <2>3. CASE Reject(o)
    BY <1>6, <2>3 DEF Reject
  <2> QED BY <2>1, <2>2, <2>3 DEF ExecuteOrder
<1> QED BY <1>1, <1>7 DEF SizesBounded, L2

(* What one order adds to the drift.                                       *)
LEMMA OrderDrift ==
    ASSUME BrokerInv, SizesBounded, NEW o \in AnyOrder, o.qty <= LargestOrder,
           ExecuteOrder(o)
    PROVE  4 * EntryDen * Abs(Drift' - Drift)
             <= 2 * (LargestOrder * (orderCounter + 1)) + 4 * EntryDen
<1> DEFINE L2 == LargestOrder * (orderCounter + 1)
           a == Abs(Drift' - Drift)
           d == EntryDen * a
<1>1. orderCounter \in Nat /\ EntryDen \in Nat /\ L2 \in Nat
  BY AllowedGrows, BrokerAssumption DEF BrokerInv, BrokerTypeOK
<1>2. BrokerInv'
  BY BuyInv, SellInv, RejectInv DEF ExecuteOrder
<1>3. Drift \in Int /\ Drift' \in Int
  <2>1. BrokerInv' => (Drift \in Int)'
    BY DriftType, PTL
  <2> QED BY <1>2, <2>1, DriftType
<1>4. a \in Nat
  <2>1. Drift' - Drift \in Int
    BY <1>3
  <2> QED BY <2>1, AbsType
<1>5. d \in Nat
  BY <1>1, <1>4, MulNat
<1>6. \A s \in Symbols : positions'[s].qty <= L2
  BY OrderSizes, OrdersAreCounted DEF SizesBounded
<1> HIDE DEF L2, a
<1>7. 2 * EntryDen * a = 2 * d /\ 4 * EntryDen * a = 4 * d
  BY <1>1, <1>4, SMT
<1>8. 2 * d <= L2 + 2 * EntryDen
  <2>1. CASE Buy(o)
    <3>1. 2 * EntryDen * a <= positions'[o.symbol].qty + EntryDen
      BY <2>1, BuyDrift DEF a
    <3>2. positions'[o.symbol].qty <= L2 /\ positions'[o.symbol].qty \in Nat
      BY <1>2, <1>6, OrderTypes DEF BrokerInv, BrokerTypeOK, Position
    <3> HIDE DEF d
    <3> QED BY <1>1, <1>5, <1>7, <3>1, <3>2
  <2>2. CASE Sell(o)
    <3>1. a <= 1
      BY <2>2, SellDrift DEF a
    <3>2. EntryDen * a <= EntryDen * 1
      BY <1>1, <1>4, <3>1, MulMono
    <3> HIDE DEF d
    <3>3. d <= EntryDen
      BY <1>1, <3>2 DEF d
    <3> QED BY <1>1, <1>5, <3>3
  <2>3. CASE Reject(o)
    <3>1. Drift' = Drift
      BY <2>3 DEF Reject, Drift, Invested
    <3>2. a = 0
      BY <1>3, <3>1 DEF a, Abs
    <3>3. d = 0
      BY <1>1, <3>2, SMT
    <3> HIDE DEF d
    <3> QED BY <1>1, <3>3
  <2> QED BY <2>1, <2>2, <2>3 DEF ExecuteOrder
<1> HIDE DEF d
<1> QED BY <1>1, <1>5, <1>7, <1>8 DEF L2, a

(* The drift stays within what the orders so far account for.              *)
LEMMA OrderConserves ==
    ASSUME BrokerInv, SizesBounded, MoneyConserved, NEW o \in AnyOrder,
           o.qty <= LargestOrder, ExecuteOrder(o)
    PROVE  MoneyConserved'
<1> DEFINE n == orderCounter
           L2 == LargestOrder * (n + 1)
           x == Abs(Drift)
           y == Abs(Drift' - Drift)
           z == Abs(Drift')
           e == 4 * EntryDen
<1>1. n \in Nat /\ EntryDen \in Nat
  BY BrokerAssumption DEF BrokerInv, BrokerTypeOK
<1>2. Drift \in Int /\ Drift' \in Int
  <2>1. BrokerInv'
    BY BuyInv, SellInv, RejectInv DEF ExecuteOrder
  <2>2. BrokerInv' => (Drift \in Int)'
    BY DriftType, PTL
  <2> QED BY <2>1, <2>2, DriftType
<1>3. x \in Nat /\ y \in Nat /\ z \in Nat /\ z <= x + y
  BY <1>2, Triangle
<1>4. e * x <= Allowed(n)
  BY DEF MoneyConserved, Allowed
<1>5. e * y <= 2 * L2 + e
  BY OrderDrift
<1>6. L2 \in Nat /\ Allowed(n) \in Nat /\ Allowed(n + 1) = Allowed(n) + 2 * L2 + e
  BY <1>1, AllowedGrows
<1>7. e \in Nat
  BY <1>1
<1>8. orderCounter' = n + 1
  BY OrdersAreCounted
<1> HIDE DEF n, x, y, z, e, L2
<1>9. e * z <= e * (x + y)
  BY <1>3, <1>7, MulMono
<1>10. e * (x + y) = e * x + e * y /\ e * x \in Int /\ e * y \in Int /\ e * z \in Int
  BY <1>3, <1>7, SMT
<1>11. e * z <= Allowed(n + 1)
  BY <1>4, <1>5, <1>6, <1>7, <1>9, <1>10
<1>12. Allowed(n + 1) = Allowed(orderCounter')
  BY <1>8
<1> QED BY <1>11, <1>12 DEF MoneyConserved, Allowed, z, e

(* What cash and positions are worth at cost never differs from the        *)
(* opening balance and the booked profit by more than the roundings of the *)
(* orders so far, for every order flow, fee, slippage and grid.            *)
THEOREM MoneyIsConserved == BrokerSpec => []MoneyConserved
<1> DEFINE I == BrokerInv /\ SizesBounded /\ MoneyConserved
<1>1. BrokerInit => I
  <2> SUFFICES ASSUME BrokerInit PROVE I
    OBVIOUS
  <2>1. Drift = 0 /\ orderCounter = 0
    BY NoDriftAtFirst DEF BrokerInit
  <2>2. LargestOrder \in Nat /\ EntryDen \in Nat
    BY BrokerAssumption
  <2>3. \A s \in Symbols : positions[s].qty = 0
    BY DEF BrokerInit, Flat
  <2>4. LargestOrder * 0 = 0
    BY <2>2, SMT
  <2>5. SizesBounded
    BY <2>1, <2>3, <2>4 DEF SizesBounded
  <2>6. Abs(0) = 0
    BY DEF Abs
  <2>7. 4 * EntryDen * 0 = 0
    BY <2>2, SMT
  <2>8. Allowed(0) \in Nat
    BY AllowedGrows
  <2>9. MoneyConserved
    BY <2>1, <2>6, <2>7, <2>8 DEF MoneyConserved, Allowed
  <2> QED BY <2>5, <2>9, BrokerInitInv
<1>2. I /\ [BrokerNext]_brokerVars => I'
  <2> SUFFICES ASSUME I, [BrokerNext]_brokerVars PROVE I'
    OBVIOUS
  <2>1. BrokerInv'
    BY StepInv
  <2>2. CASE BrokerNext
    BY <2>1, <2>2, OrdersAreOrders, OrderSizes, OrderConserves DEF BrokerNext
  <2>3. CASE UNCHANGED brokerVars
    BY <2>1, <2>3 DEF brokerVars, SizesBounded, MoneyConserved, Drift, Invested
  <2> QED BY <2>2, <2>3
<1> HIDE DEF I
<1>3. I => MoneyConserved
  BY DEF I
<1> QED BY <1>1, <1>2, <1>3, PTL DEF BrokerSpec

-----------------------------------------------------------------------------
(* A purchase is an investment of the ledger: the total cost, fee included *)
(* and nothing else, leaves the cash and, but for rounding, is what the    *)
(* position costs more.                                                    *)
LEMMA BuyInvests ==
    ASSUME BrokerInv, NEW o \in AnyOrder, Buy(o)
    PROVE  L!Invest(o.symbol)
<1> DEFINE s == o.symbol
           p == positions[s]
           cost == Notional(o) + Fee(o)
           new == Enlarged(p, o.qty, cost)
           held == [t \in Symbols |-> Basis(positions[t])]
           size == [t \in Symbols |-> positions[t].qty]
<1>1. /\ s \in Symbols /\ p \in Position /\ new \in Position
      /\ o.qty \in Nat \ {0} /\ new.qty = p.qty + o.qty
      /\ cost \in Nat /\ cost <= cash
      /\ cash' = cash - cost /\ realized' = realized
      /\ positions' = [positions EXCEPT ![s] = new]
      /\ 2 * EntryDen * Abs(Basis(new) - (Basis(p) + cost)) <= new.qty + EntryDen
  BY BuyEffect
<1>2. positions \in [Symbols -> Position] /\ cash \in Nat
  BY DEF BrokerInv, BrokerTypeOK
<1> HIDE DEF new, cost
<1>3. /\ held[s] = Basis(p) /\ size[s] = p.qty
      /\ held'[s] = Basis(new) /\ size'[s] = new.qty
      /\ held' = [held EXCEPT ![s] = Basis(new)]
      /\ size' = [size EXCEPT ![s] = new.qty]
  BY <1>1, <1>2
<1>4. Basis(new) \in Int /\ Basis(p) \in Int /\ p.qty \in Int
  BY <1>1, BasisType DEF Position
<1>5. cost = cash - cash' /\ cash' \in 0..cash
  BY <1>1, <1>2
<1> HIDE DEF p
<1>6. (Basis(new) - Basis(p)) - (cash - cash') = Basis(new) - (Basis(p) + cost)
  BY <1>1, <1>4, <1>5
<1> HIDE DEF held, size
<1>7. /\ held' = [held EXCEPT ![s] = held'[s]] /\ size' = [size EXCEPT ![s] = size'[s]]
      /\ cash' \in 0..cash /\ size'[s] > size[s] /\ UNCHANGED realized
  BY <1>1, <1>3, <1>4, <1>5
<1>8. 2 * EntryDen * L!Abs((held'[s] - held[s]) - (cash - cash')) <= size'[s] + EntryDen
  BY <1>1, <1>3, <1>6 DEF Abs, L!Abs
<1> QED BY <1>7, <1>8 DEF L!Invest, L!OnlyChanges, held, size

(* A sale is a divestment: what it books is what the proceeds exceed the   *)
(* released cost by.                                                       *)
LEMMA SellDivests ==
    ASSUME BrokerInv, NEW o \in AnyOrder, Sell(o)
    PROVE  L!Divest(o.symbol)
<1> DEFINE s == o.symbol
           p == positions[s]
           proceeds == Notional(o) - Fee(o)
           rel == Released(p, o.qty)
           new == Reduced(p, o.qty, proceeds - rel)
           held == [t \in Symbols |-> Basis(positions[t])]
           size == [t \in Symbols |-> positions[t].qty]
<1>1. /\ s \in Symbols /\ p \in Position /\ new \in Position
      /\ o.qty \in 1..p.qty /\ new.qty = p.qty - o.qty
      /\ proceeds \in Nat /\ Basis(p) \in Nat /\ rel \in 0..Basis(p)
      /\ cash' = cash + proceeds /\ realized' = realized + (proceeds - rel)
      /\ positions' = [positions EXCEPT ![s] = new]
      /\ Abs((Basis(p) - Basis(new)) - rel) <= 1
      /\ o.qty = p.qty => Basis(new) = 0 /\ rel = Basis(p)
  BY SellEffect
<1>2. positions \in [Symbols -> Position] /\ cash \in Nat /\ realized \in Int
  BY DEF BrokerInv, BrokerTypeOK
<1>3. Abs(rel * p.qty - Basis(p) * o.qty) <= p.qty
  BY <1>1, ReleasedShare
<1> HIDE DEF new, proceeds, rel
<1>4. /\ held[s] = Basis(p) /\ size[s] = p.qty
      /\ held'[s] = Basis(new) /\ size'[s] = new.qty
      /\ held' = [held EXCEPT ![s] = Basis(new)]
      /\ size' = [size EXCEPT ![s] = new.qty]
  BY <1>1, <1>2
<1>5. p.qty \in Nat
  BY <1>1 DEF Position
<1> HIDE DEF p, held, size
<1>6. /\ size'[s] \in 0..(size[s] - 1) /\ size[s] - size'[s] = o.qty
      /\ cash' >= cash
  BY <1>1, <1>2, <1>4, <1>5
<1>7. (cash' - cash) - (realized' - realized) = rel
  BY <1>1, <1>2
<1>8. /\ held' = [held EXCEPT ![s] = held'[s]] /\ size' = [size EXCEPT ![s] = size'[s]]
  BY <1>4
<1>9. size'[s] = 0 => held'[s] = 0 /\ rel = held[s]
  BY <1>1, <1>4, <1>5
<1>10. /\ L!Abs(rel * size[s] - held[s] * (size[s] - size'[s])) <= size[s]
       /\ L!Abs((held[s] - held'[s]) - rel) <= 1
  BY <1>1, <1>3, <1>4, <1>6 DEF Abs, L!Abs
<1>11. L!Released = rel
  BY <1>7 DEF L!Released
<1> QED BY <1>1, <1>4, <1>6, <1>8, <1>9, <1>10, <1>11 DEF L!Divest, L!OnlyChanges, held, size

(* Every order is a step of the ledger or leaves it alone.                 *)
LEMMA OrderRefines ==
    ASSUME BrokerInv, NEW o \in AnyOrder, ExecuteOrder(o)
    PROVE  [L!Next]_(L!ledgerVars)
<1>1. o.symbol \in Symbols
  BY OrderTypes
<1>2. CASE Buy(o)
  BY <1>1, <1>2, BuyInvests DEF L!Next
<1>3. CASE Sell(o)
  BY <1>1, <1>3, SellDivests DEF L!Next
<1>4. CASE Reject(o)
  BY <1>4 DEF Reject, L!ledgerVars
<1> QED BY <1>2, <1>3, <1>4 DEF ExecuteOrder

(* So is every step of the broker.                                         *)
LEMMA StepRefines == BrokerInv /\ [BrokerNext]_brokerVars => [L!Next]_(L!ledgerVars)
<1> SUFFICES ASSUME BrokerInv, [BrokerNext]_brokerVars
             PROVE  [L!Next]_(L!ledgerVars)
  OBVIOUS
<1>1. CASE BrokerNext
  BY <1>1, OrdersAreOrders, OrderRefines DEF BrokerNext
<1>2. CASE UNCHANGED brokerVars
  BY <1>2 DEF brokerVars, L!ledgerVars
<1> QED BY <1>1, <1>2

(* The opening account is an opening ledger.                               *)
LEMMA InitRefines == BrokerInit => L!Init
<1> SUFFICES ASSUME BrokerInit PROVE L!Init
  OBVIOUS
<1>1. \A s \in Symbols : Basis(positions[s]) = 0 /\ positions[s].qty = 0
  <2>1. Flat.qty = 0
    BY DEF Flat
  <2> QED BY <2>1, FlatBasis DEF BrokerInit
<1> QED BY <1>1 DEF BrokerInit, L!Init

(* The broker implements the ledger: each order moves money between cash   *)
(* and one position, exact up to its own roundings, and a position that is *)
(* sold out has released what it cost to the unit.                         *)
THEOREM BrokerRefinesLedger == BrokerSpec => RefinesLedger
<1>1. BrokerSpec => []BrokerInv
  BY BrokerInitInv, StepInv, PTL DEF BrokerSpec
<1> QED BY <1>1, InitRefines, StepRefines, PTL
        DEF BrokerSpec, RefinesLedger, L!Spec
=============================================================================
