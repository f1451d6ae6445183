------------------------------ MODULE Rounding ------------------------------
(* The two roundings of the program's Decimal numbers, on integers.           *)
EXTENDS Integers

(* A product or a quotient under decimal's default context, which rounds half *)
(* to even: n / d for a natural n.  No code changes the context.              *)
HalfEven(n, d) ==
    LET q == n \div d
        r == n % d
    IN  IF 2 * r > d \/ (2 * r = d /\ q % 2 = 1) THEN q + 1 ELSE q

(* Decimal.quantize with ROUND_HALF_UP: n / d, halves away from zero.         *)
HalfUp(n, d) ==
    IF n >= 0 THEN (2 * n + d) \div (2 * d) ELSE -((d - 2 * n) \div (2 * d))

\* max(low, min(high, x))
Clamp(x, low, high) == IF x < low THEN low ELSE IF x > high THEN high ELSE x
Abs(x) == IF x < 0 THEN -x ELSE x
=============================================================================
