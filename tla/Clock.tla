------------------------------- MODULE Clock -------------------------------
(* The wall clock that the market-data services read (now_utc, time.        *)
(* monotonic). It stops at MaxTime, a bound of the model.                   *)
EXTENDS Integers

CONSTANT MaxTime
ASSUME ClockAssumption == MaxTime \in Nat

VARIABLE now

Tick == now < MaxTime /\ now' = now + 1
=============================================================================
