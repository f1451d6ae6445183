-------------------------- MODULE MCStrategyRunner --------------------------
(* The trading cycle for TLC: two prices a stop apart, and one feature     *)
(* snapshot per way the filters, the exits and the missing data can fall.  *)
EXTENDS StrategyRunner, TLC

Snapshot(price, book, fast, slow, atr, healthy) ==
    [price |-> price, book |-> book, fast |-> fast, slow |-> slow,
     atr |-> atr, healthy |-> healthy]

MCFeatures ==
    { Snapshot(200, TRUE,  210, 200, 20, TRUE),     \* an entry setup
      Snapshot(100, TRUE,  110, 100, 10, TRUE),     \* an entry setup, cheap
      Snapshot(100, TRUE,  150, 160, 30, TRUE),     \* a fall: bearish
      Snapshot(100, TRUE,  160, NoEma, 30, TRUE),   \* restarted: no slow EMA
      Snapshot(100, TRUE,  160, NoEma, NoAtr, TRUE),\* restarted: no ATR either
      Snapshot(200, FALSE, 210, 200, 20, TRUE),     \* book not seen yet
      Snapshot(200, TRUE,  210, 200, 1, TRUE),      \* too calm
      Snapshot(200, TRUE,  210, 200, 20, FALSE) }   \* spread too wide

Symmetry == Permutations(Symbols)
=============================================================================
