---------------------------- MODULE MCTradingDay ----------------------------
(* Two days of one symbol, for the run that refutes LossLimitIsDaily.      *)
EXTENDS TradingDay

MCFeatures ==
    { [price |-> 200, book |-> TRUE, fast |-> 210, slow |-> 200, atr |-> 20,
       healthy |-> TRUE],
      [price |-> 100, book |-> TRUE, fast |-> 150, slow |-> 160, atr |-> 30,
       healthy |-> TRUE] }
=============================================================================
