--------------------------- MODULE MCPaperRuntime ---------------------------
(* The runtime for TLC: two symbols, two candles, two sessions.            *)
EXTENDS PaperRuntime, TLC

CONSTANTS BTC, ETH

Symmetry == Permutations(Symbols)
=============================================================================
