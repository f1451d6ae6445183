--------------------------- MODULE MCPaperBroker ---------------------------
(* The paper broker for TLC: two symbols and every order of a small book.  *)
EXTENDS PaperBroker, TLC

Symmetry == Permutations(Symbols)
=============================================================================
