---------------------------- MODULE MCReluDriver ----------------------------
(* Small instances of ReluDriver for TLC.                                  *)
EXTENDS ReluDriver, TLC

Sym == Permutations(Threads) \cup Permutations(Tiles)
=============================================================================
