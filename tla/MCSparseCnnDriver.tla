------------------------- MODULE MCSparseCnnDriver -------------------------
(* Small instances of SparseCnnDriver for TLC.                             *)
EXTENDS SparseCnnDriver, TLC

Sym == Permutations(Threads) \cup Permutations(Tiles)
=============================================================================
