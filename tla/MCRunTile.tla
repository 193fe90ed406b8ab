----------------------------- MODULE MCRunTile -----------------------------
(* A small instance of RunTile for TLC.                                    *)
EXTENDS RunTile

\* Two rounds: a whole buffer under one slope, then less under the other.
MCRounds(a) == << [tile |-> a, bytes |-> 2, slope |-> 0],
                  [tile |-> a, bytes |-> 1, slope |-> 1] >>
MCTiles == MCRounds(CHOOSE a \in Tiles : TRUE)

\* Another process writes one beat or stores a slope.
MCOtherCalls == {[op |-> "write", tile |-> a, bytes |-> 1] : a \in Tiles}
                \cup {[op |-> "store", slope |-> 0]}
=============================================================================
