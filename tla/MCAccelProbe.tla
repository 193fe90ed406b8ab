---------------------------- MODULE MCAccelProbe ----------------------------
(* Both register layers, over a bus that may hold either design or another. *)
EXTENDS AccelProbe

CONSTANTS p1, p2

MCDesigns == {"sparse_cnn", "relu", "other"}
MCLayers  == {[id |-> "sparse_cnn", duplex |-> FALSE, priv |-> TRUE, group |-> FALSE],
              [id |-> "relu", duplex |-> TRUE, priv |-> FALSE, group |-> TRUE]}
MCProcesses == {p1, p2}
=============================================================================
