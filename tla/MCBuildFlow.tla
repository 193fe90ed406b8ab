---------------------------- MODULE MCBuildFlow ----------------------------
(* The two accelerators of the repository. *)
EXTENDS BuildFlow

MCTops   == {"sparse_cnn_axi", "relu_axi"}
MCDuplex == {"relu_axi"}
=============================================================================
