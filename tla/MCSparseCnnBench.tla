-------------------------- MODULE MCSparseCnnBench --------------------------
(* The testbench of sparse_cnn_axi, its tiles and loops cut short.         *)
EXTENDS SparseCnnBench

P(w, a) == [weight |-> w, act |-> a]
MCPairs == { P(1, 1), P(-2, 1), P(0, 1), P(1, 0), P(1, -2) }

\* Operands that add, cancel and skip.
MCMixes == { <<P(1, 1), P(0, 1)>>, <<P(-2, 1), P(1, 1), P(1, 0)>> }

MCLengths ==
    [ dense |-> <<3>>, sparse |-> <<4>>, all_zero |-> <<3>>, saturation_range |-> <<4>>,
      id_register |-> <<>>, register_map |-> <<>>,
      backpressure_from_source |-> <<4>>, backpressure_from_wrapper |-> <<4>>,
      no_beats_before_start |-> <<3>>, back_to_back_tiles |-> <<2, 3>>,
      result_read_before_completion |-> <<2, 4>>,
      status_never_reports_the_previous_tile |-> <<2, 3>>,
      explicit_clear |-> <<2, 3>>, clear_mid_tile |-> <<6>>, reset_mid_stream |-> <<6, 2>>,
      pe_dense |-> <<4>>, pe_sparse |-> <<6>>, pe_all_zero |-> <<3>>,
      pe_saturation_range |-> <<4>>, pe_clear_acc |-> <<3>> ]
MCTests == DOMAIN MCLengths

CtrlWords == [start : BOOLEAN, clear : BOOLEAN, en : BOOLEAN, strb : {TRUE}]

\* cycle_pauses: 0, 0, 1, 1, 0, 1, 0, 0, 1, 1, 1, 0.
MCPauses == << FALSE, FALSE, TRUE, TRUE, FALSE, TRUE, FALSE, FALSE, TRUE, TRUE, TRUE, FALSE >>
=============================================================================
