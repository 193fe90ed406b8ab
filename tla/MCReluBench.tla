---------------------------- MODULE MCReluBench ----------------------------
(* The testbench of relu_axi, its tiles and loops cut short.               *)
EXTENDS ReluBench

MCLengths ==
    [ id_reads_before_any_write |-> <<>>, reset_values |-> <<>>,
      unmapped_offset_reads_zero |-> <<>>, slope_is_eight_bits |-> <<>>,
      default_slope_matches_the_model |-> <<6>>, slope_is_writable |-> <<5>>,
      tlast_marks_the_tile |-> <<3>>, status_and_count_report_the_tile |-> <<6>>,
      two_tiles_back_to_back |-> <<3, 6>>, enable_low_withdraws_ready |-> <<4>>,
      backpressure_preserves_the_tile |-> <<6>> ]
MCTests == DOMAIN MCLengths

MCWrAddrs == {"CTRL", "SLOPE"}
MCWrData == [word : {0, 1, 2, 3, 7}, strb : {TRUE}]
MCXs == -4 .. 3
MCPicks == {-3, 2}

\* The source of this testbench has no pause generator.
NoPauses == << FALSE >>
=============================================================================
