----------------------------- MODULE ReluBench -----------------------------
(***************************************************************************)
(* tb/relu_axi/tb_relu_axi.py: every test of the testbench, run against    *)
(* ReluAxi edge by edge.  Tiles and loops are shorter than the             *)
(* testbench's; what a test does, and in what order, is not.               *)
(***************************************************************************)
EXTENDS ReluAxi, AxiBench

CONSTANT Picks   \* activations gen_activations draws beyond the edge cases

ASSUME PickAssumption == Picks \subseteq Activation /\ Picks # {}

VARIABLES
    driven,        \* the test itself holds s_axis_tvalid up
    m_axis_tready, \* AxiStreamSink: the pin, its pause attribute,
    paused,
    receiving,     \* the beats of the frame that is arriving,
    frames,        \* and the frames nobody has received yet
    monitoring,    \* LastMonitor runs, and the flags it has recorded
    flags

sinkVars == <<driven, m_axis_tready, paused, receiving, frames, monitoring, flags>>
allVars == <<vars, benchVars, sinkVars>>

-----------------------------------------------------------------------------
(* Accelerator                                                             *)

write(reg, word) == Write("master", reg, [word |-> word, strb |-> TRUE])
read(reg, want)  == Read("master", reg, want)

CTRL_EN == 1
EnSet   == {word \in Words : word % 2 = 1}
Busy    == {1, 3}
DoneAndIdle == {2}

await_done == Poll("master", {"done"}, 0)

\* recv returns when a whole frame has arrived.  The test compares its values
\* with golden(tile, slope), or looks at nothing but how many there are.
recv_tile(k, slope) == [kind |-> "recv", tile |-> k, golden |-> TRUE, slope |-> slope]
recv_length(k)      == [kind |-> "recv", tile |-> k, golden |-> FALSE]

run_tile(k, slope) == << Send(k), recv_tile(k, slope) >>

reset == << ResetEdges, Edges(1) >>

-----------------------------------------------------------------------------
(* The tests                                                               *)

test_id_reads_before_any_write == << read("ID", {ID_VALUE}) >>

test_reset_values == << read("CTRL", EnSet), read("SLOPE", {SLOPE_RESET}),
                        read("COUNT", {0}), read("STATUS", {0}) >>

test_unmapped_offset_reads_zero == << read("UNMAPPED", {0}) >>

test_default_slope_matches_the_model == run_tile(1, SLOPE_RESET)

slope_round(slope) == << write("SLOPE", slope), read("SLOPE", {slope}) >>
                      \o run_tile(1, slope)
test_slope_is_writable == slope_round(0) \o slope_round(1)
                          \o slope_round(2^(SLOPE_W - 1)) \o slope_round(2^SLOPE_W - 1)

\* A word wider than the field, which keeps its low bits.
WideWord == 2^AXIL_DATA_W - 1
test_slope_is_eight_bits == << write("SLOPE", WideWord),
                               read("SLOPE", {WideWord % 2^SLOPE_W}) >>

test_tlast_marks_the_tile ==
    << [kind |-> "monitor"], Send(1), recv_length(1), [kind |-> "assert_flags"] >>

test_status_and_count_report_the_tile ==
    << Send(1), Edges(1), read("STATUS", Busy), recv_length(1), await_done,
       read("STATUS", DoneAndIdle), ReadResult("master", "COUNT", 1) >>

one_of_two(k) == run_tile(k, SLOPE_RESET)
                 \o << await_done, ReadResult("master", "COUNT", k) >>
test_two_tiles_back_to_back == one_of_two(1) \o one_of_two(2)

test_enable_low_withdraws_ready ==
    << write("CTRL", 0), [kind |-> "drive", on |-> TRUE], StalledEdges(3), Edges(1),
       [kind |-> "drive", on |-> FALSE], write("CTRL", CTRL_EN) >>
    \o run_tile(1, SLOPE_RESET)

test_backpressure_preserves_the_tile ==
    << [kind |-> "pause", on |-> TRUE], Send(1), Edges(4),
       [kind |-> "pause", on |-> FALSE], recv_tile(1, SLOPE_RESET) >>

Scripts ==
    [ id_reads_before_any_write  |-> reset \o test_id_reads_before_any_write,
      reset_values               |-> reset \o test_reset_values,
      unmapped_offset_reads_zero |-> reset \o test_unmapped_offset_reads_zero,
      default_slope_matches_the_model
                                 |-> reset \o test_default_slope_matches_the_model,
      slope_is_writable          |-> reset \o test_slope_is_writable,
      slope_is_eight_bits        |-> reset \o test_slope_is_eight_bits,
      tlast_marks_the_tile       |-> reset \o test_tlast_marks_the_tile,
      status_and_count_report_the_tile
                                 |-> reset \o test_status_and_count_report_the_tile,
      two_tiles_back_to_back     |-> reset \o test_two_tiles_back_to_back,
      enable_low_withdraws_ready |-> reset \o test_enable_low_withdraws_ready,
      backpressure_preserves_the_tile
                                 |-> reset \o test_backpressure_preserves_the_tile ]
Script == Scripts[test]

\* What the tests rest on: a tile for each that is sent, pins wide enough for
\* what is written and read, a counter that can show the lengths it is asked for,
\* and a tile long enough to be in flight when the read sent after it arrives.
ASSUME TestAssumption ==
    /\ Tests \subseteq DOMAIN Scripts
    /\ \A t \in Tests : \A i \in DOMAIN Scripts[t] :
          LET op == Scripts[t][i] IN
          /\ op.kind \in {"send", "recv"} => op.tile \in DOMAIN Lengths[t]
          /\ op.kind = "write" => op.addr \in WrAddrs /\ op.data \in WrData
          /\ op.kind \in {"read", "poll"} => op.addr \in RdAddrs
          /\ op.kind = "read" => op.of = 0 \/ Lengths[t][op.of] < 2^COUNT_W
    /\ "status_and_count_report_the_tile" \in Tests
          => Lengths["status_and_count_report_the_tile"][1] > MAX_LAG
    /\ "CTRL" \in WrAddrs /\ [word |-> 0, strb |-> TRUE] \in WrData /\ "ID" \in RdAddrs

-----------------------------------------------------------------------------
(* The sink and the monitor                                                *)

\* The frames that wait after this edge.
Arrived == IF tile_done(m_axis_tready)
           THEN Append(frames, Append(receiving, out_data_q)) ELSE frames

\* The sink takes its ready from its pause attribute on every edge; it exists
\* once the reset is over.
SinkEdge ==
    /\ m_axis_tready' = (aresetn /\ ~paused)
    /\ receiving' = IF tile_done(m_axis_tready) THEN <<>>
                    ELSE IF out_fire(m_axis_tready) THEN Append(receiving, out_data_q)
                    ELSE receiving

\* The monitor samples after the edge, in ReadOnly.
MonitorEdge ==
    flags' = IF monitoring /\ out_valid_q' /\ m_axis_tready'
             THEN Append(flags, out_last_q') ELSE flags

\* What the test expects of the frame recv returns.
Matches(op, values) ==
    IF op.golden
    THEN values = [i \in DOMAIN tiles[op.tile] |->
                      GoldenRelu(tiles[op.tile][i].data, op.slope)]
    ELSE Len(values) = Len(tiles[op.tile])

Received(op, queue) == Proceed(1, Matches(op, Head(queue))) /\ frames' = Tail(queue)

\* The statements about the sink.  The sink may look at pause before or after
\* the test that sets it on the same edge.
SinkStatement(op) ==
    \/ /\ op.kind = "recv"
       /\ \/ frames # <<>> /\ Received(op, frames)
          \/ frames = <<>> /\ begun' = TRUE /\ UNCHANGED <<at, left, failed, frames>>
       /\ UNCHANGED <<driven, m_axis_tready, paused, monitoring>>
    \/ /\ op.kind = "pause" /\ paused' = op.on
       /\ m_axis_tready' \in {m_axis_tready, ~op.on}
       /\ Proceed(1, TRUE) /\ UNCHANGED <<driven, monitoring, frames>>
    \/ /\ op.kind = "drive" /\ driven' = op.on
       /\ Proceed(1, TRUE) /\ UNCHANGED <<m_axis_tready, paused, monitoring, frames>>
    \/ /\ op.kind = "monitor" /\ monitoring' = TRUE
       /\ Proceed(1, TRUE) /\ UNCHANGED <<driven, m_axis_tready, paused, frames>>
    \/ /\ op.kind = "assert_flags"
       /\ Proceed(1, flags = [i \in DOMAIN tiles[1] |-> i = Len(tiles[1])])
       /\ UNCHANGED <<driven, m_axis_tready, paused, monitoring, frames>>

-----------------------------------------------------------------------------
(* The testbench and the accelerator                                       *)

\* The extremes come first, whatever is drawn.
EdgeCases == << -(2^(DATA_W - 1)), 2^(DATA_W - 1) - 1, 0, -1 >>

gen_activations(n) ==
    {[i \in 1 .. n |-> IF i <= Len(EdgeCases) THEN EdgeCases[i] ELSE drawn[i]] :
         drawn \in [Len(EdgeCases) + 1 .. n -> Picks]}

Tiles(t) == {ts \in [DOMAIN Lengths[t] -> UNION {gen_activations(Lengths[t][k]) :
                                              k \in DOMAIN Lengths[t]}] :
                \A k \in DOMAIN ts : Len(ts[k]) = Lengths[t][k]}

\* One frame is one tile: its last beat carries tlast.
Beats(values) == [i \in DOMAIN values |->
                     [valid |-> TRUE, data |-> values[i], last |-> i = Len(values)]]

BInit ==
    /\ Init /\ BenchInit
    /\ test \in Tests
    /\ \E ts \in Tiles(test) : tiles = [k \in DOMAIN ts |-> Beats(ts[k])]
    /\ wr = [addr |-> "CTRL", data |-> [word |-> 0, strb |-> TRUE]] /\ ra = "ID"
    /\ driven = FALSE /\ m_axis_tready = FALSE /\ paused = FALSE
    /\ receiving = <<>> /\ frames = <<>>
    /\ monitoring = FALSE /\ flags = <<>>

\* The word is one the test accepts.
Accepts(op) == IF op.of = 0 THEN rdata_q \in op.want ELSE rdata_q = Len(tiles[op.of])

Running == ~failed /\ at <= Len(Script)

Statement ==
    /\ Running /\ ~begun
    /\ LET op == Script[at] IN
          \/ Immediate(op, tiles) /\ UNCHANGED sinkVars
          \/ /\ SinkStatement(op)
             /\ UNCHANGED <<test, tiles, polls, aresetn, pinVars, receiving, flags>>
    /\ UNCHANGED vars

SPin == IF driven THEN [valid |-> TRUE, data |-> 2^(DATA_W - 1) - 1, last |-> FALSE]
        ELSE IF offered THEN Head(frame) ELSE NoBeat

Dut == IF aresetn THEN Cycle(AwPin, WPin, BPin, ArPin, RPin, SPin, m_axis_tready)
       ELSE Reset

Edge ==
    /\ Running /\ begun
    /\ Dut /\ SinkEdge /\ MonitorEdge
    /\ LET op == Script[at]
           ready == s_axis_tready(m_axis_tready)
       IN  \/ /\ BenchEdge(op, ready, s_axis_tready(m_axis_tready)', Accepts(op))
              /\ frames' = Arrived
           \/ /\ op.kind = "recv"
              /\ \/ Arrived # <<>> /\ Received(op, Arrived)
                 \/ Arrived = <<>> /\ Stay(left) /\ frames' = Arrived
              /\ ChannelEdge /\ SourceEdge(ready)
              /\ UNCHANGED <<test, tiles, polls, aresetn, wr, ra>>
    /\ UNCHANGED <<driven, paused, monitoring>>

\* A test that has ended, passed or failed, leaves the ports alone.
Over == ~Running /\ UNCHANGED allVars

BNext == Statement \/ Edge \/ Over

BSpec == BInit /\ [][BNext]_allVars /\ WF_allVars(Statement \/ Edge)

-----------------------------------------------------------------------------
(* Properties                                                              *)

\* No assertion of any test fails (139-287), whatever activations are drawn,
\* however long AxiLiteMaster takes on each channel and whichever of a test and
\* the sink acts first on an edge: BUSY is still up when a read sent after the
\* tile arrives, and what recv returns is the tile under the slope last written.
AssertionsHold == ~failed

\* Every test ends: no poll loop, recv or register access awaits an edge that
\* changes nothing, though most tests wait for a tlast to come back (84-92).
TestsEnd == <>(failed \/ at > Len(Script))
=============================================================================
