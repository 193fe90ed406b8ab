--------------------------- MODULE SparseCnnBench ---------------------------
(***************************************************************************)
(* tb/sparse_cnn_axi/tb_sparse_cnn_axi.py: every test of the testbench,    *)
(* run against SparseCnnAxi edge by edge, and the tests of                 *)
(* tb/sparse_mac_pe/tb_sparse_mac_pe.py, which drive the bare processing   *)
(* element.  Tiles and loops are shorter than the testbenches'; what a     *)
(* test does, and in what order, is not.                                   *)
(***************************************************************************)
EXTENDS SparseCnnAxi, AxiBench

CONSTANTS Mixes,     \* what gen_pairs may generate, as patterns that repeat
          AWAITED    \* beats test_clear_mid_tile lets pass before it stalls

VARIABLES
    consumed, shown,  \* _BeatCounter.total, and what it was an edge ago
    split,            \* test_clear_mid_tile's split
    saw               \* test_result_read_before_completion's saw_busy

counterVars == <<consumed, shown, split, saw>>
allVars == <<vars, benchVars, counterVars>>

-----------------------------------------------------------------------------
(* Accelerator                                                             *)

CTRL(start, clear, en) == [start |-> start, clear |-> clear, en |-> en, strb |-> TRUE]
Stop    == CTRL(FALSE, FALSE, FALSE)
Resume  == CTRL(FALSE, FALSE, TRUE)
Launch  == CTRL(TRUE, FALSE, TRUE)
CTRL_EN == 4

write(lite, data)     == Write(lite, "CTRL", data)
read(lite, reg, want) == Read(lite, reg, want)

start(lite)      == write(lite, Launch)
await_done(lite) == Poll(lite, {"done", "idle"}, 0)

\* tiles[k], or REST, what test_clear_mid_tile has not yet sent of its tile.
REST == 3
Results(lite, k) == << ReadResult(lite, "ACC", k), ReadResult(lite, "SKIP", k) >>
Zeros            == << read("master", "ACC", {0}), read("master", "SKIP", {0}) >>

run_tile(lite, k)   == << start(lite), Send(k), await_done(lite) >> \o Results(lite, k)
check_tile(lite, k) == run_tile(lite, k)

bring_up == << ResetEdges, Edges(1) >>

-----------------------------------------------------------------------------
(* The tests                                                               *)

M == "master"

test_one_tile(k) == check_tile(M, k)

test_id_register == << read(M, "ID", {ID_VALUE}) >>

test_register_map ==
    << read(M, "CTRL", {CTRL_EN}), read(M, "STATUS", {0}) >> \o Zeros \o
    << write(M, Stop), read(M, "CTRL", {0}),
       write(M, CTRL(TRUE, TRUE, TRUE)), read(M, "CTRL", {CTRL_EN}),
       write(M, CTRL(TRUE, TRUE, TRUE)), read(M, "CTRL", {CTRL_EN}),
       read(M, "UNMAPPED", {0}) >>

test_backpressure_from_source == << Pauses >> \o check_tile(M, 1)

test_backpressure_from_wrapper ==
    << start(M), Send(1), Edges(1), write(M, Stop), StalledEdges(3),
       write(M, Resume), await_done(M) >> \o Results(M, 1)

test_no_beats_before_start ==
    << Send(1), StalledEdges(3), start(M), await_done(M) >> \o Results(M, 1)

test_back_to_back_tiles == check_tile(M, 1) \o check_tile(M, 2)

test_result_read_before_completion ==
    check_tile(M, 1)
    \o << Pauses, start(M), Send(2), Poll(M, {}, 4), [kind |-> "saw_busy"] >>
    \o Results(M, 1)
    \o << Loop(4), [kind |-> "assert_saw"] >>
    \o Results(M, 2)

\* assert_tile_in_flight: BUSY and not DONE.
InFlight == {1}

test_status_never_reports_the_previous_tile ==
    check_tile("raw", 1)
    \o << Race("CTRL", Launch, "STATUS", InFlight) >>
    \o [i \in 1 .. 3 |-> read("raw", "STATUS", InFlight)]
    \o << Send(2), await_done("raw") >>
    \o Results("raw", 2)

test_explicit_clear ==
    check_tile(M, 1) \o << write(M, CTRL(FALSE, TRUE, TRUE)), Edges(2) >>
    \o Zeros \o check_tile(M, 2)

test_clear_mid_tile ==
    << start(M), Send(1), [kind |-> "until_consumed"],
       write(M, Stop), Edges(1), [kind |-> "split"],
       write(M, CTRL(FALSE, TRUE, FALSE)), Edges(1) >>
    \o Zeros \o
    << [kind |-> "assert_split"], write(M, Resume), await_done(M) >>
    \o Results(M, REST)

test_reset_mid_stream ==
    << start(M), Send(1), Edges(4), ResetEdges, Edges(1), StreamClear, Edges(1),
       read(M, "STATUS", {0}), read(M, "CTRL", {CTRL_EN}) >>
    \o Zeros \o check_tile(M, 2)

\* Tests of the bare processing element.
reset_dut  == [kind |-> "pe_reset"]
run_stream == [kind |-> "pe_stream"]
clear_acc  == [kind |-> "pe_clear"]
check_stream == << reset_dut, run_stream >>

Scripts ==
    [ dense                         |-> bring_up \o test_one_tile(1),
      sparse                        |-> bring_up \o test_one_tile(1),
      all_zero                      |-> bring_up \o test_one_tile(1),
      saturation_range              |-> bring_up \o test_one_tile(1),
      id_register                   |-> bring_up \o test_id_register,
      register_map                  |-> bring_up \o test_register_map,
      backpressure_from_source      |-> bring_up \o test_backpressure_from_source,
      backpressure_from_wrapper     |-> bring_up \o test_backpressure_from_wrapper,
      no_beats_before_start         |-> bring_up \o test_no_beats_before_start,
      back_to_back_tiles            |-> bring_up \o test_back_to_back_tiles,
      result_read_before_completion |-> bring_up \o test_result_read_before_completion,
      status_never_reports_the_previous_tile
                            |-> bring_up \o test_status_never_reports_the_previous_tile,
      explicit_clear                |-> bring_up \o test_explicit_clear,
      clear_mid_tile                |-> bring_up \o test_clear_mid_tile,
      reset_mid_stream              |-> bring_up \o test_reset_mid_stream,
      pe_dense                      |-> check_stream,
      pe_sparse                     |-> check_stream,
      pe_all_zero                   |-> check_stream,
      pe_saturation_range           |-> check_stream,
      pe_clear_acc                  |-> check_stream \o << clear_acc >> ]
Script == Scripts[test]

-----------------------------------------------------------------------------
(* The stream counter, and the statements that look at it                  *)

\* test and _BeatCounter wake on the same edge, in either order.
Seen == {shown, consumed}

CounterEdge(ready) ==
    /\ consumed' = IF offered /\ ready THEN consumed + 1 ELSE consumed
    /\ shown' = consumed

UntilConsumed(op) ==
    /\ op.kind = "until_consumed"
    /\ \E total \in Seen : IF total < AWAITED THEN begun' = TRUE /\ UNCHANGED <<at, left, failed>>
                                              ELSE Proceed(1, TRUE)
    /\ UNCHANGED <<split, saw>>

Notes(op) ==
    \/ op.kind = "split" /\ split' \in Seen /\ Proceed(1, TRUE) /\ UNCHANGED saw
    \/ /\ op.kind = "assert_split"
       /\ \E total \in Seen : Proceed(1, total = split)
       /\ UNCHANGED <<split, saw>>
    \/ op.kind = "saw_busy" /\ saw' = TRUE /\ Proceed(1, TRUE) /\ UNCHANGED split
    \/ op.kind = "assert_saw" /\ Proceed(1, saw) /\ UNCHANGED <<split, saw>>

-----------------------------------------------------------------------------
(* The testbench and the accelerator                                       *)

gen_pairs(n) == {[i \in 1 .. n |-> mix[((i - 1) % Len(mix)) + 1]] : mix \in Mixes}

Uniform(n, weight, act) == [i \in 1 .. n |-> [weight |-> weight, act |-> act]]
Extreme == 2^(DATA_W - 1)

Operands(t, k) == LET n == Lengths[t][k] IN
    CASE t \in {"all_zero", "pe_all_zero"} -> {Uniform(n, 0, 1)}
      [] t \in {"saturation_range", "pe_saturation_range"}
                             -> {Uniform(n, Extreme - 1, -Extreme)}
      [] t = "pe_clear_acc"  -> {Uniform(n, 1, 1)}
      [] OTHER               -> gen_pairs(n)

\* Operands are pairs, and the registers hold the totals of a tile and of what a
\* clear leaves of it.
ASSUME OperandAssumption ==
    /\ Mixes \subseteq Seq(Pairs) \ {<<>>} /\ AWAITED \in Nat
    /\ \A t \in Tests : \A k \in DOMAIN Lengths[t] : \A pairs \in Operands(t, k) :
          /\ pairs \in Seq(Pe!Pair) /\ Len(pairs) = Lengths[t][k]
          /\ \A n \in 0 .. Len(pairs) :
                LET total == Pe!Golden(SubSeq(pairs, n + 1, Len(pairs))) IN
                total.acc \in SignedRange(ACC_W) /\ total.skip \in 0 .. 2^SKIP_W - 1

\* Every tile that a test sends or reads was generated; the ports carry its words.
ASSUME TestAssumption ==
    /\ Tests \subseteq DOMAIN Scripts
    /\ RdAddrs = Regs /\ "CTRL" \in WrAddrs /\ {x \in CtrlWord : x.strb} \subseteq WrData
    /\ \A t \in Tests : \A i \in DOMAIN Scripts[t] : LET op == Scripts[t][i] IN
          /\ op.kind = "send" => op.tile \in DOMAIN Lengths[t]
          /\ op.kind = "read" => IF op.of = REST THEN 1 \in DOMAIN Lengths[t]
                                 ELSE op.of \in {0} \union DOMAIN Lengths[t]
          /\ op.kind = "pe_stream" => 1 \in DOMAIN Lengths[t]

\* A source that stalls on some beats but not on all delivers every tile before
\* the polls run out; the tile that must be seen BUSY outlasts the slowest read.
ASSUME PaceAssumption ==
    /\ \E i \in DOMAIN PausePattern : ~PausePattern[i]
    /\ POLL_LIMIT > 3
    /\ \A t \in Tests : \A k \in DOMAIN Lengths[t] :
          POLL_LIMIT > (Lengths[t][k] + 1) * (Len(PausePattern) + 1) + 3
    /\ "result_read_before_completion" \in Tests =>
          Lengths["result_read_before_completion"][2] > MAX_LAG + 1

BInit ==
    /\ Init /\ BenchInit
    /\ test \in Tests
    /\ tiles \in {ts \in [1 .. Len(Lengths[test]) -> UNION {Operands(test, k) :
                                                    k \in 1 .. Len(Lengths[test])}] :
                      \A k \in DOMAIN ts : ts[k] \in Operands(test, k)}
    /\ wr = [addr |-> "CTRL", data |-> Stop] /\ ra = "ID"
    /\ consumed = 0 /\ shown = 0 /\ split = 0 /\ saw = FALSE

\* One frame is one tile: its last beat carries tlast.
Frames == [k \in DOMAIN tiles |->
              [i \in DOMAIN tiles[k] |-> [valid |-> TRUE, pair |-> tiles[k][i],
                                         last |-> i = Len(tiles[k])]]]

\* The word is one the test accepts: to_signed(ACC) and SKIP are golden's.
Accepts(op) ==
    LET pairs == IF op.of = REST THEN SubSeq(tiles[1], split + 1, Len(tiles[1]))
                 ELSE tiles[op.of]
    IN  IF op.of = 0 THEN rdata_q \in op.want
        ELSE IF op.addr = "ACC" THEN Signed(rdata_q, ACC_W) = Pe!Golden(pairs).acc
        ELSE rdata_q = Pe!Golden(pairs).skip

Running == ~failed /\ at <= Len(Script)

Statement ==
    /\ Running /\ ~begun
    /\ LET op == Script[at] IN
          \/ Immediate(op, Frames) /\ UNCHANGED counterVars
          \/ /\ UntilConsumed(op) \/ Notes(op)
             /\ UNCHANGED <<test, tiles, polls, aresetn, pinVars, consumed, shown>>
    /\ UNCHANGED vars

SPin == IF offered THEN Head(frame) ELSE NoBeat

Dut == IF aresetn THEN Cycle(AwPin, WPin, BPin, ArPin, RPin, SPin) ELSE Reset

Edge ==
    /\ Running /\ begun
    /\ Dut
    /\ LET op == Script[at] IN
          \/ BenchEdge(op, s_axis_tready, s_axis_tready, Accepts(op))
          \/ /\ op.kind = "until_consumed"
             /\ begun' = FALSE
             /\ ChannelEdge /\ SourceEdge(s_axis_tready)
             /\ UNCHANGED <<test, tiles, at, left, polls, failed, aresetn, wr, ra>>
    /\ CounterEdge(s_axis_tready)
    /\ UNCHANGED <<split, saw>>

-----------------------------------------------------------------------------
(* The bare processing element                                             *)

\* One edge with these pins; weight and act matter only with valid_in.
PePins(clear, valid, pair) == Pe!PeEdge(TRUE, clear, valid, pair)
NoPair == [weight |-> 0, act |-> 0]

\* The registers once they have settled.
Shows(want) == pe_acc' = want.acc /\ pe_skip' = want.skip

\* One edge of a statement of a test.  run_stream feeds a pair per edge, and then
\* waits for one more before it looks.
PeStep(op) ==
    \/ /\ op.kind = "pe_reset"
       /\ IF left < RESET_EDGES THEN Pe!PeReset /\ Stay(left + 1)
          ELSE PePins(FALSE, FALSE, NoPair) /\ Proceed(1, TRUE)
    \/ /\ op.kind = "pe_stream"
       /\ IF left < Len(tiles[1])
          THEN PePins(FALSE, TRUE, tiles[1][left + 1]) /\ Stay(left + 1)
          ELSE PePins(FALSE, FALSE, NoPair) /\ Proceed(1, Shows(Pe!Golden(tiles[1])))
    \/ /\ op.kind = "pe_clear"
       /\ PePins(TRUE, FALSE, NoPair) /\ Proceed(1, Shows(Pe!Golden(<<>>)))

PeTest == /\ Running /\ PeStep(Script[at])
          /\ UNCHANGED <<test, tiles, polls, aresetn, pinVars, counterVars,
                         slaveVars, tileVars, histVars>>

-----------------------------------------------------------------------------
\* A test that has ended, passed or failed, leaves the ports alone.
Over == ~Running /\ UNCHANGED allVars

BNext == Statement \/ Edge \/ PeTest \/ Over

BSpec == BInit /\ [][BNext]_allVars /\ WF_allVars(Statement \/ Edge \/ PeTest)

-----------------------------------------------------------------------------
(* Properties                                                              *)

\* A tile that test_result_read_before_completion polled as running completed
\* before the read of its loop that follows: the test then calls a whole result
\* a leaked partial one (387-393).
Overtaken ==
    /\ test = "result_read_before_completion" /\ saw /\ done_q
    /\ Script[at - 1] \in {ReadResult(M, "ACC", 1), ReadResult(M, "SKIP", 1)}

\* No assertion of any test fails (235-519; of the processing element 77-138), whatever operands are generated,
\* however long AxiLiteMaster takes on each channel and in whichever order the
\* coroutines that share an edge wake: the testbench tells right from wrong by
\* what the accelerator does and never by its own timing.
AssertionsHold == failed => Overtaken

\* Every test ends: no poll loop, stalled stream or withheld response leaves a
\* coroutine awaiting an edge that changes nothing (105-115, 138-151, 201-207).
TestsEnd == <>(failed \/ at > Len(Script))
=============================================================================
