---------------------------- MODULE ReluOutline ----------------------------
(***************************************************************************)
(* The proof outline of ReluBench: what each test may rely on when it      *)
(* reaches each of its statements, the rules that lead from one statement  *)
(* to the next, and what the state is in between and on the way.           *)
(***************************************************************************)
EXTENDS ReluBench

-----------------------------------------------------------------------------
(* Contexts: what a test may rely on between two of its statements.        *)

\* up: the sink runs; flow: it never pauses; en, slope: the registers; driven,
\* monitoring: the variables; sent: a tile is under way; tile: the last one
\* sent, or 0; early: BUSY must still be up when the statement's read arrives.
Start == [up |-> FALSE, flow |-> TRUE, en |-> TRUE, slope |-> SLOPE_RESET,
          driven |-> FALSE, monitoring |-> FALSE, sent |-> FALSE, tile |-> 0,
          early |-> "no"]

Up       == [Start EXCEPT !.up = TRUE]
Pausing  == [Up EXCEPT !.flow = FALSE]
Watched  == [Up EXCEPT !.monitoring = TRUE]
Disabled == [Up EXCEPT !.en = FALSE]
Driven   == [Disabled EXCEPT !.driven = TRUE]
Under(slope)  == [Up EXCEPT !.slope = slope]
Sent(c, k)    == [c EXCEPT !.sent = TRUE, !.tile = k]
Home(c, k)    == [c EXCEPT !.sent = FALSE, !.tile = k]
Early(c, e)   == [c EXCEPT !.early = e]

\* What the tests wait for before each of their statements.
round_outline(c, slope) ==
    << c, Home(Under(slope), c.tile) >>
    \o << Home(Under(slope), c.tile), Sent(Under(slope), 1) >>
one_of_two_outline(c, k) == << c, Sent(Up, k) >> \o << Home(Up, k), Home(Up, k) >>

After(slope) == Home(Under(slope), 1)
Slope3 == 2^(SLOPE_W - 1)
Slope4 == 2^SLOPE_W - 1

OutlineOf ==
    [ id_reads_before_any_write  |-> << Up >>,
      reset_values               |-> << Up, Up, Up, Up >>,
      unmapped_offset_reads_zero |-> << Up >>,
      default_slope_matches_the_model |-> << Up, Sent(Up, 1) >>,
      slope_is_writable |->
         round_outline(Up, 0) \o round_outline(After(0), 1)
         \o round_outline(After(1), Slope3) \o round_outline(After(Slope3), Slope4),
      slope_is_eight_bits        |-> << Up, Under(WideWord % 2^SLOPE_W) >>,
      tlast_marks_the_tile |->
         << Up, Watched, Sent(Watched, 1), Home(Watched, 1) >>,
      status_and_count_report_the_tile |->
         << Up, Early(Sent(Up, 1), "before"), Early(Sent(Up, 1), "after"),
            Sent(Up, 1), Home(Up, 1), Home(Up, 1), Home(Up, 1) >>,
      two_tiles_back_to_back |->
         one_of_two_outline(Up, 1) \o one_of_two_outline(Home(Up, 1), 2),
      enable_low_withdraws_ready |->
         << Up, Disabled, Driven, Driven, Driven, Disabled >> \o << Up, Sent(Up, 1) >>,
      backpressure_preserves_the_tile |->
         << Pausing, Pausing, Sent(Pausing, 1), Sent(Pausing, 1), Sent(Pausing, 1) >> ]

\* The context in which a test ends.
EndOf ==
    [ id_reads_before_any_write  |-> Up,
      reset_values               |-> Up,
      unmapped_offset_reads_zero |-> Up,
      default_slope_matches_the_model |-> Home(Up, 1),
      slope_is_writable          |-> After(Slope4),
      slope_is_eight_bits        |-> Under(WideWord % 2^SLOPE_W),
      tlast_marks_the_tile       |-> Home(Watched, 1),
      status_and_count_report_the_tile |-> Home(Up, 1),
      two_tiles_back_to_back     |-> Home(Up, 2),
      enable_low_withdraws_ready |-> Home(Up, 1),
      backpressure_preserves_the_tile  |-> Home(Pausing, 1) ]

Outline(t) == << Start, Start >> \o OutlineOf[t]
Context(t, i) == IF i <= Len(Scripts[t]) THEN Outline(t)[i] ELSE EndOf[t]

Here  == Context(test, at)
There == Context(test, at + 1)
Op    == Script[at]

-----------------------------------------------------------------------------
(* The rules: statement op of test t leads from context c to context d.    *)

ResetRule(c, op, d) == /\ op.kind = "reset" /\ op.edges \in Nat \ {0}
                       /\ c = Start /\ d = Start

EdgesRule(c, op, d) ==
    /\ op.kind = "edges" /\ op.edges \in Nat \ {0}
    /\ op.stalled \in BOOLEAN /\ (op.stalled => c.up /\ ~c.en)
    /\ \/ c = Start /\ d \in {Up, Pausing}
       \/ c.up /\ c.early = "no" /\ d = c
       \/ c.up /\ c.early = "before" /\ op.edges = 1 /\ d = Early(c, "after")

\* The words a read accepts are those the register can show in this context.
Readable(c, op) ==
    \/ op.addr = "ID" /\ op.of = 0 /\ op.want = {ID_VALUE}
    \/ op.addr = "CTRL" /\ op.of = 0 /\ op.want = EnSet /\ c.en
    \/ op.addr = "SLOPE" /\ op.of = 0 /\ op.want = {c.slope}
    \/ op.addr = "COUNT" /\ op.of = 0 /\ op.want = {0} /\ ~c.sent /\ c.tile = 0
    \/ op.addr = "COUNT" /\ op.of = c.tile /\ ~c.sent /\ c.tile # 0
    \/ op.addr = "STATUS" /\ op.of = 0 /\ op.want = {0} /\ ~c.sent /\ c.tile = 0
    \/ op.addr = "STATUS" /\ op.of = 0 /\ op.want = DoneAndIdle /\ ~c.sent /\ c.tile # 0
    \/ op.addr = "STATUS" /\ op.of = 0 /\ op.want = Busy /\ c.early = "after"
    \/ op.addr = "UNMAPPED" /\ op.of = 0 /\ op.want = {0}

ReadRule(c, op, d) ==
    /\ op.kind = "read" /\ op.lags = ReadLags("master") /\ op.awaits = {"ar", "r"}
    /\ c.up /\ c.early # "before" /\ Readable(c, op)
    /\ d = Early(c, "no")

PollRule(c, op, d) ==
    /\ op.kind = "poll" /\ op.lags = ReadLags("master") /\ op.awaits = {"ar", "r"}
    /\ op.addr = "STATUS" /\ op.asserts = {"done"} /\ op.body = 0
    /\ c.up /\ c.early = "no" /\ ~c.sent /\ c.tile # 0
    /\ d = c

WriteRule(c, op, d) ==
    /\ op.kind = "write" /\ op.lags = WriteLags("master")
    /\ op.awaits = {"aw", "w", "b"} /\ op.data.strb = TRUE
    /\ c.up /\ c.early = "no" /\ ~c.sent /\ ~c.driven
    /\ \/ op.addr = "CTRL" /\ d = [c EXCEPT !.en = CtrlEn(op.data)]
       \/ op.addr = "SLOPE" /\ d = [c EXCEPT !.slope = Unsigned(op.data.word, SLOPE_W)]

SendRule(t, c, op, d) ==
    /\ op.kind = "send" /\ op.tile # 0
    /\ c.up /\ c.early = "no" /\ ~c.sent /\ ~c.driven /\ (c.monitoring => c.tile = 0)
    /\ \/ d = Sent(c, op.tile)
       \/ /\ c.flow /\ c.en /\ Lengths[t][op.tile] > MAX_LAG
          /\ d = Early(Sent(c, op.tile), "before")

RecvRule(c, op, d) ==
    /\ op.kind = "recv" /\ op.golden \in BOOLEAN /\ (op.golden => op.slope = c.slope)
    /\ c.up /\ c.early = "no" /\ c.sent /\ c.tile = op.tile
    /\ d = Home(c, op.tile)

\* Statements that await nothing, but send.
PinRule(c, op, d) ==
    /\ c.up /\ c.early = "no"
    /\ \/ op.kind = "pause" /\ op.on \in BOOLEAN /\ ~c.flow /\ d = c
       \/ /\ op.kind = "drive" /\ op.on \in BOOLEAN /\ ~c.en /\ ~c.sent
          /\ d = [c EXCEPT !.driven = op.on]
       \/ /\ op.kind = "monitor" /\ c.flow /\ ~c.sent /\ ~c.monitoring /\ c.tile = 0
          /\ d = [c EXCEPT !.monitoring = TRUE]
       \/ op.kind = "assert_flags" /\ c.monitoring /\ ~c.sent /\ c.tile = 1 /\ d = c

Contexts == [up : BOOLEAN, flow : BOOLEAN, en : BOOLEAN, slope : Slope,
             driven : BOOLEAN, monitoring : BOOLEAN, sent : BOOLEAN, tile : Nat,
             early : {"no", "before", "after"}]

Rule(t, c, op, d) ==
    /\ c \in Contexts /\ d \in Contexts
    /\ \/ ResetRule(c, op, d) \/ EdgesRule(c, op, d)
       \/ ReadRule(c, op, d) \/ PollRule(c, op, d) \/ WriteRule(c, op, d)
       \/ SendRule(t, c, op, d) \/ RecvRule(c, op, d) \/ PinRule(c, op, d)

-----------------------------------------------------------------------------
(* The tile                                                                *)

\* Beats the accelerator has taken of the tile, the golden image of a tile's
\* first n beats, and their marks.
Accepted == Len(receiving) + (IF out_valid_q THEN 1 ELSE 0)
Image(k, n, slope) == [i \in 1 .. n |-> GoldenRelu(tiles[k][i].data, slope)]
Marks(k, n) == [i \in 1 .. n |-> i = Len(tiles[k])]

\* No beat is under way; tile k was the last one, or none was.
Ashore(k) ==
    /\ frame = <<>> /\ offered = FALSE /\ receiving = <<>>
    /\ out_valid_q = FALSE /\ busy_q = FALSE /\ beats_q = 0
    /\ \/ k = 0 /\ done_q = FALSE /\ count_q = 0
       \/ /\ k \in DOMAIN tiles /\ done_q = TRUE
          /\ count_q = Unsigned(Len(tiles[k]), COUNT_W)

\* Tile k is under way: what the sink has not got is in the pipeline or still
\* in the source.
Afloat(k, slope) ==
    /\ k \in DOMAIN tiles
    /\ Accepted <= Len(tiles[k]) /\ (Accepted = Len(tiles[k]) => out_valid_q)
    /\ frame = SubSeq(tiles[k], Accepted + 1, Len(tiles[k]))
    /\ offered => Accepted < Len(tiles[k])
    /\ receiving = Image(k, Len(receiving), slope)
    /\ out_valid_q => /\ out_data_q = GoldenRelu(tiles[k][Accepted].data, slope)
                      /\ out_last_q = (Accepted = Len(tiles[k]))
    /\ busy_q = (Accepted > 0)
    /\ beats_q = Unsigned(Accepted, COUNT_W)
    /\ Accepted > 0 => done_q = FALSE

Flying(k, slope) == frames = <<>> /\ Afloat(k, slope)
Landed(k, slope) == /\ frames = << Image(k, Len(tiles[k]), slope) >>
                    /\ k # 0 /\ Ashore(k)

StreamAt(c) == IF c.sent THEN Flying(c.tile, c.slope) \/ Landed(c.tile, c.slope)
               ELSE frames = <<>> /\ Ashore(c.tile)

\* The monitor has seen every beat the accelerator has taken.
FlagsAt(c) ==
    /\ monitoring = c.monitoring
    /\ ~c.monitoring => flags = <<>>
    /\ c.monitoring => /\ c.flow /\ c.up
                       /\ flags = IF c.tile = 0 THEN <<>>
                                  ELSE IF c.sent /\ frames = <<>> THEN Marks(c.tile, Accepted)
                                  ELSE Marks(c.tile, Len(tiles[c.tile]))

SinkAt(c) ==
    /\ driven = c.driven /\ (c.driven => ~c.en)
    /\ c.flow => paused = FALSE
    /\ c.flow /\ c.up => m_axis_tready = TRUE

\* A tile that must be seen BUSY: n of its beats have been taken, and from then
\* on one is taken on every edge.
Streaming(c, n) ==
    /\ c.up /\ c.flow /\ c.en /\ c.sent
    /\ Len(tiles[c.tile]) > MAX_LAG
    /\ Flying(c.tile, c.slope) /\ Accepted = n

EarlyAt(c) == c.early # "no" => Streaming(c, 0) /\ offered = (c.early = "after")

-----------------------------------------------------------------------------
(* A register access                                                       *)

RegistersAt(c) == en_reg = c.en /\ slope_reg = c.slope
WriteIdle == aw_pend = FALSE /\ w_pend = FALSE /\ bvalid_q = FALSE

Resting(c) == /\ lag = [ch \in Channels |-> Idle]
              /\ WriteIdle /\ rvalid_q = FALSE /\ RegistersAt(c)

Good(op) == IF op.kind = "read" THEN Accepts(op) ELSE rdata_q = 2

\* The address is still to be taken, or the word has been.
Reading(c, op) ==
    /\ WriteIdle /\ RegistersAt(c) /\ ra = op.addr
    /\ \A ch \in {"aw", "w", "b"} : lag[ch] = Idle
    /\ lag["r"] = 0
    /\ \/ /\ lag["ar"] \in 0 .. 1 + MAX_LAG /\ rvalid_q = FALSE
          /\ c.early = "after" =>
                 /\ Streaming(c, Accepted) /\ Accepted + lag["ar"] \in 1 .. 1 + MAX_LAG
                 /\ offered = (Accepted < Len(tiles[c.tile]))
       \/ lag["ar"] = Idle /\ rvalid_q = TRUE /\ Good(op)

\* The address or the word is still to be taken, or the write has been done.
Writing(c, op, d) ==
    /\ wr = [addr |-> op.addr, data |-> op.data]
    /\ rvalid_q = FALSE /\ lag["ar"] = Idle /\ lag["r"] = Idle /\ lag["b"] = 0
    /\ \/ /\ bvalid_q = FALSE /\ RegistersAt(c)
          /\ \A ch \in {"aw", "w"} : lag[ch] \in Nat \/ lag[ch] = Idle
          /\ aw_pend = (lag["aw"] = Idle) /\ (aw_pend => aw_addr_q = op.addr)
          /\ w_pend = (lag["w"] = Idle) /\ (w_pend => w_data_q = op.data)
          /\ ~(aw_pend /\ w_pend)
       \/ /\ bvalid_q = TRUE /\ aw_pend = FALSE /\ w_pend = FALSE /\ RegistersAt(d)
          /\ lag["aw"] = Idle /\ lag["w"] = Idle

-----------------------------------------------------------------------------
(* The invariant                                                           *)

Surroundings(c) == StreamAt(c) /\ FlagsAt(c) /\ SinkAt(c)

\* Between two statements, and while one awaits the clock.
Between(c) == aresetn = TRUE /\ Surroundings(c) /\ EarlyAt(c) /\ Resting(c)

During(c, op, d) ==
    /\ aresetn = (op.kind # "reset")
    /\ Surroundings(c)
    /\ \/ op.kind \in {"reset", "edges"} /\ left \in 1 .. op.edges /\ Resting(c) /\ EarlyAt(c)
       \/ op.kind \in {"read", "poll"} /\ Reading(c, op)
       \/ op.kind = "write" /\ Writing(c, op, d)
       \/ op.kind = "recv" /\ Resting(c)

Beat == [valid : {TRUE}, data : Activation, last : BOOLEAN]

\* The operands do not change; every pin carries what the ports may carry.
BenchTypes ==
    /\ test \in Tests
    /\ tiles \in [DOMAIN Lengths[test] -> Seq(Beat)]
    /\ \A k \in DOMAIN tiles :
          /\ Len(tiles[k]) = Lengths[test][k]
          /\ \A i \in 1 .. Len(tiles[k]) : tiles[k][i].last = (i = Len(tiles[k]))
    /\ lag \in [Channels -> Int]
    /\ wr \in [addr : WrAddrs, data : WrData] /\ ra \in RdAddrs
    /\ pause = 0 /\ receiving \in Seq(Activation)
    /\ {aresetn, begun, offered, driven, m_axis_tready, paused, monitoring} \subseteq BOOLEAN

\* The test is where the outline says it is, and nothing has failed.
OnOutline ==
    /\ failed = FALSE /\ at \in 1 .. Len(Script) + 1
    /\ IF begun THEN at <= Len(Script) /\ During(Here, Op, There) ELSE Between(Here)

BenchInv == BenchTypes /\ OnOutline
=============================================================================
