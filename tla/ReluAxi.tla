------------------------------ MODULE ReluAxi ------------------------------
(***************************************************************************)
(* rtl/relu_axi.sv: the AXI wrapper of the Leaky ReLU accelerator, one     *)
(* clock edge per step.  A stream slave feeds a one-entry pipeline that a  *)
(* stream master drains; a tile is not started by a register but by its    *)
(* first beat.  Master, source and sink are the environment.               *)
(***************************************************************************)
EXTENDS AxiLiteSlave, ReluUnit

CONSTANTS COUNT_W,       \* relu_pkg: width of the beat counters
          SLOPE_RESET,   \* relu_pkg: SLOPE out of reset
          ID_VALUE,      \* accel_contract_pkg::id_value of this design
          Xs,            \* activations the source sends
          MAX_TILE       \* bound: most beats of a tile

\* The register map.  Any other byte address takes the default arm.
Regs == {"ID", "CTRL", "STATUS", "SLOPE", "COUNT", "UNMAPPED"}

\* A written word and the strobe of its low byte, the only byte that is stored.
DataWord == [word : Words, strb : BOOLEAN]

VARIABLES
    en_reg, slope_reg,                    \* the writable registers
    out_valid_q, out_last_q, out_data_q,  \* the pipeline: one output beat
    busy_q, done_q, beats_q, count_q,     \* tile accounting
    \* history: what the ports have seen; no register of the design
    slope_issued,  \* SLOPE as the master last wrote it
    inflight,      \* beats accepted and not yet delivered, as they should leave
    entering,      \* beats accepted of the tile whose tlast is still to come
    leaving,       \* length of the tile whose tlast was accepted last
    completed,     \* length of the tile whose tlast was delivered last
    meets,         \* the tile in flight began on the edge another tile's tlast left
    met            \* the completed tile met a neighbour in that way, at either end

regVars  == <<en_reg, slope_reg>>
outVars  == <<out_valid_q, out_last_q, out_data_q>>
tileVars == <<busy_q, done_q, beats_q, count_q>>
histVars == <<slope_issued, inflight, entering, leaving, completed, meets, met>>
vars == <<slaveVars, regVars, outVars, tileVars, histVars>>

ASSUME CountWidth == /\ COUNT_W \in Nat \ {0}
                     /\ {2, SLOPE_W, COUNT_W} \subseteq 0 .. AXIL_DATA_W
ASSUME Environment == /\ ID_VALUE \in Words
                      /\ SLOPE_RESET \in Slope
                      /\ WrAddrs \subseteq Regs
                      /\ RdAddrs \subseteq Regs
                      /\ WrData \subseteq DataWord
                      /\ Xs \subseteq Activation
                      /\ MAX_TILE \in Nat \ {0}

-----------------------------------------------------------------------------
(* The writable registers, both levels.                                    *)

CtrlEn(data) == data.word % 2 = 1

Registers(aw, w) ==
    /\ en_reg' = IF reg_wr(aw, w, "CTRL") /\ wr_data(w).strb
                 THEN CtrlEn(wr_data(w)) ELSE en_reg
    /\ slope_reg' = IF reg_wr(aw, w, "SLOPE") /\ wr_data(w).strb
                    THEN Unsigned(wr_data(w).word, SLOPE_W) ELSE slope_reg

-----------------------------------------------------------------------------
(* The stream                                                              *)

\* Mutant: ready does not wait for the output register.
s_axis_treadyEager(m_ready) == en_reg

s_axis_tready(m_ready) == en_reg /\ (~out_valid_q \/ m_ready)

in_fire(s, m_ready) == s.valid /\ s_axis_tready(m_ready)
out_fire(m_ready)   == out_valid_q /\ m_ready
tile_done(m_ready)  == out_fire(m_ready) /\ out_last_q

\* Mutant: tlast is captured only into an empty output register.
PipelineLosesLast(s, m_ready) ==
    \/ /\ in_fire(s, m_ready)
       /\ out_valid_q' = TRUE
       /\ out_last_q' = (s.last /\ ~out_valid_q)
       /\ out_data_q' = relu(s.data, slope_reg)
    \/ /\ ~in_fire(s, m_ready)
       /\ out_valid_q' = (out_valid_q /\ ~out_fire(m_ready))
       /\ out_last_q' = (out_last_q /\ ~out_fire(m_ready))
       /\ UNCHANGED out_data_q

Pipeline(s, m_ready) ==
    \/ /\ in_fire(s, m_ready)
       /\ out_valid_q' = TRUE
       /\ out_last_q' = s.last
       /\ out_data_q' = relu(s.data, slope_reg)
    \/ /\ ~in_fire(s, m_ready)
       /\ out_valid_q' = (out_valid_q /\ ~out_fire(m_ready))
       /\ out_last_q' = (out_last_q /\ ~out_fire(m_ready))
       /\ UNCHANGED out_data_q

-----------------------------------------------------------------------------
(* Tile accounting: the assignments under tile_done come last and win.     *)

\* Mutant: the counters do not wrap.
countedUnwrapped(s, m_ready) == IF in_fire(s, m_ready) THEN beats_q + 1 ELSE beats_q

counted(s, m_ready) ==
    IF in_fire(s, m_ready) THEN Unsigned(beats_q + 1, COUNT_W) ELSE beats_q

begins(s, m_ready) == in_fire(s, m_ready) /\ ~busy_q

\* Mutants: a tile is over when its tlast is accepted; the counter runs on.
AccountingOnInput(s, m_ready) ==
    LET ends == in_fire(s, m_ready) /\ s.last
    IN  /\ busy_q'  = (~ends /\ (busy_q \/ begins(s, m_ready)))
        /\ done_q'  = (ends \/ (done_q /\ ~begins(s, m_ready)))
        /\ count_q' = IF ends THEN counted(s, m_ready) ELSE count_q
        /\ beats_q' = IF ends THEN 0 ELSE counted(s, m_ready)

AccountingRunsOn(s, m_ready) ==
    /\ busy_q'  = (~tile_done(m_ready) /\ (busy_q \/ begins(s, m_ready)))
    /\ done_q'  = (tile_done(m_ready) \/ (done_q /\ ~begins(s, m_ready)))
    /\ count_q' = IF tile_done(m_ready) THEN counted(s, m_ready) ELSE count_q
    /\ beats_q' = counted(s, m_ready)

Accounting(s, m_ready) ==
    /\ busy_q'  = (~tile_done(m_ready) /\ (busy_q \/ begins(s, m_ready)))
    /\ done_q'  = (tile_done(m_ready) \/ (done_q /\ ~begins(s, m_ready)))
    /\ count_q' = IF tile_done(m_ready) THEN counted(s, m_ready) ELSE count_q
    /\ beats_q' = IF tile_done(m_ready) THEN 0 ELSE counted(s, m_ready)

-----------------------------------------------------------------------------
(* What the read channel shows                                             *)

status_word == Bit(busy_q, 0) + Bit(done_q, 1)

rd_mux(addr) ==
    CASE addr = "ID"       -> ID_VALUE
      [] addr = "CTRL"     -> Bit(en_reg, 0)
      [] addr = "STATUS"   -> status_word
      [] addr = "SLOPE"    -> Unsigned(slope_reg, AXIL_DATA_W)
      [] addr = "COUNT"    -> Unsigned(count_q, AXIL_DATA_W)
      [] addr = "UNMAPPED" -> 0

-----------------------------------------------------------------------------
(* History: what an observer of the ports expects of the design.           *)

StreamHistory(s, m_ready) ==
    LET slopeWrites == {wr \in applied' : wr.addr = "SLOPE" /\ wr.data.strb}
        kept == IF out_fire(m_ready) THEN Tail(inflight) ELSE inflight
    IN  /\ slope_issued' = IF slopeWrites = {} THEN slope_issued
                           ELSE CHOOSE v \in Slope : \E wr \in slopeWrites :
                                    v = Unsigned(wr.data.word, SLOPE_W)
        /\ inflight' = IF in_fire(s, m_ready)
                       THEN Append(kept, [data |-> GoldenRelu(s.data, slope_issued),
                                          last |-> s.last])
                       ELSE kept
        /\ entering' = IF ~in_fire(s, m_ready) THEN entering
                       ELSE IF s.last THEN 0 ELSE entering + 1
        /\ leaving' = IF in_fire(s, m_ready) /\ s.last THEN entering + 1 ELSE leaving
        /\ completed' = IF tile_done(m_ready) THEN leaving ELSE completed
        /\ meets' = IF tile_done(m_ready) THEN in_fire(s, m_ready) ELSE meets
        /\ met' = IF tile_done(m_ready) THEN meets \/ in_fire(s, m_ready) ELSE met

-----------------------------------------------------------------------------
(* The specification                                                       *)

Init ==
    /\ SlaveInit
    /\ en_reg = TRUE /\ slope_reg = SLOPE_RESET
    /\ out_valid_q = FALSE /\ out_last_q = FALSE /\ out_data_q = 0
    /\ busy_q = FALSE /\ done_q = FALSE /\ beats_q = 0 /\ count_q = 0
    /\ slope_issued = SLOPE_RESET /\ inflight = <<>>
    /\ entering = 0 /\ leaving = 0 /\ completed = 0
    /\ meets = FALSE /\ met = FALSE

\* An edge with aresetn low, in any state.
Reset ==
    /\ SlaveReset
    /\ en_reg' = TRUE /\ slope_reg' = SLOPE_RESET
    /\ out_valid_q' = FALSE /\ out_last_q' = FALSE /\ out_data_q' = 0
    /\ busy_q' = FALSE /\ done_q' = FALSE /\ beats_q' = 0 /\ count_q' = 0
    /\ slope_issued' = SLOPE_RESET /\ inflight' = <<>>
    /\ entering' = 0 /\ leaving' = 0 /\ completed' = 0
    /\ meets' = FALSE /\ met' = FALSE

\* An edge out of reset with these values on the input ports.
Cycle(aw, w, bready, ar, rready, s, m_ready) ==
    /\ SlaveEdge(aw, w, bready, ar, rready, rd_mux(ar.addr))
    /\ Registers(aw, w)
    /\ Pipeline(s, m_ready)
    /\ Accounting(s, m_ready)
    /\ StreamHistory(s, m_ready)

NoBeat == [valid |-> FALSE, data |-> 0, last |-> FALSE]

\* A tile has at most MAX_TILE beats; the next may follow at once.
SPort(m_ready) ==
    Offer(s_axis_tready(m_ready), NoBeat,
          {s \in [valid : {TRUE}, data : Xs, last : BOOLEAN] :
              entering + 1 >= MAX_TILE => s.last})
MPort == Offer(out_valid_q, FALSE, {TRUE})

Next ==
    \/ Reset
    \/ \E aw \in AwPort, w \in WPort, bready \in BPort,
          ar \in ArPort, rready \in RPort, m_ready \in MPort :
         \E s \in SPort(m_ready) : Cycle(aw, w, bready, ar, rready, s, m_ready)

Spec == Init /\ [][Next]_vars

\* Edges on which the source's last beat is taken, and on which the sink takes one.
LastBeat ==
    /\ en_reg
    /\ \E aw \in AwPort, w \in WPort, bready \in BPort,
          ar \in ArPort, rready \in RPort, m_ready \in MPort :
      \E s \in SPort(m_ready) : /\ s.valid /\ s.last
                                /\ Cycle(aw, w, bready, ar, rready, s, m_ready)
Delivery ==
    /\ out_valid_q
    /\ \E aw \in AwPort, w \in WPort, bready \in BPort,
          ar \in ArPort, rready \in RPort, m_ready \in MPort :
      \E s \in SPort(m_ready) : /\ out_fire(m_ready)
                                /\ Cycle(aw, w, bready, ar, rready, s, m_ready)

\* The source holds its last beat until it is taken however often ready is
\* withdrawn meanwhile; the sink takes a beat that stays offered.
FairSpec == Spec /\ SF_vars(LastBeat) /\ WF_vars(Delivery)

-----------------------------------------------------------------------------
(* Properties                                                              *)

\* Every register holds a value of its width, every history variable what the
\* ports can have shown.
TypeOK ==
    /\ SlaveTypeOK
    /\ en_reg \in BOOLEAN /\ slope_reg \in Slope
    /\ out_valid_q \in BOOLEAN /\ out_last_q \in BOOLEAN /\ out_data_q \in Activation
    /\ busy_q \in BOOLEAN /\ done_q \in BOOLEAN
    /\ beats_q \in 0 .. 2^COUNT_W - 1 /\ count_q \in 0 .. 2^COUNT_W - 1
    /\ slope_issued \in Slope
    /\ inflight \in Seq([data : Int, last : BOOLEAN])
    /\ entering \in Nat /\ leaving \in Nat /\ completed \in Nat
    /\ meets \in BOOLEAN /\ met \in BOOLEAN

\* The stream master (208-246) shows exactly the oldest accepted beat: every
\* accepted activation leaves once, in order, as the golden model computes it
\* under the slope in force when it was accepted, with its own tlast, however
\* the sink stalls and whenever SLOPE or EN is written.
StreamIsGolden ==
    inflight = IF out_valid_q THEN <<[data |-> out_data_q, last |-> out_last_q]>>
               ELSE <<>>

\* BUSY (284-289) is set exactly while a tile is in flight: a beat of it has been
\* accepted and its tlast has not left (254-279); but for a tile whose first beat
\* was accepted as the tlast before it left.
BusySpansTile == ~meets => busy_q = (entering > 0 \/ (out_valid_q /\ out_last_q))

\* Once a tile that met no neighbour is DONE, COUNT (275) is its length, up to
\* the counter's width, whatever tiles came before it.
SerialCountIsExact == done_q /\ ~met => count_q = Unsigned(completed, COUNT_W)

\* docs/register-map-relu.md: COUNT is "Beats in the last completed tile".  Once
\* any tile is DONE, COUNT (275) is its length, up to the counter's width.
CountIsLastTile == done_q => count_q = Unsigned(completed, COUNT_W)

\* If software leaves EN set, every tile in flight is eventually done (or the
\* block reset): no stall of the sink and no toggling of EN wedges the pipeline.
TilesComplete == <>[]en_reg => (busy_q ~> ~busy_q)
=============================================================================
