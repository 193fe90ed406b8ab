---------------------------- MODULE SparseCnnAxi ----------------------------
(***************************************************************************)
(* rtl/sparse_cnn_axi.sv: the AXI wrapper of the sparse MAC accelerator,   *)
(* one clock edge per step.  Every always_ff block is an operator that     *)
(* primes the registers the block assigns; Cycle conjoins them, because    *)
(* they all fire on the same edge and read the same pre-edge values.       *)
(* The AXI4-Lite master and the stream source are the environment.         *)
(***************************************************************************)
EXTENDS AxiLiteSlave, TwosComplement

CONSTANTS DATA_W, ACC_W, SKIP_W,  \* sparse_cnn_pkg
          ID_VALUE,               \* accel_contract_pkg::id_value of this design
          Pairs,                  \* operand pairs the source sends
          MAX_TILE                \* bound: most pairs between two clears

\* The register map.  Any other byte address takes the default arm.
Regs == {"ID", "CTRL", "STATUS", "ACC", "SKIP", "UNMAPPED"}

\* Of a written word only CTRL's three bits and their byte strobe matter: the
\* other bits are masked off and the other registers swallow writes.
CtrlWord == [start : BOOLEAN, clear : BOOLEAN, en : BOOLEAN, strb : BOOLEAN]

VARIABLES
    ctrl_reg,                        \* START and CLEAR pulses, EN level
    state, done_q, acc_q, skip_q,    \* tile FSM and result registers
    pe_acc, pe_skip, pe_valid_out,   \* the PE's registers
    \* history: what the ports have seen; no register of the design
    owed,   \* a START was written while BUSY was clear; its tile is not done
    tile,   \* pairs accepted since the tile began or was cleared
    last    \* the completed tile that ACC and SKIP report

Pe == INSTANCE SparseMacPe
        WITH acc <- pe_acc, skip_count <- pe_skip, valid_out <- pe_valid_out

tileVars == <<ctrl_reg, state, done_q, acc_q, skip_q>>
peRegs   == <<pe_acc, pe_skip, pe_valid_out>>
histVars == <<owed, tile, last>>
vars == <<slaveVars, tileVars, peRegs, histVars>>

TileStates == {"S_IDLE", "S_CLEAR", "S_RUN", "S_LATCH"}

ASSUME Widths == /\ {DATA_W, ACC_W, SKIP_W} \subseteq Nat \ {0}
                 /\ {3, ACC_W, SKIP_W} \subseteq 0 .. AXIL_DATA_W
ASSUME Environment == /\ ID_VALUE \in Words
                      /\ WrAddrs \subseteq Regs
                      /\ RdAddrs \subseteq Regs
                      /\ WrData \subseteq CtrlWord
                      /\ Pairs \subseteq Pe!Pair
                      /\ MAX_TILE \in Nat \ {0}

-----------------------------------------------------------------------------
(* Control register: the pulses last one cycle, EN is a level.             *)

start_pulse == ctrl_reg.start
clear_pulse == ctrl_reg.clear
en_reg      == ctrl_reg.en

CtrlReset == [start |-> FALSE, clear |-> FALSE, en |-> TRUE]

ctrl_wr(aw, w) == reg_wr(aw, w, "CTRL")

\* Mutant: the pulses are levels.
CtrlRegSticky(aw, w) ==
    ctrl_reg' = IF ctrl_wr(aw, w) /\ wr_data(w).strb
                THEN [start |-> wr_data(w).start,
                      clear |-> wr_data(w).clear,
                      en    |-> wr_data(w).en]
                ELSE ctrl_reg

CtrlReg(aw, w) ==
    ctrl_reg' = IF ctrl_wr(aw, w) /\ wr_data(w).strb
                THEN [start |-> wr_data(w).start,
                      clear |-> wr_data(w).clear,
                      en    |-> wr_data(w).en]
                ELSE [start |-> FALSE, clear |-> FALSE, en |-> ctrl_reg.en]

-----------------------------------------------------------------------------
(* What the read channel shows                                             *)

\* Mutant: only the registered pulse counts, a cycle late.
start_takenLate(aw, w) == start_pulse

\* A START is visible from the edge its write commits on.
start_taken(aw, w) ==
    start_pulse \/ (ctrl_wr(aw, w) /\ wr_data(w).strb /\ wr_data(w).start)

status_word(taken) ==
    Bit(state # "S_IDLE" \/ taken, 0) + Bit(done_q /\ ~taken, 1)

ctrl_word == Bit(start_pulse, 0) + Bit(clear_pulse, 1) + Bit(en_reg, 2)

\* Mutant: the accumulator is not cast to the bus.
rd_muxUncast(addr, taken) ==
    CASE addr = "ID"     -> ID_VALUE
      [] addr = "CTRL"   -> ctrl_word
      [] addr = "STATUS" -> status_word(taken)
      [] addr = "ACC"    -> acc_q
      [] addr = "SKIP"   -> Unsigned(skip_q, AXIL_DATA_W)
      [] addr = "UNMAPPED" -> 0

rd_mux(addr, taken) ==
    CASE addr = "ID"     -> ID_VALUE
      [] addr = "CTRL"   -> ctrl_word
      [] addr = "STATUS" -> status_word(taken)
      [] addr = "ACC"    -> Unsigned(acc_q, AXIL_DATA_W)
      [] addr = "SKIP"   -> Unsigned(skip_q, AXIL_DATA_W)
      [] addr = "UNMAPPED" -> 0

-----------------------------------------------------------------------------
(* Tile sequencing and the stream                                          *)

\* Mutant: ready is not withdrawn for a clear.
s_axis_treadyOnClear == state = "S_RUN" /\ en_reg

s_axis_tready == state = "S_RUN" /\ en_reg /\ ~clear_pulse

beat(s) == s.valid /\ s_axis_tready

pe_clear == state = "S_CLEAR" \/ clear_pulse
pe_en(s) == beat(s) \/ pe_clear

PeBlock(s) == Pe!PeEdge(pe_en(s), pe_clear, beat(s), s.pair)

\* Mutant: a clear aborts the tile.
next_stateAborts(s) ==
    IF clear_pulse THEN "S_IDLE"
    ELSE IF state = "S_IDLE" /\ start_pulse THEN "S_CLEAR"
    ELSE IF state = "S_CLEAR" THEN "S_RUN"
    ELSE IF state = "S_RUN" /\ beat(s) /\ s.last THEN "S_LATCH"
    ELSE IF state = "S_LATCH" THEN "S_IDLE"
    ELSE state

next_state(s) ==
    IF state = "S_IDLE" /\ start_pulse THEN "S_CLEAR"
    ELSE IF state = "S_CLEAR" THEN "S_RUN"
    ELSE IF state = "S_RUN" /\ beat(s) /\ s.last THEN "S_LATCH"
    ELSE IF state = "S_LATCH" THEN "S_IDLE"
    ELSE state

\* Mutant: DONE survives a START.
next_doneStale == done_q \/ state = "S_LATCH"

next_done == (done_q /\ ~(state = "S_IDLE" /\ start_pulse)) \/ state = "S_LATCH"

\* Mutant: the latch overrides the clear.
latchedFirst(pe_reg, reg) ==
    IF state = "S_LATCH" THEN pe_reg ELSE IF clear_pulse THEN 0 ELSE reg

\* The clear at the end of the block overrides the latch.
latched(pe_reg, reg) ==
    IF clear_pulse THEN 0 ELSE IF state = "S_LATCH" THEN pe_reg ELSE reg

TileFsm(s) ==
    /\ state' = next_state(s)
    /\ done_q' = next_done
    /\ acc_q' = latched(pe_acc, acc_q)
    /\ skip_q' = latched(pe_skip, skip_q)

-----------------------------------------------------------------------------
(* History: what an observer of the ports expects of the design.           *)

\* What a STATUS read would show with no write committing on its edge.
Busy == state # "S_IDLE" \/ start_pulse
Done == done_q /\ ~start_pulse

TileHistory(s) ==
    LET starts == \E wr \in applied' : wr.addr = "CTRL" /\ wr.data.strb /\ wr.data.start
    IN  /\ owed' = IF starts /\ ~Busy THEN TRUE ELSE owed /\ state # "S_LATCH"
        /\ tile' = LET kept == IF clear_pulse \/ (state = "S_IDLE" /\ start_pulse)
                               THEN <<>> ELSE tile
                   IN  IF beat(s) THEN Append(kept, s.pair) ELSE kept
        /\ last' = IF clear_pulse THEN <<>>
                   ELSE IF state = "S_LATCH" THEN tile ELSE last

-----------------------------------------------------------------------------
(* The specification                                                       *)

Init ==
    /\ SlaveInit
    /\ ctrl_reg = CtrlReset
    /\ state = "S_IDLE" /\ done_q = FALSE /\ acc_q = 0 /\ skip_q = 0
    /\ Pe!PeInit
    /\ owed = FALSE /\ tile = <<>> /\ last = <<>>

\* An edge with aresetn low, in any state.
Reset ==
    /\ SlaveReset
    /\ ctrl_reg' = CtrlReset
    /\ state' = "S_IDLE" /\ done_q' = FALSE /\ acc_q' = 0 /\ skip_q' = 0
    /\ Pe!PeReset
    /\ owed' = FALSE /\ tile' = <<>> /\ last' = <<>>

\* An edge out of reset with these values on the input ports.
Cycle(aw, w, bready, ar, rready, s) ==
    /\ SlaveEdge(aw, w, bready, ar, rready, rd_mux(ar.addr, start_taken(aw, w)))
    /\ CtrlReg(aw, w)
    /\ PeBlock(s)
    /\ TileFsm(s)
    /\ TileHistory(s)

NoBeat == [valid |-> FALSE, pair |-> [weight |-> 0, act |-> 0], last |-> FALSE]

\* The source sends at most MAX_TILE pairs before a tlast or a clear.
SPort == Offer(s_axis_tready, NoBeat,
               {s \in [valid : {TRUE}, pair : Pairs, last : BOOLEAN] :
                   Len(tile) + 1 >= MAX_TILE => s.last})

Next ==
    \/ Reset
    \/ \E aw \in AwPort, w \in WPort, bready \in BPort,
          ar \in ArPort, rready \in RPort, s \in SPort :
            Cycle(aw, w, bready, ar, rready, s)

Spec == Init /\ [][Next]_vars

\* Edges on which the FSM moves by itself, and edges that absorb a tile's last beat.
FsmEdge == (start_pulse \/ clear_pulse \/ state \in {"S_CLEAR", "S_LATCH"}) /\ Next

LastBeat ==
    /\ s_axis_tready /\ state' = "S_LATCH"
    /\ \E aw \in AwPort, w \in WPort, bready \in BPort,
          ar \in ArPort, rready \in RPort, s \in SPort :
         s.valid /\ s.last /\ Cycle(aw, w, bready, ar, rready, s)

\* The clock runs, and a tile is finite: its source holds the last beat's valid
\* until the accelerator takes it, however often ready is withdrawn meanwhile.
FairSpec == Spec /\ WF_vars(FsmEdge) /\ SF_vars(LastBeat)

-----------------------------------------------------------------------------
(* Properties                                                              *)

\* Every register holds a value of its width, every history variable what the
\* ports can have shown.
TypeOK ==
    /\ SlaveTypeOK
    /\ ctrl_reg \in [start : BOOLEAN, clear : BOOLEAN, en : BOOLEAN]
    /\ state \in TileStates /\ done_q \in BOOLEAN
    /\ acc_q \in SignedRange(ACC_W) /\ skip_q \in 0 .. 2^SKIP_W - 1
    /\ Pe!PeTypeOK
    /\ owed \in BOOLEAN /\ tile \in Seq(Pe!Pair) /\ last \in Seq(Pe!Pair)

\* START and CLEAR (213-225) pulse on the cycle after a CTRL write that sets
\* them, and on no other: the address and data applied together are the ones
\* the master issued together.
PulsesAreIssuedWrites ==
    LET wrote(bit) == \E wr \in applied : wr.addr = "CTRL" /\ wr.data.strb /\ wr.data[bit]
    IN  start_pulse = wrote("start") /\ clear_pulse = wrote("clear")

\* A STATUS read accepted on or after the edge a START commits on, and before
\* its tile is done, returns BUSY=1 and DONE=0 (237-245): a poll loop needs no
\* fence after the write.
StatusFence ==
    [][ (~rvalid_q /\ rvalid_q' /\ rd_reg' = "STATUS" /\ (owed \/ owed'))
          => rdata_q' = 1 ]_vars

\* While a tile is in flight the PE holds the golden model's totals of exactly
\* the beats accepted since the tile began or was cleared (281-294): no beat is
\* dropped, counted twice, or survives a clear.
AcceptedBeatsAccumulate ==
    state \in {"S_RUN", "S_LATCH"} =>
        [acc |-> pe_acc, skip |-> pe_skip] = Pe!Expected(tile)

\* ACC and SKIP always report one whole completed tile, or zero after a clear
\* (321-355): never a partial accumulation, never one tile's ACC beside
\* another's SKIP.
ResultIsLastTile == [acc |-> acc_q, skip |-> skip_q] = Pe!Expected(last)

\* BUSY falls exactly when DONE rises, and DONE falls only as BUSY rises,
\* except at reset (240-245, 328-347): a poll loop may wait on DONE alone.
BusyDoneTurnover ==
    [][ \/ Reset
        \/ /\ (Busy /\ ~Busy') <=> (~Done /\ Done')
           /\ (Done /\ ~Done') => (~Busy /\ Busy') ]_vars

\* If software leaves EN set, the tile of every START written while BUSY was
\* clear completes (or the block is reset): no order of writes, clears and
\* stalls wedges the FSM (134-139, 321-355).
StartedTileCompletes == <>[]en_reg => (owed ~> ~owed)

\* docs/register-map-sparse-cnn.md: "START is ignored while STATUS.BUSY is
\* set".  A pulse that meets S_IDLE begins a tile, so one committed while BUSY
\* is set must not find the FSM idle (237-238, 328-332).
StartIgnoredWhileBusy == [][ Busy /\ start_pulse' => state' # "S_IDLE" ]_vars
=============================================================================
