------------------------- MODULE SparseCnnAxiProofs -------------------------
(***************************************************************************)
(* Safety of the sparse accelerator's wrapper for every width, every set   *)
(* of writes, reads and operand pairs, and tiles of every length; and of   *)
(* its testbench, which the second half of the module is about.            *)
(***************************************************************************)
EXTENDS SparseCnnOutline, AxiLiteSlaveProofs, SequenceTheorems

\* The ports carry what the environment may put on them.
PortsOK(aw, w, bready, ar, rready, s) ==
    /\ SlavePortsOK(aw, w, bready, ar, rready)
    /\ s \in [valid : BOOLEAN, pair : Pe!Pair, last : BOOLEAN]

\* Zero is an operand of every width, so an idle stream carries a pair too.
LEMMA ZeroPair == [weight |-> 0, act |-> 0] \in Pe!Pair
<1>1. DATA_W \in Nat \ {0} /\ DATA_W - 1 \in Nat
  BY Widths
<1>2. 2^(DATA_W - 1) \in Nat /\ 2^(DATA_W - 1) > 0
  BY <1>1, PowPositive
<1> QED BY <1>2 DEF Pe!Pair, Pe!Operand, Pe!SignedRange

\* Every edge the next-state relation takes has well-typed ports.
LEMMA PortTypes ==
    ASSUME TypeOK,
           NEW aw \in AwPort, NEW w \in WPort, NEW bready \in BPort,
           NEW ar \in ArPort, NEW rready \in RPort, NEW s \in SPort
    PROVE  PortsOK(aw, w, bready, ar, rready, s)
<1>1. SlavePortsOK(aw, w, bready, ar, rready)
  BY SlavePorts DEF TypeOK
<1>2. s \in [valid : BOOLEAN, pair : Pe!Pair, last : BOOLEAN]
  <2>1. CASE s = NoBeat
    BY <2>1, ZeroPair DEF NoBeat
  <2>2. CASE s \in [valid : {TRUE}, pair : Pairs, last : BOOLEAN]
    BY <2>2, Environment
  <2> QED BY <2>1, <2>2 DEF SPort, Offer
<1> QED BY <1>1, <1>2 DEF PortsOK

-----------------------------------------------------------------------------
(* Type correctness                                                        *)

\* The PE's registers keep their widths on every edge.
LEMMA PeTypes ==
    ASSUME TypeOK, NEW s, s \in [valid : BOOLEAN, pair : Pe!Pair, last : BOOLEAN],
           PeBlock(s)
    PROVE  Pe!PeTypeOK'
<1>0. /\ ACC_W \in Nat \ {0} /\ SKIP_W \in Nat /\ DATA_W \in Nat \ {0}
      /\ ACC_W - 1 \in Nat /\ DATA_W - 1 \in Nat
  BY Widths
<1>1. /\ 2^(ACC_W - 1) \in Nat /\ 2^(ACC_W - 1) > 0
      /\ 2^SKIP_W \in Nat /\ 2^SKIP_W > 0
      /\ 2^(DATA_W - 1) \in Nat
  BY <1>0, PowPositive
<1>2. /\ pe_acc \in Int /\ pe_skip \in Int
      /\ pe_acc \in SignedRange(ACC_W) /\ pe_skip \in 0 .. 2^SKIP_W - 1
  BY <1>1 DEF TypeOK, Pe!PeTypeOK, Pe!SignedRange, SignedRange
<1>3. s.pair.weight \in Int /\ s.pair.act \in Int
  BY <1>1 DEF Pe!Pair, Pe!Operand, Pe!SignedRange
<1>4. s.pair.weight * s.pair.act \in Int
  BY <1>3
<1>5. Pe!Product(s.pair) \in Int
  <2>1. Signed(s.pair.weight * s.pair.act, ACC_W) \in SignedRange(ACC_W)
    BY <1>0, <1>4, SignedInRange
  <2>2. \A x \in SignedRange(ACC_W) : x \in Int
    BY <1>1 DEF SignedRange
  <2> QED BY <2>1, <2>2 DEF Pe!Product, Pe!Signed, Signed
<1>6. Pe!Signed(pe_acc + Pe!Product(s.pair), ACC_W) \in SignedRange(ACC_W)
  <2>1. pe_acc + Pe!Product(s.pair) \in Int
    BY <1>2, <1>5
  <2>2. Signed(pe_acc + Pe!Product(s.pair), ACC_W) \in SignedRange(ACC_W)
    BY <1>0, <2>1, SignedInRange
  <2> QED BY <2>2 DEF Signed, Pe!Signed
<1>7. Pe!Unsigned(pe_skip + 1, SKIP_W) \in 0 .. 2^SKIP_W - 1
  <2>1. pe_skip + 1 \in Int
    BY <1>2
  <2>2. Unsigned(pe_skip + 1, SKIP_W) \in 0 .. 2^SKIP_W - 1
    BY <1>0, <2>1, UnsignedInRange
  <2> QED BY <2>2 DEF Unsigned, Pe!Unsigned
<1>8. 0 \in SignedRange(ACC_W) /\ 0 \in 0 .. 2^SKIP_W - 1
  BY <1>1 DEF SignedRange
<1>9. pe_acc' \in SignedRange(ACC_W)
  BY <1>2, <1>6, <1>8 DEF PeBlock, Pe!PeEdge
<1>10. pe_skip' \in 0 .. 2^SKIP_W - 1
  BY <1>2, <1>7, <1>8 DEF PeBlock, Pe!PeEdge
<1>11. pe_valid_out' \in BOOLEAN
  BY DEF PeBlock, Pe!PeEdge
<1> QED BY <1>9, <1>10, <1>11 DEF Pe!PeTypeOK, Pe!SignedRange, SignedRange

\* Every word the read multiplexer can produce fits the bus.
LEMMA ReadWords ==
    ASSUME TypeOK, NEW addr \in Regs, NEW taken \in BOOLEAN
    PROVE  rd_mux(addr, taken) \in Words
<1>1. /\ AXIL_DATA_W \in Nat /\ 3 <= AXIL_DATA_W
      /\ ACC_W \in Nat \ {0} /\ ACC_W - 1 \in Nat /\ SKIP_W \in Nat
  BY Widths, BusWidth
<1>2. 2^AXIL_DATA_W \in Nat /\ 8 <= 2^AXIL_DATA_W
  <2>1. 2^3 = 8
    OBVIOUS
  <2> QED BY <1>1, <2>1, PowPositive, PowMonotone
<1>3. 0 .. 7 \subseteq Words
  BY <1>2 DEF Words
<1>4. acc_q \in Int /\ skip_q \in Int
  <2>1. 2^(ACC_W - 1) \in Nat /\ 2^SKIP_W \in Nat
    BY <1>1, PowPositive
  <2> QED BY <2>1 DEF TypeOK, SignedRange
<1>5. Unsigned(acc_q, AXIL_DATA_W) \in Words /\ Unsigned(skip_q, AXIL_DATA_W) \in Words
  BY <1>1, <1>4, UnsignedInRange DEF Words
<1>6. \A b : Bit(b, 0) \in {0, 1} /\ Bit(b, 1) \in {0, 2} /\ Bit(b, 2) \in {0, 4}
  <2>1. 2^0 = 1 /\ 2^1 = 2 /\ 2^2 = 4
    OBVIOUS
  <2> QED BY <2>1 DEF Bit
<1>7. ctrl_word \in 0 .. 7
  BY <1>6 DEF ctrl_word
<1>8. status_word(taken) \in 0 .. 7
  BY <1>6 DEF status_word
<1>9. ID_VALUE \in Words /\ 0 \in Words /\ ctrl_word \in Words
      /\ status_word(taken) \in Words
  BY <1>3, <1>7, <1>8, Environment
<1> QED BY <1>5, <1>9, Zenon DEF rd_mux, Regs

\* Zero, every register's reset value, is a value of every width.
LEMMA ZeroInRange == 0 \in SignedRange(ACC_W) /\ 0 \in 0 .. 2^SKIP_W - 1
<1>1. ACC_W - 1 \in Nat /\ SKIP_W \in Nat
  BY Widths
<1>2. /\ 2^(ACC_W - 1) \in Nat /\ 2^(ACC_W - 1) > 0
      /\ 2^SKIP_W \in Nat /\ 2^SKIP_W > 0
  BY <1>1, PowPositive
<1> QED BY <1>2 DEF SignedRange

\* Reset leaves every register and history variable well typed.
LEMMA ResetTypes == TypeOK /\ Reset => TypeOK'
<1> SUFFICES ASSUME TypeOK, Reset PROVE TypeOK'
  OBVIOUS
<1>1. SlaveTypeOK'
  BY SlaveResetTypes DEF TypeOK, Reset
<1>2. Pe!PeTypeOK'
  BY ZeroInRange DEF Reset, Pe!PeReset, Pe!PeTypeOK, Pe!SignedRange, SignedRange
<1>3. ctrl_reg' \in [start : BOOLEAN, clear : BOOLEAN, en : BOOLEAN]
  BY DEF Reset, CtrlReset
<1>4. /\ state' \in TileStates /\ done_q' \in BOOLEAN /\ owed' \in BOOLEAN
      /\ acc_q' \in SignedRange(ACC_W) /\ skip_q' \in 0 .. 2^SKIP_W - 1
  BY ZeroInRange DEF Reset, TileStates
<1>5. tile' \in Seq(Pe!Pair) /\ last' \in Seq(Pe!Pair)
  BY DEF Reset
<1> QED BY <1>1, <1>2, <1>3, <1>4, <1>5 DEF TypeOK

\* The initial state is the one reset leaves behind.
LEMMA InitTypes == Init => TypeOK
<1> SUFFICES ASSUME Init PROVE TypeOK
  OBVIOUS
<1>1. SlaveTypeOK
  BY SlaveInitTypes DEF Init
<1>2. Pe!PeTypeOK
  BY ZeroInRange DEF Init, Pe!PeInit, Pe!PeTypeOK, Pe!SignedRange, SignedRange
<1>3. ctrl_reg \in [start : BOOLEAN, clear : BOOLEAN, en : BOOLEAN]
  BY DEF Init, CtrlReset
<1>4. /\ state \in TileStates /\ done_q \in BOOLEAN /\ owed \in BOOLEAN
      /\ acc_q \in SignedRange(ACC_W) /\ skip_q \in 0 .. 2^SKIP_W - 1
  BY ZeroInRange DEF Init, TileStates
<1>5. tile \in Seq(Pe!Pair) /\ last \in Seq(Pe!Pair)
  BY DEF Init
<1> QED BY <1>1, <1>2, <1>3, <1>4, <1>5 DEF TypeOK

\* The word shown to a read of any register is a word of the bus.
LEMMA ShownWord ==
    ASSUME TypeOK, NEW aw, NEW w, NEW bready, NEW ar, NEW rready, NEW s,
           PortsOK(aw, w, bready, ar, rready, s), ar.addr \in RdAddrs
    PROVE  rd_mux(ar.addr, start_taken(aw, w)) \in Words
<1>1. wr_data(w) \in CtrlWord
  BY Environment DEF PortsOK, SlavePortsOK, wr_data, TypeOK, SlaveTypeOK
<1>2. start_taken(aw, w) \in BOOLEAN
  BY <1>1 DEF start_taken, start_pulse, CtrlWord, TypeOK
<1>3. ar.addr \in Regs
  BY Environment
<1> QED BY <1>2, <1>3, ReadWords

\* One edge out of reset, block by block.
LEMMA CycleTypes ==
    ASSUME TypeOK, NEW aw, NEW w, NEW bready, NEW ar, NEW rready, NEW s,
           PortsOK(aw, w, bready, ar, rready, s),
           Cycle(aw, w, bready, ar, rready, s)
    PROVE  TypeOK'
<1>1. SlaveTypeOK'
  <2>1. SlaveTypeOK /\ SlavePortsOK(aw, w, bready, ar, rready)
    BY DEF TypeOK, PortsOK
  <2>2. SlaveEdge(aw, w, bready, ar, rready, rd_mux(ar.addr, start_taken(aw, w)))
    BY DEF Cycle
  <2>3. ar.addr \in RdAddrs => rd_mux(ar.addr, start_taken(aw, w)) \in Words
    BY ShownWord
  <2> QED BY <2>1, <2>2, <2>3, SlaveEdgeTypes
<1>2. wr_data(w) \in CtrlWord
  BY Environment DEF PortsOK, SlavePortsOK, wr_data, TypeOK, SlaveTypeOK
<1>3. ctrl_reg' \in [start : BOOLEAN, clear : BOOLEAN, en : BOOLEAN]
  <2>1. CtrlReg(aw, w)
    BY DEF Cycle
  <2> QED BY <1>2, <2>1 DEF CtrlReg, CtrlWord, TypeOK
<1>4. Pe!PeTypeOK'
  <2>1. PeBlock(s)
    BY DEF Cycle
  <2> QED BY <2>1, PeTypes DEF PortsOK
<1>5. /\ state' \in TileStates /\ done_q' \in BOOLEAN
      /\ acc_q' \in SignedRange(ACC_W) /\ skip_q' \in 0 .. 2^SKIP_W - 1
  <2>1. TileFsm(s)
    BY DEF Cycle
  <2>2. pe_acc \in SignedRange(ACC_W) /\ pe_skip \in 0 .. 2^SKIP_W - 1
    BY DEF TypeOK, Pe!PeTypeOK, Pe!SignedRange, SignedRange
  <2>3. state' \in TileStates /\ done_q' \in BOOLEAN
    BY <2>1 DEF TileFsm, next_state, next_done, latched, TypeOK, TileStates
  <2>4. acc_q' \in SignedRange(ACC_W) /\ skip_q' \in 0 .. 2^SKIP_W - 1
    BY <2>1, <2>2, ZeroInRange DEF TileFsm, next_state, next_done, latched, TypeOK
  <2> QED BY <2>3, <2>4
<1>6. owed' \in BOOLEAN /\ tile' \in Seq(Pe!Pair) /\ last' \in Seq(Pe!Pair)
  <2>1. TileHistory(s)
    BY DEF Cycle
  <2>2. s.pair \in Pe!Pair
    BY DEF PortsOK
  <2>3. owed' \in BOOLEAN
    BY <2>1 DEF TileHistory, TypeOK
  <2>4. tile' \in Seq(Pe!Pair)
    BY <2>1, <2>2 DEF TileHistory, TypeOK
  <2>5. last' \in Seq(Pe!Pair)
    BY <2>1 DEF TileHistory, TypeOK
  <2> QED BY <2>3, <2>4, <2>5
<1> QED BY <1>1, <1>3, <1>4, <1>5, <1>6 DEF TypeOK

\* Every register of sparse_cnn_axi and of its PE keeps a value of its width
\* for ever, whatever the master writes and the source sends.
THEOREM TypeCorrect == Spec => []TypeOK
<1>1. TypeOK /\ [Next]_vars => TypeOK'
  <2> SUFFICES ASSUME TypeOK, [Next]_vars PROVE TypeOK'
    OBVIOUS
  <2>1. CASE Reset
    BY <2>1, ResetTypes
  <2>2. ASSUME NEW aw \in AwPort, NEW w \in WPort, NEW bready \in BPort,
               NEW ar \in ArPort, NEW rready \in RPort, NEW s \in SPort,
               Cycle(aw, w, bready, ar, rready, s)
        PROVE  TypeOK'
    BY <2>2, PortTypes, CycleTypes
  <2>3. CASE UNCHANGED vars
    BY <2>3 DEF vars, slaveVars, tileVars, peRegs, histVars,
                TypeOK, SlaveTypeOK, Pe!PeTypeOK
  <2> QED BY <2>1, <2>2, <2>3 DEF Next
<1> QED BY <1>1, InitTypes, PTL DEF Spec

-----------------------------------------------------------------------------
(* The inductive invariant behind the interface's promises.                *)

\* DONE belongs to an idle FSM, and an owed tile is in flight or about to be.
StatusInv ==
    /\ done_q => state = "S_IDLE"
    /\ owed => Busy

ControlInv ==
    /\ TypeOK
    /\ WriteChannelInv
    /\ PulsesAreIssuedWrites
    /\ StatusInv

\* The writes the history completes on an edge are those the wrapper commits
\* on it, bit by bit.
LEMMA AppliedIsCommit ==
    ASSUME WriteChannelInv, NEW aw, NEW w, NEW bready, NEW ar, NEW rready,
           SlavePortsOK(aw, w, bready, ar, rready),
           SlaveHistory(aw, w, bready, ar), NEW bit
    PROVE  (\E req \in applied' : req.addr = "CTRL" /\ req.data.strb /\ req.data[bit])
           <=> (ctrl_wr(aw, w) /\ wr_data(w).strb /\ wr_data(w)[bit])
<1>1. applied' = IF wr_commit(aw, w)
                 THEN {[addr |-> wr_addr(aw), data |-> wr_data(w)]} ELSE {}
  BY PairingIsCommit
<1>2. CASE wr_commit(aw, w)
  <2>1. applied' = {[addr |-> wr_addr(aw), data |-> wr_data(w)]}
    BY <1>1, <1>2
  <2>2. \A req \in applied' : req.addr = wr_addr(aw) /\ req.data = wr_data(w)
    BY <2>1
  <2>3. \E req \in applied' : req.addr = wr_addr(aw) /\ req.data = wr_data(w)
    BY <2>1
  <2> QED BY <1>2, <2>2, <2>3, Zenon DEF ctrl_wr, reg_wr
<1>3. CASE ~wr_commit(aw, w)
  BY <1>1, <1>3 DEF ctrl_wr, reg_wr
<1> QED BY <1>2, <1>3

\* A tile becomes owed exactly when a START commits while BUSY is clear.
LEMMA OwedIsStart ==
    ASSUME WriteChannelInv, NEW aw, NEW w, NEW bready, NEW ar, NEW rready, NEW s,
           SlavePortsOK(aw, w, bready, ar, rready),
           SlaveHistory(aw, w, bready, ar), TileHistory(s)
    PROVE  owed' = IF /\ ctrl_wr(aw, w) /\ wr_data(w).strb /\ wr_data(w).start
                      /\ ~Busy
                   THEN TRUE ELSE owed /\ state # "S_LATCH"
<1>1. (\E req \in applied' : req.addr = "CTRL" /\ req.data.strb /\ req.data["start"])
      <=> (ctrl_wr(aw, w) /\ wr_data(w).strb /\ wr_data(w)["start"])
  BY AppliedIsCommit
<1>2. (\E req \in applied' : req.addr = "CTRL" /\ req.data.strb /\ req.data.start)
      <=> (ctrl_wr(aw, w) /\ wr_data(w).strb /\ wr_data(w).start)
  BY <1>1
<1> QED BY <1>2, Zenon DEF TileHistory

\* An edge out of reset keeps the invariant.
LEMMA CycleControl ==
    ASSUME ControlInv, NEW aw, NEW w, NEW bready, NEW ar, NEW rready, NEW s,
           PortsOK(aw, w, bready, ar, rready, s),
           Cycle(aw, w, bready, ar, rready, s)
    PROVE  ControlInv'
<1>1. TypeOK /\ WriteChannelInv /\ SlavePortsOK(aw, w, bready, ar, rready)
  BY DEF ControlInv, PortsOK
<1>2. TypeOK'
  BY <1>1, CycleTypes
<1>3. /\ SlaveEdge(aw, w, bready, ar, rready, rd_mux(ar.addr, start_taken(aw, w)))
      /\ CtrlReg(aw, w) /\ TileFsm(s) /\ TileHistory(s)
      /\ SlaveHistory(aw, w, bready, ar)
  BY DEF Cycle, SlaveEdge
<1>4. WriteChannelInv'
  <2>1. ar.addr \in RdAddrs => rd_mux(ar.addr, start_taken(aw, w)) \in Words
    BY <1>1, ShownWord
  <2> QED BY <1>1, <1>3, <2>1, SlaveEdgeInv
<1>5. PulsesAreIssuedWrites'
  <2>1. wr_data(w) \in CtrlWord
    BY <1>1, Environment DEF SlavePortsOK, wr_data, TypeOK, SlaveTypeOK
  <2>2. ctrl_reg' = IF ctrl_wr(aw, w) /\ wr_data(w).strb
                    THEN [start |-> wr_data(w).start, clear |-> wr_data(w).clear,
                          en |-> wr_data(w).en]
                    ELSE [start |-> FALSE, clear |-> FALSE, en |-> ctrl_reg.en]
    BY <1>3 DEF CtrlReg
  <2>3. /\ ctrl_reg'.start = (ctrl_wr(aw, w) /\ wr_data(w).strb /\ wr_data(w).start)
        /\ ctrl_reg'.clear = (ctrl_wr(aw, w) /\ wr_data(w).strb /\ wr_data(w).clear)
    BY <2>1, <2>2 DEF CtrlWord
  <2>4. \A bit : (\E req \in applied' : req.addr = "CTRL" /\ req.data.strb /\ req.data[bit])
                 <=> (ctrl_wr(aw, w) /\ wr_data(w).strb /\ wr_data(w)[bit])
    BY <1>1, <1>3, AppliedIsCommit
  <2>5. /\ wr_data(w)["start"] = wr_data(w).start
        /\ wr_data(w)["clear"] = wr_data(w).clear
    OBVIOUS
  <2> QED BY <2>3, <2>4, <2>5 DEF PulsesAreIssuedWrites, start_pulse, clear_pulse
<1>6. StatusInv'
  <2>1. done_q' => state' = "S_IDLE"
    BY <1>3 DEF TileFsm, next_state, next_done, latched, ControlInv, StatusInv, TypeOK, TileStates
  <2>2. owed' => Busy'
    <3>0. owed' = IF /\ ctrl_wr(aw, w) /\ wr_data(w).strb /\ wr_data(w).start
                     /\ ~Busy
                  THEN TRUE ELSE owed /\ state # "S_LATCH"
      BY <1>1, <1>3, OwedIsStart
    <3>1. CASE ctrl_wr(aw, w) /\ wr_data(w).strb /\ wr_data(w).start
      <4>1. ctrl_reg' = [start |-> wr_data(w).start, clear |-> wr_data(w).clear,
                         en |-> wr_data(w).en]
        BY <1>3, <3>1 DEF CtrlReg
      <4> QED BY <3>1, <4>1 DEF Busy, start_pulse
    <3>2. CASE ~(ctrl_wr(aw, w) /\ wr_data(w).strb /\ wr_data(w).start)
      <4>1. owed' => owed /\ state # "S_LATCH" /\ Busy
        BY <3>0, <3>2 DEF ControlInv, StatusInv
      <4>2. owed' => state' # "S_IDLE"
        BY <1>3, <4>1 DEF TileFsm, next_state, next_done, latched, Busy, ControlInv, TypeOK, TileStates
      <4> QED BY <4>2 DEF Busy
    <3> QED BY <3>1, <3>2
  <2> QED BY <2>1, <2>2 DEF StatusInv
<1> QED BY <1>2, <1>4, <1>5, <1>6 DEF ControlInv

\* Reset establishes the invariant from any state.
LEMMA ResetControl == ControlInv /\ Reset => ControlInv'
<1> SUFFICES ASSUME ControlInv, Reset PROVE ControlInv'
  OBVIOUS
<1>1. TypeOK'
  BY ResetTypes DEF ControlInv
<1>2. WriteChannelInv'
  BY SlaveResetInv DEF Reset, ControlInv, TypeOK
<1>3. StatusInv'
  BY DEF Reset, StatusInv
<1>4. PulsesAreIssuedWrites'
  BY DEF Reset, SlaveReset, CtrlReset, PulsesAreIssuedWrites, start_pulse, clear_pulse
<1> QED BY <1>1, <1>2, <1>3, <1>4 DEF ControlInv

\* So does the initial state.
LEMMA InitControl == Init => ControlInv
<1> SUFFICES ASSUME Init PROVE ControlInv
  OBVIOUS
<1>1. TypeOK
  BY InitTypes
<1>2. WriteChannelInv
  BY SlaveInitInv DEF Init
<1>3. StatusInv
  BY DEF Init, StatusInv
<1>4. PulsesAreIssuedWrites
  BY DEF Init, SlaveInit, CtrlReset, PulsesAreIssuedWrites, start_pulse, clear_pulse
<1> QED BY <1>1, <1>2, <1>3, <1>4 DEF ControlInv

\* The invariant is inductive.
LEMMA NextControl == ControlInv /\ [Next]_vars => ControlInv'
<1> SUFFICES ASSUME ControlInv, [Next]_vars PROVE ControlInv'
  OBVIOUS
<1>1. CASE Reset
  BY <1>1, ResetControl
<1>2. ASSUME NEW aw \in AwPort, NEW w \in WPort, NEW bready \in BPort,
             NEW ar \in ArPort, NEW rready \in RPort, NEW s \in SPort,
             Cycle(aw, w, bready, ar, rready, s)
      PROVE  ControlInv'
  <2>1. PortsOK(aw, w, bready, ar, rready, s)
    BY PortTypes DEF ControlInv
  <2> QED BY <1>2, <2>1, CycleControl
<1>3. CASE UNCHANGED vars
  <2>1. TypeOK'
    BY <1>3 DEF ControlInv, TypeOK, SlaveTypeOK, Pe!PeTypeOK,
                vars, slaveVars, tileVars, peRegs, histVars
  <2>2. WriteChannelInv'
    BY <1>3, SlaveStutterInv DEF ControlInv, vars
  <2>3. StatusInv'
    BY <1>3 DEF ControlInv, StatusInv, Busy, start_pulse, vars, tileVars, histVars
  <2>4. PulsesAreIssuedWrites'
    BY <1>3 DEF ControlInv, PulsesAreIssuedWrites, start_pulse, clear_pulse,
                vars, slaveVars, tileVars
  <2> QED BY <2>1, <2>2, <2>3, <2>4 DEF ControlInv
<1> QED BY <1>1, <1>2, <1>3 DEF Next

\* Every write completes once and is answered once, and START and CLEAR pulse
\* for exactly the CTRL writes the master issued: for any interleaving of the
\* address, data and response channels.
THEOREM WritesAreExact == Spec => [](OneResponsePerWrite /\ PulsesAreIssuedWrites)
<1>1. ControlInv => OneResponsePerWrite /\ PulsesAreIssuedWrites
  BY DEF ControlInv, WriteChannelInv
<1> QED BY <1>1, InitControl, NextControl, PTL DEF Spec

\* A STATUS read taken while a START's tile is owed sees BUSY and not DONE, the
\* edge the write commits on included: the register map's poll loop needs no
\* fence, whatever the order of the two channels.
THEOREM FenceHolds == Spec => StatusFence
<1> DEFINE Fence == (~rvalid_q /\ rvalid_q' /\ rd_reg' = "STATUS" /\ (owed \/ owed'))
                      => rdata_q' = 1
<1>1. ControlInv /\ [Next]_vars => [Fence]_vars
  <2> SUFFICES ASSUME ControlInv, Next, ~rvalid_q, rvalid_q', rd_reg' = "STATUS",
                      owed \/ owed'
               PROVE  rdata_q' = 1
    OBVIOUS
  <2>1. CASE Reset
    BY <2>1 DEF Reset, SlaveReset
  <2>2. ASSUME NEW aw \in AwPort, NEW w \in WPort, NEW bready \in BPort,
               NEW ar \in ArPort, NEW rready \in RPort, NEW s \in SPort,
               Cycle(aw, w, bready, ar, rready, s)
        PROVE  rdata_q' = 1
    <3>1. WriteChannelInv /\ SlavePortsOK(aw, w, bready, ar, rready)
      BY PortTypes DEF ControlInv, PortsOK
    <3>2. /\ SlaveHistory(aw, w, bready, ar) /\ TileHistory(s)
          /\ ReadChannel(ar, rready, rd_mux(ar.addr, start_taken(aw, w)))
      BY <2>2 DEF Cycle, SlaveEdge
    <3>3. owed' = IF /\ ctrl_wr(aw, w) /\ wr_data(w).strb /\ wr_data(w).start
                     /\ ~Busy
                  THEN TRUE ELSE owed /\ state # "S_LATCH"
      BY <3>1, <3>2, OwedIsStart
    <3>4. ar_fire(ar)
      BY <3>2 DEF ReadChannel
    <3>5. ar.addr = "STATUS"
      BY <3>2, <3>4 DEF SlaveHistory
    <3>6. rdata_q' = status_word(start_taken(aw, w))
      <4>1. rd_mux(ar.addr, start_taken(aw, w)) = status_word(start_taken(aw, w))
        BY <3>5, Zenon DEF rd_mux
      <4> QED BY <3>2, <3>4, <4>1 DEF ReadChannel
    <3>7. state # "S_IDLE" \/ start_taken(aw, w)
      <4>1. CASE owed
        BY <4>1 DEF ControlInv, StatusInv, Busy, start_taken
      <4>2. CASE ~owed
        BY <3>3, <4>2 DEF start_taken
      <4> QED BY <4>1, <4>2
    <3>8. ~(done_q /\ ~start_taken(aw, w))
      BY <3>7 DEF ControlInv, StatusInv
    <3>9. 2^0 = 1
      OBVIOUS
    <3> QED BY <3>6, <3>7, <3>8, <3>9 DEF status_word, Bit
  <2> QED BY <2>1, <2>2 DEF Next
<1> QED BY <1>1, InitControl, NextControl, PTL DEF Spec, StatusFence

\* BUSY falls exactly as DONE rises and DONE falls only as BUSY rises, reset
\* aside: waiting on DONE alone cannot miss a completion.
THEOREM TurnoverHolds == Spec => BusyDoneTurnover
<1> DEFINE Turnover == \/ Reset
                       \/ /\ (Busy /\ ~Busy') <=> (~Done /\ Done')
                          /\ (Done /\ ~Done') => (~Busy /\ Busy')
<1>1. ControlInv /\ [Next]_vars => [Turnover]_vars
  <2> SUFFICES ASSUME ControlInv, Next PROVE Turnover
    OBVIOUS
  <2>1. CASE Reset
    BY <2>1
  <2>2. ASSUME NEW aw \in AwPort, NEW w \in WPort, NEW bready \in BPort,
               NEW ar \in ArPort, NEW rready \in RPort, NEW s \in SPort,
               Cycle(aw, w, bready, ar, rready, s)
        PROVE  Turnover
    <3>1. TileFsm(s)
      BY <2>2 DEF Cycle
    <3>2. done_q \in BOOLEAN /\ state \in TileStates /\ (done_q => state = "S_IDLE")
      BY DEF ControlInv, TypeOK, StatusInv
    <3>3. /\ state' = "S_IDLE" <=> \/ state = "S_LATCH"
                                   \/ state = "S_IDLE" /\ ~start_pulse
          /\ done_q' <=> \/ done_q /\ ~start_pulse
                         \/ state = "S_LATCH"
      BY <3>1, <3>2 DEF TileFsm, next_state, next_done, latched, TileStates
    <3>4. Busy' <=> state' # "S_IDLE" \/ ctrl_reg'.start
      BY DEF Busy, start_pulse
    <3>5. Done' <=> done_q' /\ ~ctrl_reg'.start
      BY DEF Done, start_pulse
    <3> QED BY <3>2, <3>3, <3>4, <3>5 DEF Busy, Done
  <2> QED BY <2>1, <2>2 DEF Next
<1> QED BY <1>1, InitControl, NextControl, PTL DEF Spec, BusyDoneTurnover

-----------------------------------------------------------------------------
(* The golden model                                                        *)

\* Nothing counted, and what totals are.
NoTotals == [acc |-> 0, skip |-> 0]
Totals == [acc : Int, skip : Nat]

\* What one more pair adds to the golden model's totals.
Tallied(total, pair) ==
    IF Pe!IsZero(pair) THEN [total EXCEPT !.skip = @ + 1]
    ELSE [total EXCEPT !.acc = @ + pair.weight * pair.act]

\* f starts from nothing and counts the pairs of t one by one, up to the m-th.
Counts(f, t, m) ==
    /\ f[0] = NoTotals
    /\ \A n \in 1 .. m : f[n] = Tallied(f[n-1], t[n])

\* The same, and every value of f is a pair of totals.
Tallies(f, t, m) ==
    /\ f \in [0 .. m -> Totals]
    /\ Counts(f, t, m)

\* The operands of a pair are integers.
LEMMA PairTypes ==
    ASSUME NEW pair \in Pe!Pair
    PROVE  pair.weight \in Int /\ pair.act \in Int /\ pair.weight * pair.act \in Int
<1>1. DATA_W - 1 \in Nat
  BY Widths
<1>2. 2^(DATA_W - 1) \in Nat
  BY <1>1, PowPositive
<1>3. pair.weight \in Int /\ pair.act \in Int
  BY <1>2 DEF Pe!Pair, Pe!Operand, Pe!SignedRange
<1> QED BY <1>3

\* One more pair leaves totals.
LEMMA TalliedType ==
    ASSUME NEW total \in Totals, NEW pair \in Pe!Pair
    PROVE  Tallied(total, pair) \in Totals
BY PairTypes DEF Tallied, Totals

\* However long a tile, some function gives the totals of each of its prefixes:
\* were there a shortest prefix without one, one more pair would extend the one
\* before it.
LEMMA RunningExists ==
    ASSUME NEW t \in Seq(Pe!Pair)
    PROVE  \A m \in 0 .. Len(t) : \E f : Tallies(f, t, m)
<1> DEFINE Bad == {m \in 0 .. Len(t) : ~ \E f : Tallies(f, t, m)}
<1> SUFFICES ASSUME Bad # {} PROVE FALSE
  OBVIOUS
<1>1. Bad \subseteq Nat
  OBVIOUS
<1>2. PICK m \in Bad : \A y \in Bad : m <= y
  <2> HIDE DEF Bad
  <2> QED BY <1>1, LeastNat
<1>3. m \in 0 .. Len(t) /\ ~ \E f : Tallies(f, t, m)
  OBVIOUS
<1>4. CASE m = 0
  <2> DEFINE f == [n \in 0 .. 0 |-> NoTotals]
  <2>1. Tallies(f, t, 0)
    BY DEF Tallies, Counts, NoTotals, Totals
  <2> QED BY <1>3, <1>4, <2>1
<1>5. CASE m # 0
  <2>1. m - 1 \in 0 .. Len(t) /\ m - 1 < m /\ m \in 1 .. Len(t)
    BY <1>3, <1>5
  <2>2. m - 1 \notin Bad
    BY <1>2, <2>1
  <2>3. PICK f : Tallies(f, t, m - 1)
    BY <2>1, <2>2
  <2> DEFINE g == [n \in 0 .. m |-> IF n = m THEN Tallied(f[m-1], t[m]) ELSE f[n]]
  <2>4. t[m] \in Pe!Pair /\ f[m-1] \in Totals
    BY <2>1, <2>3 DEF Tallies, Counts
  <2>5. Tallied(f[m-1], t[m]) \in Totals
    BY <2>4, TalliedType
  <2>6. g \in [0 .. m -> Totals]
    BY <2>1, <2>3, <2>5 DEF Tallies, Counts
  <2>7. g[0] = NoTotals
    BY <2>1, <2>3 DEF Tallies, Counts
  <2>8. ASSUME NEW n \in 1 .. m PROVE g[n] = Tallied(g[n-1], t[n])
    <3>1. CASE n = m
      <4>1. g[n] = Tallied(f[m-1], t[m]) /\ g[m-1] = f[m-1]
        BY <2>1, <3>1
      <4> QED BY <3>1, <4>1
    <3>2. CASE n # m
      <4>1. n \in 1 .. m-1 /\ n \in 0 .. m /\ n-1 \in 0 .. m /\ n-1 # m
        BY <2>1, <3>2
      <4>2. g[n] = f[n] /\ g[n-1] = f[n-1]
        BY <4>1, <3>2
      <4> QED BY <4>1, <4>2, <2>3 DEF Tallies, Counts
    <3> QED BY <3>1, <3>2
  <2>9. Tallies(g, t, m)
    <3> HIDE DEF g
    <3> QED BY <2>6, <2>7, <2>8 DEF Tallies, Counts
  <2> QED BY <1>3, <2>9
<1> QED BY <1>4, <1>5

\* And only one does.
LEMMA RunningUnique ==
    ASSUME NEW t, NEW m \in Nat, NEW f, NEW g, Counts(f, t, m), Counts(g, t, m)
    PROVE  \A n \in 0 .. m : f[n] = g[n]
<1> DEFINE Bad == {n \in 0 .. m : f[n] # g[n]}
<1> SUFFICES ASSUME Bad # {} PROVE FALSE
  OBVIOUS
<1>1. Bad \subseteq Nat
  OBVIOUS
<1>2. PICK n \in Bad : \A y \in Bad : n <= y
  <2> HIDE DEF Bad
  <2> QED BY <1>1, LeastNat
<1>3. n \in 0 .. m /\ f[n] # g[n]
  OBVIOUS
<1>4. CASE n = 0
  BY <1>3, <1>4 DEF Counts
<1>5. CASE n # 0
  <2>1. n - 1 \in 0 .. m /\ n - 1 < n /\ n \in 1 .. m
    BY <1>3, <1>5
  <2>2. f[n-1] = g[n-1]
    BY <1>2, <2>1
  <2>3. f[n] = Tallied(f[n-1], t[n]) /\ g[n] = Tallied(g[n-1], t[n])
    BY <2>1 DEF Counts
  <2> QED BY <1>3, <2>2, <2>3
<1> QED BY <1>4, <1>5

\* The recursive function golden is defined by exists, and its values are those
\* totals.
LEMMA GoldenRuns ==
    ASSUME NEW t \in Seq(Pe!Pair)
    PROVE  \E f : Tallies(f, t, Len(t)) /\ Pe!Golden(t) = f[Len(t)]
<1> DEFINE step(f) == [n \in 0 .. Len(t) |->
                         IF n = 0 THEN [acc |-> 0, skip |-> 0]
                         ELSE IF Pe!IsZero(t[n])
                              THEN [f[n-1] EXCEPT !.skip = @ + 1]
                              ELSE [f[n-1] EXCEPT !.acc = @ + t[n].weight * t[n].act]]
           upto == CHOOSE f : f = step(f)
<1>0. Len(t) \in Nat
  OBVIOUS
<1>1. PICK h : Tallies(h, t, Len(t))
  BY <1>0, RunningExists
<1>2. h = step(h)
  <2>1. \A n \in 0 .. Len(t) : h[n] = step(h)[n]
    <3> SUFFICES ASSUME NEW n \in 0 .. Len(t) PROVE h[n] = step(h)[n]
      OBVIOUS
    <3>1. CASE n = 0
      BY <1>1, <3>1 DEF Tallies, Counts, NoTotals
    <3>2. CASE n # 0
      <4>1. n \in 1 .. Len(t)
        BY <1>0, <3>2
      <4>2. h[n] = Tallied(h[n-1], t[n])
        BY <1>1, <4>1 DEF Tallies, Counts
      <4> QED BY <3>2, <4>2 DEF Tallied
    <3> QED BY <3>1, <3>2
  <2>2. h = [n \in 0 .. Len(t) |-> h[n]]
    BY <1>1 DEF Tallies, Counts
  <2> QED BY <2>1, <2>2
<1>3. upto = step(upto)
  <2> HIDE DEF step
  <2> QED BY <1>2
<1>4. Pe!Golden(t) = upto[Len(t)]
  BY DEF Pe!Golden
<1>5. Counts(upto, t, Len(t))
  <2> HIDE DEF upto
  <2> SUFFICES ASSUME NEW f, f = step(f) PROVE Counts(f, t, Len(t))
    BY <1>3
  <2>2. f[0] = NoTotals
    <3>1. 0 \in 0 .. Len(t)
      BY <1>0
    <3>2. step(f)[0] = NoTotals
      BY <3>1 DEF NoTotals
    <3> QED BY <3>2
  <2>3. ASSUME NEW n \in 1 .. Len(t) PROVE f[n] = Tallied(f[n-1], t[n])
    <3>1. n \in 0 .. Len(t) /\ n # 0
      OBVIOUS
    <3>2. step(f)[n] = Tallied(f[n-1], t[n])
      BY <3>1 DEF Tallied
    <3> HIDE DEF step
    <3> QED BY <3>2
  <2> QED BY <2>2, <2>3 DEF Counts
<1>6. upto[Len(t)] = h[Len(t)]
  <2> HIDE DEF upto
  <2>1. Counts(h, t, Len(t))
    BY <1>1 DEF Tallies
  <2>2. \A n \in 0 .. Len(t) : upto[n] = h[n]
    BY <1>0, <1>5, <2>1, RunningUnique
  <2> QED BY <1>0, <2>2
<1> QED BY <1>1, <1>4, <1>6

\* The empty tile totals nothing.
LEMMA GoldenEmpty == Pe!Golden(<<>>) = NoTotals
<1>1. <<>> \in Seq(Pe!Pair) /\ Len(<<>>) = 0
  OBVIOUS
<1> QED BY <1>1, GoldenRuns DEF Tallies, Counts

\* The golden model's totals are an integer and a count.
LEMMA GoldenType ==
    ASSUME NEW t \in Seq(Pe!Pair)
    PROVE  Pe!Golden(t) \in Totals
<1>1. Len(t) \in 0 .. Len(t)
  OBVIOUS
<1> QED BY <1>1, GoldenRuns DEF Tallies, Counts

\* One more pair, wherever the tile got to, counts once.
LEMMA GoldenAppend ==
    ASSUME NEW t \in Seq(Pe!Pair), NEW pair \in Pe!Pair
    PROVE  Pe!Golden(Append(t, pair)) = Tallied(Pe!Golden(t), pair)
<1> DEFINE u == Append(t, pair)
           m == Len(t)
<1>1. /\ u \in Seq(Pe!Pair) /\ m \in Nat /\ Len(u) = m + 1 /\ u[m+1] = pair
      /\ \A n \in 1 .. m : u[n] = t[n]
  OBVIOUS
<1>2. PICK f : Tallies(f, t, m) /\ Pe!Golden(t) = f[m]
  BY GoldenRuns
<1>3. PICK g : Tallies(g, u, m + 1) /\ Pe!Golden(u) = g[m+1]
  BY <1>1, GoldenRuns
<1> HIDE DEF u, m
<1>4. Counts(f, t, m) /\ Counts(g, u, m + 1)
  BY <1>2, <1>3 DEF Tallies
<1>5. g[m] = f[m]
  <2>1. Counts(g, t, m)
    <3>1. \A n \in 1 .. m : n \in 1 .. m+1
      BY <1>1
    <3> QED BY <1>1, <1>4, <3>1 DEF Counts
  <2>2. \A n \in 0 .. m : g[n] = f[n]
    BY <1>1, <1>4, <2>1, RunningUnique
  <2> QED BY <1>1, <2>2
<1>6. g[m+1] = Tallied(g[m], pair)
  <2>1. m + 1 \in 1 .. m+1 /\ (m + 1) - 1 = m
    BY <1>1
  <2>2. g[m+1] = Tallied(g[(m+1)-1], u[m+1])
    BY <1>4, <2>1 DEF Counts
  <2> QED BY <1>1, <2>1, <2>2
<1> QED BY <1>2, <1>3, <1>5, <1>6 DEF u

-----------------------------------------------------------------------------
(* The data path                                                           *)

\* A tile of no pairs shows zeroes.
LEMMA ExpectedEmpty == Pe!Expected(<<>>) = [acc |-> 0, skip |-> 0]
<1>1. ACC_W \in Nat \ {0} /\ SKIP_W \in Nat
  BY Widths
<1>2. Signed(0, ACC_W) = 0
  BY <1>1, ZeroInRange, SignedOfRange
<1>3. Unsigned(0, SKIP_W) = 0
  <2>1. 2^SKIP_W \in Nat /\ 2^SKIP_W > 0
    BY <1>1, PowPositive
  <2> QED BY <2>1 DEF Unsigned
<1>4. Pe!Golden(<<>>).acc = 0 /\ Pe!Golden(<<>>).skip = 0
  BY GoldenEmpty DEF NoTotals
<1> QED BY <1>2, <1>3, <1>4 DEF Pe!Expected, Pe!Signed, Pe!Unsigned, Signed, Unsigned

\* What the registers show of one more pair is what the PE computes from what they
\* showed before, whatever has wrapped: exact totals need not be kept.
LEMMA ExpectedAppend ==
    ASSUME NEW t \in Seq(Pe!Pair), NEW pair \in Pe!Pair
    PROVE  Pe!Expected(Append(t, pair)) =
             IF Pe!IsZero(pair)
             THEN [acc  |-> Pe!Expected(t).acc,
                   skip |-> Pe!Unsigned(Pe!Expected(t).skip + 1, SKIP_W)]
             ELSE [acc  |-> Pe!Signed(Pe!Expected(t).acc + Pe!Product(pair), ACC_W),
                   skip |-> Pe!Expected(t).skip]
<1> DEFINE G == Pe!Golden(t)
           P == pair.weight * pair.act
<1>1. ACC_W \in Nat \ {0} /\ SKIP_W \in Nat
  BY Widths
<1>2. G \in Totals /\ G.acc \in Int /\ G.skip \in Int /\ P \in Int
  BY GoldenType, PairTypes DEF Totals
<1>3. Pe!Golden(Append(t, pair)) = Tallied(G, pair)
  BY GoldenAppend
<1> HIDE DEF G, P
<1>4. Pe!Expected(t) = [acc |-> Signed(G.acc, ACC_W), skip |-> Unsigned(G.skip, SKIP_W)]
  BY DEF Pe!Expected, Pe!Signed, Pe!Unsigned, Signed, Unsigned, G
<1>5. Pe!Expected(Append(t, pair)) = [acc  |-> Signed(Tallied(G, pair).acc, ACC_W),
                                      skip |-> Unsigned(Tallied(G, pair).skip, SKIP_W)]
  BY <1>3 DEF Pe!Expected, Pe!Signed, Pe!Unsigned, Signed, Unsigned
<1>6. CASE Pe!IsZero(pair)
  <2>1. Tallied(G, pair).acc = G.acc /\ Tallied(G, pair).skip = G.skip + 1
    BY <1>2, <1>6 DEF Tallied, Totals
  <2>2. Unsigned(Unsigned(G.skip, SKIP_W) + 1, SKIP_W) = Unsigned(G.skip + 1, SKIP_W)
    BY <1>1, <1>2, UnsignedNext
  <2>3. Pe!Unsigned(Pe!Expected(t).skip + 1, SKIP_W) = Unsigned(G.skip + 1, SKIP_W)
    BY <1>4, <2>2 DEF Pe!Unsigned, Unsigned
  <2> QED BY <1>4, <1>5, <1>6, <2>1, <2>3
<1>7. CASE ~Pe!IsZero(pair)
  <2>1. Tallied(G, pair).acc = G.acc + P /\ Tallied(G, pair).skip = G.skip
    BY <1>2, <1>7 DEF Tallied, Totals, P
  <2>2. Signed(Signed(G.acc, ACC_W) + Signed(P, ACC_W), ACC_W) = Signed(G.acc + P, ACC_W)
    BY <1>1, <1>2, SignedSum
  <2>3. Pe!Signed(Pe!Expected(t).acc + Pe!Product(pair), ACC_W) = Signed(G.acc + P, ACC_W)
    BY <1>4, <2>2 DEF Pe!Product, Pe!Signed, Signed, P
  <2> QED BY <1>4, <1>5, <1>7, <2>1, <2>3
<1> QED BY <1>6, <1>7

\* S_CLEAR zeroes the PE for a tile none of whose pairs has been accepted.
ClearedTileIsEmpty == state = "S_CLEAR" => tile = <<>>

DataInv ==
    /\ TypeOK
    /\ ClearedTileIsEmpty
    /\ AcceptedBeatsAccumulate
    /\ ResultIsLastTile

\* An edge out of reset keeps the data path's invariant.
LEMMA CycleData ==
    ASSUME DataInv, NEW aw, NEW w, NEW bready, NEW ar, NEW rready, NEW s,
           PortsOK(aw, w, bready, ar, rready, s),
           Cycle(aw, w, bready, ar, rready, s)
    PROVE  DataInv'
<1>1. TypeOK'
  BY CycleTypes DEF DataInv
<1>2. /\ PeBlock(s) /\ TileFsm(s) /\ TileHistory(s)
      /\ tile \in Seq(Pe!Pair) /\ s.pair \in Pe!Pair /\ s.valid \in BOOLEAN
      /\ state \in TileStates /\ clear_pulse \in BOOLEAN /\ start_pulse \in BOOLEAN
      /\ en_reg \in BOOLEAN
  BY DEF Cycle, DataInv, TypeOK, PortsOK, clear_pulse, start_pulse, en_reg
<1>3. /\ beat(s) = (s.valid /\ state = "S_RUN" /\ en_reg /\ ~clear_pulse)
      /\ state' = next_state(s)
      /\ acc_q' = latched(pe_acc, acc_q) /\ skip_q' = latched(pe_skip, skip_q)
      /\ last' = IF clear_pulse THEN <<>> ELSE IF state = "S_LATCH" THEN tile ELSE last
  BY <1>2 DEF beat, s_axis_tready, TileFsm, TileHistory
<1>4. tile' = LET kept == IF clear_pulse \/ (state = "S_IDLE" /\ start_pulse)
                          THEN <<>> ELSE tile
              IN  IF beat(s) THEN Append(kept, s.pair) ELSE kept
  BY <1>2 DEF TileHistory
<1>5. ClearedTileIsEmpty'
  <2>1. ASSUME state' = "S_CLEAR" PROVE state = "S_IDLE" /\ start_pulse
    BY <1>2, <1>3, <2>1 DEF next_state, TileStates
  <2> QED BY <1>3, <1>4, <2>1 DEF ClearedTileIsEmpty
<1>6. AcceptedBeatsAccumulate'
  <2> SUFFICES ASSUME state' \in {"S_RUN", "S_LATCH"}
               PROVE  [acc |-> pe_acc', skip |-> pe_skip'] = Pe!Expected(tile')
    BY DEF AcceptedBeatsAccumulate
  <2>1. state \in {"S_CLEAR", "S_RUN"}
    BY <1>2, <1>3 DEF next_state, TileStates
  <2>2. CASE pe_clear
    <3>1. pe_acc' = 0 /\ pe_skip' = 0
      BY <1>2, <2>2 DEF PeBlock, Pe!PeEdge, pe_en
    <3>2. tile' = <<>>
      BY <1>2, <1>3, <1>4, <2>1, <2>2 DEF pe_clear, DataInv, ClearedTileIsEmpty
    <3> QED BY <3>1, <3>2, ExpectedEmpty
  <2>3. CASE ~pe_clear /\ beat(s)
    <3>1. state = "S_RUN" /\ ~clear_pulse
      BY <2>1, <2>3 DEF pe_clear
    <3>2. tile' = Append(tile, s.pair)
      BY <1>4, <2>3, <3>1
    <3>3. Pe!Expected(tile).acc = pe_acc /\ Pe!Expected(tile).skip = pe_skip
      <4>1. [acc |-> pe_acc, skip |-> pe_skip] = Pe!Expected(tile)
        BY <3>1 DEF DataInv, AcceptedBeatsAccumulate
      <4> QED BY <4>1
    <3>4. /\ pe_acc' = IF Pe!IsZero(s.pair) THEN pe_acc
                       ELSE Pe!Signed(pe_acc + Pe!Product(s.pair), ACC_W)
          /\ pe_skip' = IF Pe!IsZero(s.pair) THEN Pe!Unsigned(pe_skip + 1, SKIP_W)
                        ELSE pe_skip
      BY <1>2, <2>3 DEF PeBlock, Pe!PeEdge, pe_en
    <3>5. Pe!Expected(Append(tile, s.pair)) =
             IF Pe!IsZero(s.pair)
             THEN [acc  |-> Pe!Expected(tile).acc,
                   skip |-> Pe!Unsigned(Pe!Expected(tile).skip + 1, SKIP_W)]
             ELSE [acc  |-> Pe!Signed(Pe!Expected(tile).acc + Pe!Product(s.pair), ACC_W),
                   skip |-> Pe!Expected(tile).skip]
      BY <1>2, ExpectedAppend
    <3> QED BY <3>2, <3>3, <3>4, <3>5
  <2>4. CASE ~pe_clear /\ ~beat(s)
    <3>1. state = "S_RUN" /\ ~clear_pulse
      BY <2>1, <2>4 DEF pe_clear
    <3>2. pe_acc' = pe_acc /\ pe_skip' = pe_skip
      BY <1>2, <2>4 DEF PeBlock, Pe!PeEdge, pe_en
    <3>3. tile' = tile
      BY <1>4, <2>4, <3>1
    <3> QED BY <3>1, <3>2, <3>3 DEF DataInv, AcceptedBeatsAccumulate
  <2> QED BY <2>2, <2>3, <2>4
<1>7. ResultIsLastTile'
  <2>1. CASE clear_pulse
    <3>1. acc_q' = 0 /\ skip_q' = 0 /\ last' = <<>>
      BY <1>3, <2>1 DEF latched
    <3> QED BY <3>1, ExpectedEmpty DEF ResultIsLastTile
  <2>2. CASE ~clear_pulse /\ state = "S_LATCH"
    <3>1. acc_q' = pe_acc /\ skip_q' = pe_skip /\ last' = tile
      BY <1>3, <2>2 DEF latched
    <3> QED BY <2>2, <3>1 DEF ResultIsLastTile, DataInv, AcceptedBeatsAccumulate
  <2>3. CASE ~clear_pulse /\ state # "S_LATCH"
    <3>1. acc_q' = acc_q /\ skip_q' = skip_q /\ last' = last
      BY <1>3, <2>3 DEF latched
    <3> QED BY <3>1 DEF ResultIsLastTile, DataInv
  <2> QED BY <2>1, <2>2, <2>3
<1> QED BY <1>1, <1>5, <1>6, <1>7 DEF DataInv

\* The invariant is inductive.
LEMMA NextData == DataInv /\ [Next]_vars => DataInv'
<1> SUFFICES ASSUME DataInv, [Next]_vars PROVE DataInv'
  OBVIOUS
<1>1. CASE Reset
  <2>1. TypeOK'
    BY <1>1, ResetTypes DEF DataInv
  <2>2. ClearedTileIsEmpty' /\ AcceptedBeatsAccumulate'
    BY <1>1 DEF Reset, ClearedTileIsEmpty, AcceptedBeatsAccumulate
  <2>3. ResultIsLastTile'
    BY <1>1, ExpectedEmpty DEF Reset, ResultIsLastTile
  <2> QED BY <2>1, <2>2, <2>3 DEF DataInv
<1>2. ASSUME NEW aw \in AwPort, NEW w \in WPort, NEW bready \in BPort,
             NEW ar \in ArPort, NEW rready \in RPort, NEW s \in SPort,
             Cycle(aw, w, bready, ar, rready, s)
      PROVE  DataInv'
  <2>1. PortsOK(aw, w, bready, ar, rready, s)
    BY PortTypes DEF DataInv
  <2> QED BY <1>2, <2>1, CycleData
<1>3. CASE UNCHANGED vars
  <2>1. TypeOK'
    BY <1>3 DEF DataInv, TypeOK, SlaveTypeOK, Pe!PeTypeOK,
                vars, slaveVars, tileVars, peRegs, histVars
  <2>2. /\ state' = state /\ tile' = tile /\ last' = last /\ acc_q' = acc_q
        /\ skip_q' = skip_q /\ pe_acc' = pe_acc /\ pe_skip' = pe_skip
    BY <1>3 DEF vars, tileVars, peRegs, histVars
  <2>3. ClearedTileIsEmpty' /\ AcceptedBeatsAccumulate' /\ ResultIsLastTile'
    BY <2>2 DEF DataInv, ClearedTileIsEmpty, AcceptedBeatsAccumulate, ResultIsLastTile
  <2> QED BY <2>1, <2>3 DEF DataInv
<1> QED BY <1>1, <1>2, <1>3 DEF Next

\* The registers and the history start empty.
LEMMA InitData == Init => DataInv
<1> SUFFICES ASSUME Init PROVE DataInv
  OBVIOUS
<1>1. TypeOK
  BY InitTypes
<1>2. ClearedTileIsEmpty /\ AcceptedBeatsAccumulate
  BY DEF Init, ClearedTileIsEmpty, AcceptedBeatsAccumulate
<1>3. ResultIsLastTile
  BY ExpectedEmpty DEF Init, ResultIsLastTile
<1> QED BY <1>1, <1>2, <1>3 DEF DataInv

\* While a tile is in flight the PE's registers are the golden model's totals of
\* exactly the beats accepted, for tiles of every length, operands, accumulators
\* and counters of every width, and any stalls and clears between the beats.
THEOREM BeatsAccumulate == Spec => []AcceptedBeatsAccumulate
<1>1. DataInv => AcceptedBeatsAccumulate
  BY DEF DataInv
<1> QED BY <1>1, InitData, NextData, PTL DEF Spec

\* ACC and SKIP are the golden model's totals of one whole completed tile, or zero
\* after a clear, whatever STARTs, clears and writes come in between.
THEOREM ResultsAreWhole == Spec => []ResultIsLastTile
<1>1. DataInv => ResultIsLastTile
  BY DEF DataInv
<1> QED BY <1>1, InitData, NextData, PTL DEF Spec

-----------------------------------------------------------------------------
(* The testbench: the frame in the source                                  *)

\* The pairs of a frame, one by one.
LEMMA PairsFacts ==
    ASSUME NEW f \in Seq(Beat)
    PROVE  /\ PairsOf(f) \in Seq(Pe!Pair) /\ Len(PairsOf(f)) = Len(f)
           /\ \A i \in 1 .. Len(f) : PairsOf(f)[i] = f[i].pair
<1>1. Len(f) \in Nat /\ \A i \in 1 .. Len(f) : f[i] \in Beat
  BY LenProperties, ElementOfSeq
<1>2. PairsOf(f) = [i \in 1 .. Len(f) |-> f[i].pair]
  BY DEF PairsOf
<1>3. \A i \in 1 .. Len(f) : f[i].pair \in Pe!Pair
  BY <1>1 DEF Beat
<1>4. PairsOf(f) \in [1 .. Len(f) -> Pe!Pair]
  BY <1>2, <1>3
<1>5. PairsOf(f) \in Seq(Pe!Pair) /\ Len(PairsOf(f)) = Len(f)
  BY <1>1, <1>4, LenProperties
<1>6. \A i \in 1 .. Len(f) : PairsOf(f)[i] = f[i].pair
  BY <1>2
<1> QED BY <1>5, <1>6

\* What the beats of a frame carry, but for its first.
LEMMA PairsTail ==
    ASSUME NEW f \in Seq(Beat), f # <<>>, NEW t \in Seq(Pe!Pair)
    PROVE  /\ Head(f) \in Beat /\ Tail(f) \in Seq(Beat) /\ Len(Tail(f)) = Len(f) - 1
           /\ t \o PairsOf(f) = Append(t, Head(f).pair) \o PairsOf(Tail(f))
           /\ Framed(f) => Framed(Tail(f)) /\ Head(f).last = (Tail(f) = <<>>)
<1> DEFINE n == Len(f)
           g == Tail(f)
<1>1. n \in Nat /\ n > 0 /\ Head(f) = f[1] /\ f[1] \in Beat
  OBVIOUS
<1>2. g \in Seq(Beat) /\ Len(g) = n - 1 /\ \A i \in 1 .. n - 1 : g[i] = f[i + 1]
  BY HeadTailProperties, EmptySeq
<1>3. (g = <<>>) <=> n = 1
  BY <1>1, <1>2
<1>4. \A i \in 1 .. n : f[i] \in Beat
  BY <1>1
<1>5. /\ PairsOf(f) \in Seq(Pe!Pair) /\ Len(PairsOf(f)) = n
      /\ \A i \in 1 .. n : PairsOf(f)[i] = f[i].pair
  BY PairsFacts
<1>6. /\ PairsOf(g) \in Seq(Pe!Pair) /\ Len(PairsOf(g)) = n - 1
      /\ \A i \in 1 .. n - 1 : PairsOf(g)[i] = g[i].pair
  BY <1>2, PairsFacts
<1> DEFINE p == Head(f).pair
           P == PairsOf(f)
           Q == PairsOf(g)
<1>7. p \in Pe!Pair /\ p = P[1] /\ \A i \in 1 .. n - 1 : Q[i] = P[i + 1]
  <2>1. \A i \in 1 .. n - 1 : i + 1 \in 1 .. n /\ g[i] = f[i + 1]
    BY <1>1, <1>2
  <2>2. p = f[1].pair /\ 1 \in 1 .. n
    BY <1>1
  <2>3. p \in Pe!Pair
    BY <1>1 DEF Beat
  <2> QED BY <1>5, <1>6, <2>1, <2>2, <2>3
<1> HIDE DEF n, g, p, P, Q
<1>8. t \o P = Append(t, p) \o Q
  <2>1. P \in Seq(Pe!Pair) /\ Len(P) = n /\ Q \in Seq(Pe!Pair) /\ Len(Q) = n - 1
    BY <1>5, <1>6 DEF P, Q
  <2> DEFINE m == Len(t)
             u == Append(t, p)
  <2>2. m \in Nat /\ u \in Seq(Pe!Pair) /\ Len(u) = m + 1 /\ u[m + 1] = p
        /\ \A i \in 1 .. m : u[i] = t[i]
    BY <1>7
  <2> HIDE DEF m, u
  <2>3. /\ t \o P \in Seq(Pe!Pair) /\ Len(t \o P) = m + n
        /\ \A i \in 1 .. m + n : (t \o P)[i] = IF i <= m THEN t[i] ELSE P[i - m]
    BY <2>1, ConcatProperties DEF m
  <2>4. /\ u \o Q \in Seq(Pe!Pair) /\ Len(u \o Q) = m + n
        /\ \A i \in 1 .. m + n : (u \o Q)[i] = IF i <= m + 1 THEN u[i] ELSE Q[i - (m + 1)]
    <3>1. /\ u \o Q \in Seq(Pe!Pair) /\ Len(u \o Q) = Len(u) + Len(Q)
          /\ \A i \in 1 .. Len(u) + Len(Q) : (u \o Q)[i] = IF i <= Len(u) THEN u[i] ELSE Q[i - Len(u)]
      BY <2>1, <2>2, ConcatProperties
    <3>2. Len(u) = m + 1 /\ Len(u) + Len(Q) = m + n
      BY <1>1, <2>1, <2>2
    <3> QED BY <3>1, <3>2
  <2>5. ASSUME NEW i \in 1 .. m + n PROVE (t \o P)[i] = (u \o Q)[i]
    <3>1. CASE i <= m
      BY <2>2, <2>3, <2>4, <3>1
    <3>2. CASE i = m + 1
      BY <1>1, <1>7, <2>2, <2>3, <2>4, <3>2
    <3>3. CASE i > m + 1
      <4>1. i - (m + 1) \in 1 .. n - 1 /\ (i - (m + 1)) + 1 = i - m /\ ~(i <= m) /\ ~(i <= m + 1)
        BY <1>1, <2>2, <3>3
      <4>2. Q[i - (m + 1)] = P[i - m]
        BY <1>7, <4>1
      <4> QED BY <2>3, <2>4, <4>1, <4>2
    <3>4. i <= m \/ i = m + 1 \/ i > m + 1
      BY <1>1, <2>2
    <3> QED BY <3>1, <3>2, <3>3, <3>4
  <2> DEFINE X == t \o P
             Y == u \o Q
  <2>6. X \in Seq(Pe!Pair) /\ Y \in Seq(Pe!Pair) /\ Len(X) = Len(Y)
        /\ \A i \in 1 .. Len(X) : X[i] = Y[i]
    BY <2>3, <2>4, <2>5
  <2> HIDE DEF X, Y
  <2>7. X = Y
    BY <2>6, SeqEqual
  <2> QED BY <2>7 DEF X, Y, u
<1>9. ASSUME Framed(f)
      PROVE  Framed(g) /\ Head(f).last = (g = <<>>)
  <2>1. \A i \in 1 .. n : f[i].last = (i = n)
    BY <1>9 DEF Framed, n
  <2>2. f[1].last = (1 = n)
    BY <1>1, <2>1
  <2>3. ASSUME NEW i \in 1 .. n - 1 PROVE g[i].last = (i = n - 1)
    <3>1. i + 1 \in 1 .. n /\ (i + 1 = n <=> i = n - 1)
      BY <1>1
    <3>2. f[i + 1].last = (i + 1 = n)
      BY <2>1, <3>1
    <3>3. (i + 1 = n) = (i = n - 1)
      BY <3>1
    <3>4. g[i] = f[i + 1]
      BY <1>2
    <3> QED BY <3>2, <3>3, <3>4, Zenon
  <2>4. (1 = n) = (g = <<>>)
    BY <1>1, <1>3
  <2>5. Framed(g)
    BY <1>2, <2>3 DEF Framed
  <2>6. Head(f).last = (1 = n)
    BY <1>1, <2>2
  <2> QED BY <2>4, <2>5, <2>6, Zenon
<1> QED BY <1>1, <1>2, <1>8, <1>9 DEF n, g, p, P, Q

\* A frame of no beats carries nothing, and goes on from nothing.
LEMMA PairsEmpty ==
    /\ PairsOf(<<>>) = <<>> /\ Framed(<<>>)
    /\ \A t \in Seq(Pe!Pair) : t \o PairsOf(<<>>) = t
    /\ \A f \in Seq(Beat) : PairsOf(f) \in Seq(Pe!Pair) /\ Len(PairsOf(f)) = Len(f)
                            /\ <<>> \o PairsOf(f) = PairsOf(f)
<1>1. PairsOf(<<>>) = <<>> /\ Framed(<<>>)
  BY DEF PairsOf, Framed
<1>2. ASSUME NEW t \in Seq(Pe!Pair) PROVE t \o <<>> = t
  BY ConcatEmptySeq
<1>3. ASSUME NEW f \in Seq(Beat)
      PROVE  /\ PairsOf(f) \in Seq(Pe!Pair) /\ Len(PairsOf(f)) = Len(f)
             /\ <<>> \o PairsOf(f) = PairsOf(f)
  BY PairsFacts, ConcatEmptySeq
<1> QED BY <1>1, <1>2, <1>3

\* The stall pattern is a sequence of truth values, and pause a place in it.
LEMMA PatternFacts ==
    ASSUME BenchTypes
    PROVE  /\ Len(PausePattern) \in Nat \ {0} /\ DOMAIN PausePattern = 1 .. Len(PausePattern)
           /\ \A i \in 1 .. Len(PausePattern) : PausePattern[i] \in BOOLEAN
           /\ pause \in 0 .. Len(PausePattern)
           /\ pause # 0 => PausePattern[pause] \in BOOLEAN
<1>1. PausePattern \in Seq(BOOLEAN) /\ PausePattern # <<>>
  BY BenchAssumption
<1>2. Len(PausePattern) \in Nat \ {0} /\ DOMAIN PausePattern = 1 .. Len(PausePattern)
  BY <1>1, EmptySeq, LenProperties
<1>3. \A i \in 1 .. Len(PausePattern) : PausePattern[i] \in BOOLEAN
  BY <1>1, ElementOfSeq
<1>4. pause \in 0 .. Len(PausePattern)
  BY DEF BenchTypes
<1>5. pause # 0 => pause \in 1 .. Len(PausePattern)
  BY <1>2, <1>4
<1> QED BY <1>2, <1>3, <1>4, <1>5

\* What the source does on an edge out of reset.
LEMMA SourceFacts ==
    ASSUME BenchTypes, aresetn = TRUE, offered => frame # <<>>,
           NEW ready \in BOOLEAN, SourceEdge(ready)
    PROVE  /\ frame' = IF offered /\ ready THEN Tail(frame) ELSE frame
           /\ frame' \in Seq(Beat) /\ Len(frame) \in Nat
           /\ offered /\ ready => Len(frame) > 0
           /\ Len(frame') = IF offered /\ ready THEN Len(frame) - 1 ELSE Len(frame)
           /\ offered' \in BOOLEAN /\ (offered' => frame' # <<>>)
           /\ pause' = IF pause = 0 THEN 0 ELSE (pause % Len(PausePattern)) + 1
           /\ pause' \in 0 .. Len(PausePattern)
           /\ frame' # <<>> /\ (pause = 0 \/ ~PausePattern[pause] \/ (offered /\ ~ready)) => offered'
<1>1. /\ frame \in Seq(Beat) /\ offered \in BOOLEAN
      /\ Len(PausePattern) \in Nat \ {0} /\ pause \in 0 .. Len(PausePattern)
      /\ pause # 0 => PausePattern[pause] \in BOOLEAN
  BY PatternFacts DEF BenchTypes
<1>2. /\ pause' = IF pause = 0 THEN 0 ELSE (pause % Len(PausePattern)) + 1
      /\ frame' = IF offered /\ ready THEN Tail(frame) ELSE frame
      /\ offered' = ((IF offered /\ ready THEN Tail(frame) ELSE frame) # <<>>
                     /\ ((offered /\ ~(offered /\ ready)) \/ ~(pause # 0 /\ PausePattern[pause])))
  BY DEF SourceEdge
<1>3. pause' \in 0 .. Len(PausePattern)
  <2>1. pause % Len(PausePattern) \in 0 .. Len(PausePattern) - 1
    BY <1>1
  <2> QED BY <1>1, <1>2, <2>1
<1>4. Len(frame) \in Nat /\ (offered /\ ready => Len(frame) > 0)
  BY <1>1, EmptySeq
<1>5. frame' \in Seq(Beat) /\ Len(frame') = IF offered /\ ready THEN Len(frame) - 1 ELSE Len(frame)
  <2>1. CASE offered /\ ready
    <3>1. frame' = Tail(frame) /\ frame # <<>>
      BY <1>2, <2>1
    <3> QED BY <1>1, <2>1, <3>1, HeadTailProperties
  <2>2. CASE ~(offered /\ ready)
    BY <1>1, <1>2, <2>2
  <2> QED BY <2>1, <2>2
<1>6. offered' = (frame' # <<>> /\ ((offered /\ ~ready) \/ ~(pause # 0 /\ PausePattern[pause])))
  BY <1>1, <1>2
<1>7. offered' \in BOOLEAN /\ (offered' => frame' # <<>>)
  BY <1>6
<1>8. frame' # <<>> /\ (pause = 0 \/ ~PausePattern[pause] \/ (offered /\ ~ready)) => offered'
  BY <1>6
<1> QED BY <1>2, <1>3, <1>4, <1>5, <1>7, <1>8

\* What the source presents.
LEMMA SPinFacts ==
    ASSUME BenchTypes, offered => frame # <<>>
    PROVE  /\ SPin \in [valid : BOOLEAN, pair : Pe!Pair, last : BOOLEAN]
           /\ SPin.valid = offered /\ (offered => SPin = Head(frame))
<1>1. frame \in Seq(Beat) /\ offered \in BOOLEAN
  BY DEF BenchTypes
<1>2. CASE offered
  <2>1. Head(frame) \in Beat
    BY <1>1, <1>2, HeadTailProperties
  <2>2. SPin = Head(frame)
    BY <1>2 DEF SPin
  <2> QED BY <1>1, <1>2, <2>1, <2>2 DEF Beat
<1>3. CASE ~offered
  <2>1. SPin = NoBeat
    BY <1>3 DEF SPin
  <2> QED BY <1>1, <1>3, <2>1, ZeroPair DEF NoBeat
<1> QED BY <1>2, <1>3

\* What the testbench puts on the ports is what the ports may carry.
LEMMA PinTypes ==
    ASSUME BenchTypes, offered => frame # <<>>
    PROVE  PortsOK(AwPin, WPin, BPin, ArPin, RPin, SPin)
<1>1. SlavePortsOK(AwPin, WPin, BPin, ArPin, RPin)
  <2>1. wr \in [addr : WrAddrs, data : WrData] /\ ra \in RdAddrs
    BY DEF BenchTypes
  <2>2. AwPin \in [valid : BOOLEAN, addr : WrAddrs]
    BY <2>1 DEF AwPin
  <2>3. WPin \in [valid : BOOLEAN, data : WrData]
    BY <2>1 DEF WPin
  <2>4. /\ ArPin \in [valid : BOOLEAN, addr : RdAddrs \cup {"NONE"}]
        /\ ArPin.addr \in RdAddrs
    BY <2>1 DEF ArPin
  <2>5. BPin \in BOOLEAN /\ RPin \in BOOLEAN
    BY DEF BPin, RPin
  <2> QED BY <2>2, <2>3, <2>4, <2>5 DEF SlavePortsOK
<1> QED BY <1>1, SPinFacts DEF PortsOK

\* What the accelerator guarantees in its own environment.
AccelInv == DataInv /\ ControlInv

\* It guarantees the same in the testbench.
LEMMA BenchAccel ==
    ASSUME AccelInv, BenchTypes, offered => frame # <<>>, Dut
    PROVE  AccelInv'
<1>1. CASE ~aresetn
  <2>1. Reset /\ ControlInv'
    BY <1>1, ResetControl DEF Dut, AccelInv
  <2>2. DataInv'
    BY <2>1, NextData DEF AccelInv, Next
  <2> QED BY <2>1, <2>2 DEF AccelInv
<1>2. CASE aresetn
  <2>1. Cycle(AwPin, WPin, BPin, ArPin, RPin, SPin)
    BY <1>2 DEF Dut
  <2>2. PortsOK(AwPin, WPin, BPin, ArPin, RPin, SPin)
    BY PinTypes
  <2> QED BY <2>1, <2>2, CycleData, CycleControl DEF AccelInv
<1> QED BY <1>1, <1>2

\* The accelerator takes a beat on this edge.
Taken == offered /\ s_axis_tready

\* An edge out of reset, as the tile sees it.
Clocked ==
    /\ aresetn = TRUE
    /\ Cycle(AwPin, WPin, BPin, ArPin, RPin, SPin)
    /\ SourceEdge(s_axis_tready) /\ CounterEdge(s_axis_tready)
    /\ UNCHANGED <<test, tiles, split, saw>>

\* What the accelerator, the source and the counter do on it.
LEMMA ClockedFacts ==
    ASSUME AccelInv, BenchTypes, offered => frame # <<>>, Clocked
    PROVE  /\ s_axis_tready \in BOOLEAN /\ Taken \in BOOLEAN
           /\ Taken = (offered /\ state = "S_RUN" /\ en_reg /\ ~clear_pulse)
           /\ state \in TileStates /\ {start_pulse, clear_pulse, en_reg, done_q} \subseteq BOOLEAN
           /\ state' = IF state = "S_IDLE" THEN IF start_pulse THEN "S_CLEAR" ELSE "S_IDLE"
                       ELSE IF state = "S_CLEAR" THEN "S_RUN"
                       ELSE IF state = "S_LATCH" THEN "S_IDLE"
                       ELSE IF Taken /\ Head(frame).last THEN "S_LATCH" ELSE "S_RUN"
           /\ done_q' = ((done_q /\ ~(state = "S_IDLE" /\ start_pulse)) \/ state = "S_LATCH")
           /\ tile \in Seq(Pe!Pair)
           /\ tile' = LET kept == IF clear_pulse \/ (state = "S_IDLE" /\ start_pulse)
                                  THEN <<>> ELSE tile
                      IN  IF Taken THEN Append(kept, Head(frame).pair) ELSE kept
           /\ last' = IF clear_pulse THEN <<>> ELSE IF state = "S_LATCH" THEN tile ELSE last
           /\ frame' = IF Taken THEN Tail(frame) ELSE frame
           /\ consumed' = (IF Taken THEN consumed + 1 ELSE consumed) /\ shown' = consumed
<1>1. /\ TypeOK /\ Cycle(AwPin, WPin, BPin, ArPin, RPin, SPin)
      /\ SourceEdge(s_axis_tready) /\ CounterEdge(s_axis_tready) /\ aresetn = TRUE
  BY DEF AccelInv, DataInv, Clocked
<1>2. /\ state \in TileStates /\ tile \in Seq(Pe!Pair) /\ offered \in BOOLEAN
      /\ {start_pulse, clear_pulse, en_reg, done_q} \subseteq BOOLEAN
  BY <1>1 DEF TypeOK, start_pulse, clear_pulse, en_reg, BenchTypes
<1>3. s_axis_tready = (state = "S_RUN" /\ en_reg /\ ~clear_pulse) /\ s_axis_tready \in BOOLEAN
  BY <1>2 DEF s_axis_tready
<1>4. Taken = (offered /\ state = "S_RUN" /\ en_reg /\ ~clear_pulse) /\ Taken \in BOOLEAN
  BY <1>2, <1>3 DEF Taken
<1>5. SPin.valid = offered /\ (offered => SPin = Head(frame))
  BY SPinFacts
<1>6. beat(SPin) = Taken
  BY <1>2, <1>3, <1>5 DEF beat, Taken
<1>7. /\ state' = next_state(SPin) /\ done_q' = next_done
      /\ tile' = LET kept == IF clear_pulse \/ (state = "S_IDLE" /\ start_pulse)
                             THEN <<>> ELSE tile
                 IN  IF beat(SPin) THEN Append(kept, SPin.pair) ELSE kept
      /\ last' = IF clear_pulse THEN <<>> ELSE IF state = "S_LATCH" THEN tile ELSE last
  BY <1>1 DEF Cycle, TileFsm, TileHistory
<1>8. Taken => SPin = Head(frame)
  BY <1>5 DEF Taken
<1>9. state' = IF state = "S_IDLE" THEN IF start_pulse THEN "S_CLEAR" ELSE "S_IDLE"
               ELSE IF state = "S_CLEAR" THEN "S_RUN"
               ELSE IF state = "S_LATCH" THEN "S_IDLE"
               ELSE IF Taken /\ Head(frame).last THEN "S_LATCH" ELSE "S_RUN"
  <2>1. (state = "S_RUN" /\ beat(SPin) /\ SPin.last) = (state = "S_RUN" /\ Taken /\ Head(frame).last)
    BY <1>6, <1>8
  <2> QED BY <1>2, <1>7, <2>1 DEF next_state, TileStates
<1>10. done_q' = ((done_q /\ ~(state = "S_IDLE" /\ start_pulse)) \/ state = "S_LATCH")
  BY <1>7 DEF next_done
<1>11. tile' = LET kept == IF clear_pulse \/ (state = "S_IDLE" /\ start_pulse)
                           THEN <<>> ELSE tile
               IN  IF Taken THEN Append(kept, Head(frame).pair) ELSE kept
  BY <1>6, <1>7, <1>8
<1>12. frame' = IF Taken THEN Tail(frame) ELSE frame
  BY <1>1, <1>3, SourceFacts DEF Taken
<1>13. consumed' = (IF Taken THEN consumed + 1 ELSE consumed) /\ shown' = consumed
  BY <1>1 DEF CounterEdge, Taken
<1> QED BY <1>2, <1>3, <1>4, <1>7, <1>9, <1>10, <1>11, <1>12, <1>13

-----------------------------------------------------------------------------
(* The tile, the source and the counter on an edge                         *)

\* The fields of a context.
LEMMA ContextFields ==
    ASSUME NEW c \in Contexts
    PROVE  /\ c \in Shapes
           /\ c.mode = "polled" => c.sent /\ c.en
           /\ c.count \in {"still", "cut"} => ~c.en
BY DEF Contexts

\* The fields of a shape.
LEMMA ShapeFields ==
    ASSUME NEW c \in Shapes
    PROVE  /\ c.mode \in {"idle", "busy", "polled"} /\ c.en \in BOOLEAN /\ c.goal \in Nat
           /\ c.sent \in BOOLEAN /\ c.last \in Nat /\ c.done \in BOOLEAN /\ c.open \in BOOLEAN
           /\ c.source \in {"free", "steady", "paused"}
           /\ c.count \in {"none", "moving", "still", "cut"}
           /\ c.watch \in {"none", "first", "seen"}
BY DEF Shapes

\* Contexts that agree on the tile have it in the same place.
LEMMA SameTile ==
    ASSUME NEW c, NEW d, NEW b,
           d.sent = c.sent, d.goal = c.goal, d.last = c.last, d.done = c.done,
           d.mode = "idle" <=> c.mode = "idle"
    PROVE  (TileAt(c, b) => TileAt(d, b)) /\ (TileAt(c, b)' => TileAt(d, b)')
<1>1. TileAt(c, b) => TileAt(d, b)
  BY DEF TileAt, Resting, Underway, Complete, Ahead
<1>2. TileAt(c, b)' => TileAt(d, b)'
  BY DEF TileAt, Resting, Underway, Complete, Ahead
<1> QED BY <1>1, <1>2

\* The results a test expects do not change on an edge.
LEMMA ResultSame ==
    ASSUME UNCHANGED <<tiles, split>>
    PROVE  \A k : Result(k)' = Result(k)
BY DEF Result

\* An edge without a CLEAR: the tile goes on as the outline says.
LEMMA TileMoves ==
    ASSUME AccelInv, BenchTypes, Clocked, clear_pulse = FALSE,
           NEW c \in Shapes, TileAt(c, start_pulse), SourceAt(c)
    PROVE  TileAt(c, FALSE)'
<1>1. /\ offered => frame # <<>>
      /\ Framed(frame) /\ frame \in Seq(Beat) /\ offered \in BOOLEAN
      /\ start_pulse \in BOOLEAN
  BY ClockedFacts DEF SourceAt, BenchTypes
<1>2. /\ Taken = (offered /\ state = "S_RUN" /\ en_reg /\ ~clear_pulse)
      /\ state' = IF state = "S_IDLE" THEN IF start_pulse THEN "S_CLEAR" ELSE "S_IDLE"
                  ELSE IF state = "S_CLEAR" THEN "S_RUN"
                  ELSE IF state = "S_LATCH" THEN "S_IDLE"
                  ELSE IF Taken /\ Head(frame).last THEN "S_LATCH" ELSE "S_RUN"
      /\ done_q' = ((done_q /\ ~(state = "S_IDLE" /\ start_pulse)) \/ state = "S_LATCH")
      /\ tile \in Seq(Pe!Pair)
      /\ tile' = LET kept == IF clear_pulse \/ (state = "S_IDLE" /\ start_pulse)
                             THEN <<>> ELSE tile
                 IN  IF Taken THEN Append(kept, Head(frame).pair) ELSE kept
      /\ last' = IF clear_pulse THEN <<>> ELSE IF state = "S_LATCH" THEN tile ELSE last
      /\ frame' = IF Taken THEN Tail(frame) ELSE frame
      /\ done_q \in BOOLEAN /\ Taken \in BOOLEAN
  BY <1>1, ClockedFacts
<1>3. \A k : Result(k)' = Result(k)
  BY ResultSame DEF Clocked
<1>4. /\ PairsOf(<<>>) = <<>> /\ \A t \in Seq(Pe!Pair) : t \o PairsOf(<<>>) = t
      /\ <<>> \o PairsOf(frame) = PairsOf(frame)
  BY <1>1, PairsEmpty
<1>5. Taken => /\ frame # <<>>
               /\ Head(frame).pair \in Pe!Pair /\ Append(tile, Head(frame).pair) \in Seq(Pe!Pair)
               /\ tile \o PairsOf(frame) = Append(tile, Head(frame).pair) \o PairsOf(Tail(frame))
               /\ Head(frame).last = (Tail(frame) = <<>>)
  <2> SUFFICES ASSUME Taken
               PROVE  /\ frame # <<>>
                      /\ Head(frame).pair \in Pe!Pair
                      /\ Append(tile, Head(frame).pair) \in Seq(Pe!Pair)
                      /\ tile \o PairsOf(frame)
                           = Append(tile, Head(frame).pair) \o PairsOf(Tail(frame))
                      /\ Head(frame).last = (Tail(frame) = <<>>)
    OBVIOUS
  <2>1. frame # <<>>
    BY <1>1, <1>2
  <2>2. frame \in Seq(Beat) /\ Framed(frame) /\ tile \in Seq(Pe!Pair)
    BY <1>1, <1>2
  <2>3. /\ Head(frame) \in Beat
        /\ tile \o PairsOf(frame) = Append(tile, Head(frame).pair) \o PairsOf(Tail(frame))
        /\ Head(frame).last = (Tail(frame) = <<>>)
    BY <2>1, <2>2, PairsTail
  <2>4. Head(frame).pair \in Pe!Pair
    BY <2>3 DEF Beat
  <2>5. Append(tile, Head(frame).pair) \in Seq(Pe!Pair)
    BY <2>2, <2>4, AppendProperties
  <2> QED BY <2>1, <2>3, <2>4, <2>5
<1>6. ~c.sent => frame = <<>> /\ frame' = <<>>
  <2>1. ~c.sent => frame = <<>>
    BY DEF TileAt
  <2> QED BY <1>2, <1>5, <2>1
<1>7. c.sent \in BOOLEAN /\ c.mode \in {"idle", "busy", "polled"} /\ c.done \in BOOLEAN
  BY ShapeFields
<1>8. CASE c.mode = "idle"
  <2>1. /\ state = "S_IDLE" /\ start_pulse = FALSE /\ done_q = c.done
        /\ last = Result(c.last) /\ Ahead(c)
    BY <1>1, <1>8 DEF TileAt, Resting
  <2>2. state' = "S_IDLE" /\ done_q' = c.done /\ last' = last /\ frame' = frame
    BY <1>2, <1>7, <2>1
  <2>3. Ahead(c)'
    BY <1>3, <2>1, <2>2 DEF Ahead, PairsOf
  <2>4. Resting(c, FALSE)'
    BY <1>3, <2>1, <2>2, <2>3 DEF Resting
  <2> QED BY <1>6, <1>8, <2>4 DEF TileAt
<1>9. CASE c.mode # "idle" /\ Underway(c, start_pulse)
  <2>1. last = Result(c.last)
    BY <1>9 DEF Underway
  <2>2. CASE state = "S_IDLE" /\ start_pulse /\ Ahead(c)
    <3>1. state' = "S_CLEAR" /\ done_q' = FALSE /\ last' = last /\ frame' = frame
      BY <1>2, <2>2
    <3>2. Ahead(c)'
      BY <1>3, <2>2, <3>1 DEF Ahead, PairsOf
    <3>3. Underway(c, FALSE)'
      BY <1>3, <2>1, <3>1, <3>2 DEF Underway
    <3> QED BY <1>6, <1>9, <3>3 DEF TileAt
  <2>3. CASE state = "S_CLEAR" /\ ~start_pulse /\ done_q = FALSE /\ Ahead(c)
    <3>1. tile = <<>>
      BY <2>3 DEF AccelInv, DataInv, ClearedTileIsEmpty
    <3>2. /\ state' = "S_RUN" /\ done_q' = FALSE /\ last' = last /\ frame' = frame
          /\ tile' = <<>>
      BY <1>2, <2>3, <3>1
    <3>3. c.sent => frame' # <<>> /\ tile' \o PairsOf(frame)' = Result(c.goal)
      BY <1>4, <2>3, <3>2 DEF Ahead, PairsOf
    <3>4. Underway(c, FALSE)'
      BY <1>3, <1>7, <2>1, <3>2, <3>3 DEF Underway
    <3> QED BY <1>6, <1>9, <3>4 DEF TileAt
  <2>4. CASE /\ state = "S_RUN" /\ ~start_pulse /\ done_q = FALSE
             /\ IF c.sent THEN frame # <<>> /\ tile \o PairsOf(frame) = Result(c.goal)
                ELSE tile = <<>>
    <3>1. last' = last /\ done_q' = FALSE
      BY <1>2, <2>4
    <3>2. CASE ~Taken
      <4>1. state' = "S_RUN" /\ frame' = frame /\ tile' = tile
        BY <1>2, <2>4, <3>2
      <4>2. PairsOf(frame)' = PairsOf(frame)
        BY <4>1 DEF PairsOf
      <4>3. Underway(c, FALSE)'
        BY <1>3, <2>1, <2>4, <3>1, <4>1, <4>2 DEF Underway
      <4> QED BY <1>6, <1>9, <4>3 DEF TileAt
    <3>3. CASE Taken
      <4>1. /\ c.sent
            /\ frame' = Tail(frame) /\ tile' = Append(tile, Head(frame).pair)
            /\ state' = IF frame' = <<>> THEN "S_LATCH" ELSE "S_RUN"
        BY <1>2, <1>5, <1>6, <2>4, <3>3
      <4>2. tile' \o PairsOf(frame)' = Result(c.goal)
        BY <1>5, <2>4, <3>3, <4>1 DEF PairsOf
      <4>3. CASE frame' = <<>>
        <5>1. PairsOf(frame)' = PairsOf(<<>>)
          BY <4>3 DEF PairsOf
        <5>2. tile' = Result(c.goal)
          BY <1>4, <1>5, <3>3, <4>1, <4>2, <5>1
        <5>3. Underway(c, FALSE)'
          BY <1>3, <2>1, <3>1, <4>1, <4>3, <5>2 DEF Underway
        <5> QED BY <1>6, <1>9, <5>3 DEF TileAt
      <4>4. CASE frame' # <<>>
        <5>1. Underway(c, FALSE)'
          BY <1>3, <2>1, <3>1, <4>1, <4>2, <4>4 DEF Underway
        <5> QED BY <1>6, <1>9, <5>1 DEF TileAt
      <4> QED BY <4>3, <4>4
    <3> QED BY <1>2, <3>2, <3>3
  <2>5. CASE state = "S_LATCH" /\ ~start_pulse /\ c.sent /\ frame = <<>> /\ tile = Result(c.goal)
    <3>1. state' = "S_IDLE" /\ done_q' = TRUE /\ last' = Result(c.goal) /\ frame' = <<>>
      BY <1>2, <2>5
    <3>2. Complete(c, FALSE)'
      BY <1>3, <2>5, <3>1 DEF Complete
    <3> QED BY <1>6, <1>9, <3>2 DEF TileAt
  <2> QED BY <1>9, <2>2, <2>3, <2>4, <2>5 DEF Underway
<1>10. CASE c.mode # "idle" /\ Complete(c, start_pulse)
  <2>1. /\ c.sent /\ state = "S_IDLE" /\ start_pulse = FALSE /\ done_q = TRUE
        /\ frame = <<>> /\ last = Result(c.goal)
    BY <1>1, <1>10 DEF Complete
  <2>2. state' = "S_IDLE" /\ done_q' = TRUE /\ last' = Result(c.goal) /\ frame' = <<>>
    BY <1>2, <2>1
  <2>3. Complete(c, FALSE)'
    BY <1>3, <2>1, <2>2 DEF Complete
  <2> QED BY <1>6, <1>10, <2>3 DEF TileAt
<1> QED BY <1>7, <1>8, <1>9, <1>10 DEF TileAt

\* What the source still holds is what a tile that was split there has left.
LEMMA SplitRest ==
    ASSUME NEW t \in Seq(Pe!Pair), NEW u \in Seq(Pe!Pair)
    PROVE  /\ Len(t \o u) \in Nat /\ Len(u) \in Nat
           /\ SubSeq(t \o u, (Len(t \o u) - Len(u)) + 1, Len(t \o u)) = u
<1> DEFINE m == Len(t)
           n == Len(u)
           w == t \o u
           v == SubSeq(w, (Len(w) - n) + 1, Len(w))
<1>1. /\ m \in Nat /\ n \in Nat /\ w \in Seq(Pe!Pair) /\ Len(w) = m + n
      /\ \A i \in 1 .. m + n : w[i] = IF i <= m THEN t[i] ELSE u[i - m]
  BY ConcatProperties
<1> HIDE DEF m, n, w
<1>2. Len(w) - n = m /\ v = SubSeq(w, m + 1, m + n)
  BY <1>1 DEF v
<1> HIDE DEF v
<1>3. /\ v \in Seq(Pe!Pair) /\ Len(v) = n /\ \A i \in 1 .. n : v[i] = w[m + i]
  <2>1. \A i \in m + 1 .. m + n : w[i] \in Pe!Pair
    BY <1>1
  <2>2. Len(v) = IF m + 1 <= m + n THEN ((m + n) - (m + 1)) + 1 ELSE 0
    BY <1>1, <1>2, <2>1, SubSeqProperties
  <2>3. v \in Seq(Pe!Pair)
    BY <1>1, <1>2, <2>1, SubSeqProperties
  <2>4. ASSUME NEW i \in 1 .. n PROVE v[i] = w[m + i]
    <3>1. \A j \in 1 .. (m + n) - (m + 1) + 1 : SubSeq(w, m + 1, m + n)[j] = w[(m + 1) + j - 1]
      BY <1>1, <2>1, SubSeqProperties
    <3>2. i \in 1 .. (m + n) - (m + 1) + 1 /\ (m + 1) + i - 1 = m + i
      BY <1>1
    <3> QED BY <1>2, <3>1, <3>2
  <2>5. Len(v) = n
    BY <1>1, <2>2
  <2> QED BY <2>3, <2>4, <2>5
<1>4. \A i \in 1 .. n : v[i] = u[i]
  <2>1. ASSUME NEW i \in 1 .. n PROVE v[i] = u[i]
    <3>1. m + i \in 1 .. m + n /\ ~(m + i <= m) /\ (m + i) - m = i
      BY <1>1
    <3>2. w[m + i] = u[i]
      BY <1>1, <3>1
    <3> QED BY <1>3, <3>2
  <2> QED BY <2>1
<1>5. v = u
  <2>1. u \in Seq(Pe!Pair) /\ Len(u) = n
    BY DEF n
  <2> QED BY <1>3, <1>4, <2>1, SeqEqual
<1> QED BY <1>1, <1>5 DEF v, w, n

\* What is known of the beat counter stays true on an edge that does not need it still.
LEMMA CounterMoves ==
    ASSUME AccelInv, BenchTypes, Clocked, NEW c \in Shapes, SourceAt(c), CounterAt(c),
           ~c.sent => frame = <<>>, c.count \in {"still", "cut"} => ~Taken
    PROVE  CounterAt(c)'
<1>1. /\ offered => frame # <<>>
      /\ frame \in Seq(Beat) /\ Len(frame) \in Nat /\ consumed \in Nat
      /\ c.sent \in BOOLEAN
  BY ShapeFields DEF SourceAt, BenchTypes
<1>2. /\ consumed' = (IF Taken THEN consumed + 1 ELSE consumed) /\ shown' = consumed
      /\ frame' = IF Taken THEN Tail(frame) ELSE frame
      /\ Taken \in BOOLEAN
  BY <1>1, ClockedFacts
<1>3. split' = split /\ saw' = saw /\ tiles' = tiles
  BY DEF Clocked
<1>4. CASE ~Taken
  <2>1. frame' = frame /\ consumed' = consumed /\ shown' = consumed
    BY <1>2, <1>4
  <2> QED BY <1>3, <2>1 DEF CounterAt
<1>5. CASE Taken
  <2>1. frame # <<>> /\ c.sent /\ c.count \notin {"still", "cut"}
    BY <1>1, <1>5 DEF Taken
  <2>2. consumed' = consumed + 1 /\ frame' = Tail(frame)
    BY <1>2, <1>5
  <2>3. Len(Tail(frame)) = Len(frame) - 1
    BY <1>1, <2>1, HeadTailProperties
  <2>4. Len(tiles[1]) \in Nat
    <3>1. PICK k \in DOMAIN tiles : Len(frame) <= Len(tiles[k])
      BY <2>1 DEF SourceAt
    <3>2. tiles \in [1 .. Len(Lengths[test]) -> Seq(Pe!Pair)]
      BY DEF BenchTypes
    <3>3. 1 \in 1 .. Len(Lengths[test])
      BY <3>1, <3>2
    <3>4. tiles[1] \in Seq(Pe!Pair)
      BY <3>2, <3>3
    <3> QED BY <3>4, LenProperties
  <2>5. c.count # "none" => consumed' = Len(tiles'[1]) - Len(frame')
    BY <1>1, <1>3, <2>1, <2>2, <2>3, <2>4 DEF CounterAt
  <2>6. c.watch = "seen" => saw' = TRUE
    BY <1>3 DEF CounterAt
  <2> QED BY <2>1, <2>5, <2>6 DEF CounterAt
<1> QED BY <1>2, <1>4, <1>5

\* The source holds a frame as it should, and offers what it has unless it stalls.
LEMMA SourceMoves ==
    ASSUME AccelInv, BenchTypes, Clocked, NEW c, SourceAt(c)
    PROVE  /\ SourceAt(c)'
           /\ \A d : d.source = "steady" /\ c.source # "paused" => SourceAt(d)'
           /\ \A d : d.source = "free" /\ c.source # "paused" => SourceAt(d)'
<1>1. /\ offered => frame # <<>>
      /\ frame \in Seq(Beat) /\ Framed(frame) /\ aresetn = TRUE
      /\ frame # <<>> => \E k \in DOMAIN tiles : Len(frame) <= Len(tiles[k])
      /\ c.source # "paused" => pause = 0
      /\ SourceEdge(s_axis_tready)
  BY DEF SourceAt, BenchTypes, Clocked
<1>2. /\ Taken \in BOOLEAN /\ s_axis_tready \in BOOLEAN
      /\ frame' = IF Taken THEN Tail(frame) ELSE frame
  BY <1>1, ClockedFacts
<1>3. /\ offered' => frame' # <<>>
      /\ pause = 0 => pause' = 0
      /\ frame' # <<>> /\ pause = 0 => offered'
      /\ frame' \in Seq(Beat) /\ Len(frame) \in Nat /\ Len(frame') <= Len(frame)
  BY <1>1, <1>2, SourceFacts
<1>4. tiles' = tiles
  BY DEF Clocked
<1>5. Framed(frame')
  <2>1. CASE ~Taken
    BY <1>1, <1>2, <2>1
  <2>2. CASE Taken
    <3>1. frame # <<>> /\ <<>> \in Seq(Pe!Pair)
      BY <1>1, <2>2, EmptySeq DEF Taken
    <3>2. Framed(Tail(frame))
      BY <1>1, <3>1, PairsTail
    <3> QED BY <1>2, <2>2, <3>2
  <2> QED BY <1>2, <2>1, <2>2
<1>6. frame' # <<>> => \E k \in DOMAIN tiles' : Len(frame') <= Len(tiles'[k])
  <2>1. SUFFICES ASSUME frame' # <<>>
                 PROVE  \E k \in DOMAIN tiles : Len(frame') <= Len(tiles[k])
    BY <1>4
  <2>2. frame # <<>>
    BY <1>2, <2>1, <1>1 DEF Taken
  <2>3. PICK k \in DOMAIN tiles : Len(frame) <= Len(tiles[k])
    BY <1>1, <2>2
  <2>4. Len(tiles[k]) \in Nat
    <3>1. tiles \in [1 .. Len(Lengths[test]) -> Seq(Pe!Pair)]
      BY DEF BenchTypes
    <3>2. tiles[k] \in Seq(Pe!Pair)
      BY <2>3, <3>1
    <3> QED BY <3>2, LenProperties
  <2>5. Len(frame') \in Nat
    BY <1>3, LenProperties
  <2> QED BY <1>3, <2>3, <2>4, <2>5
<1>7. Framed(frame)'
  BY <1>5 DEF Framed
<1> QED BY <1>1, <1>3, <1>6, <1>7 DEF SourceAt

\* The source stalls only at places of the pattern other than Flow.
LEMMA FlowFacts ==
    ASSUME BenchTypes
    PROVE  /\ Flow \in 1 .. Len(PausePattern) /\ PausePattern[Flow] = FALSE
           /\ Gap \in 0 .. Len(PausePattern) - 1
           /\ Span \in Nat /\ Span = Len(PausePattern) + 1 /\ Span >= 2
<1>1. /\ Len(PausePattern) \in Nat \ {0} /\ DOMAIN PausePattern = 1 .. Len(PausePattern)
      /\ \A i \in 1 .. Len(PausePattern) : PausePattern[i] \in BOOLEAN
      /\ pause \in 0 .. Len(PausePattern)
  BY PatternFacts
<1>2. \E q \in 1 .. Len(PausePattern) : ~PausePattern[q]
  BY <1>1, PaceAssumption
<1>3. Flow \in 1 .. Len(PausePattern) /\ ~PausePattern[Flow]
  BY <1>2 DEF Flow
<1>4. Gap \in 0 .. Len(PausePattern) - 1
  BY <1>1, <1>3 DEF Gap
<1> QED BY <1>1, <1>3, <1>4 DEF Span

\* Edges until the next beat is offered.
Wait == IF offered THEN 0 ELSE 1 + Gap

\* A beat that is not offered comes nearer on every edge.
LEMMA WaitMoves ==
    ASSUME AccelInv, BenchTypes, BenchTypes', Clocked, offered => frame # <<>>,
           frame # <<>>, ~Taken
    PROVE  /\ Wait \in Nat /\ Wait' \in Nat /\ Wait' <= Wait
           /\ ~offered => Wait' < Wait
<1>1. /\ Flow \in 1 .. Len(PausePattern) /\ PausePattern[Flow] = FALSE
      /\ Gap \in 0 .. Len(PausePattern) - 1 /\ Gap' \in 0 .. Len(PausePattern) - 1
      /\ Len(PausePattern) \in Nat \ {0} /\ pause \in 0 .. Len(PausePattern)
  <2>1. Gap' \in 0 .. Len(PausePattern) - 1
    <3>1. pause' \in 0 .. Len(PausePattern)
      BY DEF BenchTypes
    <3>2. Flow \in 1 .. Len(PausePattern) /\ Len(PausePattern) \in Nat
      BY FlowFacts, PatternFacts
    <3>3. Gap' = IF pause' = 0 THEN 0
                 ELSE IF pause' <= Flow THEN Flow - pause' ELSE Flow - pause' + Len(PausePattern)
      BY DEF Gap, Flow
    <3>4. \A p \in 0 .. Len(PausePattern) :
             (IF p = 0 THEN 0 ELSE IF p <= Flow THEN Flow - p ELSE Flow - p + Len(PausePattern))
               \in 0 .. Len(PausePattern) - 1
      BY <3>2
    <3> HIDE DEF Gap
    <3> QED BY <3>1, <3>3, <3>4, Zenon
  <2> QED BY <2>1, FlowFacts, PatternFacts
<1>2. /\ offered \in BOOLEAN /\ s_axis_tready \in BOOLEAN /\ aresetn = TRUE
      /\ SourceEdge(s_axis_tready) /\ Taken = (offered /\ s_axis_tready) /\ frame' = frame
  <2>1. Taken \in BOOLEAN /\ s_axis_tready \in BOOLEAN
        /\ frame' = IF Taken THEN Tail(frame) ELSE frame
    BY ClockedFacts
  <2> QED BY <2>1 DEF Clocked, Taken, BenchTypes
<1>3. /\ pause' = IF pause = 0 THEN 0 ELSE (pause % Len(PausePattern)) + 1
      /\ frame' # <<>> /\ (pause = 0 \/ ~PausePattern[pause] \/ (offered /\ ~s_axis_tready))
           => offered'
      /\ offered' \in BOOLEAN
  BY <1>2, SourceFacts
<1>4. CASE offered
  <2>1. offered'
    BY <1>2, <1>3, <1>4
  <2> QED BY <1>4, <2>1 DEF Wait
<1>5. CASE ~offered /\ offered'
  BY <1>1, <1>5 DEF Wait
<1>6. CASE ~offered /\ ~offered'
  <2>1. pause # 0 /\ PausePattern[pause]
    BY <1>2, <1>3, <1>6
  <2>2. pause # Flow
    BY <1>1, <2>1
  <2>3. Gap = IF pause <= Flow THEN Flow - pause ELSE Flow - pause + Len(PausePattern)
    BY <2>1 DEF Gap
  <2>4. Gap' = IF pause' = 0 THEN 0
               ELSE IF pause' <= Flow THEN Flow - pause' ELSE Flow - pause' + Len(PausePattern)
    BY DEF Gap, Flow
  <2>5. CASE pause < Len(PausePattern)
    <3>1. pause % Len(PausePattern) = pause
      BY <1>1, <2>5
    <3>2. pause' = pause + 1
      BY <1>3, <2>1, <3>1
    <3> QED BY <1>1, <1>6, <2>1, <2>2, <2>3, <2>4, <3>2 DEF Wait
  <2>6. CASE pause = Len(PausePattern)
    <3>1. pause % Len(PausePattern) = 0
      BY <1>1, <2>6
    <3>2. pause' = 1
      BY <1>3, <2>1, <3>1
    <3>3. Gap = Flow /\ Gap' = Flow - 1
      BY <1>1, <2>2, <2>3, <2>4, <2>6, <3>2
    <3> QED BY <1>1, <1>6, <3>3 DEF Wait
  <2> QED BY <1>1, <2>5, <2>6
<1> QED BY <1>2, <1>3, <1>4, <1>5, <1>6

-----------------------------------------------------------------------------
(* How long the tile under way still takes                                 *)

\* How many beats a span allows for.
LEMMA Spans ==
    /\ \A s \in Nat, n \in Nat : n * s \in Nat /\ (n > 0 => n * s = (n - 1) * s + s
       /\ (n - 1) * s \in Nat)
    /\ \A s \in Nat, m \in Nat, n \in Nat : n <= m => n * s <= m * s
<1>1. \A s \in Nat, n \in Nat : n * s \in Nat
  OBVIOUS
<1>2. ASSUME NEW s \in Nat, NEW n \in Nat, n > 0
      PROVE  n * s = (n - 1) * s + s /\ (n - 1) * s \in Nat
  <2>1. n - 1 \in Nat
    BY <1>2
  <2> QED BY <1>1, <2>1
<1>3. ASSUME NEW s \in Nat, NEW m \in Nat, NEW n \in Nat, n <= m
      PROVE  n * s <= m * s
  <2>1. m * s = n * s + (m - n) * s
    OBVIOUS
  <2>2. m - n \in Nat
    BY <1>3
  <2>3. (m - n) * s \in Nat
    BY <1>1, <2>2
  <2> QED BY <1>1, <2>1, <2>3
<1> QED BY <1>1, <1>2, <1>3

\* Steps of the state machine that the state is before its last.
Ahead3 == IF state = "S_RUN" THEN 1 ELSE IF state = "S_CLEAR" THEN 2 ELSE 3

\* The edges that the tile takes, place by place.
LEMMA WorkFacts ==
    ASSUME AccelInv, BenchTypes
    PROVE  /\ Work \in Nat
           /\ Work = IF state = "S_IDLE" /\ ~start_pulse THEN 0
                     ELSE IF state = "S_LATCH" THEN 1
                     ELSE Len(frame) * Span + Wait + Ahead3
           /\ Len(frame) * Span \in Nat /\ Wait \in Nat /\ Wait < Span /\ Span \in Nat /\ Span >= 2
           /\ Work = 0 <=> (state = "S_IDLE" /\ ~start_pulse)
<1>1. Len(frame) \in Nat
  BY LenProperties DEF BenchTypes
<1>2. /\ Span \in Nat /\ Span = Len(PausePattern) + 1 /\ Span >= 2
      /\ Gap \in 0 .. Len(PausePattern) - 1 /\ Len(PausePattern) \in Nat
  BY FlowFacts, PatternFacts
<1>3. Wait \in Nat /\ Wait < Span
  BY <1>2 DEF Wait
<1>4. Len(frame) * Span \in Nat
  BY <1>1, <1>2, Spans
<1>5. Work = IF state = "S_IDLE" /\ ~start_pulse THEN 0
             ELSE IF state = "S_LATCH" THEN 1
             ELSE Len(frame) * Span + Wait + Ahead3
  BY DEF Work, Wait, Ahead3
<1>6. Ahead3 \in 1 .. 3
  BY DEF Ahead3
<1> QED BY <1>2, <1>3, <1>4, <1>5, <1>6

\* The tile under way never takes longer than a poll loop goes on.
LEMMA WorkBound ==
    ASSUME AccelInv, BenchTypes, NEW c \in Contexts, c.mode = "polled",
           NEW b, b <=> start_pulse, TileAt(c, b), SourceAt(c)
    PROVE  Work + 1 < POLL_LIMIT
<1>1. /\ Work \in Nat
      /\ Work = IF state = "S_IDLE" /\ ~start_pulse THEN 0
                ELSE IF state = "S_LATCH" THEN 1
                ELSE Len(frame) * Span + Wait + Ahead3
      /\ Wait \in Nat /\ Wait < Span /\ Span \in Nat
  BY WorkFacts
<1>2. POLL_LIMIT > 3 /\ POLL_LIMIT \in Nat
  BY PaceAssumption, BenchAssumption
<1>3. CASE Work <= 1
  BY <1>1, <1>2, <1>3
<1>4. CASE ~(Work <= 1)
  <2>1. Work = Len(frame) * Span + Wait + Ahead3 /\ Ahead3 \in 1 .. 3
    BY <1>1, <1>4 DEF Ahead3
  <2>2. frame # <<>>
    <3>1. c.sent /\ c.mode # "idle"
      BY ContextFields
    <3>2. ~Complete(c, b)
      BY <1>1, <1>4 DEF Complete
    <3>3. Underway(c, b)
      BY <3>1, <3>2 DEF TileAt
    <3>4. state # "S_LATCH"
      BY <1>1, <1>4
    <3> QED BY <3>1, <3>3, <3>4 DEF Underway, Ahead
  <2>3. PICK k \in DOMAIN tiles : Len(frame) <= Len(tiles[k])
    BY <2>2 DEF SourceAt
  <2>4. k \in DOMAIN Lengths[test] /\ Len(tiles[k]) = Lengths[test][k] /\ test \in Tests
    <3>1. /\ test \in Tests /\ tiles \in [1 .. Len(Lengths[test]) -> Seq(Pe!Pair)]
          /\ tiles[k] \in Operands(test, k)
      BY <2>3 DEF BenchTypes
    <3>2. Lengths[test] \in Seq(Nat \ {0})
      BY <3>1, BenchAssumption
    <3>3. k \in DOMAIN Lengths[test]
      BY <2>3, <3>1, <3>2
    <3> QED BY <3>1, <3>3, OperandAssumption
  <2> DEFINE n == Len(frame)
             m == Lengths[test][k]
             s == Span
  <2>5. n \in Nat /\ m \in Nat /\ n <= m /\ s \in Nat
    <3>1. m \in Nat
      <4>1. tiles[k] \in Seq(Pe!Pair)
        BY <2>3 DEF BenchTypes
      <4> QED BY <2>4, <4>1, LenProperties
    <3>2. n \in Nat
      BY LenProperties DEF BenchTypes
    <3> QED BY <1>1, <2>3, <2>4, <3>1, <3>2
  <2>6. POLL_LIMIT > (m + 1) * s + 3
    BY <2>4, PaceAssumption DEF Span
  <2>7. Work = n * s + Wait + Ahead3
    BY <2>1
  <2> HIDE DEF n, m, s
  <2>8. n * s \in Nat /\ m * s \in Nat /\ n * s <= m * s /\ (m + 1) * s = m * s + s
    <3>1. m + 1 \in Nat /\ m + 1 > 0 /\ (m + 1) - 1 = m
      BY <2>5
    <3> QED BY <2>5, <3>1, Spans
  <2>9. Wait < s
    BY <1>1 DEF s
  <2> QED BY <1>1, <1>2, <2>1, <2>5, <2>6, <2>7, <2>8, <2>9
<1> QED BY <1>3, <1>4

\* An edge on which nothing holds the tile back brings it nearer to its end.
LEMMA WorkMoves ==
    ASSUME AccelInv, AccelInv', BenchTypes, BenchTypes', Clocked,
           clear_pulse = FALSE, en_reg = TRUE, start_pulse' = FALSE,
           NEW c \in Contexts, c.mode = "polled", TileAt(c, start_pulse), SourceAt(c)
    PROVE  Work' \in Nat /\ (Work = 0 => Work' = 0) /\ (Work # 0 => Work' < Work)
<1>1. /\ offered => frame # <<>>
      /\ frame \in Seq(Beat) /\ Framed(frame) /\ start_pulse \in BOOLEAN
      /\ Taken = (offered /\ state = "S_RUN")
      /\ state \in TileStates
      /\ state' = IF state = "S_IDLE" THEN IF start_pulse THEN "S_CLEAR" ELSE "S_IDLE"
                  ELSE IF state = "S_CLEAR" THEN "S_RUN"
                  ELSE IF state = "S_LATCH" THEN "S_IDLE"
                  ELSE IF Taken /\ Head(frame).last THEN "S_LATCH" ELSE "S_RUN"
      /\ frame' = IF Taken THEN Tail(frame) ELSE frame
      /\ Taken \in BOOLEAN /\ offered \in BOOLEAN
  <2>1. /\ offered => frame # <<>>
        /\ frame \in Seq(Beat) /\ Framed(frame) /\ offered \in BOOLEAN
    BY DEF SourceAt, BenchTypes
  <2> QED BY <2>1, ClockedFacts
<1>2. /\ Work \in Nat
      /\ Work = IF state = "S_IDLE" /\ ~start_pulse THEN 0
                ELSE IF state = "S_LATCH" THEN 1
                ELSE Len(frame) * Span + Wait + Ahead3
      /\ Len(frame) * Span \in Nat /\ Wait \in Nat /\ Wait < Span /\ Span \in Nat /\ Span >= 2
  BY WorkFacts
<1>3. /\ Span' = Span /\ Wait' \in Nat /\ Wait' < Span /\ Len(frame') * Span \in Nat
      /\ Work' = IF state' = "S_IDLE" THEN 0
                 ELSE IF state' = "S_LATCH" THEN 1
                 ELSE Len(frame') * Span + Wait' + Ahead3'
  <2>1. Gap' \in 0 .. Len(PausePattern) - 1
    <3>1. pause' \in 0 .. Len(PausePattern)
      BY DEF BenchTypes
    <3>2. Flow \in 1 .. Len(PausePattern) /\ Len(PausePattern) \in Nat
      BY FlowFacts, PatternFacts
    <3>3. Gap' = IF pause' = 0 THEN 0
                 ELSE IF pause' <= Flow THEN Flow - pause' ELSE Flow - pause' + Len(PausePattern)
      BY DEF Gap, Flow
    <3>4. \A p \in 0 .. Len(PausePattern) :
             (IF p = 0 THEN 0 ELSE IF p <= Flow THEN Flow - p ELSE Flow - p + Len(PausePattern))
               \in 0 .. Len(PausePattern) - 1
      BY <3>2
    <3> QED BY <3>1, <3>3, <3>4, Zenon
  <2>2. Span' = Span /\ Span = Len(PausePattern) + 1 /\ Len(PausePattern) \in Nat
    BY PatternFacts DEF Span
  <2>3. Wait' = IF offered' THEN 0 ELSE 1 + Gap'
    BY DEF Wait
  <2>4. Wait' \in Nat /\ Wait' < Span
    <3>1. \A g \in 0 .. Len(PausePattern) - 1 :
             /\ (IF offered' THEN 0 ELSE 1 + g) \in Nat
             /\ (IF offered' THEN 0 ELSE 1 + g) < Span
      BY <2>2
    <3> QED BY <2>1, <2>3, <3>1, Zenon
  <2>5. Len(frame') \in Nat
    BY LenProperties DEF BenchTypes
  <2>6. Len(frame') * Span \in Nat
    BY <1>2, <2>5, Spans
  <2>7. Work' = IF state' = "S_IDLE" /\ ~start_pulse' THEN 0
                ELSE IF state' = "S_LATCH" THEN 1
                ELSE Len(frame') * Span + Wait' + Ahead3'
    <3>1. Work' = IF state' = "S_IDLE" /\ ~start_pulse' THEN 0
                  ELSE IF state' = "S_LATCH" THEN 1
                  ELSE Len(frame') * Span' + Wait' + Ahead3'
      BY DEF Work, Wait, Ahead3
    <3> QED BY <2>2, <3>1
  <2> QED BY <2>2, <2>4, <2>6, <2>7
<1>4. CASE Complete(c, start_pulse)
  <2>1. state = "S_IDLE" /\ ~start_pulse
    BY <1>4 DEF Complete
  <2> QED BY <1>1, <1>2, <1>3, <2>1
<1>5. CASE Underway(c, start_pulse)
  <2>1. c.sent
    BY ContextFields
  <2>2. CASE state = "S_LATCH"
    BY <1>1, <1>2, <1>3, <2>2
  <2>3. CASE state # "S_LATCH"
    <3>1. /\ frame # <<>>
          /\ state \in {"S_IDLE", "S_CLEAR", "S_RUN"} /\ (state = "S_IDLE" => start_pulse)
      BY <1>5, <2>1, <2>3 DEF Underway, Ahead
    <3>2. Work = Len(frame) * Span + Wait + Ahead3
          /\ Ahead3 = IF state = "S_RUN" THEN 1 ELSE IF state = "S_CLEAR" THEN 2 ELSE 3
      BY <1>2, <3>1 DEF Ahead3
    <3>3. CASE ~Taken
      <4>1. frame' = frame /\ Wait' <= Wait /\ (~offered => Wait' < Wait)
        BY <1>1, <3>1, <3>3, WaitMoves
      <4>2. Ahead3' = IF state' = "S_RUN" THEN 1 ELSE IF state' = "S_CLEAR" THEN 2 ELSE 3
        BY DEF Ahead3
      <4>3. CASE state = "S_IDLE"
        <5>1. state' = "S_CLEAR"
          BY <1>1, <3>1, <4>3
        <5>2. Work' = Len(frame) * Span + Wait' + 2 /\ Work = Len(frame) * Span + Wait + 3
          BY <1>3, <3>2, <4>1, <4>2, <4>3, <5>1
        <5> QED BY <1>2, <1>3, <4>1, <5>2
      <4>4. CASE state = "S_CLEAR"
        <5>1. state' = "S_RUN"
          BY <1>1, <3>1, <4>4
        <5>2. Work' = Len(frame) * Span + Wait' + 1 /\ Work = Len(frame) * Span + Wait + 2
          BY <1>3, <3>2, <4>1, <4>2, <4>4, <5>1
        <5> QED BY <1>2, <1>3, <4>1, <5>2
      <4>5. CASE state = "S_RUN"
        <5>1. state' = "S_RUN" /\ ~offered
          BY <1>1, <3>3, <4>5
        <5>2. Work' = Len(frame) * Span + Wait' + 1 /\ Work = Len(frame) * Span + Wait + 1
          BY <1>3, <3>2, <4>1, <4>2, <4>5, <5>1
        <5> QED BY <1>2, <1>3, <4>1, <5>1, <5>2
      <4> QED BY <3>1, <4>3, <4>4, <4>5
    <3>4. CASE Taken
      <4>1. state = "S_RUN" /\ offered /\ frame' = Tail(frame) /\ Wait = 0
        BY <1>1, <3>4 DEF Wait
      <4>2. Len(frame') = Len(frame) - 1 /\ Len(frame) \in Nat /\ Len(frame) > 0
        BY <1>1, <3>1, <4>1, HeadTailProperties, EmptySeq
      <4>3. Len(frame) * Span = Len(frame') * Span + Span
        BY <1>2, <4>2, Spans
      <4>4. Work = Len(frame) * Span + 0 + 1
        BY <3>2, <4>1
      <4>5. CASE state' = "S_LATCH"
        <5>1. Work' = 1
          BY <1>3, <4>5
        <5> QED BY <1>2, <1>3, <4>3, <4>4, <5>1
      <4>6. CASE state' # "S_LATCH"
        <5>1. state' = "S_RUN"
          BY <1>1, <4>1, <4>6
        <5>2. Ahead3' = 1
          BY <5>1 DEF Ahead3
        <5>3. Work' = Len(frame') * Span + Wait' + 1
          BY <1>3, <5>1, <5>2
        <5> QED BY <1>2, <1>3, <4>3, <4>4, <5>3
      <4> QED BY <4>5, <4>6
    <3> QED BY <1>1, <3>3, <3>4
  <2> QED BY <2>2, <2>3
<1>6. c.mode # "idle"
  OBVIOUS
<1> QED BY <1>4, <1>5, <1>6 DEF TileAt

-----------------------------------------------------------------------------
(* The accelerator on an edge                                              *)

\* An edge that leaves CTRL alone, apart from its pulses.
LEMMA EngineMoves ==
    ASSUME AccelInv, BenchTypes, Clocked, NEW c \in Contexts, Engine(c),
           start_pulse' = FALSE, clear_pulse' = FALSE, en_reg' = en_reg
    PROVE  Engine(c)' /\ (c.source # "paused" => Engine(Source(c, "steady"))')
<1>1. /\ TileAt(c, start_pulse) /\ SourceAt(c) /\ CounterAt(c)
      /\ clear_pulse = FALSE /\ en_reg = c.en
  BY DEF Engine
<1>2. c \in Shapes /\ (c.count \in {"still", "cut"} => ~c.en)
  BY ContextFields
<1>3. TileAt(c, FALSE)'
  BY <1>1, <1>2, TileMoves
<1>4. offered => frame # <<>>
  BY <1>1 DEF SourceAt
<1>5. CounterAt(c)'
  <2>1. ~c.sent => frame = <<>>
    BY <1>1 DEF TileAt
  <2>2. c.count \in {"still", "cut"} => ~Taken
    BY <1>1, <1>2, <1>4, ClockedFacts
  <2> QED BY <1>1, <1>2, <2>1, <2>2, CounterMoves
<1>6. SourceAt(c)'
  BY <1>1, SourceMoves
<1>7. Engine(c)'
  BY <1>1, <1>3, <1>5, <1>6 DEF Engine
<1>8. ASSUME c.source # "paused" PROVE Engine(Source(c, "steady"))'
  <2> DEFINE d == Source(c, "steady")
  <2>1. /\ d.source = "steady" /\ d.sent = c.sent /\ d.goal = c.goal /\ d.last = c.last
        /\ d.done = c.done /\ d.mode = c.mode /\ d.count = c.count /\ d.watch = c.watch
        /\ d.en = c.en
    BY <1>2 DEF Source, Shapes
  <2> HIDE DEF d
  <2>2. SourceAt(d)'
    BY <1>1, <1>8, <2>1, SourceMoves
  <2>3. TileAt(d, FALSE)'
    BY <1>3, <2>1, SameTile
  <2>4. CounterAt(d)'
    BY <1>5, <2>1 DEF CounterAt
  <2>5. Engine(d)'
    BY <1>1, <2>1, <2>2, <2>3, <2>4 DEF Engine
  <2> QED BY <2>5 DEF d
<1> QED BY <1>7, <1>8

\* A poll loop has polls left after it as well.
LEMMA PollsMove ==
    ASSUME AccelInv, AccelInv', BenchTypes, BenchTypes', Clocked, NEW c \in Contexts, Device(c),
           start_pulse' = FALSE, polls' = polls
    PROVE  PollsAt(c)'
<1>1. SUFFICES ASSUME polls # 0 PROVE c.mode = "polled" /\ (Work' = 0 \/ Work' + polls < POLL_LIMIT)
  BY DEF PollsAt
<1>2. c.mode = "polled" /\ (Work = 0 \/ Work + polls < POLL_LIMIT)
  BY <1>1 DEF Device, PollsAt
<1>3. en_reg = TRUE /\ clear_pulse = FALSE /\ TileAt(c, start_pulse) /\ SourceAt(c)
  <2>1. c.en \in BOOLEAN /\ c.en
    BY <1>2, ContextFields, ShapeFields
  <2> QED BY <2>1 DEF Device, Engine
<1>4. Work' \in Nat /\ (Work = 0 => Work' = 0) /\ (Work # 0 => Work' < Work)
  BY <1>2, <1>3, WorkMoves
<1>5. polls \in Nat /\ Work \in Nat /\ POLL_LIMIT \in Nat
  BY WorkFacts, BenchAssumption DEF BenchTypes
<1>6. \A v \in Nat, w \in Nat :
         (w = 0 \/ w + polls < POLL_LIMIT) /\ (w = 0 => v = 0) /\ (w # 0 => v < w)
           => v = 0 \/ v + polls < POLL_LIMIT
  BY <1>5
<1> QED BY <1>2, <1>4, <1>5, <1>6, Zenon

\* The same of an edge with polls and all.
LEMMA DeviceMoves ==
    ASSUME AccelInv, AccelInv', BenchTypes, BenchTypes', Clocked, NEW c \in Contexts, Device(c),
           start_pulse' = FALSE, clear_pulse' = FALSE, en_reg' = en_reg, polls' = polls
    PROVE  Device(c)' /\ (c.source # "paused" => Device(Source(c, "steady"))')
<1>1. Engine(c)' /\ (c.source # "paused" => Engine(Source(c, "steady"))')
  BY EngineMoves DEF Device
<1>2. PollsAt(c)'
  BY PollsMove
<1>3. Source(c, "steady").mode = c.mode
  BY DEF Source, Contexts, Shapes
<1>4. PollsAt(Source(c, "steady"))'
  BY <1>2, <1>3 DEF PollsAt
<1> QED BY <1>1, <1>2, <1>4 DEF Device

\* An edge on which a write of x commits.
LEMMA WriteCommits ==
    ASSUME AccelInv, BenchTypes, Clocked, NEW c \in Contexts, Device(c), NEW x \in CtrlWord,
           c.mode # "polled", MayWrite(c, x),
           ctrl_reg' = [start |-> x.start, clear |-> x.clear, en |-> x.en], polls' = polls
    PROVE  Applied(c, x)'
<1>1. /\ TileAt(c, start_pulse) /\ SourceAt(c) /\ CounterAt(c)
      /\ clear_pulse = FALSE /\ en_reg = c.en /\ polls = 0
  BY DEF Device, Engine, PollsAt
<1>2. c \in Shapes /\ (c.count \in {"still", "cut"} => ~c.en)
  BY ContextFields
<1>3. TileAt(c, FALSE)'
  BY <1>1, <1>2, TileMoves
<1>4. CounterAt(c)' /\ SourceAt(c)'
  <2>1. ~c.sent => frame = <<>>
    BY <1>1 DEF TileAt
  <2>2. c.count \in {"still", "cut"} => ~Taken
    <3>1. offered => frame # <<>>
      BY <1>1 DEF SourceAt
    <3> QED BY <1>1, <1>2, <3>1, ClockedFacts
  <2> QED BY <1>1, <1>2, <2>1, <2>2, CounterMoves, SourceMoves
<1>5. x.start \in BOOLEAN /\ x.clear \in BOOLEAN /\ x.en \in BOOLEAN
  BY DEF CtrlWord
<1>6. CASE x.clear
  <2>1. ctrl_reg' = [start |-> x.start, clear |-> TRUE, en |-> x.en]
    BY <1>5, <1>6
  <2>2. PollsAt(c)'
    BY <1>1 DEF PollsAt
  <2> QED BY <1>3, <1>4, <1>6, <2>1, <2>2 DEF Applied
<1>7. CASE ~x.clear
  <2>1. start_pulse' = x.start /\ clear_pulse' = FALSE /\ en_reg' = x.en
    BY <1>5, <1>7 DEF start_pulse, clear_pulse, en_reg
  <2> DEFINE d == Wrote(c, x)
  <2>2. /\ d.sent = c.sent /\ d.goal = c.goal /\ d.last = c.last /\ d.source = c.source
        /\ d.count = c.count /\ d.watch = c.watch
        /\ d.en = x.en
        /\ ~x.start => d.mode = c.mode /\ d.done = c.done
        /\ x.start => d.mode = "busy" /\ c.mode = "idle"
    BY <1>2, <1>5, <1>7 DEF Wrote, Started, Enabled, Shapes, MayWrite
  <2> HIDE DEF d
  <2>3. TileAt(d, x.start)'
    <3>1. CASE ~x.start
      BY <1>3, <1>5, <2>2, <3>1, SameTile
    <3>2. CASE x.start
      <4>1. Resting(c, FALSE)' /\ (~c.sent => frame' = <<>>)
        BY <1>3, <2>2, <3>2 DEF TileAt
      <4>2. Underway(d, TRUE)'
        BY <2>2, <4>1 DEF Resting, Underway, Ahead
      <4> QED BY <1>5, <2>2, <3>2, <4>1, <4>2 DEF TileAt
    <3> QED BY <1>5, <3>1, <3>2
  <2>4. SourceAt(d)' /\ CounterAt(d)'
    BY <1>4, <2>2 DEF SourceAt, CounterAt
  <2>5. PollsAt(d)'
    BY <1>1 DEF PollsAt
  <2>6. TileAt(d, start_pulse)'
    BY <2>1, <2>3
  <2>7. Device(d)'
    BY <2>1, <2>2, <2>4, <2>5, <2>6 DEF Device, Engine
  <2> QED BY <1>7, <2>7 DEF Applied, d
<1> QED BY <1>5, <1>6, <1>7

\* What is left of a tile that was split where the source now stands.
LEMMA RestIsLeft ==
    ASSUME BenchTypes, NEW t \in Seq(Pe!Pair), tiles[1] = t \o PairsOf(frame),
           split = Len(tiles[1]) - Len(frame)
    PROVE  Result(REST) = PairsOf(frame)
<1>1. frame \in Seq(Beat)
  BY DEF BenchTypes
<1>2. PairsOf(frame) \in Seq(Pe!Pair) /\ Len(PairsOf(frame)) = Len(frame)
  BY <1>1, PairsFacts
<1>3. SubSeq(t \o PairsOf(frame), (Len(t \o PairsOf(frame)) - Len(PairsOf(frame))) + 1,
             Len(t \o PairsOf(frame))) = PairsOf(frame)
  BY <1>2, SplitRest
<1>4. Result(REST) = SubSeq(tiles[1], split + 1, Len(tiles[1]))
  BY DEF Result, REST
<1> QED BY <1>2, <1>3, <1>4

\* An edge with CLEAR: what the write of it leads to.
LEMMA ClearMoves ==
    ASSUME AccelInv, BenchTypes, Clocked, NEW c \in Contexts, NEW x \in CtrlWord,
           x.clear, c.mode # "polled", MayWrite(c, x), clear_pulse = TRUE, start_pulse = x.start,
           TileAt(c, FALSE), SourceAt(c), CounterAt(c), NEW d \in Written(c, x)
    PROVE  TileAt(d, FALSE)'
<1>1. /\ offered => frame # <<>>
      /\ frame \in Seq(Beat) /\ x.start \in BOOLEAN /\ x.en \in BOOLEAN
  BY DEF SourceAt, BenchTypes, CtrlWord
<1>2. /\ state' = IF state = "S_IDLE" THEN IF start_pulse THEN "S_CLEAR" ELSE "S_IDLE"
                  ELSE IF state = "S_CLEAR" THEN "S_RUN"
                  ELSE IF state = "S_LATCH" THEN "S_IDLE"
                  ELSE IF Taken /\ Head(frame).last THEN "S_LATCH" ELSE "S_RUN"
      /\ done_q' = ((done_q /\ ~(state = "S_IDLE" /\ start_pulse)) \/ state = "S_LATCH")
      /\ frame' = frame /\ tile' = <<>> /\ last' = <<>> /\ ~Taken
      /\ tile \in Seq(Pe!Pair) /\ done_q \in BOOLEAN
  BY <1>1, ClockedFacts
<1>3. /\ c.sent \in BOOLEAN /\ c.mode \in {"idle", "busy"} /\ c.done \in BOOLEAN
      /\ c.en \in BOOLEAN /\ c \in Shapes
  BY ContextFields, ShapeFields
<1>4. /\ \A k : Result(k)' = Result(k)
      /\ Result(0) = <<>> /\ PairsOf(<<>>) = <<>> /\ <<>> \o PairsOf(frame) = PairsOf(frame)
      /\ PairsOf(frame)' = PairsOf(frame)
      /\ frame = <<>> \/ Len(frame) > 0
  <2>1. \A k : Result(k)' = Result(k)
    BY ResultSame DEF Clocked
  <2>2. PairsOf(frame)' = PairsOf(frame)
    BY <1>2 DEF PairsOf
  <2> QED BY <1>1, <2>1, <2>2, PairsEmpty, EmptySeq DEF Result
<1>5. ~c.sent => frame = <<>>
  BY DEF TileAt
<1>6. CASE c.count = "cut"
  <2>1. c.mode = "busy" /\ c.sent /\ c.goal = 1 /\ ~x.start
    BY <1>6 DEF MayWrite
  <2>2. d = [Cleared(c) EXCEPT !.goal = REST]
    BY <1>6 DEF Written
  <2>3. /\ d.mode = "busy" /\ d.sent = TRUE /\ d.goal = REST /\ d.last = 0
    BY <1>3, <2>1, <2>2 DEF Cleared, Shapes
  <2>4. Result(1) = tiles[1] /\ split = Len(tiles[1]) - Len(frame) /\ start_pulse = FALSE
    <3>1. split = consumed /\ consumed = Len(tiles[1]) - Len(frame)
      BY <1>6, <2>1 DEF CounterAt
    <3> QED BY <1>1, <2>1, <3>1 DEF Result, REST
  <2>5. CASE state = "S_CLEAR" /\ Ahead(c)
    <3>1. frame # <<>> /\ PairsOf(frame) = tiles[1]
      BY <2>1, <2>4, <2>5 DEF Ahead
    <3>2. <<>> \in Seq(Pe!Pair)
      OBVIOUS
    <3>3. Result(REST) = PairsOf(frame)
      BY <1>4, <2>4, <3>1, <3>2, RestIsLeft
    <3>4. state' = "S_RUN"
      BY <1>2, <2>5
    <3>5. done_q' = FALSE
      <4>1. done_q = FALSE
        BY <2>1, <2>5 DEF TileAt, Underway, Complete
      <4> QED BY <1>2, <2>5, <4>1
    <3>6. Underway(d, FALSE)'
      BY <1>2, <1>4, <2>3, <3>1, <3>3, <3>4, <3>5 DEF Underway
    <3> QED BY <2>3, <3>6 DEF TileAt
  <2>6. CASE state = "S_RUN" /\ done_q = FALSE /\ frame # <<>>
             /\ tile \o PairsOf(frame) = Result(c.goal)
    <3>1. Result(REST) = PairsOf(frame)
      BY <1>2, <2>1, <2>4, <2>6, RestIsLeft
    <3>2. state' = "S_RUN" /\ done_q' = FALSE
      BY <1>2, <2>6
    <3>3. Underway(d, FALSE)'
      BY <1>2, <1>4, <2>3, <2>6, <3>1, <3>2 DEF Underway
    <3> QED BY <2>3, <3>3 DEF TileAt
  <2>7. CASE frame = <<>> /\ (state = "S_LATCH" \/ (state = "S_IDLE" /\ done_q = TRUE))
    <3>1. state' = "S_IDLE" /\ done_q' = TRUE
      BY <1>2, <2>4, <2>7
    <3>2. tiles[1] \in Seq(Pe!Pair) /\ tiles[1] \o PairsOf(frame) = tiles[1]
      <4>1. tiles[1] \in Seq(Pe!Pair)
        <5>1. CASE state = "S_LATCH"
          <6>1. Underway(c, FALSE)
            BY <2>1, <5>1 DEF TileAt, Complete
          <6>2. tile = tiles[1]
            BY <2>1, <2>4, <5>1, <6>1 DEF Underway
          <6> QED BY <1>2, <6>2
        <5>2. CASE state = "S_IDLE"
          <6>1. Complete(c, FALSE)
            BY <2>1, <5>2 DEF TileAt, Underway
          <6>2. last = tiles[1]
            BY <2>1, <2>4, <6>1 DEF Complete
          <6>3. last \in Seq(Pe!Pair)
            BY DEF AccelInv, DataInv, TypeOK
          <6> QED BY <6>2, <6>3
        <5> QED BY <2>7, <5>1, <5>2
      <4> QED BY <2>7, <4>1, PairsEmpty
    <3>3. Result(REST) = <<>>
      BY <1>4, <2>4, <2>7, <3>2, RestIsLeft
    <3>4. Complete(d, FALSE)'
      BY <1>2, <1>4, <2>3, <2>7, <3>1, <3>3 DEF Complete
    <3> QED BY <2>3, <3>4 DEF TileAt
  <2> QED BY <2>1, <2>5, <2>6, <2>7 DEF TileAt, Underway, Complete
<1>7. CASE c.count # "cut" /\ c.mode = "idle"
  <2>1. d = Cleared(Wrote(c, x)) /\ (x.start => x.en)
    BY <1>7 DEF Written, MayWrite
  <2>2. state = "S_IDLE" /\ done_q = c.done /\ Ahead(c)
    BY <1>7 DEF TileAt, Resting
  <2>3. d.sent = c.sent /\ d.goal = c.goal /\ d.last = 0
    BY <1>3, <2>1 DEF Cleared, Wrote, Started, Enabled, Shapes
  <2>4. Ahead(d)' /\ (~d.sent => frame' = <<>>)
    BY <1>2, <1>4, <1>5, <2>2, <2>3 DEF Ahead
  <2>5. CASE x.start
    <3>1. d.mode = "busy"
      BY <1>3, <2>1, <2>5 DEF Cleared, Wrote, Started, Shapes
    <3>2. state' = "S_CLEAR" /\ done_q' = FALSE
      BY <1>2, <2>2, <2>5
    <3>3. Underway(d, FALSE)'
      BY <1>2, <1>4, <2>3, <2>4, <3>2 DEF Underway
    <3> QED BY <2>4, <3>1, <3>3 DEF TileAt
  <2>6. CASE ~x.start
    <3>1. d.mode = "idle" /\ d.done = c.done
      BY <1>3, <1>7, <2>1, <2>6 DEF Cleared, Wrote, Enabled, Shapes
    <3>2. state' = "S_IDLE" /\ done_q' = c.done
      BY <1>2, <1>3, <2>2, <2>6
    <3>3. Resting(d, FALSE)'
      BY <1>2, <1>4, <2>3, <2>4, <3>1, <3>2 DEF Resting
    <3> QED BY <2>4, <3>1, <3>3 DEF TileAt
  <2> QED BY <1>1, <2>5, <2>6
<1>8. CASE c.count # "cut" /\ c.mode = "busy"
  <2>1. d = Cleared(Enabled(c, x.en)) /\ ~c.sent
    BY <1>8 DEF Written, MayWrite
  <2>2. d.sent = FALSE /\ d.last = 0 /\ d.mode = "busy"
    BY <1>3, <1>8, <2>1 DEF Cleared, Enabled, Shapes
  <2>3. /\ state \in {"S_CLEAR", "S_RUN"} /\ done_q = FALSE
    BY <1>8, <2>1 DEF TileAt, Underway, Complete
  <2>4. state' = "S_RUN" /\ done_q' = FALSE
    BY <1>2, <2>3
  <2>5. Underway(d, FALSE)'
    BY <1>2, <1>4, <2>2, <2>4 DEF Underway
  <2>6. frame' = <<>>
    BY <1>2, <1>5, <2>1
  <2> QED BY <2>2, <2>5, <2>6 DEF TileAt
<1> QED BY <1>3, <1>6, <1>7, <1>8

\* The edge after a write has been done: a CLEAR takes effect, and the test may
\* rely on what the write leads to.
LEMMA WriteAnswered ==
    ASSUME AccelInv, BenchTypes, Clocked, NEW c \in Contexts, NEW x \in CtrlWord,
           c.mode # "polled", MayWrite(c, x), Applied(c, x),
           start_pulse' = FALSE, clear_pulse' = FALSE, en_reg' = en_reg, polls' = polls,
           NEW e \in Written(c, x), NEW d \in Contexts,
           d = e \/ (e.mode = "busy" /\ d = Polled(e))
    PROVE  Device(d)'
<1>1. /\ c \in Shapes /\ c.mode \in {"idle", "busy"} /\ c.sent \in BOOLEAN /\ c.en \in BOOLEAN
      /\ c.count \in {"none", "moving", "still", "cut"}
      /\ c.count \in {"still", "cut"} => ~c.en
  BY ContextFields, ShapeFields
<1>2. x.start \in BOOLEAN /\ x.clear \in BOOLEAN /\ x.en \in BOOLEAN
  BY DEF CtrlWord
<1>3. d.count \in {"none", "moving", "still", "cut"} /\ (d.count \in {"still", "cut"} => ~d.en)
  BY ContextFields, ShapeFields
<1> DEFINE w == Wrote(c, x)
<1>4. w \in Shapes /\ w.en = (IF x.start THEN TRUE ELSE x.en) /\ w.sent = c.sent /\ w.goal = c.goal
      /\ w.last = c.last /\ w.count = c.count /\ w.source = c.source /\ w.watch = c.watch
      /\ w.mode = (IF x.start THEN "busy" ELSE c.mode)
      /\ w.done = (IF x.start THEN FALSE ELSE c.done)
  BY <1>1, <1>2 DEF Wrote, Started, Enabled, Shapes
<1> HIDE DEF w
<1>5. /\ d.sent = e.sent /\ d.goal = e.goal /\ d.last = e.last /\ d.done = e.done
      /\ d.source = e.source /\ d.count = e.count /\ d.watch = e.watch /\ d.en = e.en
      /\ d.mode = "idle" <=> e.mode = "idle"
  <2>1. e \in Shapes
    <3>1. CASE ~x.clear
      <4>1. e = w \/ e = Count(w, "still") \/ e = Count(w, "none")
        BY <3>1 DEF Written, w
      <4> QED BY <1>4, <4>1 DEF Count, Shapes
    <3>2. CASE x.clear
      <4>1. \/ e = [Cleared(c) EXCEPT !.goal = REST] \/ e = Cleared(w)
            \/ e = Cleared(Enabled(c, x.en))
        BY <3>2 DEF Written, w
      <4>2. [Cleared(c) EXCEPT !.goal = REST] \in Shapes
        BY <1>1 DEF Cleared, REST, Shapes
      <4>3. Cleared(w) \in Shapes
        BY <1>4 DEF Cleared, Shapes
      <4>4. Cleared(Enabled(c, x.en)) \in Shapes
        BY <1>1, <1>2 DEF Cleared, Enabled, Shapes
      <4> QED BY <4>1, <4>2, <4>3, <4>4
    <3> QED BY <1>2, <3>1, <3>2
  <2>2. CASE d = e
    BY <2>2
  <2>3. CASE e.mode = "busy" /\ d = Polled(e)
    BY <2>1, <2>3 DEF Polled, Shapes
  <2> QED BY <2>2, <2>3
<1>6. SourceAt(c) /\ polls = 0
  <2>1. CASE x.clear
    BY <1>2, <2>1 DEF Applied, PollsAt
  <2>2. CASE ~x.clear
    <3>1. Device(w)
      BY <2>2 DEF Applied, w
    <3>2. w.mode # "polled"
      BY <1>1, <1>4
    <3> QED BY <1>4, <3>1, <3>2 DEF Device, Engine, PollsAt, SourceAt
  <2> QED BY <1>2, <2>1, <2>2
<1>7. offered => frame # <<>>
  BY <1>6 DEF SourceAt
<1>8. /\ Taken = (offered /\ state = "S_RUN" /\ en_reg /\ ~clear_pulse)
      /\ consumed' = (IF Taken THEN consumed + 1 ELSE consumed) /\ shown' = consumed
      /\ frame' = IF Taken THEN Tail(frame) ELSE frame
      /\ en_reg \in BOOLEAN
  BY <1>7, ClockedFacts
<1>9. split' = split /\ saw' = saw /\ tiles' = tiles
  BY DEF Clocked
<1>10. SourceAt(c)'
  BY <1>6, SourceMoves
<1>11. PollsAt(d)'
  BY <1>6 DEF PollsAt
<1>12. CASE ~x.clear
  <2>1. Device(w)
    BY <1>12 DEF Applied, w
  <2>2. TileAt(w, start_pulse) /\ SourceAt(w) /\ CounterAt(w) /\ clear_pulse = FALSE /\ en_reg = w.en
    BY <2>1 DEF Device, Engine
  <2>3. e = w \/ (e = Count(w, IF c.count = "moving" THEN "still" ELSE "none"))
    BY <1>12 DEF Written, w
  <2>4. /\ e.sent = w.sent /\ e.goal = w.goal /\ e.last = w.last /\ e.done = w.done
        /\ e.source = c.source /\ e.watch = w.watch /\ e.en = w.en /\ e.mode = w.mode
        /\ e.count = c.count \/ e.count = (IF c.count = "moving" THEN "still" ELSE "none")
    BY <1>4, <2>3 DEF Count, Shapes
  <2>5. TileAt(w, FALSE)'
    BY <1>4, <2>2, TileMoves
  <2>6. TileAt(d, FALSE)'
    BY <1>5, <2>4, <2>5, SameTile
  <2>7. SourceAt(d)'
    BY <1>5, <1>10, <2>4 DEF SourceAt
  <2>8. CounterAt(d)'
    <3>1. ~w.sent => frame = <<>>
      BY <2>2 DEF TileAt
    <3>2. CASE d.count = "none"
      <4>1. d.watch = "seen" => saw' = TRUE
        BY <1>4, <1>5, <1>9, <2>2, <2>4 DEF CounterAt
      <4> QED BY <3>2, <4>1 DEF CounterAt
    <3>3. CASE d.count # "none"
      <4>1. c.count # "none" /\ (d.count = "moving" => c.count = "moving")
        BY <1>1, <1>3, <1>5, <2>4, <3>3
      <4>2. d.count \in {"still", "cut"} => ~Taken
        BY <1>3, <1>5, <1>8, <2>2, <2>4
      <4>3. w.count \in {"still", "cut"} => ~Taken
        BY <1>1, <1>3, <1>4, <1>5, <2>4, <3>3, <4>2
      <4>4. CounterAt(w)'
        BY <1>4, <2>2, <3>1, <4>3, CounterMoves
      <4>5. consumed' = IF d.sent THEN Len(tiles'[1]) - Len(frame') ELSE 0
        BY <1>4, <1>5, <2>4, <4>1, <4>4 DEF CounterAt
      <4>6. d.count \in {"still", "cut"} => shown' = consumed'
        BY <1>8, <4>2
      <4>7. d.count = "cut" => split' = consumed'
        <5>1. d.count = "cut" => c.count = "cut"
          BY <1>5, <2>4
        <5> QED BY <1>4, <4>4, <5>1 DEF CounterAt
      <4>8. d.watch = "seen" => saw' = TRUE
        BY <1>4, <1>5, <2>4, <4>4 DEF CounterAt
      <4> QED BY <4>5, <4>6, <4>7, <4>8 DEF CounterAt
    <3> QED BY <3>2, <3>3
  <2>9. en_reg' = d.en
    BY <1>5, <2>2, <2>4
  <2> QED BY <1>11, <2>6, <2>7, <2>8, <2>9 DEF Device, Engine
<1>13. CASE x.clear
  <2>1. /\ TileAt(c, FALSE) /\ SourceAt(c) /\ CounterAt(c)
        /\ clear_pulse = TRUE /\ start_pulse = x.start /\ en_reg = x.en
    <3>1. /\ TileAt(c, FALSE) /\ SourceAt(c) /\ CounterAt(c)
          /\ ctrl_reg = [start |-> x.start, clear |-> TRUE, en |-> x.en]
      BY <1>13 DEF Applied
    <3> QED BY <3>1 DEF clear_pulse, start_pulse, en_reg
  <2>2. TileAt(e, FALSE)'
    BY <1>13, <2>1, ClearMoves
  <2>3. TileAt(d, FALSE)'
    BY <1>5, <2>2, SameTile
  <2>4. /\ e.sent = c.sent /\ e.source = c.source /\ e.count = c.count /\ e.watch = c.watch
        /\ e.en = x.en
    <3>1. CASE c.count = "cut"
      <4>1. e = [Cleared(c) EXCEPT !.goal = REST] /\ ~x.en /\ ~c.en
        BY <1>1, <1>13, <3>1 DEF Written, MayWrite
      <4> QED BY <1>1, <1>2, <4>1 DEF Cleared, Shapes
    <3>2. CASE c.count # "cut" /\ c.mode = "idle"
      <4>1. e = Cleared(w) /\ (x.start => x.en)
        BY <1>13, <3>2 DEF Written, MayWrite, w
      <4> QED BY <1>2, <1>4, <4>1 DEF Cleared, Shapes
    <3>3. CASE c.count # "cut" /\ c.mode # "idle"
      <4>1. e = Cleared(Enabled(c, x.en))
        BY <1>13, <3>3 DEF Written
      <4> QED BY <1>1, <1>2, <4>1 DEF Cleared, Enabled, Shapes
    <3> QED BY <3>1, <3>2, <3>3
  <2>5. SourceAt(d)'
    BY <1>5, <1>10, <2>4 DEF SourceAt
  <2>6. CounterAt(d)'
    <3>1. ~Taken
      BY <1>8, <2>1
    <3>2. consumed' = consumed /\ shown' = consumed /\ frame' = frame
      BY <1>8, <3>1
    <3> QED BY <1>5, <1>9, <2>1, <2>4, <3>2 DEF CounterAt
  <2> QED BY <1>5, <1>11, <2>1, <2>3, <2>4, <2>5, <2>6 DEF Device, Engine
<1> QED BY <1>2, <1>12, <1>13

-----------------------------------------------------------------------------
(* The words that the registers show                                       *)

\* A value that fits a signed register survives the bus, which is no narrower.
LEMMA SignedThroughBus ==
    ASSUME NEW w \in Nat \ {0}, NEW b \in Nat, w <= b, NEW x \in SignedRange(w)
    PROVE  Signed(Unsigned(x, b), w) = x
<1> DEFINE H == 2^(w - 1)
           Full == 2^w
           B == 2^b
           q == 2^(b - w)
<1>1. w - 1 \in Nat /\ w \in Nat /\ b - w \in Nat /\ w + (b - w) = b
  OBVIOUS
<1>2. H \in Nat /\ Full \in Nat /\ Full > 0 /\ B \in Nat /\ B > 0 /\ q \in Nat
  BY <1>1, PowPositive
<1>3. B = Full * q
  BY <1>1, PowSum
<1>4. x \in Int
  BY <1>2 DEF SignedRange
<1>5. Signed(x, w) = ((x + H) % Full) - H /\ Unsigned(x, b) = x % B
      /\ Signed(x % B, w) = (((x % B) + H) % Full) - H
  BY DEF Signed, Unsigned
<1>6. Signed(x, w) = x
  BY SignedOfRange
<1> HIDE DEF H, Full, B, q
<1>7. PICK j \in Int : x % B = x + B * j
  <2>1. x = B * (x \div B) + (x % B) /\ x \div B \in Int /\ x % B \in Int
    BY <1>2, <1>4
  <2>2. x % B = x + B * (-(x \div B)) /\ -(x \div B) \in Int
    BY <1>2, <1>4, <2>1
  <2> QED BY <2>2
<1>8. ((x % B) + H) % Full = (x + H) % Full
  <2>1. B * j = Full * (q * j) /\ q * j \in Int
    BY <1>2, <1>3, <1>7
  <2>2. (x % B) + H = (x + H) + Full * (q * j) /\ x + H \in Int
    <3> DEFINE z == B * j
    <3>1. z \in Int /\ x % B = x + z /\ z = Full * (q * j)
      BY <1>2, <1>7, <2>1
    <3> HIDE DEF z
    <3>2. (x % B) + H = (x + H) + z /\ x + H \in Int
      BY <1>2, <1>4, <3>1
    <3> QED BY <3>1, <3>2
  <2> QED BY <1>2, <2>1, <2>2, ModShift
<1> QED BY <1>5, <1>6, <1>8

\* The operands of a tile, and that the registers hold its totals.
LEMMA TileFits ==
    ASSUME BenchTypes, NEW k \in DOMAIN tiles
    PROVE  /\ tiles[k] \in Seq(Pe!Pair) /\ Len(tiles[k]) \in Nat
           /\ k \in DOMAIN Lengths[test] /\ Len(tiles[k]) = Lengths[test][k]
           /\ \A n \in 0 .. Len(tiles[k]) :
                LET total == Pe!Golden(SubSeq(tiles[k], n + 1, Len(tiles[k]))) IN
                total.acc \in SignedRange(ACC_W) /\ total.skip \in 0 .. 2^SKIP_W - 1
<1>1. /\ test \in Tests /\ tiles \in [1 .. Len(Lengths[test]) -> Seq(Pe!Pair)]
      /\ tiles[k] \in Operands(test, k)
  BY DEF BenchTypes
<1>2. Lengths[test] \in Seq(Nat \ {0})
  BY <1>1, BenchAssumption
<1>3. k \in DOMAIN Lengths[test]
  BY <1>1, <1>2
<1>4. tiles[k] \in Seq(Pe!Pair) /\ Len(tiles[k]) \in Nat
  BY <1>1, LenProperties
<1> QED BY <1>1, <1>3, <1>4, OperandAssumption

\* What the registers report of a tile, or of what a clear left of it, fits them.
LEMMA ResultFits ==
    ASSUME BenchTypes, NEW k, k # 0, k \in DOMAIN tiles \/ (k = REST /\ 1 \in DOMAIN tiles)
    PROVE  LET total == Pe!Golden(Result(k)) IN
           total.acc \in SignedRange(ACC_W) /\ total.skip \in 0 .. 2^SKIP_W - 1
<1>1. CASE k = REST
  <2>1. 1 \in DOMAIN tiles
    <3>1. tiles \in [1 .. Len(Lengths[test]) -> Seq(Pe!Pair)] /\ Len(Lengths[test]) \in Nat
      BY BenchAssumption DEF BenchTypes
    <3> QED BY <1>1, <3>1 DEF REST
  <2> DEFINE s == tiles[1]
  <2>2. s \in Seq(Pe!Pair) /\ Len(s) \in Nat /\ split \in Nat
    BY <2>1, TileFits DEF BenchTypes
  <2>3. Result(k) = SubSeq(s, split + 1, Len(s))
    BY <1>1 DEF Result, REST
  <2>4. CASE split <= Len(s)
    <3>1. split \in 0 .. Len(s)
      BY <2>2, <2>4
    <3> QED BY <2>1, <2>3, <3>1, TileFits
  <2>5. CASE ~(split <= Len(s))
    <3>1. SubSeq(s, split + 1, Len(s)) = <<>>
      BY <2>2, <2>5, SubSeqEmpty
    <3>2. SubSeq(s, Len(s) + 1, Len(s)) = <<>>
      BY <2>2, SubSeqEmpty
    <3>3. Len(s) \in 0 .. Len(s)
      BY <2>2
    <3>4. SubSeq(s, split + 1, Len(s)) = SubSeq(s, Len(s) + 1, Len(s))
      BY <3>1, <3>2
    <3> QED BY <2>1, <2>3, <3>3, <3>4, TileFits
  <2> QED BY <2>4, <2>5
<1>2. CASE k # REST
  <2>1. k \in DOMAIN tiles
    BY <1>2
  <2>2. Result(k) = tiles[k]
    BY <1>2 DEF Result
  <2>3. 0 \in 0 .. Len(tiles[k])
    BY <2>1, TileFits
  <2>4. SubSeq(tiles[k], 0 + 1, Len(tiles[k])) = tiles[k]
    <3>1. tiles[k] \in Seq(Pe!Pair)
      BY <2>1, TileFits
    <3> QED BY <3>1, SubSeqFull
  <2> QED BY <2>1, <2>2, <2>3, <2>4, TileFits
<1> QED BY <1>1, <1>2

\* The words of a tile's results are golden's.
LEMMA ResultWords ==
    ASSUME AccelInv, BenchTypes, NEW k, k # 0,
           k \in DOMAIN tiles \/ (k = REST /\ 1 \in DOMAIN tiles), last = Result(k)
    PROVE  /\ Signed(Unsigned(acc_q, AXIL_DATA_W), ACC_W) = Pe!Golden(Result(k)).acc
           /\ Unsigned(skip_q, AXIL_DATA_W) = Pe!Golden(Result(k)).skip
<1> DEFINE g == Pe!Golden(Result(k))
<1>1. g.acc \in SignedRange(ACC_W) /\ g.skip \in 0 .. 2^SKIP_W - 1
  BY ResultFits
<1>2. /\ ACC_W \in Nat \ {0} /\ SKIP_W \in Nat /\ AXIL_DATA_W \in Nat
      /\ ACC_W <= AXIL_DATA_W /\ SKIP_W <= AXIL_DATA_W
  BY Widths, BusWidth
<1>3. [acc |-> acc_q, skip |-> skip_q] = Pe!Expected(Result(k))
  BY DEF AccelInv, DataInv, ResultIsLastTile
<1>4. acc_q = Signed(g.acc, ACC_W) /\ skip_q = Unsigned(g.skip, SKIP_W)
  BY <1>3 DEF Pe!Expected, Signed, Pe!Signed, Unsigned, Pe!Unsigned
<1> HIDE DEF g
<1>5. acc_q = g.acc
  BY <1>1, <1>2, <1>4, SignedOfRange
<1>6. /\ 2^SKIP_W \in Nat /\ 2^SKIP_W > 0 /\ 2^AXIL_DATA_W \in Nat
      /\ 2^SKIP_W <= 2^AXIL_DATA_W
  BY <1>2, PowPositive, PowMonotone
<1>7. \A S \in Nat, A \in Nat : \A x \in 0 .. S - 1 : S <= A => x % S = x /\ x % A = x
  OBVIOUS
<1>8. g.skip % 2^SKIP_W = g.skip /\ g.skip % 2^AXIL_DATA_W = g.skip
  BY <1>1, <1>6, <1>7
<1>9. skip_q = g.skip /\ Unsigned(skip_q, AXIL_DATA_W) = g.skip
  BY <1>4, <1>8 DEF Unsigned
<1>10. Signed(Unsigned(g.acc, AXIL_DATA_W), ACC_W) = g.acc
  BY <1>1, <1>2, SignedThroughBus
<1> QED BY <1>5, <1>9, <1>10 DEF g

\* After a clear both results are zero.
LEMMA ZeroWords ==
    ASSUME AccelInv, last = <<>>
    PROVE  Unsigned(acc_q, AXIL_DATA_W) = 0 /\ Unsigned(skip_q, AXIL_DATA_W) = 0
<1>1. [acc |-> acc_q, skip |-> skip_q] = Pe!Expected(<<>>)
  BY DEF AccelInv, DataInv, ResultIsLastTile
<1>2. acc_q = 0 /\ skip_q = 0
  BY <1>1, ExpectedEmpty
<1>3. 2^AXIL_DATA_W \in Nat /\ 2^AXIL_DATA_W > 0
  BY BusWidth, PowPositive
<1>4. \A A \in Nat : A > 0 => 0 % A = 0
  OBVIOUS
<1> QED BY <1>2, <1>3, <1>4 DEF Unsigned

\* The words of the other registers.
LEMMA RegisterWords ==
    ASSUME AccelInv, NEW b \in BOOLEAN
    PROVE  /\ rd_mux("ID", b) = ID_VALUE /\ rd_mux("UNMAPPED", b) = 0
           /\ start_pulse = FALSE /\ clear_pulse = FALSE
                => rd_mux("CTRL", b) = IF en_reg THEN CTRL_EN ELSE 0
           /\ rd_mux("STATUS", b) = (IF state # "S_IDLE" \/ b THEN 1 ELSE 0)
                                     + (IF done_q /\ ~b THEN 2 ELSE 0)
           /\ rd_mux("ACC", b) = Unsigned(acc_q, AXIL_DATA_W)
           /\ rd_mux("SKIP", b) = Unsigned(skip_q, AXIL_DATA_W)
<1>1. 2^0 = 1 /\ 2^1 = 2 /\ 2^2 = 4
  OBVIOUS
<1>2. /\ rd_mux("ID", b) = ID_VALUE /\ rd_mux("UNMAPPED", b) = 0
      /\ rd_mux("CTRL", b) = ctrl_word /\ rd_mux("STATUS", b) = status_word(b)
      /\ rd_mux("ACC", b) = Unsigned(acc_q, AXIL_DATA_W)
      /\ rd_mux("SKIP", b) = Unsigned(skip_q, AXIL_DATA_W)
  BY DEF rd_mux
<1>3. ASSUME start_pulse = FALSE, clear_pulse = FALSE
      PROVE  ctrl_word = IF en_reg THEN CTRL_EN ELSE 0
  BY <1>1, <1>3 DEF ctrl_word, Bit, CTRL_EN
<1>4. status_word(b) = (IF state # "S_IDLE" \/ b THEN 1 ELSE 0) + (IF done_q /\ ~b THEN 2 ELSE 0)
  BY <1>1 DEF status_word, Bit
<1> QED BY <1>2, <1>3, <1>4

-----------------------------------------------------------------------------
(* An edge of the register channels                                        *)

\* An edge out of reset, whatever the test makes of it.
Tick == Clocked /\ ChannelEdge /\ UNCHANGED <<wr, ra>>

\* What the edge does to the channels, with the operators unfolded.
LEMMA ChannelFacts ==
    ASSUME AccelInv, BenchTypes, Tick
    PROVE  /\ Clocked /\ wr' = wr /\ ra' = ra
           /\ lag \in [Channels -> Int] /\ lag' = [ch \in Channels |-> AfterEdge(ch)]
           /\ {aw_pend, w_pend, bvalid_q, rvalid_q} \subseteq BOOLEAN
           /\ aw_fire(AwPin) <=> lag["aw"] = 0 /\ ~aw_pend /\ ~bvalid_q
           /\ w_fire(WPin) <=> lag["w"] = 0 /\ ~w_pend /\ ~bvalid_q
           /\ ar_fire(ArPin) <=> lag["ar"] = 0 /\ ~rvalid_q
           /\ BPin <=> lag["b"] = 0
           /\ RPin <=> lag["r"] = 0
           /\ WriteChannel(AwPin, WPin, BPin)
           /\ ReadChannel(ArPin, RPin, rd_mux(ra, start_taken(AwPin, WPin)))
           /\ CtrlReg(AwPin, WPin)
<1>1. Clocked /\ wr' = wr /\ ra' = ra
  BY DEF Tick
<1>2. lag \in [Channels -> Int] /\ lag' = [ch \in Channels |-> AfterEdge(ch)]
  BY DEF Tick, ChannelEdge, BenchTypes
<1>3. {aw_pend, w_pend, bvalid_q, rvalid_q} \subseteq BOOLEAN
  BY DEF AccelInv, DataInv, TypeOK, SlaveTypeOK
<1>4. /\ aw_fire(AwPin) <=> lag["aw"] = 0 /\ ~aw_pend /\ ~bvalid_q
      /\ w_fire(WPin) <=> lag["w"] = 0 /\ ~w_pend /\ ~bvalid_q
      /\ ar_fire(ArPin) <=> lag["ar"] = 0 /\ ~rvalid_q
  BY DEF aw_fire, w_fire, ar_fire, AwPin, WPin, ArPin, s_axi_awready, s_axi_wready, s_axi_arready
<1>5. /\ BPin <=> lag["b"] = 0
      /\ RPin <=> lag["r"] = 0
  BY DEF BPin, RPin
<1>6. /\ WriteChannel(AwPin, WPin, BPin)
      /\ ReadChannel(ArPin, RPin, rd_mux(ra, start_taken(AwPin, WPin)))
      /\ CtrlReg(AwPin, WPin)
  <2>1. ArPin.addr = ra
    BY DEF ArPin
  <2> QED BY <2>1 DEF Tick, Clocked, Cycle, SlaveEdge
<1> QED BY <1>1, <1>2, <1>3, <1>4, <1>5, <1>6

\* What becomes of a channel's request.
LEMMA LagFacts ==
    ASSUME AccelInv, BenchTypes, Tick
    PROVE  /\ \A ch \in Channels :
                 /\ lag'[ch] = AfterEdge(ch)
                 /\ lag[ch] = Idle => AfterEdge(ch) = Idle
                 /\ lag[ch] \in Nat /\ lag[ch] # 0 => AfterEdge(ch) = lag[ch] - 1
           /\ lag["aw"] = 0 => AfterEdge("aw") = IF ~aw_pend /\ ~bvalid_q THEN Idle ELSE 0
           /\ lag["w"] = 0 => AfterEdge("w") = IF ~w_pend /\ ~bvalid_q THEN Idle ELSE 0
           /\ lag["b"] = 0 => AfterEdge("b") = IF bvalid_q THEN Idle ELSE 0
           /\ lag["ar"] = 0 => AfterEdge("ar") = IF ~rvalid_q THEN Idle ELSE 0
           /\ lag["r"] = 0 => AfterEdge("r") = IF rvalid_q THEN Idle ELSE 0
<1>1. /\ lag' = [ch \in Channels |-> AfterEdge(ch)]
      /\ lag \in [Channels -> Int]
  BY ChannelFacts
<1>2. \A ch \in Channels :
         /\ lag'[ch] = AfterEdge(ch)
         /\ lag[ch] = Idle => AfterEdge(ch) = Idle
         /\ lag[ch] \in Nat /\ lag[ch] # 0 => AfterEdge(ch) = lag[ch] - 1
  BY <1>1 DEF AfterEdge, Idle
<1>3. /\ Answers("aw") <=> ~aw_pend /\ ~bvalid_q
      /\ Answers("w") <=> ~w_pend /\ ~bvalid_q
      /\ Answers("b") <=> bvalid_q
      /\ Answers("ar") <=> ~rvalid_q
      /\ Answers("r") <=> rvalid_q
  BY DEF Answers, s_axi_awready, s_axi_wready, s_axi_arready
<1>4. lag["aw"] = 0 => AfterEdge("aw") = IF ~aw_pend /\ ~bvalid_q THEN Idle ELSE 0
  BY <1>3 DEF AfterEdge
<1>5. lag["w"] = 0 => AfterEdge("w") = IF ~w_pend /\ ~bvalid_q THEN Idle ELSE 0
  BY <1>3 DEF AfterEdge
<1>6. lag["b"] = 0 => AfterEdge("b") = IF bvalid_q THEN Idle ELSE 0
  BY <1>3 DEF AfterEdge
<1>7. lag["ar"] = 0 => AfterEdge("ar") = IF ~rvalid_q THEN Idle ELSE 0
  BY <1>3 DEF AfterEdge
<1>8. lag["r"] = 0 => AfterEdge("r") = IF rvalid_q THEN Idle ELSE 0
  BY <1>3 DEF AfterEdge
<1> QED BY <1>2, <1>4, <1>5, <1>6, <1>7, <1>8

\* An edge on which no address and no word of a write is taken.
LEMMA NoWrite ==
    ASSUME AccelInv, BenchTypes, Tick, aw_pend = FALSE, w_pend = FALSE,
           lag["aw"] = Idle, lag["w"] = Idle
    PROVE  /\ start_pulse' = FALSE /\ clear_pulse' = FALSE /\ en_reg' = en_reg
           /\ start_taken(AwPin, WPin) = start_pulse
           /\ aw_pend' = FALSE /\ w_pend' = FALSE
           /\ bvalid_q' = (bvalid_q /\ lag["b"] # 0)
           /\ lag'["aw"] = Idle /\ lag'["w"] = Idle
<1>1. ~aw_fire(AwPin) /\ ~w_fire(WPin) /\ bvalid_q \in BOOLEAN /\ (BPin <=> lag["b"] = 0)
  BY ChannelFacts DEF Idle
<1>2. ~wr_commit(AwPin, WPin)
  BY <1>1 DEF wr_commit
<1>3. ctrl_reg' = [start |-> FALSE, clear |-> FALSE, en |-> ctrl_reg.en]
  <2>1. CtrlReg(AwPin, WPin)
    BY ChannelFacts
  <2> QED BY <1>2, <2>1 DEF CtrlReg, ctrl_wr, reg_wr
<1>4. start_pulse' = FALSE /\ clear_pulse' = FALSE /\ en_reg' = en_reg
  BY <1>3 DEF start_pulse, clear_pulse, en_reg
<1>5. start_taken(AwPin, WPin) = start_pulse
  <2>1. start_pulse \in BOOLEAN
    BY DEF AccelInv, DataInv, TypeOK, start_pulse
  <2> QED BY <1>2, <2>1 DEF start_taken, ctrl_wr, reg_wr
<1>6. aw_pend' = FALSE /\ w_pend' = FALSE /\ bvalid_q' = (bvalid_q /\ lag["b"] # 0)
  <2>1. WriteChannel(AwPin, WPin, BPin)
    BY ChannelFacts
  <2> QED BY <1>1, <1>2, <2>1 DEF WriteChannel
<1>7. lag'["aw"] = Idle /\ lag'["w"] = Idle
  BY LagFacts DEF Channels
<1> QED BY <1>4, <1>5, <1>6, <1>7

\* The response of a write is taken if there is one.
LEMMA ResponseMoves ==
    ASSUME AccelInv, BenchTypes, Tick, aw_pend = FALSE, w_pend = FALSE,
           lag["aw"] = Idle, lag["w"] = Idle, NEW c, ResponseAt(c)
    PROVE  lag'["b"] = Idle /\ bvalid_q' = FALSE
<1>1. bvalid_q' = (bvalid_q /\ lag["b"] # 0) /\ bvalid_q \in BOOLEAN
  BY NoWrite, ChannelFacts
<1>2. lag'["b"] = Idle
  BY LagFacts DEF ResponseAt, Channels
<1> QED BY <1>1, <1>2 DEF ResponseAt

\* With no access under way the registers and the channels stay as they are.
LEMMA QuietMoves ==
    ASSUME AccelInv, BenchTypes, Tick, NEW c, Quiet(c)
    PROVE  /\ start_pulse' = FALSE /\ clear_pulse' = FALSE /\ en_reg' = en_reg
           /\ \A d : Quiet(d)'
<1>1. /\ lag["aw"] = Idle /\ lag["w"] = Idle /\ lag["ar"] = Idle /\ lag["r"] = Idle
      /\ aw_pend = FALSE /\ w_pend = FALSE /\ rvalid_q = FALSE /\ ResponseAt(c)
  BY DEF Quiet
<1>2. /\ start_pulse' = FALSE /\ clear_pulse' = FALSE /\ en_reg' = en_reg
      /\ aw_pend' = FALSE /\ w_pend' = FALSE /\ lag'["aw"] = Idle /\ lag'["w"] = Idle
  BY <1>1, NoWrite
<1>3. lag'["b"] = Idle /\ bvalid_q' = FALSE
  BY <1>1, ResponseMoves
<1>4. lag'["ar"] = Idle /\ lag'["r"] = Idle
  BY <1>1, LagFacts DEF Channels
<1>5. rvalid_q' = FALSE
  <2>1. ~ar_fire(ArPin) /\ ReadChannel(ArPin, RPin, rd_mux(ra, start_taken(AwPin, WPin)))
    BY <1>1, ChannelFacts DEF Idle
  <2> QED BY <1>1, <2>1 DEF ReadChannel
<1>6. ASSUME NEW d PROVE Quiet(d)'
  BY <1>2, <1>3, <1>4, <1>5 DEF Quiet, ResponseAt
<1> QED BY <1>2, <1>6

-----------------------------------------------------------------------------
(* An edge of a read                                                       *)

\* What a read asks for was generated.
Fits(op) == op.kind = "read" => IF op.of = REST THEN 1 \in DOMAIN tiles
                                ELSE op.of = 0 \/ op.of \in DOMAIN tiles

\* The word w is one that the read accepts.
Golden(op, w) ==
    IF op.of = 0 THEN w \in op.want
    ELSE IF op.addr = "ACC" THEN Signed(w, ACC_W) = Pe!Golden(Result(op.of)).acc
    ELSE w = Pe!Golden(Result(op.of)).skip

\* The register holds such a word where the outline reads it.
LEMMA GoodWord ==
    ASSUME AccelInv, BenchTypes, NEW c \in Contexts, NEW op, op.kind = "read", Plain(c),
           Readable(c, op), Engine(c), Fits(op), start_pulse = FALSE
    PROVE  Golden(op, rd_mux(op.addr, start_pulse))
<1> DEFINE w == rd_mux(op.addr, start_pulse)
<1>1. /\ TileAt(c, start_pulse) /\ SourceAt(c) /\ CounterAt(c)
      /\ clear_pulse = FALSE /\ en_reg = c.en
  BY DEF Engine
<1>2. start_pulse \in BOOLEAN /\ done_q \in BOOLEAN
  BY DEF AccelInv, DataInv, TypeOK, start_pulse
<1>3. /\ c.mode \in {"idle", "busy"} /\ c.en \in BOOLEAN /\ c.sent \in BOOLEAN /\ c.done \in BOOLEAN
  BY ContextFields, ShapeFields DEF Plain
<1>4. /\ rd_mux("ID", start_pulse) = ID_VALUE /\ rd_mux("UNMAPPED", start_pulse) = 0
      /\ start_pulse = FALSE /\ clear_pulse = FALSE
           => rd_mux("CTRL", start_pulse) = IF en_reg THEN CTRL_EN ELSE 0
      /\ rd_mux("STATUS", start_pulse) = (IF state # "S_IDLE" \/ start_pulse THEN 1 ELSE 0)
                                + (IF done_q /\ ~start_pulse THEN 2 ELSE 0)
      /\ rd_mux("ACC", start_pulse) = Unsigned(acc_q, AXIL_DATA_W)
      /\ rd_mux("SKIP", start_pulse) = Unsigned(skip_q, AXIL_DATA_W)
  BY <1>2, RegisterWords
<1>5. CASE op.addr = "ID" /\ op.of = 0 /\ op.want = {ID_VALUE}
  BY <1>4, <1>5 DEF Golden
<1>6. CASE op.addr = "UNMAPPED" /\ op.of = 0 /\ op.want = {0}
  BY <1>4, <1>6 DEF Golden
<1>8. CASE op.addr = "STATUS" /\ op.of = 0 /\ op.want = {0} /\ c.mode = "idle" /\ ~c.done
  <2>1. state = "S_IDLE" /\ start_pulse = FALSE /\ done_q = FALSE
    BY <1>1, <1>2, <1>3, <1>8 DEF TileAt, Resting
  <2> QED BY <1>4, <1>8, <2>1 DEF Golden
<1>9. CASE op.addr = "STATUS" /\ op.of = 0 /\ op.want = InFlight /\ c.mode = "busy" /\ ~c.sent
  <2>1. Underway(c, start_pulse)
    BY <1>1, <1>9 DEF TileAt, Complete
  <2>2. (state # "S_IDLE" \/ start_pulse) /\ ~(done_q /\ ~start_pulse)
    BY <2>1 DEF Underway
  <2> QED BY <1>4, <1>9, <2>2 DEF Golden, InFlight
<1>10. CASE /\ op.addr \in {"ACC", "SKIP"} /\ op.of = 0 /\ op.want = {0} /\ c.last = 0
            /\ c.mode = "idle" \/ (c.count = "cut" /\ c.sent /\ c.goal = REST)
  <2>1. Result(0) = <<>>
    BY DEF Result
  <2>2. last = <<>>
    <3>1. CASE c.mode = "idle"
      BY <1>1, <1>10, <2>1, <3>1 DEF TileAt, Resting
    <3>2. CASE c.mode # "idle" /\ Underway(c, start_pulse)
      BY <1>10, <2>1, <3>2 DEF Underway
    <3>3. CASE c.mode # "idle" /\ Complete(c, start_pulse)
      <4>1. frame = <<>> /\ last = Result(REST) /\ c.count = "cut" /\ c.sent
        BY <1>10, <3>3 DEF Complete
      <4>2. split = Len(tiles[1]) - Len(frame)
        BY <1>1, <4>1 DEF CounterAt
      <4>3. Result(REST) = SubSeq(tiles[1], split + 1, Len(tiles[1]))
        BY DEF Result, REST
      <4>4. split \in Nat /\ Len(frame) = 0
        BY <4>1 DEF BenchTypes
      <4>5. Len(tiles[1]) \in Int /\ split = Len(tiles[1])
        <5>1. split = consumed /\ consumed = Len(tiles[1]) - Len(frame)
          BY <1>1, <4>1 DEF CounterAt
        <5>2. last \in Seq(Pe!Pair) /\ Fits(op)
          BY DEF AccelInv, DataInv, TypeOK
        <5> QED BY <4>2, <4>4, <5>1
      <4> QED BY <4>1, <4>3, <4>5, SubSeqEmpty
    <3> QED BY <1>1, <3>1, <3>2, <3>3 DEF TileAt
  <2> QED BY <1>4, <1>10, <2>2, ZeroWords DEF Golden
<1>11. CASE op.addr \in {"ACC", "SKIP"} /\ op.of # 0 /\ op.of = c.last /\ c.mode = "idle"
  <2>1. last = Result(op.of)
    BY <1>1, <1>11 DEF TileAt, Resting
  <2>2. op.of \in DOMAIN tiles \/ (op.of = REST /\ 1 \in DOMAIN tiles)
    BY <1>11 DEF Fits
  <2>3. /\ Signed(Unsigned(acc_q, AXIL_DATA_W), ACC_W) = Pe!Golden(Result(op.of)).acc
        /\ Unsigned(skip_q, AXIL_DATA_W) = Pe!Golden(Result(op.of)).skip
    BY <1>11, <2>1, <2>2, ResultWords
  <2> QED BY <1>4, <1>11, <2>3 DEF Golden
<1>12. CASE /\ op.addr = "CTRL" /\ op.of = 0
            /\ (op.want = {CTRL_EN} /\ c.en) \/ (op.want = {0} /\ ~c.en)
  <2>1. rd_mux("CTRL", start_pulse) = IF c.en THEN CTRL_EN ELSE 0
    BY <1>1, <1>4
  <2> QED BY <1>12, <2>1 DEF Golden
<1> QED BY <1>5, <1>6, <1>8, <1>9, <1>10, <1>11, <1>12 DEF Readable

\* What the test makes of the word depends on the word only.
LEMMA AcceptsGolden ==
    ASSUME NEW op
    PROVE  /\ Accepts(op) <=> Golden(op, rdata_q)
           /\ UNCHANGED <<tiles, split>> => (Accepts(op)' <=> Golden(op, rdata_q'))
<1>1. \A k : k # 0 => Result(k) = IF k = REST THEN SubSeq(tiles[1], split + 1, Len(tiles[1]))
        ELSE tiles[k]
  BY DEF Result
<1>2. Accepts(op) <=> Golden(op, rdata_q)
  BY <1>1 DEF Accepts, Golden
<1>3. ASSUME UNCHANGED <<tiles, split>> PROVE Accepts(op)' <=> Golden(op, rdata_q')
  BY <1>1, <1>3 DEF Accepts, Golden
<1> QED BY <1>2, <1>3

\* The word of a read, as it is taken: the test accepts it, or the tile has
\* overtaken the read.
LEMMA ReadWord ==
    ASSUME AccelInv, AccelInv', BenchTypes, BenchTypes', Clocked, NEW c \in Contexts, NEW op,
           NEW d, ReadRule(test, c, op, d), Fits(op), Engine(c), start_pulse = FALSE,
           rdata_q' = rd_mux(op.addr, start_pulse)
    PROVE  Heard(c, op)'
<1>1. op.kind = "read" /\ UNCHANGED <<tiles, split, test>>
  BY DEF ReadRule, Clocked
<1>2. CASE Plain(c) /\ Readable(c, op)
  <2>1. Golden(op, rdata_q')
    BY <1>1, <1>2, GoodWord
  <2> QED BY <1>1, <2>1, AcceptsGolden DEF Heard
<1>3. CASE Racing(test, c, op)
  <2>1. /\ c.mode = "polled" /\ c.last = 1 /\ c.sent = TRUE
        /\ op = ReadResult(M, "ACC", 1) \/ op = ReadResult(M, "SKIP", 1)
    BY <1>3, ContextFields, ShapeFields DEF Racing
  <2>2. op.of = 1 /\ op.addr \in {"ACC", "SKIP"}
    BY <2>1 DEF ReadResult, Read
  <2>3. Racing(test, c, op)'
    BY <1>1, <1>3 DEF Racing
  <2>4. TileAt(c, start_pulse) /\ SourceAt(c)
    BY DEF Engine
  <2>5. CASE Underway(c, start_pulse)
    <3>1. last = Result(1)
      BY <2>1, <2>5 DEF Underway
    <3>2. 1 \in DOMAIN tiles
      BY <1>1, <2>2 DEF Fits, REST
    <3>3. /\ Signed(Unsigned(acc_q, AXIL_DATA_W), ACC_W) = Pe!Golden(Result(1)).acc
          /\ Unsigned(skip_q, AXIL_DATA_W) = Pe!Golden(Result(1)).skip
      BY <3>1, <3>2, ResultWords
    <3>4. /\ rd_mux("ACC", start_pulse) = Unsigned(acc_q, AXIL_DATA_W)
          /\ rd_mux("SKIP", start_pulse) = Unsigned(skip_q, AXIL_DATA_W)
      BY RegisterWords
    <3>5. Golden(op, rdata_q')
      BY <2>2, <3>3, <3>4 DEF Golden
    <3> QED BY <1>1, <3>5, AcceptsGolden DEF Heard
  <2>6. CASE Complete(c, start_pulse)
    <3>1. state = "S_IDLE" /\ ~start_pulse /\ done_q = TRUE /\ (offered => frame # <<>>)
      BY <2>4, <2>6 DEF Complete, SourceAt
    <3>2. done_q' = ((done_q /\ ~(state = "S_IDLE" /\ start_pulse)) \/ state = "S_LATCH")
      BY <3>1, ClockedFacts
    <3>3. done_q' = TRUE
      BY <3>1, <3>2
    <3> QED BY <1>1, <2>3, <3>3 DEF Heard
  <2> QED BY <2>1, <2>4, <2>5, <2>6 DEF TileAt
<1> QED BY <1>2, <1>3 DEF ReadRule

\* The word of a poll, as it is taken: DONE, or BUSY with polls left.
LEMMA PollWord ==
    ASSUME AccelInv, AccelInv', BenchTypes, BenchTypes', Clocked, NEW c \in Contexts, NEW op,
           op.kind = "poll", c.mode = "polled", Device(c), start_pulse' = FALSE, polls' = polls,
           c.watch = "first" /\ ~saw => Len(frame) > 0,
           rdata_q' = rd_mux("STATUS", start_pulse)
    PROVE  Heard(c, op)'
<1>1. /\ TileAt(c, start_pulse) /\ SourceAt(c) /\ clear_pulse = FALSE /\ en_reg = TRUE
      /\ PollsAt(c)
  <2>1. c.en = TRUE
    BY ContextFields, ShapeFields
  <2> QED BY <2>1 DEF Device, Engine
<1>2. Work' \in Nat /\ (Work = 0 => Work' = 0) /\ (Work # 0 => Work' < Work)
  BY <1>1, WorkMoves
<1>3. rdata_q' = (IF state # "S_IDLE" \/ start_pulse THEN 1 ELSE 0)
                  + (IF done_q /\ ~start_pulse THEN 2 ELSE 0)
  <2>1. start_pulse \in BOOLEAN
    BY DEF AccelInv, DataInv, TypeOK, start_pulse
  <2> QED BY <2>1, RegisterWords
<1>4. /\ Work \in Nat
      /\ Work = 0 <=> (state = "S_IDLE" /\ ~start_pulse)
  BY WorkFacts
<1>5. saw' = saw
  BY DEF Clocked
<1>6. CASE Complete(c, start_pulse)
  <2>1. /\ state = "S_IDLE" /\ ~start_pulse /\ done_q = TRUE /\ frame = <<>>
    BY <1>6 DEF Complete
  <2>2. rdata_q' = 2
    BY <1>3, <2>1
  <2>3. Work' = 0
    BY <1>2, <1>4, <2>1
  <2>4. Len(frame) = 0
    BY <2>1
  <2> QED BY <1>5, <2>2, <2>3, <2>4 DEF Heard
<1>7. CASE Underway(c, start_pulse)
  <2>1. (state # "S_IDLE" \/ start_pulse) /\ ~(done_q /\ ~start_pulse)
    BY <1>7 DEF Underway
  <2>2. rdata_q' = 1 /\ Work # 0
    BY <1>3, <1>4, <2>1
  <2>3. Work' + polls + 1 < POLL_LIMIT
    <3>1. polls \in Nat /\ POLL_LIMIT \in Nat
      BY BenchAssumption DEF BenchTypes
    <3>2. CASE polls = 0
      <4>1. Work + 1 < POLL_LIMIT
        BY <1>1, WorkBound
      <4>2. \A v \in Nat, w \in Nat : w + 1 < POLL_LIMIT /\ v < w => v + 0 + 1 < POLL_LIMIT
        BY <3>1
      <4> QED BY <1>2, <1>4, <2>2, <3>2, <4>1, <4>2, Zenon
    <3>3. CASE polls # 0
      <4>1. Work + polls < POLL_LIMIT
        BY <1>1, <2>2, <3>3 DEF PollsAt
      <4>2. \A v \in Nat, w \in Nat : w + polls < POLL_LIMIT /\ v < w => v + polls + 1 < POLL_LIMIT
        BY <3>1
      <4> QED BY <1>2, <1>4, <2>2, <4>1, <4>2, Zenon
    <3> QED BY <3>2, <3>3
  <2>4. (Work + polls + 1 < POLL_LIMIT)'
    BY <2>3
  <2> QED BY <2>2, <2>4 DEF Heard
<1> QED BY <1>1, <1>6, <1>7 DEF TileAt

\* An edge of a read or of a poll: the address comes nearer, or is taken, or the
\* word is.
LEMMA ReadingMoves ==
    ASSUME AccelInv, AccelInv', BenchTypes, BenchTypes', Tick, NEW c \in Contexts, NEW op, NEW d,
           ReadRule(test, c, op, d) \/ PollRule(test, c, op, d), Fits(op), Reading(c, op)
    PROVE  \/ ~Settled({"ar", "r"}) /\ (polls' = polls => Reading(c, op)')
           \/ /\ Settled({"ar", "r"}) /\ Heard(c, op)
              /\ Engine(c)' /\ (done_q = TRUE => done_q' = TRUE)
              /\ start_pulse' = FALSE /\ (\A e : Quiet(e)')
              /\ c.mode = "polled" => Work' \in Nat /\ Work' <= Work
<1>1. /\ aw_pend = FALSE /\ w_pend = FALSE /\ ra = op.addr
      /\ lag["aw"] = Idle /\ lag["w"] = Idle /\ lag["r"] = 0
      /\ Device(c)
  BY DEF Reading
<1>2. /\ start_pulse' = FALSE /\ clear_pulse' = FALSE /\ en_reg' = en_reg
      /\ start_taken(AwPin, WPin) = start_pulse
      /\ aw_pend' = FALSE /\ w_pend' = FALSE
      /\ bvalid_q' = (bvalid_q /\ lag["b"] # 0)
      /\ lag'["aw"] = Idle /\ lag'["w"] = Idle
  BY <1>1, NoWrite
<1>3. /\ Clocked /\ ra' = op.addr
      /\ bvalid_q \in BOOLEAN /\ rvalid_q \in BOOLEAN
      /\ ar_fire(ArPin) <=> lag["ar"] = 0 /\ ~rvalid_q
      /\ RPin
      /\ rdata_q'  = IF ar_fire(ArPin) THEN rd_mux(op.addr, start_pulse) ELSE rdata_q
      /\ rvalid_q' = (ar_fire(ArPin) \/ (rvalid_q /\ ~RPin))
  BY <1>1, <1>2, ChannelFacts DEF ReadChannel
<1>4. Engine(c) /\ Engine(c)'
  <2>1. Engine(c)
    BY <1>1 DEF Device
  <2> QED BY <1>2, <1>3, <2>1, EngineMoves
<1>5. polls' = polls => Device(c)'
  BY <1>1, <1>2, <1>3, DeviceMoves
<1>6. /\ AfterEdge("r") = IF rvalid_q THEN Idle ELSE 0
      /\ lag'["r"] = AfterEdge("r") /\ lag'["ar"] = AfterEdge("ar") /\ lag'["b"] = AfterEdge("b")
      /\ lag["ar"] = 0 => AfterEdge("ar") = IF ~rvalid_q THEN Idle ELSE 0
      /\ lag["ar"] \in Nat /\ lag["ar"] # 0 => AfterEdge("ar") = lag["ar"] - 1
      /\ lag["ar"] = Idle => AfterEdge("ar") = Idle
      /\ lag["b"] = Idle => AfterEdge("b") = Idle
  BY <1>1, LagFacts DEF Channels
<1>7. Settled({"ar", "r"}) <=> AfterEdge("ar") = Idle /\ AfterEdge("r") = Idle
  BY DEF Settled
<1>8. offered => frame # <<>>
  BY <1>4 DEF Engine, SourceAt
<1>9. CASE /\ lag["ar"] \in 0 .. 1 + MAX_LAG /\ rvalid_q = FALSE
           /\ ResponseAt(c) /\ (start_pulse => c.open)
           /\ (c.watch = "first" /\ ~saw) => Len(frame) > lag["ar"]
  <2>1. ~Settled({"ar", "r"}) /\ lag'["r"] = 0
    BY <1>6, <1>7, <1>9 DEF Idle
  <2>2. lag'["b"] = Idle /\ bvalid_q' = FALSE
    BY <1>1, <1>9, ResponseMoves
  <2>3. MAX_LAG \in Nat
    BY BenchAssumption
  <2>4. CASE lag["ar"] # 0
    <3>1. lag["ar"] \in Nat /\ lag["ar"] - 1 \in 0 .. 1 + MAX_LAG
      BY <1>9, <2>3, <2>4
    <3>2. lag'["ar"] = lag["ar"] - 1 /\ rvalid_q' = FALSE
      BY <1>3, <1>6, <1>9, <2>4, <3>1
    <3>3. saw' = saw /\ frame' = (IF Taken THEN Tail(frame) ELSE frame)
      <4>1. saw' = saw
        BY <1>3 DEF Clocked
      <4> QED BY <1>3, <1>8, <4>1, ClockedFacts
    <3>4. Len(frame) \in Nat /\ Len(frame') \in Nat /\ Len(frame') >= Len(frame) - 1
      <4>1. frame \in Seq(Beat) /\ (Taken => frame # <<>>)
        BY <1>8 DEF BenchTypes, Taken
      <4> QED BY <3>3, <4>1, HeadTailProperties, LenProperties
    <3>5. (c.watch = "first" /\ ~saw) => Len(frame) > lag["ar"]
      BY <1>9
    <3>6. (c.watch = "first" /\ ~saw') => Len(frame') > lag'["ar"]
      BY <3>1, <3>2, <3>3, <3>4, <3>5
    <3>7. ASSUME polls' = polls PROVE Reading(c, op)'
      <4>1. Device(c)'
        BY <1>5, <3>7
      <4>2. (ResponseAt(c) /\ (start_pulse => c.open))'
        BY <1>2, <2>2 DEF ResponseAt
      <4> QED BY <1>2, <1>3, <2>1, <3>1, <3>2, <3>6, <4>1, <4>2 DEF Reading
    <3> QED BY <2>1, <3>7
  <2>5. CASE lag["ar"] = 0
    <3>1. lag'["ar"] = Idle /\ rvalid_q' = TRUE /\ rdata_q' = rd_mux(op.addr, start_pulse)
      BY <1>3, <1>6, <1>9, <2>5
    <3>2. ASSUME polls' = polls PROVE Heard(c, op)'
      <4>1. CASE ReadRule(test, c, op, d)
        <5>1. start_pulse = FALSE
          <6>1. ~c.open /\ start_pulse \in BOOLEAN
            BY <4>1 DEF ReadRule, AccelInv, DataInv, TypeOK, start_pulse
          <6> QED BY <1>9, <6>1
        <5> QED BY <1>3, <1>4, <3>1, <4>1, <5>1, ReadWord
      <4>2. CASE PollRule(test, c, op, d)
        <5>1. op.kind = "poll" /\ op.addr = "STATUS" /\ c.mode = "polled"
          BY <4>2 DEF PollRule
        <5>2. c.watch = "first" /\ ~saw => Len(frame) > 0
          BY <1>9, <2>5
        <5>3. rdata_q' = rd_mux("STATUS", start_pulse)
          BY <3>1, <5>1
        <5> QED BY <1>1, <1>2, <1>3, <3>2, <5>1, <5>2, <5>3, PollWord
      <4> QED BY <4>1, <4>2
    <3>3. ASSUME polls' = polls PROVE Reading(c, op)'
      <4>1. Device(c)' /\ Heard(c, op)'
        BY <1>5, <3>2, <3>3
      <4> QED BY <1>2, <1>3, <2>1, <2>2, <3>1, <4>1 DEF Reading
    <3> QED BY <2>1, <3>3
  <2> QED BY <2>4, <2>5
<1>10. CASE /\ lag["ar"] = Idle /\ rvalid_q = TRUE /\ lag["b"] = Idle /\ bvalid_q = FALSE
            /\ start_pulse = FALSE /\ Heard(c, op)
  <2>1. AfterEdge("ar") = Idle /\ AfterEdge("r") = Idle /\ Settled({"ar", "r"})
    BY <1>6, <1>7, <1>10
  <2>2. rvalid_q' = FALSE
    BY <1>3, <1>10 DEF Idle
  <2>3. lag'["ar"] = Idle /\ lag'["r"] = Idle /\ lag'["b"] = Idle /\ bvalid_q' = FALSE
    BY <1>2, <1>6, <1>10, <2>1
  <2>4. ASSUME NEW e PROVE Quiet(e)'
    BY <1>2, <2>2, <2>3 DEF Quiet, ResponseAt
  <2>5. done_q = TRUE => done_q' = TRUE
    <3>1. done_q' = ((done_q /\ ~(state = "S_IDLE" /\ start_pulse)) \/ state = "S_LATCH")
      BY <1>3, <1>8, ClockedFacts
    <3> QED BY <1>10, <3>1
  <2>6. ASSUME c.mode = "polled" PROVE Work' \in Nat /\ Work' <= Work
    <3>1. c.en = TRUE
      BY <2>6, ContextFields, ShapeFields
    <3>2. /\ TileAt(c, start_pulse) /\ SourceAt(c) /\ clear_pulse = FALSE /\ en_reg = TRUE
      BY <1>4, <3>1 DEF Engine
    <3>3. Work' \in Nat /\ (Work = 0 => Work' = 0) /\ (Work # 0 => Work' < Work)
      BY <1>2, <1>3, <2>6, <3>2, WorkMoves
    <3>4. Work \in Nat
      BY WorkFacts
    <3>5. \A v \in Nat, w \in Nat : (w = 0 => v = 0) /\ (w # 0 => v < w) => v <= w
      OBVIOUS
    <3> QED BY <3>3, <3>4, <3>5, Zenon
  <2> QED BY <1>2, <1>4, <1>10, <2>1, <2>4, <2>5, <2>6
<1> QED BY <1>9, <1>10 DEF Reading

-----------------------------------------------------------------------------
(* An edge of a write                                                      *)

\* An address or a word that the test presents: it has been taken before, is
\* taken on this edge, or is still to be.
LEMMA HalfMoves ==
    ASSUME AccelInv, BenchTypes, Tick, bvalid_q = FALSE,
           Waiting(0, "aw"), Waiting(0, "w"),
           aw_pend = (lag["aw"] = Idle), w_pend = (lag["w"] = Idle)
    PROVE  /\ \/ AfterEdge("aw") = Idle /\ (aw_pend \/ aw_fire(AwPin))
              \/ AfterEdge("aw") \in Nat /\ AfterEdge("aw") # Idle /\ ~aw_pend /\ ~aw_fire(AwPin)
           /\ \/ AfterEdge("w") = Idle /\ (w_pend \/ w_fire(WPin))
              \/ AfterEdge("w") \in Nat /\ AfterEdge("w") # Idle /\ ~w_pend /\ ~w_fire(WPin)
<1>1. /\ aw_fire(AwPin) <=> lag["aw"] = 0 /\ ~aw_pend /\ ~bvalid_q
      /\ w_fire(WPin) <=> lag["w"] = 0 /\ ~w_pend /\ ~bvalid_q
  BY ChannelFacts
<1>2. /\ lag["aw"] \in Nat \/ lag["aw"] = Idle
      /\ lag["w"] \in Nat \/ lag["w"] = Idle
      /\ aw_pend <=> lag["aw"] = Idle
      /\ w_pend <=> lag["w"] = Idle
      /\ aw_pend \in BOOLEAN /\ w_pend \in BOOLEAN
  BY ChannelFacts DEF Waiting
<1>3. \A n \in Nat : n # Idle
  BY DEF Idle
<1>4. \/ AfterEdge("aw") = Idle /\ (aw_pend \/ aw_fire(AwPin))
      \/ AfterEdge("aw") \in Nat /\ AfterEdge("aw") # Idle /\ ~aw_pend /\ ~aw_fire(AwPin)
  <2>1. CASE lag["aw"] = Idle
    BY <1>2, <2>1, LagFacts DEF Channels
  <2>2. CASE lag["aw"] = 0
    BY <1>1, <1>2, <1>3, <2>2, LagFacts
  <2>3. CASE lag["aw"] \in Nat /\ lag["aw"] # 0
    <3>1. AfterEdge("aw") = lag["aw"] - 1
      BY <2>3, LagFacts DEF Channels
    <3>2. AfterEdge("aw") \in Nat
      BY <2>3, <3>1
    <3> QED BY <1>1, <1>2, <1>3, <2>3, <3>2
  <2> QED BY <1>2, <2>1, <2>2, <2>3
<1>5. \/ AfterEdge("w") = Idle /\ (w_pend \/ w_fire(WPin))
      \/ AfterEdge("w") \in Nat /\ AfterEdge("w") # Idle /\ ~w_pend /\ ~w_fire(WPin)
  <2>1. CASE lag["w"] = Idle
    BY <1>2, <2>1, LagFacts DEF Channels
  <2>2. CASE lag["w"] = 0
    BY <1>1, <1>2, <1>3, <2>2, LagFacts
  <2>3. CASE lag["w"] \in Nat /\ lag["w"] # 0
    <3>1. AfterEdge("w") = lag["w"] - 1
      BY <2>3, LagFacts DEF Channels
    <3>2. AfterEdge("w") \in Nat
      BY <2>3, <3>1
    <3> QED BY <1>1, <1>2, <1>3, <2>3, <3>2
  <2> QED BY <1>2, <2>1, <2>2, <2>3
<1> QED BY <1>4, <1>5

\* Where the device is does not depend on whether a response is outstanding.
LEMMA OpenDevice ==
    ASSUME NEW c \in Contexts
    PROVE  /\ Device(c)' => Device(Open(c))'
           /\ Device(c) => Device(Open(c))
<1> DEFINE d == Open(c)
<1>1. /\ d.source = c.source /\ d.sent = c.sent /\ d.goal = c.goal /\ d.last = c.last
      /\ d.done = c.done /\ d.mode = c.mode /\ d.count = c.count /\ d.watch = c.watch
      /\ d.en = c.en
  BY DEF Open, Contexts, Shapes
<1> HIDE DEF d
<1>2. ASSUME Device(c)' PROVE Device(d)'
  <2>1. TileAt(c, start_pulse)' => TileAt(d, start_pulse)'
    BY <1>1 DEF TileAt, Resting, Underway, Complete, Ahead
  <2>2. SourceAt(c)' => SourceAt(d)'
    BY <1>1 DEF SourceAt
  <2>3. CounterAt(c)' => CounterAt(d)'
    BY <1>1 DEF CounterAt
  <2>4. PollsAt(c)' => PollsAt(d)'
    BY <1>1 DEF PollsAt
  <2> QED BY <1>1, <1>2, <2>1, <2>2, <2>3, <2>4 DEF Device, Engine
<1>3. ASSUME Device(c) PROVE Device(d)
  <2>1. TileAt(c, start_pulse) => TileAt(d, start_pulse)
    BY <1>1 DEF TileAt, Resting, Underway, Complete, Ahead
  <2>2. SourceAt(c) => SourceAt(d)
    BY <1>1 DEF SourceAt
  <2>3. CounterAt(c) => CounterAt(d)
    BY <1>1 DEF CounterAt
  <2>4. PollsAt(c) => PollsAt(d)
    BY <1>1 DEF PollsAt
  <2> QED BY <1>1, <1>3, <2>1, <2>2, <2>3, <2>4 DEF Device, Engine
<1> QED BY <1>2, <1>3 DEF d

\* An edge of a write: address and word come nearer, in either order; the write
\* is done on the edge on which the second of them is taken; and then the
\* response, if the test awaits it.
LEMMA WritingMoves ==
    ASSUME AccelInv, AccelInv', BenchTypes, BenchTypes', Tick, NEW c \in Contexts, NEW op,
           NEW d \in Contexts, WriteRule(c, op, d), Writing(c, op), polls' = polls
    PROVE  \/ ~Settled(op.awaits) /\ Writing(c, op)'
           \/ Settled(op.awaits) /\ Device(d)' /\ Quiet(d)'
<1>1. /\ wr = [addr |-> op.addr, data |-> op.data]
      /\ rvalid_q = FALSE /\ lag["ar"] = Idle /\ lag["r"] = Idle /\ lag["b"] = 0
  BY DEF Writing
<1>2. /\ Clocked /\ wr' = wr /\ wr.addr = op.addr /\ wr.data = op.data
      /\ {aw_pend, w_pend, bvalid_q, rvalid_q} \subseteq BOOLEAN
  BY <1>1, ChannelFacts
<1>3. /\ op.addr = "CTRL" /\ op.data \in CtrlWord /\ op.data.strb = TRUE
      /\ c.mode # "polled" /\ MayWrite(c, op.data)
  BY DEF WriteRule, Plain, CtrlWord
<1>4. /\ AfterEdge("ar") = Idle /\ AfterEdge("r") = Idle
      /\ AfterEdge("b") = IF bvalid_q THEN Idle ELSE 0
  BY <1>1, LagFacts DEF Channels
<1>5. /\ lag'["aw"] = AfterEdge("aw") /\ lag'["w"] = AfterEdge("w") /\ lag'["b"] = AfterEdge("b")
      /\ lag'["ar"] = AfterEdge("ar") /\ lag'["r"] = AfterEdge("r")
  BY LagFacts DEF Channels
<1>6. ~ar_fire(ArPin) /\ BPin
  BY <1>1, ChannelFacts DEF Idle
<1>7. rvalid_q' = FALSE
  BY <1>1, <1>6, ChannelFacts DEF ReadChannel
<1>8. /\ aw_addr_q' = IF aw_fire(AwPin) THEN op.addr ELSE aw_addr_q
      /\ w_data_q' = IF w_fire(WPin) THEN op.data ELSE w_data_q
      /\ aw_pend' = (~wr_commit(AwPin, WPin) /\ (aw_pend \/ aw_fire(AwPin)))
      /\ w_pend' = (~wr_commit(AwPin, WPin) /\ (w_pend \/ w_fire(WPin)))
      /\ bvalid_q' = IF bvalid_q THEN FALSE ELSE bvalid_q \/ wr_commit(AwPin, WPin)
  BY <1>2, <1>6, ChannelFacts DEF WriteChannel, AwPin, WPin
<1>9. wr_commit(AwPin, WPin) <=> (aw_pend \/ aw_fire(AwPin)) /\ (w_pend \/ w_fire(WPin))
  BY DEF wr_commit
<1>10. Settled(op.awaits) <=> \A ch \in op.awaits : AfterEdge(ch) = Idle
  BY DEF Settled
<1>11. \/ op.awaits = {"aw", "w", "b"}
          /\ \E e \in Written(c, op.data) : d = e \/ (e.mode = "busy" /\ d = Polled(e))
       \/ op.awaits = {"aw", "w"} /\ ~op.data.clear /\ op.data.start /\ d = Open(Started(c))
  BY DEF WriteRule
<1>12. ctrl_reg' = IF wr_commit(AwPin, WPin) /\ wr_addr(AwPin) = "CTRL" /\ wr_data(WPin).strb
                   THEN [start |-> wr_data(WPin).start,
                         clear |-> wr_data(WPin).clear,
                         en    |-> wr_data(WPin).en]
                   ELSE [start |-> FALSE, clear |-> FALSE, en |-> ctrl_reg.en]
  BY ChannelFacts DEF CtrlReg, ctrl_wr, reg_wr
<1>13. CASE /\ bvalid_q = FALSE /\ Device(c)
            /\ Waiting(c, "aw") /\ Waiting(c, "w")
            /\ aw_pend = (lag["aw"] = Idle) /\ (aw_pend => aw_addr_q = op.addr)
            /\ w_pend = (lag["w"] = Idle) /\ (w_pend => w_data_q = op.data)
            /\ ~(aw_pend /\ w_pend)
  <2>1. Waiting(0, "aw") /\ Waiting(0, "w")
    BY <1>13 DEF Waiting
  <2>2. /\ \/ AfterEdge("aw") = Idle /\ (aw_pend \/ aw_fire(AwPin))
           \/ AfterEdge("aw") \in Nat /\ AfterEdge("aw") # Idle /\ ~aw_pend /\ ~aw_fire(AwPin)
        /\ \/ AfterEdge("w") = Idle /\ (w_pend \/ w_fire(WPin))
           \/ AfterEdge("w") \in Nat /\ AfterEdge("w") # Idle /\ ~w_pend /\ ~w_fire(WPin)
    BY <1>13, <2>1, HalfMoves
  <2>3. lag'["b"] = 0 /\ AfterEdge("b") = 0 /\ 0 # Idle
    BY <1>4, <1>5, <1>13 DEF Idle
  <2>4. CASE wr_commit(AwPin, WPin)
    <3>1. AfterEdge("aw") = Idle /\ AfterEdge("w") = Idle
      BY <1>9, <2>2, <2>4
    <3>2. aw_pend' = FALSE /\ w_pend' = FALSE /\ bvalid_q' = TRUE
      BY <1>8, <1>13, <2>4
    <3>3. wr_addr(AwPin) = op.addr /\ wr_data(WPin) = op.data
      BY <1>2, <1>13 DEF wr_addr, wr_data, AwPin, WPin
    <3>4. ctrl_reg' = [start |-> op.data.start, clear |-> op.data.clear, en |-> op.data.en]
      BY <1>3, <1>12, <2>4, <3>3
    <3>5. Applied(c, op.data)'
      BY <1>2, <1>3, <1>13, <3>4, WriteCommits
    <3>6. CASE op.awaits = {"aw", "w", "b"}
      <4>1. ~Settled(op.awaits)
        BY <1>10, <2>3, <3>6
      <4>2. (/\ "b" \in op.awaits
             /\ bvalid_q = TRUE /\ aw_pend = FALSE /\ w_pend = FALSE
             /\ lag["aw"] = Idle /\ lag["w"] = Idle /\ Applied(c, op.data))'
        BY <1>5, <3>1, <3>2, <3>5, <3>6
      <4> QED BY <1>1, <1>2, <1>4, <1>5, <1>7, <2>3, <4>1, <4>2 DEF Writing
    <3>7. CASE op.awaits = {"aw", "w"} /\ ~op.data.clear /\ op.data.start /\ d = Open(Started(c))
      <4>1. Settled(op.awaits)
        BY <1>10, <3>1, <3>7
      <4>2. Device(Started(c))'
        BY <3>5, <3>7 DEF Applied, Wrote
      <4>3. Started(c) \in Contexts
        <5>1. /\ c \in Shapes /\ c.count \in {"none", "moving"}
          BY <1>3, <3>7, ContextFields DEF MayWrite
        <5> QED BY <5>1 DEF Started, Contexts, Shapes
      <4>4. Device(d)' /\ d.open = TRUE
        <5>1. d.open = TRUE
          BY <3>7, <4>3 DEF Open, Contexts, Shapes
        <5> QED BY <3>7, <4>2, <4>3, <5>1, OpenDevice
      <4>5. Quiet(d)'
        BY <1>4, <1>5, <1>7, <2>3, <3>1, <3>2, <4>4 DEF Quiet, ResponseAt
      <4> QED BY <4>1, <4>4, <4>5
    <3> QED BY <1>11, <3>6, <3>7
  <2>5. CASE ~wr_commit(AwPin, WPin)
    <3>1. bvalid_q' = FALSE
      BY <1>8, <1>13, <2>5
    <3>2. start_pulse' = FALSE /\ clear_pulse' = FALSE /\ en_reg' = en_reg
      <4>1. ctrl_reg' = [start |-> FALSE, clear |-> FALSE, en |-> ctrl_reg.en]
        BY <1>12, <2>5
      <4> QED BY <4>1 DEF start_pulse, clear_pulse, en_reg
    <3>3. Device(c)'
      BY <1>2, <1>13, <3>2, DeviceMoves
    <3>4. /\ AfterEdge("aw") \in Nat \/ AfterEdge("aw") = Idle
          /\ aw_pend' = (AfterEdge("aw") = Idle) /\ (aw_pend' => aw_addr_q' = op.addr)
      <4>1. CASE AfterEdge("aw") = Idle /\ (aw_pend \/ aw_fire(AwPin))
        BY <1>8, <1>13, <2>5, <4>1
      <4>2. CASE AfterEdge("aw") \in Nat /\ AfterEdge("aw") # Idle /\ ~aw_pend /\ ~aw_fire(AwPin)
        BY <1>8, <2>5, <4>2
      <4> QED BY <2>2, <4>1, <4>2
    <3>5. /\ AfterEdge("w") \in Nat \/ AfterEdge("w") = Idle
          /\ w_pend' = (AfterEdge("w") = Idle) /\ (w_pend' => w_data_q' = op.data)
      <4>1. CASE AfterEdge("w") = Idle /\ (w_pend \/ w_fire(WPin))
        BY <1>8, <1>13, <2>5, <4>1
      <4>2. CASE AfterEdge("w") \in Nat /\ AfterEdge("w") # Idle /\ ~w_pend /\ ~w_fire(WPin)
        BY <1>8, <2>5, <4>2
      <4> QED BY <2>2, <4>1, <4>2
    <3>6. ~(aw_pend' /\ w_pend')
      BY <1>8, <1>9, <2>5
    <3>7. ~Settled(op.awaits)
      <4>1. AfterEdge("aw") # Idle \/ AfterEdge("w") # Idle
        BY <1>9, <2>2, <2>5
      <4> QED BY <1>10, <1>11, <4>1
    <3>8. (/\ bvalid_q = FALSE /\ Device(c)
           /\ Waiting(c, "aw") /\ Waiting(c, "w")
           /\ aw_pend = (lag["aw"] = Idle) /\ (aw_pend => aw_addr_q = op.addr)
           /\ w_pend = (lag["w"] = Idle) /\ (w_pend => w_data_q = op.data)
           /\ ~(aw_pend /\ w_pend))'
      BY <1>5, <3>1, <3>3, <3>4, <3>5, <3>6 DEF Waiting
    <3> QED BY <1>1, <1>2, <1>4, <1>5, <1>7, <2>3, <3>7, <3>8 DEF Writing
  <2> QED BY <2>4, <2>5
<1>14. CASE /\ "b" \in op.awaits
            /\ bvalid_q = TRUE /\ aw_pend = FALSE /\ w_pend = FALSE
            /\ lag["aw"] = Idle /\ lag["w"] = Idle /\ Applied(c, op.data)
  <2>1. /\ AfterEdge("aw") = Idle /\ AfterEdge("w") = Idle /\ AfterEdge("b") = Idle
    BY <1>4, <1>14, LagFacts DEF Channels
  <2>2. Settled(op.awaits)
    BY <1>10, <1>11, <2>1
  <2>3. /\ start_pulse' = FALSE /\ clear_pulse' = FALSE /\ en_reg' = en_reg
        /\ aw_pend' = FALSE /\ w_pend' = FALSE
        /\ bvalid_q' = (bvalid_q /\ lag["b"] # 0)
    BY <1>14, NoWrite
  <2>4. PICK e \in Written(c, op.data) : d = e \/ (e.mode = "busy" /\ d = Polled(e))
    BY <1>11, <1>14
  <2>5. Device(d)'
    BY <1>2, <1>3, <1>14, <2>3, <2>4, WriteAnswered
  <2>6. Quiet(d)'
    BY <1>1, <1>4, <1>5, <1>7, <2>1, <2>3 DEF Quiet, ResponseAt
  <2> QED BY <2>2, <2>5, <2>6
<1> QED BY <1>13, <1>14 DEF Writing

-----------------------------------------------------------------------------
(* An edge of the write and the read that are presented together           *)

\* Both are taken on one edge: the read shows the START that commits on it.
LEMMA BothMove ==
    ASSUME AccelInv, AccelInv', BenchTypes, BenchTypes', Tick, NEW c \in Contexts, NEW op,
           NEW d \in Contexts, RaceRule(c, op, d), Both(c, op), polls' = polls
    PROVE  \/ ~Settled(op.awaits) /\ Both(c, op)'
           \/ Settled(op.awaits) /\ Device(d)' /\ Quiet(d)' /\ rdata_q = 1
<1>1. /\ wr = [addr |-> op.waddr, data |-> op.data] /\ ra = op.addr
      /\ aw_pend = FALSE /\ w_pend = FALSE /\ lag["b"] = 0 /\ lag["r"] = 0
      /\ lag["aw"] = lag["ar"] /\ lag["w"] = lag["ar"]
  BY DEF Both
<1>2. /\ op.waddr = "CTRL" /\ op.addr = "STATUS" /\ op.data = Launch
      /\ op.awaits = {"aw", "w", "ar", "r"}
      /\ c.mode = "idle" /\ d = Started(c)
  BY DEF RaceRule
<1>3. /\ Launch.start = TRUE /\ Launch.clear = FALSE /\ Launch.en = TRUE /\ Launch.strb = TRUE
      /\ Launch \in CtrlWord
  BY DEF Launch, CTRL, CtrlWord
<1>4. /\ Clocked /\ wr' = wr /\ ra' = ra /\ wr.addr = "CTRL" /\ wr.data = Launch
      /\ {aw_pend, w_pend, bvalid_q, rvalid_q} \subseteq BOOLEAN
  BY <1>1, <1>2, ChannelFacts
<1>5. /\ lag'["aw"] = AfterEdge("aw") /\ lag'["w"] = AfterEdge("w") /\ lag'["b"] = AfterEdge("b")
      /\ lag'["ar"] = AfterEdge("ar") /\ lag'["r"] = AfterEdge("r")
  BY LagFacts DEF Channels
<1>6. Settled(op.awaits) <=> \A ch \in op.awaits : AfterEdge(ch) = Idle
  BY DEF Settled
<1>7. /\ aw_fire(AwPin) <=> lag["aw"] = 0 /\ ~aw_pend /\ ~bvalid_q
      /\ w_fire(WPin) <=> lag["w"] = 0 /\ ~w_pend /\ ~bvalid_q
      /\ ar_fire(ArPin) <=> lag["ar"] = 0 /\ ~rvalid_q
      /\ BPin /\ RPin
  BY <1>1, ChannelFacts
<1>8. /\ aw_pend' = (~wr_commit(AwPin, WPin) /\ (aw_pend \/ aw_fire(AwPin)))
      /\ w_pend' = (~wr_commit(AwPin, WPin) /\ (w_pend \/ w_fire(WPin)))
      /\ bvalid_q' = IF bvalid_q THEN FALSE ELSE bvalid_q \/ wr_commit(AwPin, WPin)
      /\ wr_commit(AwPin, WPin) <=> aw_fire(AwPin) /\ w_fire(WPin)
  BY <1>1, <1>7, ChannelFacts DEF WriteChannel, wr_commit
<1>9. /\ rdata_q'  = IF ar_fire(ArPin) THEN rd_mux("STATUS", start_taken(AwPin, WPin)) ELSE rdata_q
      /\ rvalid_q' = (ar_fire(ArPin) \/ (rvalid_q /\ ~RPin))
  BY <1>1, <1>2, ChannelFacts DEF ReadChannel
<1>10. ctrl_reg' = IF wr_commit(AwPin, WPin) /\ wr_addr(AwPin) = "CTRL" /\ wr_data(WPin).strb
                   THEN [start |-> wr_data(WPin).start,
                         clear |-> wr_data(WPin).clear,
                         en    |-> wr_data(WPin).en]
                   ELSE [start |-> FALSE, clear |-> FALSE, en |-> ctrl_reg.en]
  BY ChannelFacts DEF CtrlReg, ctrl_wr, reg_wr
<1>11. 0 # Idle /\ 1 # Idle /\ 1 - 1 = 0 /\ 1 \in Nat /\ 0 \in Nat
  BY DEF Idle
<1>12. CASE lag["ar"] = 1 /\ bvalid_q = FALSE /\ rvalid_q = FALSE /\ Device(c)
  <2>1. AfterEdge("aw") = 0 /\ AfterEdge("w") = 0 /\ AfterEdge("ar") = 0
    BY <1>1, <1>11, <1>12, LagFacts DEF Channels
  <2>2. AfterEdge("b") = 0 /\ AfterEdge("r") = 0
    BY <1>1, <1>12, LagFacts
  <2>3. ~aw_fire(AwPin) /\ ~w_fire(WPin) /\ ~ar_fire(ArPin) /\ ~wr_commit(AwPin, WPin)
    BY <1>1, <1>7, <1>8, <1>12
  <2>4. /\ aw_pend' = FALSE /\ w_pend' = FALSE /\ bvalid_q' = FALSE /\ rvalid_q' = FALSE
    BY <1>1, <1>8, <1>9, <1>12, <2>3
  <2>5. start_pulse' = FALSE /\ clear_pulse' = FALSE /\ en_reg' = en_reg
    BY <1>10, <2>3 DEF start_pulse, clear_pulse, en_reg
  <2>6. Device(c)'
    BY <1>4, <1>12, <2>5, DeviceMoves
  <2>7. ~Settled(op.awaits)
    BY <1>2, <1>6, <1>11, <2>1
  <2> QED BY <1>1, <1>4, <1>5, <2>1, <2>2, <2>4, <2>6, <2>7 DEF Both
<1>13. CASE lag["ar"] = 0 /\ bvalid_q = FALSE /\ rvalid_q = FALSE /\ Device(c)
  <2>1. AfterEdge("aw") = Idle /\ AfterEdge("w") = Idle /\ AfterEdge("ar") = Idle
    BY <1>1, <1>13, LagFacts
  <2>2. AfterEdge("b") = 0 /\ AfterEdge("r") = 0
    BY <1>1, <1>13, LagFacts
  <2>3. aw_fire(AwPin) /\ w_fire(WPin) /\ ar_fire(ArPin) /\ wr_commit(AwPin, WPin)
    BY <1>1, <1>7, <1>8, <1>13
  <2>4. /\ aw_pend' = FALSE /\ w_pend' = FALSE /\ bvalid_q' = TRUE /\ rvalid_q' = TRUE
    BY <1>8, <1>9, <1>13, <2>3
  <2>5. wr_addr(AwPin) = "CTRL" /\ wr_data(WPin) = Launch
    BY <1>1, <1>4 DEF wr_addr, wr_data, AwPin, WPin
  <2>6. ctrl_reg' = [start |-> Launch.start, clear |-> Launch.clear, en |-> Launch.en]
    BY <1>3, <1>10, <2>3, <2>5
  <2>7. Device(Started(c))'
    <3>1. MayWrite(c, Launch)
      <4>1. c.count = "none"
        BY DEF RaceRule
      <4> QED BY <1>2, <1>3, <4>1 DEF MayWrite
    <3>2. Applied(c, Launch)'
      BY <1>2, <1>3, <1>4, <1>13, <2>6, <3>1, WriteCommits
    <3> QED BY <1>3, <3>2 DEF Applied, Wrote
  <2>8. rdata_q' = 1
    <3>1. start_taken(AwPin, WPin) = TRUE
      BY <1>3, <2>3, <2>5 DEF start_taken, ctrl_wr, reg_wr
    <3>2. rd_mux("STATUS", start_taken(AwPin, WPin)) = 1
      <4>1. ASSUME NEW b \in BOOLEAN, b PROVE rd_mux("STATUS", b) = 1
        <5>1. rd_mux("STATUS", b) = (IF state # "S_IDLE" \/ b THEN 1 ELSE 0)
                                     + (IF done_q /\ ~b THEN 2 ELSE 0)
          BY RegisterWords
        <5>2. (IF state # "S_IDLE" \/ b THEN 1 ELSE 0) = 1 /\ (IF done_q /\ ~b THEN 2 ELSE 0) = 0
          BY <4>1, Zenon
        <5>3. \A m, n : m = 1 /\ n = 0 => m + n = 1
          OBVIOUS
        <5> QED BY <5>1, <5>2, <5>3, Zenon
      <4> DEFINE t == start_taken(AwPin, WPin)
      <4>2. t \in BOOLEAN /\ t
        BY <3>1
      <4> HIDE DEF t
      <4>3. rd_mux("STATUS", t) = 1
        BY <4>1, <4>2
      <4> QED BY <4>3 DEF t
    <3>3. rdata_q' = rd_mux("STATUS", start_taken(AwPin, WPin))
      BY <1>9, <2>3
    <3> QED BY <3>2, <3>3
  <2>9. ~Settled(op.awaits)
    BY <1>2, <1>6, <1>11, <2>2
  <2> QED BY <1>1, <1>4, <1>5, <2>1, <2>2, <2>4, <2>7, <2>8, <2>9 DEF Both
<1>14. CASE /\ lag["ar"] = Idle /\ bvalid_q = TRUE /\ rvalid_q = TRUE /\ rdata_q = 1
            /\ Device(Started(c))
  <2>1. /\ AfterEdge("aw") = Idle /\ AfterEdge("w") = Idle /\ AfterEdge("ar") = Idle
        /\ AfterEdge("b") = Idle /\ AfterEdge("r") = Idle
    BY <1>1, <1>14, LagFacts DEF Channels
  <2>2. Settled(op.awaits)
    BY <1>2, <1>6, <2>1
  <2>3. /\ start_pulse' = FALSE /\ clear_pulse' = FALSE /\ en_reg' = en_reg
        /\ aw_pend' = FALSE /\ w_pend' = FALSE
        /\ bvalid_q' = (bvalid_q /\ lag["b"] # 0)
    BY <1>1, <1>14, NoWrite
  <2>4. rvalid_q' = FALSE
    BY <1>7, <1>9, <1>11, <1>14
  <2>5. Device(d)'
    BY <1>2, <1>4, <1>14, <2>3, DeviceMoves
  <2>6. Quiet(d)'
    BY <1>1, <1>5, <2>1, <2>3, <2>4 DEF Quiet, ResponseAt
  <2> QED BY <1>14, <2>2, <2>5, <2>6
<1> QED BY <1>12, <1>13, <1>14 DEF Both

-----------------------------------------------------------------------------
(* An edge, statement by statement                                         *)

\* The edge of the testbench, for the statement op.
EdgeIn(op) ==
    /\ Dut
    /\ \/ BenchEdge(op, s_axis_tready, s_axis_tready, Accepts(op))
       \/ /\ op.kind = "until_consumed"
          /\ begun' = FALSE
          /\ ChannelEdge /\ SourceEdge(s_axis_tready)
          /\ UNCHANGED <<test, tiles, at, left, polls, failed, aresetn, wr, ra>>
    /\ CounterEdge(s_axis_tready)
    /\ UNCHANGED <<split, saw>>

\* Where an edge leaves the test: in the statement, before it again, before the
\* next one, or past the body of a poll loop.
Onward(c, op, d) ==
    /\ failed' = FALSE
    /\ \/ at' = at /\ begun' = TRUE /\ During(c, op, d)'
       \/ at' = at /\ begun' = FALSE /\ Between(c)'
       \/ at' = at + 1 /\ begun' = FALSE /\ Between(d)'
       \/ /\ op.kind = "poll" /\ op.body = 4 /\ c.watch = "first"
          /\ at' = at + 5 /\ begun' = FALSE /\ Between(Ended(Watch(c, "seen")))'

\* The tile has overtaken the read.
Outrun(c, op) == /\ failed' = TRUE /\ at' = at + 1 /\ Racing(test, c, op)
                 /\ saw' = TRUE /\ done_q' = TRUE

\* An edge keeps every pin and every operand what it may be.
LEMMA EdgeTypes ==
    ASSUME BenchTypes, offered => frame # <<>>, begun = TRUE, NEW op, EdgeIn(op)
    PROVE  BenchTypes'
<1>1. /\ test \in Tests /\ tiles \in [1 .. Len(Lengths[test]) -> Seq(Pe!Pair)]
      /\ \A k \in DOMAIN tiles : tiles[k] \in Operands(test, k)
      /\ lag \in [Channels -> Int]
      /\ wr \in [addr : WrAddrs, data : WrData] /\ ra \in RdAddrs
      /\ frame \in Seq(Beat)
      /\ pause \in 0 .. Len(PausePattern) /\ polls \in Nat
      /\ {consumed, shown, split} \subseteq Nat
      /\ {aresetn, begun, offered, saw} \subseteq BOOLEAN
  BY DEF BenchTypes
<1>10. frame \in Seq(Beat)
  BY DEF BenchTypes
<1>11. polls \in Nat
  BY DEF BenchTypes
<1>2. /\ UNCHANGED <<test, tiles, wr, ra, split, saw>>
      /\ ChannelEdge /\ SourceEdge(s_axis_tready) /\ CounterEdge(s_axis_tready)
  BY DEF EdgeIn, BenchEdge
<1>3. lag' \in [Channels -> Int]
  <2>1. \A ch \in Channels : AfterEdge(ch) \in Int
    BY <1>1 DEF AfterEdge, Idle
  <2> QED BY <1>2, <2>1 DEF ChannelEdge
<1>4. frame' \in Seq(Beat) /\ offered' \in BOOLEAN /\ pause' \in 0 .. Len(PausePattern)
  <2>1. Len(PausePattern) \in Nat \ {0}
    BY PatternFacts
  <2>2. pause' \in 0 .. Len(PausePattern)
    <3>1. pause' = IF pause = 0 THEN 0 ELSE (pause % Len(PausePattern)) + 1
      BY <1>2 DEF SourceEdge
    <3> QED BY <1>1, <2>1, <3>1
  <2>3. offered' \in BOOLEAN
    BY <1>2 DEF SourceEdge
  <2>4. frame' \in Seq(Beat)
    <3>1. CASE aresetn
      <4>1. frame' = IF offered /\ s_axis_tready THEN Tail(frame) ELSE frame
        BY <1>2, <3>1 DEF SourceEdge
      <4>2. CASE offered /\ s_axis_tready
        <5>1. frame # <<>> /\ frame' = Tail(frame)
          BY <4>1, <4>2
        <5> QED BY <1>10, <5>1, HeadTailProperties
      <4>3. CASE ~(offered /\ s_axis_tready)
        BY <1>10, <4>1, <4>3
      <4> QED BY <4>2, <4>3
    <3>2. CASE ~aresetn
      <4>1. frame' = IF offered THEN <<>> ELSE frame
        BY <1>2, <3>2 DEF SourceEdge
      <4>2. <<>> \in Seq(Beat)
        OBVIOUS
      <4> QED BY <1>10, <4>1, <4>2
    <3> QED BY <3>1, <3>2
  <2> QED BY <2>2, <2>3, <2>4
<1>5. polls' \in Nat
  <2>1. CASE AccessEdge(op, Accepts(op)) \/ LoopEdge(op, s_axis_tready)
    BY <1>11, <2>1 DEF AccessEdge, LoopEdge
  <2>2. CASE PollEdge(op)
    <3>1. polls' = polls \/ polls' = 0 \/ polls' = polls + 1
      BY <2>2 DEF PollEdge
    <3> QED BY <1>11, <3>1
  <2>3. CASE op.kind = "until_consumed" /\ UNCHANGED polls
    BY <1>11, <2>3
  <2> QED BY <2>1, <2>2, <2>3 DEF EdgeIn, BenchEdge
<1>6. {consumed', shown', split'} \subseteq Nat
  BY <1>1, <1>2 DEF CounterEdge
<1>7. {aresetn', begun', saw'} \subseteq BOOLEAN
  <2>1. aresetn' \in BOOLEAN
    BY <1>1 DEF EdgeIn, BenchEdge, AccessEdge, PollEdge, LoopEdge
  <2>2. begun' \in BOOLEAN
    BY DEF EdgeIn, BenchEdge, AccessEdge, PollEdge, LoopEdge, Stay, Proceed
  <2> QED BY <1>1, <1>2, <2>1, <2>2
<1>8. (/\ test \in Tests /\ tiles \in [1 .. Len(Lengths[test]) -> Seq(Pe!Pair)]
       /\ \A k \in DOMAIN tiles : tiles[k] \in Operands(test, k))'
  BY <1>1, <1>2 DEF Operands, gen_pairs, Uniform
<1>9. (wr \in [addr : WrAddrs, data : WrData] /\ ra \in RdAddrs)'
  BY <1>1, <1>2
<1> QED BY <1>3, <1>4, <1>5, <1>6, <1>7, <1>8, <1>9 DEF BenchTypes

\* An edge out of reset is an edge of the accelerator and of the pins.
LEMMA EdgeTicks ==
    ASSUME NEW op, EdgeIn(op), aresetn = TRUE
    PROVE  Tick
<1>1. Cycle(AwPin, WPin, BPin, ArPin, RPin, SPin)
  BY DEF EdgeIn, Dut
<1>2. /\ SourceEdge(s_axis_tready) /\ CounterEdge(s_axis_tready) /\ ChannelEdge
      /\ UNCHANGED <<test, tiles, split, saw, wr, ra>>
  BY DEF EdgeIn, BenchEdge
<1> QED BY <1>1, <1>2 DEF Tick, Clocked

\* An edge of the reset leaves the accelerator as reset leaves it, and withdraws
\* what the source offered.
LEMMA ResetEdge ==
    ASSUME BenchTypes, aresetn = FALSE, NEW c \in Contexts, Device(c), Quiet(c),
           Plain(c), c.source # "paused",
           c.count = "none" \/ (c.count = "moving" /\ ~c.sent),
           frame # <<>> => offered,
           Reset, ChannelEdge, SourceEdge(s_axis_tready), CounterEdge(s_axis_tready),
           UNCHANGED <<polls, tiles, saw>>
    PROVE  Device(Count(Fresh, c.count))' /\ \A e : Quiet(e)'
<1> DEFINE d == Count(Fresh, c.count)
<1>1. /\ c \in Shapes /\ c.sent \in BOOLEAN /\ c.mode # "polled" /\ ~c.open
      /\ c.count \in {"none", "moving"}
  BY ContextFields, ShapeFields DEF Plain
<1>2. /\ d.mode = "idle" /\ d.en = TRUE /\ d.sent = FALSE /\ d.last = 0 /\ d.done = FALSE
      /\ d.source = "free" /\ d.watch = "none" /\ d.count = c.count
  BY <1>1 DEF Count, Fresh
<1> HIDE DEF d
<1>3. /\ TileAt(c, start_pulse) /\ SourceAt(c) /\ CounterAt(c) /\ PollsAt(c)
  BY DEF Device, Engine
<1>4. offered \in BOOLEAN /\ frame \in Seq(Beat)
  BY DEF BenchTypes
<1>5. frame' = <<>> /\ offered' = FALSE /\ pause' = 0
  <2>1. pause = 0
    BY <1>3 DEF SourceAt
  <2> QED BY <1>4, <2>1 DEF SourceEdge
<1>6. /\ state' = "S_IDLE" /\ done_q' = FALSE /\ last' = <<>> /\ ctrl_reg' = CtrlReset
      /\ aw_pend' = FALSE /\ w_pend' = FALSE /\ bvalid_q' = FALSE /\ rvalid_q' = FALSE
  BY DEF Reset, SlaveReset
<1>7. start_pulse' = FALSE /\ clear_pulse' = FALSE /\ en_reg' = TRUE
  BY <1>6 DEF start_pulse, clear_pulse, en_reg, CtrlReset
<1>8. TileAt(d, FALSE)'
  <2>1. Result(0)' = <<>>
    BY DEF Result
  <2> QED BY <1>2, <1>5, <1>6, <2>1 DEF TileAt, Resting, Ahead
<1>9. SourceAt(d)'
  <2>1. Framed(frame)'
    BY <1>5, PairsEmpty DEF Framed
  <2> QED BY <1>2, <1>5, <2>1 DEF SourceAt
<1>10. CounterAt(d)'
  <2>1. CASE c.count = "none"
    BY <1>2, <2>1 DEF CounterAt
  <2>2. CASE c.count = "moving" /\ ~c.sent
    <3>1. consumed = 0
      BY <1>3, <2>2 DEF CounterAt
    <3>2. frame = <<>>
      BY <1>3, <2>2 DEF TileAt
    <3>3. ~offered
      BY <1>3, <3>2 DEF SourceAt
    <3>4. consumed' = 0
      BY <3>1, <3>3 DEF CounterEdge
    <3> QED BY <1>2, <2>2, <3>4 DEF CounterAt
  <2> QED BY <2>1, <2>2
<1>11. PollsAt(d)'
  <2>1. polls = 0
    BY <1>1, <1>3 DEF PollsAt
  <2> QED BY <2>1 DEF PollsAt
<1>12. Device(d)'
  BY <1>2, <1>7, <1>8, <1>9, <1>10, <1>11 DEF Device, Engine
<1>13. ASSUME NEW e PROVE Quiet(e)'
  <2>1. \A ch \in Channels : lag[ch] = Idle
    BY <1>1 DEF Quiet, ResponseAt, Channels
  <2>2. \A ch \in Channels : AfterEdge(ch) = Idle
    BY <2>1 DEF AfterEdge, Idle
  <2>3. \A ch \in Channels : lag'[ch] = Idle
    BY <2>2 DEF ChannelEdge
  <2> QED BY <1>6, <1>7, <2>3 DEF Quiet, ResponseAt, Channels
<1> QED BY <1>12, <1>13 DEF d

\* An edge of the reset.
LEMMA ResetStep ==
    ASSUME BenchTypes, NEW op, NEW c \in Contexts, NEW d \in Contexts, ResetRule(c, op, d),
           During(c, op, d), EdgeIn(op), failed = FALSE, begun = TRUE
    PROVE  Onward(c, op, d)
<1>1. /\ op.kind = "reset" /\ op.edges \in Nat \ {0}
      /\ Plain(c) /\ c.source # "paused"
      /\ c.count = "none" \/ (c.count = "moving" /\ ~c.sent)
      /\ d = Count(Fresh, c.count)
  BY DEF ResetRule
<1>2. InReset(c, op, d)
  BY <1>1 DEF During
<1>3. /\ aresetn = FALSE /\ left \in 1 .. op.edges /\ Quiet(c)
      /\ \/ left = op.edges /\ Device(c) /\ (frame # <<>> => offered)
         \/ left < op.edges /\ Device(d)
  BY <1>2 DEF InReset
<1>4. /\ LoopEdge(op, s_axis_tready) /\ Reset /\ ChannelEdge
      /\ SourceEdge(s_axis_tready) /\ CounterEdge(s_axis_tready)
      /\ UNCHANGED <<tiles, saw>>
  BY <1>1, <1>3 DEF EdgeIn, BenchEdge, AccessEdge, PollEdge, Dut
<1>5. UNCHANGED polls
  BY <1>4 DEF LoopEdge
<1>6. /\ d.mode = "idle" /\ d.source = "free" /\ d.watch = "none" /\ d.count = c.count
      /\ d.open = FALSE /\ d.sent = FALSE /\ Count(Fresh, d.count) = d
  <2>1. c.count \in {"none", "moving"}
    BY <1>1
  <2> QED BY <1>1, <2>1 DEF Count, Fresh
<1>7. Device(d)' /\ \A e : Quiet(e)'
  <2>1. CASE left = op.edges /\ Device(c) /\ (frame # <<>> => offered)
    BY <1>1, <1>3, <1>4, <1>5, <2>1, ResetEdge
  <2>2. CASE left < op.edges /\ Device(d)
    <3>1. Quiet(d) /\ Plain(d)
      BY <1>1, <1>3, <1>6 DEF Quiet, ResponseAt, Plain
    <3>2. frame = <<>>
      BY <1>6, <2>2 DEF Device, Engine, TileAt
    <3> QED BY <1>1, <1>3, <1>4, <1>5, <1>6, <2>2, <3>1, <3>2, ResetEdge
  <2> QED BY <1>3, <2>1, <2>2
<1>8. CASE left > 1
  <2>1. left' = left - 1 /\ at' = at /\ begun' = TRUE /\ failed' = FALSE
    BY <1>1, <1>4, <1>8 DEF LoopEdge, Stay
  <2>2. left' \in 1 .. op.edges /\ left' < op.edges
    BY <1>1, <1>3, <1>8, <2>1
  <2>3. aresetn' = FALSE
    <3>1. left # 1
      BY <1>3, <1>8
    <3>2. aresetn' = (aresetn \/ left = 1)
      BY <1>4 DEF LoopEdge
    <3> QED BY <1>3, <3>1, <3>2
  <2> QED BY <1>1, <1>7, <2>1, <2>2, <2>3 DEF Onward, During, InReset
<1>9. CASE ~(left > 1)
  <2>1. left = 1
    BY <1>1, <1>3, <1>9
  <2>2. at' = at + 1 /\ begun' = FALSE /\ failed' = FALSE /\ aresetn' = TRUE
    BY <1>1, <1>4, <1>9, <2>1 DEF LoopEdge, Proceed
  <2>3. FirstAt(d)'
    BY <1>6 DEF FirstAt
  <2> QED BY <1>7, <2>2, <2>3 DEF Onward, Between
<1> QED BY <1>8, <1>9

\* An edge of a loop over edges.
LEMMA EdgesStep ==
    ASSUME AccelInv, AccelInv', BenchTypes, BenchTypes', NEW op, NEW c \in Contexts,
           NEW d \in Contexts, EdgesRule(c, op, d), During(c, op, d), EdgeIn(op),
           failed = FALSE, begun = TRUE
    PROVE  Onward(c, op, d)
<1>1. /\ op.kind = "edges" /\ op.edges \in Nat \ {0}
      /\ op.stalled \in BOOLEAN /\ (op.stalled => c.mode = "idle" \/ ~c.en)
      /\ Plain(c)
      /\ d = c \/ (c.source # "paused" /\ d = Source(c, "steady"))
  BY DEF EdgesRule
<1>2. aresetn = TRUE /\ left \in 1 .. op.edges /\ Device(c) /\ Quiet(c)
  BY <1>1 DEF During
<1>3. LoopEdge(op, s_axis_tready) /\ Tick
  <2>1. Tick
    BY <1>2, EdgeTicks
  <2> QED BY <1>1, <2>1 DEF EdgeIn, BenchEdge, AccessEdge, PollEdge
<1>4. Clocked /\ UNCHANGED polls
  BY <1>3 DEF Tick, LoopEdge
<1>5. start_pulse' = FALSE /\ clear_pulse' = FALSE /\ en_reg' = en_reg /\ \A e : Quiet(e)'
  BY <1>2, <1>3, QuietMoves
<1>6. Device(c)' /\ (c.source # "paused" => Device(Source(c, "steady"))')
  BY <1>2, <1>4, <1>5, DeviceMoves
<1>7. ~(op.stalled /\ s_axis_tready)
  <2>1. CASE op.stalled
    <3>1. c.en \in BOOLEAN /\ en_reg = c.en /\ TileAt(c, start_pulse)
      BY <1>2, ContextFields, ShapeFields DEF Device, Engine
    <3>2. CASE ~c.en
      BY <3>1, <3>2 DEF s_axis_tready
    <3>3. CASE c.mode = "idle"
      <4>1. state = "S_IDLE"
        BY <3>1, <3>3 DEF TileAt, Resting
      <4> QED BY <4>1 DEF s_axis_tready
    <3> QED BY <1>1, <2>1, <3>2, <3>3
  <2> QED BY <2>1
<1>8. CASE left > 1
  <2>1. left' = left - 1 /\ at' = at /\ begun' = TRUE /\ failed' = FALSE /\ aresetn' = TRUE
    BY <1>2, <1>3, <1>7, <1>8 DEF LoopEdge, Stay
  <2>2. left' \in 1 .. op.edges
    BY <1>1, <1>2, <1>8, <2>1
  <2> QED BY <1>1, <1>5, <1>6, <2>1, <2>2 DEF Onward, During
<1>9. CASE ~(left > 1)
  <2>1. at' = at + 1 /\ begun' = FALSE /\ failed' = FALSE /\ aresetn' = TRUE
    BY <1>2, <1>3, <1>7, <1>9 DEF LoopEdge, Proceed
  <2>2. d.watch = c.watch
    BY <1>1, ContextFields DEF Source, Shapes
  <2>3. FirstAt(d)'
    BY <1>1, <2>2 DEF FirstAt, Plain
  <2>4. Device(d)'
    BY <1>1, <1>6
  <2> QED BY <1>5, <2>1, <2>3, <2>4 DEF Onward, Between
<1> QED BY <1>8, <1>9

\* An edge while the test waits for beats to pass.
LEMMA UntilStep ==
    ASSUME AccelInv, AccelInv', BenchTypes, BenchTypes', NEW op, NEW c \in Contexts,
           NEW d \in Contexts, UntilRule(c, op, d), During(c, op, d), EdgeIn(op),
           failed = FALSE, begun = TRUE
    PROVE  Onward(c, op, d)
<1>1. op.kind = "until_consumed" /\ Plain(c)
  BY DEF UntilRule
<1>2. aresetn = TRUE /\ Device(c) /\ Quiet(c)
  BY <1>1 DEF During
<1>3. Tick /\ begun' = FALSE /\ at' = at /\ failed' = FALSE /\ aresetn' = TRUE /\ UNCHANGED polls
  <2>1. Tick
    BY <1>2, EdgeTicks
  <2> QED BY <1>1, <1>2, <2>1 DEF EdgeIn, BenchEdge, AccessEdge, PollEdge, LoopEdge
<1>4. start_pulse' = FALSE /\ clear_pulse' = FALSE /\ en_reg' = en_reg /\ \A e : Quiet(e)'
  BY <1>2, <1>3, QuietMoves
<1>5. Clocked
  BY <1>3 DEF Tick
<1>6. Device(c)'
  BY <1>2, <1>3, <1>4, <1>5, DeviceMoves
<1>7. FirstAt(c)'
  BY <1>1 DEF FirstAt, Plain
<1> QED BY <1>3, <1>4, <1>6, <1>7 DEF Onward, Between

\* An edge of a read.
LEMMA ReadStep ==
    ASSUME AccelInv, AccelInv', BenchTypes, BenchTypes', NEW op, NEW c \in Contexts,
           NEW d \in Contexts, ReadRule(test, c, op, d), Fits(op), During(c, op, d),
           EdgeIn(op), failed = FALSE, begun = TRUE
    PROVE  Onward(c, op, d) \/ Outrun(c, op)
<1>1. op.kind = "read" /\ op.awaits = {"ar", "r"} /\ c.watch # "first" /\ d = c
  BY DEF ReadRule
<1>2. aresetn = TRUE /\ Reading(c, op)
  BY <1>1 DEF During
<1>3. Tick
  BY <1>2, EdgeTicks
<1>4. Clocked
  BY <1>3 DEF Tick
<1>5. AccessEdge(op, Accepts(op))
  BY <1>1 DEF EdgeIn, BenchEdge, LoopEdge, PollEdge
<1>6. polls' = polls /\ aresetn' = TRUE
  BY <1>2, <1>5 DEF AccessEdge
<1>7. \/ ~Settled(op.awaits) /\ Reading(c, op)'
      \/ /\ Settled(op.awaits) /\ Heard(c, op)
         /\ Engine(c)' /\ (done_q = TRUE => done_q' = TRUE)
         /\ start_pulse' = FALSE /\ (\A e : Quiet(e)')
  BY <1>1, <1>2, <1>3, <1>6, ReadingMoves
<1>8. CASE ~Settled(op.awaits)
  <2>1. at' = at /\ begun' = TRUE /\ failed' = FALSE
    BY <1>5, <1>8 DEF AccessEdge, Stay
  <2>2. Reading(c, op)'
    BY <1>7, <1>8
  <2> QED BY <1>1, <1>6, <2>1, <2>2 DEF Onward, During
<1>9. CASE Settled(op.awaits)
  <2>1. /\ Heard(c, op) /\ Engine(c)' /\ (done_q = TRUE => done_q' = TRUE)
        /\ start_pulse' = FALSE /\ (\A e : Quiet(e)')
    BY <1>7, <1>9
  <2>2. at' = at + 1 /\ begun' = FALSE /\ failed' = (~Accepts(op))
    BY <1>1, <1>5, <1>9 DEF AccessEdge, Proceed
  <2>3. CASE Accepts(op)
    <3>1. PollsAt(c)'
      <4>1. Device(c)
        BY <1>2 DEF Reading
      <4> QED BY <1>4, <1>6, <2>1, <4>1, PollsMove
    <3>2. FirstAt(d)'
      BY <1>1 DEF FirstAt
    <3>3. failed' = FALSE
      BY <2>2, <2>3
    <3> QED BY <1>1, <1>6, <2>1, <2>2, <3>1, <3>2, <3>3 DEF Onward, Between, Device
  <2>4. CASE ~Accepts(op)
    <3>1. Racing(test, c, op) /\ done_q = TRUE
      BY <1>1, <2>1, <2>4 DEF Heard
    <3>2. saw' = TRUE
      BY <2>1, <3>1 DEF Engine, CounterAt, Racing
    <3>3. failed' = TRUE
      BY <2>2, <2>4
    <3> QED BY <2>1, <2>2, <3>1, <3>2, <3>3 DEF Outrun
  <2> QED BY <2>3, <2>4
<1> QED BY <1>8, <1>9

\* A write keeps what is known of saw_busy.
LEMMA WatchKept ==
    ASSUME NEW c \in Shapes, NEW x \in CtrlWord, NEW e \in Written(c, x)
    PROVE  e \in Shapes /\ e.watch = c.watch /\ Polled(e).watch = c.watch
<1>1. ASSUME NEW f \in Shapes
      PROVE  /\ Started(f) \in Shapes /\ Started(f).watch = f.watch
             /\ Cleared(f) \in Shapes /\ Cleared(f).watch = f.watch
             /\ [f EXCEPT !.goal = REST] \in Shapes /\ [f EXCEPT !.goal = REST].watch = f.watch
             /\ Polled(f).watch = f.watch
  BY DEF Shapes, Started, Cleared, Polled, REST
<1>2. ASSUME NEW f \in Shapes, NEW b \in BOOLEAN
      PROVE  Enabled(f, b) \in Shapes /\ Enabled(f, b).watch = f.watch
  BY DEF Shapes, Enabled
<1>3. ASSUME NEW f \in Shapes, NEW n \in {"still", "none"}
      PROVE  Count(f, n) \in Shapes /\ Count(f, n).watch = f.watch
  BY DEF Shapes, Count
<1>4. x.start \in BOOLEAN /\ x.en \in BOOLEAN
  BY DEF CtrlWord
<1>5. Wrote(c, x) \in Shapes /\ Wrote(c, x).watch = c.watch
  BY <1>1, <1>2, <1>4 DEF Wrote
<1>6. [Cleared(c) EXCEPT !.goal = REST] \in Shapes
      /\ [Cleared(c) EXCEPT !.goal = REST].watch = c.watch
  BY <1>1
<1>7. Cleared(Wrote(c, x)) \in Shapes /\ Cleared(Wrote(c, x)).watch = c.watch
  BY <1>1, <1>5
<1>8. Cleared(Enabled(c, x.en)) \in Shapes /\ Cleared(Enabled(c, x.en)).watch = c.watch
  BY <1>1, <1>2, <1>4
<1>9. \A n \in {"still", "none"} : Count(Wrote(c, x), n) \in Shapes
                                   /\ Count(Wrote(c, x), n).watch = c.watch
  BY <1>3, <1>5
<1>10. e \in Shapes /\ e.watch = c.watch
  BY <1>5, <1>6, <1>7, <1>8, <1>9 DEF Written
<1> QED BY <1>1, <1>10

\* An edge of a write.
LEMMA WriteStep ==
    ASSUME AccelInv, AccelInv', BenchTypes, BenchTypes', NEW op, NEW c \in Contexts,
           NEW d \in Contexts, WriteRule(c, op, d), During(c, op, d), EdgeIn(op),
           failed = FALSE, begun = TRUE
    PROVE  Onward(c, op, d)
<1>1. op.kind = "write" /\ Plain(c)
  BY DEF WriteRule
<1>2. aresetn = TRUE /\ Writing(c, op)
  BY <1>1 DEF During
<1>3. Tick
  BY <1>2, EdgeTicks
<1>4. AccessEdge(op, Accepts(op))
  BY <1>1 DEF EdgeIn, BenchEdge, LoopEdge, PollEdge
<1>5. polls' = polls /\ aresetn' = TRUE
  BY <1>2, <1>4 DEF AccessEdge
<1>6. \/ ~Settled(op.awaits) /\ Writing(c, op)'
      \/ Settled(op.awaits) /\ Device(d)' /\ Quiet(d)'
  BY <1>2, <1>3, <1>5, WritingMoves
<1>7. CASE ~Settled(op.awaits)
  <2>1. at' = at /\ begun' = TRUE /\ failed' = FALSE
    BY <1>4, <1>7 DEF AccessEdge, Stay
  <2>2. Writing(c, op)'
    BY <1>6, <1>7
  <2> QED BY <1>1, <1>5, <2>1, <2>2 DEF Onward, During
<1>8. CASE Settled(op.awaits)
  <2>1. at' = at + 1 /\ begun' = FALSE /\ failed' = FALSE
    BY <1>1, <1>4, <1>8 DEF AccessEdge, Proceed
  <2>2. Device(d)' /\ Quiet(d)'
    BY <1>6, <1>8
  <2>3. d.watch # "first"
    <3>1. c \in Shapes /\ c.watch # "first"
      BY <1>1, ContextFields DEF Plain
    <3>2. op.data \in CtrlWord
      BY DEF WriteRule
    <3>3. \A e \in Written(c, op.data) : e.watch = c.watch /\ Polled(e).watch = c.watch
      BY <3>1, <3>2, WatchKept
    <3>4. Open(Started(c)).watch = c.watch
      BY <3>1 DEF Open, Started, Shapes
    <3>5. d.watch = c.watch
      BY <3>3, <3>4 DEF WriteRule
    <3> QED BY <3>1, <3>5
  <2>4. FirstAt(d)'
    BY <2>3 DEF FirstAt
  <2> QED BY <1>5, <2>1, <2>2, <2>4 DEF Onward, Between
<1> QED BY <1>7, <1>8

\* An edge of the write and the read that race.
LEMMA RaceStep ==
    ASSUME AccelInv, AccelInv', BenchTypes, BenchTypes', NEW op, NEW c \in Contexts,
           NEW d \in Contexts, RaceRule(c, op, d), During(c, op, d), EdgeIn(op),
           failed = FALSE, begun = TRUE
    PROVE  Onward(c, op, d)
<1>1. op.kind = "race" /\ Plain(c) /\ op.of = 0 /\ op.want = InFlight /\ d = Started(c)
  BY DEF RaceRule
<1>2. aresetn = TRUE /\ Both(c, op)
  BY <1>1 DEF During
<1>3. Tick
  BY <1>2, EdgeTicks
<1>4. AccessEdge(op, Accepts(op))
  BY <1>1 DEF EdgeIn, BenchEdge, LoopEdge, PollEdge
<1>5. polls' = polls /\ aresetn' = TRUE
  BY <1>2, <1>4 DEF AccessEdge
<1>6. \/ ~Settled(op.awaits) /\ Both(c, op)'
      \/ Settled(op.awaits) /\ Device(d)' /\ Quiet(d)' /\ rdata_q = 1
  BY <1>2, <1>3, <1>5, BothMove
<1>7. CASE ~Settled(op.awaits)
  <2>1. at' = at /\ begun' = TRUE /\ failed' = FALSE
    BY <1>4, <1>7 DEF AccessEdge, Stay
  <2>2. Both(c, op)'
    BY <1>6, <1>7
  <2> QED BY <1>1, <1>5, <2>1, <2>2 DEF Onward, During
<1>8. CASE Settled(op.awaits)
  <2>1. Device(d)' /\ Quiet(d)' /\ rdata_q = 1
    BY <1>6, <1>8
  <2>2. Accepts(op)
    BY <1>1, <2>1 DEF Accepts, InFlight
  <2>3. at' = at + 1 /\ begun' = FALSE /\ failed' = FALSE
    BY <1>4, <1>8, <2>2 DEF AccessEdge, Proceed
  <2>4. FirstAt(d)'
    <3>1. d.watch # "first"
      BY <1>1, ContextFields DEF Started, Plain, Shapes
    <3> QED BY <3>1 DEF FirstAt
  <2> QED BY <1>5, <2>1, <2>3, <2>4 DEF Onward, Between
<1> QED BY <1>7, <1>8

\* A tile that takes nothing any more is complete.
LEMMA NothingLeft ==
    ASSUME AccelInv, BenchTypes, Clocked, NEW c \in Contexts, c.mode = "polled",
           Device(c), Work = 0, Engine(c)', start_pulse' = FALSE
    PROVE  Complete(c, FALSE)'
<1>1. offered => frame # <<>>
  BY DEF Device, Engine, SourceAt
<1>2. state = "S_IDLE" /\ ~start_pulse
  <2>1. /\ Work = IF state = "S_IDLE" /\ ~start_pulse THEN 0
                  ELSE IF state = "S_LATCH" THEN 1
                  ELSE Len(frame) * Span + Wait + Ahead3
        /\ Len(frame) * Span \in Nat /\ Wait \in Nat
    BY WorkFacts
  <2>2. Ahead3 \in {1, 2, 3}
    BY DEF Ahead3
  <2>3. \A p \in Nat, q \in Nat, r \in {1, 2, 3} : p + q + r # 0
    OBVIOUS
  <2>4. Len(frame) * Span + Wait + Ahead3 # 0
    BY <2>1, <2>2, <2>3
  <2> QED BY <2>1, <2>4
<1>3. state' = "S_IDLE"
  BY <1>1, <1>2, ClockedFacts
<1>4. TileAt(c, FALSE)'
  BY DEF Engine
<1>5. ~Underway(c, FALSE)'
  BY <1>3 DEF Underway
<1> QED BY <1>4, <1>5 DEF TileAt

\* A context that ends a poll loop on it.
LEMMA EndedDevice ==
    ASSUME NEW c \in Contexts, Complete(c, FALSE)', Engine(c)', start_pulse' = FALSE, polls' = 0,
           NEW d, d.mode = "idle", d.sent = FALSE, d.last = c.goal, d.done = TRUE,
           d.source = c.source, d.count = "none", d.en = c.en, d.watch = "seen" => saw' = TRUE
    PROVE  Device(d)'
<1>1. /\ state' = "S_IDLE" /\ done_q' = TRUE /\ frame' = <<>> /\ last' = Result(c.goal)'
  BY DEF Complete
<1>2. SourceAt(d)'
  BY DEF Engine, SourceAt
<1>3. CounterAt(d)'
  BY DEF CounterAt
<1>4. PollsAt(d)'
  BY DEF PollsAt
<1>5. TileAt(d, start_pulse)'
  BY <1>1 DEF TileAt, Resting, Ahead
<1>6. clear_pulse' = FALSE /\ en_reg' = d.en
  BY DEF Engine
<1> QED BY <1>2, <1>3, <1>4, <1>5, <1>6 DEF Device, Engine

\* Nor does it matter to the accelerator what is known of saw_busy.
LEMMA WatchDevice ==
    ASSUME NEW c \in Contexts, NEW w
    PROVE  /\ Engine(c)' /\ (w = "seen" => saw' = TRUE) => Engine(Watch(c, w))'
           /\ PollsAt(c)' => PollsAt(Watch(c, w))'
<1> DEFINE d == Watch(c, w)
<1>1. /\ d.source = c.source /\ d.sent = c.sent /\ d.goal = c.goal /\ d.last = c.last
      /\ d.done = c.done /\ d.mode = c.mode /\ d.count = c.count /\ d.watch = w
      /\ d.en = c.en
  BY DEF Watch, Contexts, Shapes
<1> HIDE DEF d
<1>2. ASSUME Engine(c)', w = "seen" => saw' = TRUE PROVE Engine(d)'
  <2>1. TileAt(c, start_pulse)' => TileAt(d, start_pulse)'
    BY <1>1 DEF TileAt, Resting, Underway, Complete, Ahead
  <2>2. SourceAt(c)' => SourceAt(d)'
    BY <1>1 DEF SourceAt
  <2>3. CounterAt(c)' => CounterAt(d)'
    BY <1>1, <1>2 DEF CounterAt
  <2> QED BY <1>1, <1>2, <2>1, <2>2, <2>3 DEF Engine
<1>3. ASSUME PollsAt(c)' PROVE PollsAt(d)'
  BY <1>1, <1>3 DEF PollsAt
<1> QED BY <1>2, <1>3 DEF d

\* An edge of a poll: it shows DONE, which ends the loop, or there are polls left.
LEMMA PollStep ==
    ASSUME AccelInv, AccelInv', BenchTypes, BenchTypes', NEW op, NEW c \in Contexts,
           NEW d \in Contexts, PollRule(test, c, op, d), During(c, op, d),
           EdgeIn(op), failed = FALSE, begun = TRUE, at \in Nat
    PROVE  Onward(c, op, d)
<1>1. /\ op.kind = "poll" /\ op.awaits = {"ar", "r"} /\ c.mode = "polled" /\ c.count = "none"
      /\ \/ op.body = 0 /\ c.watch # "first" /\ d = Ended(Closed(c))
         \/ op.body = 4 /\ c.watch = "first" /\ ~c.open /\ d = Watch(c, "none")
  BY DEF PollRule
<1>2. aresetn = TRUE /\ Reading(c, op)
  BY <1>1 DEF During
<1>3. Tick
  BY <1>2, EdgeTicks
<1>4. Clocked
  BY <1>3 DEF Tick
<1>5. PollEdge(op) /\ saw' = saw
  BY <1>1 DEF EdgeIn, BenchEdge, LoopEdge, AccessEdge
<1>6. aresetn' = TRUE
  BY <1>2, <1>5 DEF PollEdge
<1>7. Fits(op)
  BY <1>1 DEF Fits
<1>8. \/ ~Settled(op.awaits) /\ (polls' = polls => Reading(c, op)')
      \/ /\ Settled(op.awaits) /\ Heard(c, op)
         /\ Engine(c)'
         /\ start_pulse' = FALSE /\ (\A e : Quiet(e)')
         /\ Work' \in Nat /\ Work' <= Work
  BY <1>1, <1>2, <1>3, <1>7, ReadingMoves
<1>9. CASE ~Settled(op.awaits)
  <2>1. at' = at /\ begun' = TRUE /\ failed' = FALSE /\ polls' = polls
    BY <1>5, <1>9 DEF PollEdge, Stay
  <2>2. Reading(c, op)'
    BY <1>8, <1>9, <2>1
  <2> QED BY <1>1, <1>6, <2>1, <2>2 DEF Onward, During
<1>10. CASE Settled(op.awaits)
  <2>1. /\ Heard(c, op) /\ Engine(c)' /\ start_pulse' = FALSE /\ (\A e : Quiet(e)')
        /\ Work' \in Nat /\ Work' <= Work /\ Device(c)
    BY <1>2, <1>8, <1>10 DEF Reading
  <2>2. polls \in Nat /\ POLL_LIMIT \in Nat /\ Work \in Nat
    BY BenchAssumption, WorkFacts DEF BenchTypes
  <2>3. /\ StatusBit(1) <=> (rdata_q \div 2^1) % 2 = 1
        /\ StatusBit(0) <=> (rdata_q \div 2^0) % 2 = 1
    BY DEF StatusBit
  <2>4. /\ (2 \div 2^1) % 2 = 1 /\ (2 \div 2^0) % 2 # 1 /\ (1 \div 2^1) % 2 # 1
    OBVIOUS
  <2>5. CASE rdata_q = 2 /\ Work = 0 /\ (c.watch = "first" => saw)
    <3>1. StatusBit(1) /\ ~StatusBit(0)
      BY <2>3, <2>4, <2>5
    <3>2. Proceed(1 + op.body, "idle" \in op.asserts => ~StatusBit(0)) /\ polls' = 0
      BY <1>5, <1>10, <3>1 DEF PollEdge
    <3>3. at' = at + (1 + op.body) /\ begun' = FALSE /\ failed' = FALSE
      BY <3>1, <3>2 DEF Proceed
    <3>4. Complete(c, FALSE)'
      BY <1>1, <1>4, <2>1, <2>5, NothingLeft
    <3>5. CASE op.body = 0 /\ c.watch # "first" /\ d = Ended(Closed(c))
      <4>1. /\ d.mode = "idle" /\ d.sent = FALSE /\ d.last = c.goal /\ d.done = TRUE
            /\ d.source = c.source /\ d.count = c.count /\ d.en = c.en /\ d.watch = c.watch
        BY <3>5 DEF Ended, Closed, Contexts, Shapes
      <4>2. c.watch = "seen" => saw' = TRUE
        BY <2>1 DEF Engine, CounterAt
      <4>3. Device(d)'
        BY <1>1, <2>1, <3>2, <3>4, <4>1, <4>2, EndedDevice
      <4>4. FirstAt(d)'
        BY <3>5, <4>1 DEF FirstAt
      <4>5. at' = at + 1
        BY <3>3, <3>5
      <4> QED BY <1>6, <2>1, <3>3, <4>3, <4>4, <4>5 DEF Onward, Between
    <3>6. CASE op.body = 4 /\ c.watch = "first"
      <4> DEFINE e == Ended(Watch(c, "seen"))
      <4>1. /\ e.mode = "idle" /\ e.sent = FALSE /\ e.last = c.goal /\ e.done = TRUE
            /\ e.source = c.source /\ e.count = c.count /\ e.en = c.en /\ e.watch = "seen"
        BY DEF Ended, Watch, Contexts, Shapes
      <4> HIDE DEF e
      <4>2. saw' = TRUE
        <5>1. saw \in BOOLEAN
          BY DEF BenchTypes
        <5> QED BY <1>5, <2>5, <3>6, <5>1
      <4>3. Device(e)'
        BY <1>1, <2>1, <3>2, <3>4, <4>1, <4>2, EndedDevice
      <4>4. FirstAt(e)'
        BY <4>1 DEF FirstAt
      <4>5. at' = at + 5
        BY <3>3, <3>6
      <4>6. Between(e)'
        BY <1>6, <2>1, <4>3, <4>4 DEF Between
      <4> QED BY <1>1, <3>3, <3>6, <4>5, <4>6 DEF Onward, e
    <3> QED BY <1>1, <3>5, <3>6
  <2>6. CASE rdata_q = 1 /\ Work + polls + 1 < POLL_LIMIT
    <3>1. ~StatusBit(1)
      BY <2>3, <2>4, <2>6
    <3>2. polls + 1 # POLL_LIMIT
      BY <2>2, <2>6
    <3>3. Proceed(IF op.body = 0 THEN 0 ELSE 1, TRUE) /\ polls' = polls + 1
      BY <1>5, <1>10, <3>1, <3>2 DEF PollEdge
    <3>4. at' = at + (IF op.body = 0 THEN 0 ELSE 1) /\ begun' = FALSE /\ failed' = FALSE
      BY <3>3 DEF Proceed
    <3>5. PollsAt(c)'
      <4>1. \A m \in Nat, n \in Nat, p \in Nat, l \in Nat :
               n <= m /\ m + p + 1 < l => n + (p + 1) < l
        OBVIOUS
      <4>2. Work' + (polls + 1) < POLL_LIMIT
        BY <2>1, <2>2, <2>6, <4>1
      <4> QED BY <1>1, <3>3, <4>2 DEF PollsAt
    <3>6. CASE op.body = 0 /\ c.watch # "first"
      <4>1. FirstAt(c)'
        BY <3>6 DEF FirstAt
      <4>2. at' = at
        BY <3>4, <3>6
      <4> QED BY <1>6, <2>1, <3>4, <3>5, <4>1, <4>2 DEF Onward, Between, Device
    <3>7. CASE op.body = 4 /\ d = Watch(c, "none")
      <4>1. Engine(d)' /\ PollsAt(d)'
        BY <2>1, <3>5, <3>7, WatchDevice
      <4>2. FirstAt(d)'
        BY <3>7 DEF FirstAt, Watch, Contexts, Shapes
      <4>3. at' = at + 1
        BY <3>4, <3>7
      <4> QED BY <1>6, <2>1, <3>4, <4>1, <4>2, <4>3 DEF Onward, Between, Device
    <3> QED BY <1>1, <3>6, <3>7
  <2> QED BY <1>1, <2>1, <2>5, <2>6 DEF Heard
<1> QED BY <1>9, <1>10

\* While a statement awaits the clock, the source has what it offers.
LEMMA DuringSource ==
    ASSUME NEW op, NEW c, NEW d, During(c, op, d)
    PROVE  offered => frame # <<>>
<1>1. ASSUME NEW e, Device(e) PROVE offered => frame # <<>>
  BY <1>1 DEF Device, Engine, SourceAt
<1>2. CASE InReset(c, op, d)
  BY <1>1, <1>2 DEF InReset
<1>3. CASE Device(c)
  BY <1>1, <1>3
<1>4. CASE Reading(c, op)
  BY <1>1, <1>4 DEF Reading
<1>5. CASE Writing(c, op)
  <2>1. Device(c) \/ Applied(c, op.data)
    BY <1>5 DEF Writing
  <2>2. Applied(c, op.data) => SourceAt(c) \/ Device(Wrote(c, op.data))
    BY DEF Applied
  <2> QED BY <1>1, <2>1, <2>2 DEF SourceAt
<1>6. CASE Both(c, op)
  BY <1>1, <1>6 DEF Both
<1> QED BY <1>2, <1>3, <1>4, <1>5, <1>6 DEF During

\* Whatever an edge does, the test is then where the outline says, or a tile has
\* overtaken its read.
LEMMA EdgeStep ==
    ASSUME AccelInv, BenchTypes, NEW op, NEW c, NEW d,
           Rule(test, c, op, d), Fits(op), During(c, op, d), EdgeIn(op),
           failed = FALSE, begun = TRUE, at \in Nat
    PROVE  /\ Onward(c, op, d) \/ Outrun(c, op)
           /\ AccelInv' /\ BenchTypes' /\ test' = test
<1>1. c \in Contexts /\ d \in Contexts
  BY DEF Rule
<1>2. offered => frame # <<>>
  BY DuringSource
<1>3. BenchTypes'
  BY <1>2, EdgeTypes
<1>4. AccelInv'
  <2>1. Dut
    BY DEF EdgeIn
  <2> QED BY <1>2, <2>1, BenchAccel
<1>5. test' = test
  BY DEF EdgeIn, BenchEdge
<1>6. Onward(c, op, d) \/ Outrun(c, op)
  <2>1. CASE ResetRule(c, op, d)
    BY <1>1, <2>1, ResetStep
  <2>2. CASE EdgesRule(c, op, d)
    BY <1>1, <1>3, <1>4, <2>2, EdgesStep
  <2>3. CASE UntilRule(c, op, d)
    BY <1>1, <1>3, <1>4, <2>3, UntilStep
  <2>4. CASE ReadRule(test, c, op, d)
    BY <1>1, <1>3, <1>4, <2>4, ReadStep
  <2>5. CASE PollRule(test, c, op, d)
    BY <1>1, <1>3, <1>4, <2>5, PollStep
  <2>6. CASE WriteRule(c, op, d)
    BY <1>1, <1>3, <1>4, <2>6, WriteStep
  <2>7. CASE RaceRule(c, op, d)
    BY <1>1, <1>3, <1>4, <2>7, RaceStep
  <2>8. CASE LoopRule(test, c, op) \/ SendRule(test, c, op, d) \/ NoteRule(test, c, op, d)
    <3>1. op.kind \in {"loop", "send", "pauses", "stream_clear", "split", "assert_split",
                       "saw_busy", "assert_saw"}
      BY <2>8 DEF LoopRule, SendRule, NoteRule
    <3> QED BY <3>1 DEF During
  <2> QED BY <2>1, <2>2, <2>3, <2>4, <2>5, <2>6, <2>7, <2>8 DEF Rule
<1> QED BY <1>3, <1>4, <1>5, <1>6

-----------------------------------------------------------------------------
(* The statements, which take no time                                      *)

\* The statement of the testbench, for the statement op.
StatementIn(op) ==
    /\ \/ Immediate(op, Frames) /\ UNCHANGED counterVars
       \/ /\ UntilConsumed(op) \/ Notes(op)
          /\ UNCHANGED <<test, tiles, polls, aresetn, pinVars, consumed, shown>>
    /\ UNCHANGED vars

\* Nothing moves but the pins of the master and the test itself.
Frozen == UNCHANGED <<vars, test, tiles, polls, frame, offered, pause, counterVars>>

\* A tile stays where it is while it and the source do.
LEMMA TileStill ==
    ASSUME UNCHANGED <<vars, tiles, frame>>, NEW c, NEW b,
           split' = split \/ (c.goal # REST /\ c.last # REST)
    PROVE  TileAt(c, b) => TileAt(c, b)'
<1>1. /\ state' = state /\ done_q' = done_q /\ tile' = tile /\ last' = last
      /\ tiles' = tiles /\ frame' = frame
  BY DEF vars, tileVars, histVars
<1>2. Result(c.goal)' = Result(c.goal) /\ Result(c.last)' = Result(c.last)
  BY <1>1 DEF Result
<1>3. Ahead(c)' <=> Ahead(c)
  BY <1>1, <1>2 DEF Ahead, PairsOf
<1>4. PairsOf(frame)' = PairsOf(frame)
  BY <1>1 DEF PairsOf
<1>5. Underway(c, b)' <=> Underway(c, b)
  BY <1>1, <1>2, <1>3, <1>4 DEF Underway
<1>6. Complete(c, b)' <=> Complete(c, b)
  BY <1>1, <1>2 DEF Complete
<1>7. Resting(c, b)' <=> Resting(c, b)
  BY <1>1, <1>2, <1>3 DEF Resting
<1> QED BY <1>1, <1>5, <1>6, <1>7 DEF TileAt

\* So do the source and the polls.
LEMMA SourceStill ==
    ASSUME UNCHANGED <<vars, tiles, frame, offered, pause, polls>>, NEW c
    PROVE  /\ SourceAt(c) => SourceAt(c)'
           /\ PollsAt(c) => PollsAt(c)'
           /\ start_pulse' = start_pulse /\ clear_pulse' = clear_pulse /\ en_reg' = en_reg
<1>1. start_pulse' = start_pulse /\ clear_pulse' = clear_pulse /\ en_reg' = en_reg
      /\ state' = state
  BY DEF vars, tileVars, start_pulse, clear_pulse, en_reg
<1>2. Framed(frame)' <=> Framed(frame)
  BY DEF Framed
<1>3. SourceAt(c) => SourceAt(c)'
  BY <1>2 DEF SourceAt
<1>4. Work' = Work
  <2>1. Gap' = Gap
    BY DEF Gap, Flow
  <2> QED BY <1>1, <2>1 DEF Work, Span
<1>5. PollsAt(c) => PollsAt(c)'
  BY <1>4 DEF PollsAt
<1> QED BY <1>1, <1>3, <1>5

\* What the slave and the channels hold.
SlaveStill == UNCHANGED <<aw_pend, w_pend, aw_addr_q, w_data_q, bvalid_q, rvalid_q, rdata_q>>

\* So does everything that a context says, but for the pins of the master.
LEMMA DeviceStill ==
    ASSUME Frozen, NEW c
    PROVE  /\ Device(c) => Device(c)'
           /\ FirstAt(c) => FirstAt(c)'
           /\ SlaveStill
           /\ start_pulse' = start_pulse
<1>1. UNCHANGED <<vars, tiles, frame, offered, pause, polls, split, consumed, shown, saw>>
  BY DEF Frozen, counterVars
<1>2. /\ SourceAt(c) => SourceAt(c)'
      /\ PollsAt(c) => PollsAt(c)'
      /\ start_pulse' = start_pulse /\ clear_pulse' = clear_pulse /\ en_reg' = en_reg
  BY <1>1, SourceStill
<1>3. TileAt(c, start_pulse) => TileAt(c, start_pulse)'
  <2>1. PICK b : b = start_pulse
    OBVIOUS
  <2>2. TileAt(c, b) => TileAt(c, b)'
    BY <1>1, TileStill
  <2> QED BY <1>2, <2>1, <2>2
<1>4. CounterAt(c) => CounterAt(c)'
  BY <1>1 DEF CounterAt
<1>5. FirstAt(c) => FirstAt(c)'
  BY <1>1 DEF FirstAt
<1>6. SlaveStill
  BY <1>1 DEF vars, slaveVars, SlaveStill
<1>7. Device(c) => Device(c)'
  BY <1>2, <1>3, <1>4 DEF Device, Engine
<1> QED BY <1>2, <1>5, <1>6, <1>7

\* The statement of the testbench, for an access, and what is left alone.
LEMMA AccessIssues ==
    ASSUME NEW op, op.kind \in {"read", "poll", "write", "race"}, StatementIn(op)
    PROVE  Issue(op)
  BY DEF StatementIn, Immediate, UntilConsumed, Notes, Await, Stream, Jump

\* An access leaves the accelerator and the stream alone.
LEMMA AccessFrozen ==
    ASSUME NEW op, op.kind \in {"read", "poll", "write", "race"}, StatementIn(op)
    PROVE  Frozen
<1>1. Issue(op) /\ UNCHANGED <<test, tiles, counterVars, vars>>
  BY DEF StatementIn, Immediate, UntilConsumed, Notes, Await, Stream, Jump
<1> QED BY <1>1 DEF Issue, Frozen

\* An access that is issued awaits the clock.
LEMMA IssueKeeps ==
    ASSUME NEW op, Issue(op)
    PROVE  begun' = TRUE /\ at' = at /\ failed' = failed /\ aresetn' = aresetn
  BY DEF Issue

\* What an access puts on the pins.
LEMMA IssuePins ==
    ASSUME NEW op, Issue(op)
    PROVE  /\ op.kind \in {"read", "poll"} => wr' = wr /\ ra' = op.addr
           /\ op.kind = "write" => wr' = [addr |-> op.addr, data |-> op.data] /\ ra' = ra
           /\ op.kind = "race" => wr' = [addr |-> op.waddr, data |-> op.data] /\ ra' = op.addr
<1>1. ASSUME op.kind \in {"read", "poll"} PROVE wr' = wr
  BY <1>1 DEF Issue
<1>2. ASSUME op.kind \in {"read", "poll", "race"} PROVE ra' = op.addr
  BY <1>2 DEF Issue
<1>3. ASSUME op.kind = "write" PROVE wr' = [addr |-> op.addr, data |-> op.data]
  BY <1>3 DEF Issue
<1>4. ASSUME op.kind = "write" PROVE ra' = ra
  BY <1>4 DEF Issue
<1>5. ASSUME op.kind = "race" PROVE wr' = [addr |-> op.waddr, data |-> op.data]
  BY <1>5 DEF Issue
<1> QED BY <1>1, <1>2, <1>3, <1>4, <1>5

\* A statement on which a read or a poll begins.
LEMMA ReadBegins ==
    ASSUME BenchTypes, NEW op, NEW c \in Contexts, NEW d,
           ReadRule(test, c, op, d) \/ PollRule(test, c, op, d), Between(c), StatementIn(op)
    PROVE  /\ begun' = TRUE /\ UNCHANGED <<at, failed>> /\ During(c, op, d)'
           /\ lag' \in [Channels -> Int] /\ wr' = wr /\ ra' = op.addr
           /\ Frozen /\ aresetn' = aresetn
<1>1. /\ op.kind \in {"read", "poll"}
      /\ op.lags = ReadLags("master") \/ op.lags = ReadLags("raw")
  BY DEF ReadRule, PollRule
<1>a. op.kind \in {"read", "poll", "write", "race"}
  BY <1>1
<1>b. Issue(op)
  BY <1>a, AccessIssues
<1>c. Frozen
  BY <1>a, AccessFrozen
<1>d. begun' = TRUE /\ at' = at /\ failed' = failed /\ aresetn' = aresetn
  BY <1>b, IssueKeeps
<1>2. /\ Issue(op) /\ Frozen
      /\ begun' = TRUE /\ at' = at /\ failed' = failed /\ aresetn' = aresetn
  BY <1>b, <1>c, <1>d
<1>3. wr' = wr /\ ra' = op.addr
  BY <1>1, <1>2, IssuePins
<1>4. MAX_LAG \in Nat
  BY BenchAssumption
<1>5. PICK new \in op.lags :
          lag' = [ch \in Channels |-> IF ch \in DOMAIN new THEN new[ch] ELSE lag[ch]]
  BY <1>2 DEF Issue
<1>6. DOMAIN new = {"ar", "r"} /\ new["ar"] \in 0 .. 1 + MAX_LAG /\ new["r"] = 0
  <2>1. CASE op.lags = ReadLags("master")
    BY <1>4, <1>5, <2>1 DEF ReadLags, Lags
  <2>2. CASE op.lags = ReadLags("raw")
    BY <1>4, <1>5, <2>2 DEF ReadLags
  <2> QED BY <1>1, <2>1, <2>2
<1>7. /\ aresetn = TRUE /\ Device(c) /\ Quiet(c) /\ FirstAt(c)
      /\ \A ch \in {"aw", "w", "ar", "r"} : lag[ch] = Idle
      /\ ResponseAt(c) /\ (start_pulse => c.open)
      /\ aw_pend = FALSE /\ w_pend = FALSE /\ rvalid_q = FALSE
  BY DEF Between, Quiet
<1>8. lag \in [Channels -> Int]
  BY DEF BenchTypes
<1>9. /\ lag'["ar"] \in 0 .. 1 + MAX_LAG /\ lag'["r"] = 0
      /\ lag'["aw"] = Idle /\ lag'["w"] = Idle /\ lag'["b"] = lag["b"]
  BY <1>5, <1>6, <1>7 DEF Channels
<1>10. lag' \in [Channels -> Int]
  <2>1. \A ch \in Channels : lag'[ch] \in Int
    BY <1>4, <1>8, <1>9 DEF Channels, Idle
  <2> QED BY <1>5, <2>1
<1>11. Device(c)' /\ FirstAt(c)' /\ SlaveStill /\ start_pulse' = start_pulse
  BY <1>2, <1>7, DeviceStill
<1>12. aw_pend' = FALSE /\ w_pend' = FALSE /\ rvalid_q' = FALSE /\ bvalid_q' = bvalid_q
  BY <1>7, <1>11 DEF SlaveStill
<1>13. ResponseAt(c)' /\ (start_pulse' => c.open)
  BY <1>7, <1>9, <1>11, <1>12 DEF ResponseAt
<1>14. ((c.watch = "first" /\ ~saw) => Len(frame) > lag["ar"])'
  <2>1. (c.watch = "first" /\ ~saw') => Len(frame') > 1 + MAX_LAG
    BY <1>11 DEF FirstAt
  <2>2. Len(frame') = Len(frame) /\ frame \in Seq(Beat)
    BY <1>2 DEF Frozen, BenchTypes
  <2>3. Len(frame') \in Nat
    BY <2>2
  <2> QED BY <1>4, <1>9, <2>1, <2>3
<1>15. Reading(c, op)'
  BY <1>3, <1>9, <1>11, <1>12, <1>13, <1>14 DEF Reading
<1>16. aresetn' = TRUE
  BY <1>2, <1>7
<1>17. During(c, op, d)'
  BY <1>1, <1>15, <1>16 DEF During
<1> QED BY <1>2, <1>3, <1>10, <1>17

\* A statement on which a write begins.
LEMMA WriteBegins ==
    ASSUME BenchTypes, NEW op, NEW c \in Contexts, NEW d \in Contexts,
           WriteRule(c, op, d), Between(c), StatementIn(op)
    PROVE  /\ begun' = TRUE /\ UNCHANGED <<at, failed>> /\ During(c, op, d)'
           /\ lag' \in [Channels -> Int]
           /\ wr' = [addr |-> op.addr, data |-> op.data] /\ ra' = ra
           /\ Frozen /\ aresetn' = aresetn
<1>1. /\ op.kind = "write" /\ op.lags \in {WriteLags("master"), WriteLags("raw")} /\ Plain(c)
  BY DEF WriteRule
<1>a. op.kind \in {"read", "poll", "write", "race"}
  BY <1>1
<1>b. Issue(op)
  BY <1>a, AccessIssues
<1>c. Frozen
  BY <1>a, AccessFrozen
<1>d. begun' = TRUE /\ at' = at /\ failed' = failed /\ aresetn' = aresetn
  BY <1>b, IssueKeeps
<1>2. /\ Issue(op) /\ Frozen
      /\ begun' = TRUE /\ at' = at /\ failed' = failed /\ aresetn' = aresetn
  BY <1>b, <1>c, <1>d
<1>3. wr' = [addr |-> op.addr, data |-> op.data] /\ ra' = ra
  BY <1>1, <1>2, IssuePins
<1>4. MAX_LAG \in Nat
  BY BenchAssumption
<1>5. PICK new \in op.lags :
          lag' = [ch \in Channels |-> IF ch \in DOMAIN new THEN new[ch] ELSE lag[ch]]
  BY <1>2 DEF Issue
<1>6. DOMAIN new = {"aw", "w", "b"} /\ new["aw"] \in Nat \ {0} /\ new["w"] \in Nat \ {0} /\ new["b"] = 0
  <2>1. CASE op.lags = WriteLags("master")
    BY <1>4, <1>5, <2>1 DEF WriteLags, Lags
  <2>2. CASE op.lags = WriteLags("raw")
    BY <1>4, <1>5, <2>2 DEF WriteLags
  <2> QED BY <1>1, <2>1, <2>2
<1>7. /\ aresetn = TRUE /\ Device(c) /\ Quiet(c)
      /\ \A ch \in {"aw", "w", "ar", "r"} : lag[ch] = Idle
      /\ ResponseAt(c)
      /\ aw_pend = FALSE /\ w_pend = FALSE /\ rvalid_q = FALSE
  BY DEF Between, Quiet
<1>8. bvalid_q = FALSE
  BY <1>1, <1>7 DEF ResponseAt, Plain
<1>9. /\ lag'["aw"] \in Nat \ {0} /\ lag'["w"] \in Nat \ {0} /\ lag'["b"] = 0
      /\ lag'["ar"] = Idle /\ lag'["r"] = Idle
  BY <1>5, <1>6, <1>7 DEF Channels
<1>10. lag' \in [Channels -> Int]
  <2>1. \A ch \in Channels : lag'[ch] \in Int
    BY <1>9 DEF Channels, Idle
  <2> QED BY <1>5, <2>1
<1>11. Device(c)' /\ SlaveStill
  BY <1>2, <1>7, DeviceStill
<1>12. aw_pend' = FALSE /\ w_pend' = FALSE /\ rvalid_q' = FALSE /\ bvalid_q' = FALSE
  BY <1>7, <1>8, <1>11 DEF SlaveStill
<1>13. lag'["aw"] # Idle /\ lag'["w"] # Idle
  BY <1>9 DEF Idle
<1>14. (/\ Waiting(c, "aw") /\ Waiting(c, "w")
        /\ aw_pend = (lag["aw"] = Idle) /\ (aw_pend => aw_addr_q = op.addr)
        /\ w_pend = (lag["w"] = Idle) /\ (w_pend => w_data_q = op.data)
        /\ ~(aw_pend /\ w_pend))'
  BY <1>9, <1>12, <1>13 DEF Waiting
<1>15. Writing(c, op)'
  BY <1>3, <1>9, <1>11, <1>12, <1>14 DEF Writing
<1>16. aresetn' = TRUE
  BY <1>2, <1>7
<1>17. During(c, op, d)'
  BY <1>1, <1>15, <1>16 DEF During
<1> QED BY <1>2, <1>3, <1>10, <1>17

\* A statement on which a write and a read begin together.
LEMMA RaceBegins ==
    ASSUME BenchTypes, NEW op, NEW c \in Contexts, NEW d \in Contexts,
           RaceRule(c, op, d), Between(c), StatementIn(op)
    PROVE  /\ begun' = TRUE /\ UNCHANGED <<at, failed>> /\ During(c, op, d)'
           /\ lag' \in [Channels -> Int]
           /\ wr' = [addr |-> op.waddr, data |-> op.data] /\ ra' = op.addr
           /\ Frozen /\ aresetn' = aresetn
<1>1. op.kind = "race" /\ op.lags = RaceLags /\ Plain(c)
  BY DEF RaceRule
<1>a. op.kind \in {"read", "poll", "write", "race"}
  BY <1>1
<1>b. Issue(op)
  BY <1>a, AccessIssues
<1>c. Frozen
  BY <1>a, AccessFrozen
<1>d. begun' = TRUE /\ at' = at /\ failed' = failed /\ aresetn' = aresetn
  BY <1>b, IssueKeeps
<1>2. /\ Issue(op) /\ Frozen
      /\ begun' = TRUE /\ at' = at /\ failed' = failed /\ aresetn' = aresetn
  BY <1>b, <1>c, <1>d
<1>3. wr' = [addr |-> op.waddr, data |-> op.data] /\ ra' = op.addr
  BY <1>1, <1>2, IssuePins
<1>4. PICK new \in op.lags :
          lag' = [ch \in Channels |-> IF ch \in DOMAIN new THEN new[ch] ELSE lag[ch]]
  BY <1>2 DEF Issue
<1>5. /\ DOMAIN new = Channels
      /\ new["aw"] = 1 /\ new["w"] = 1 /\ new["b"] = 0 /\ new["ar"] = 1 /\ new["r"] = 0
  BY <1>1, <1>4 DEF RaceLags, Channels
<1>6. /\ aresetn = TRUE /\ Device(c) /\ Quiet(c) /\ ResponseAt(c)
      /\ aw_pend = FALSE /\ w_pend = FALSE /\ rvalid_q = FALSE
  BY DEF Between, Quiet
<1>7. bvalid_q = FALSE
  BY <1>1, <1>6 DEF ResponseAt, Plain
<1>8. lag'["aw"] = 1 /\ lag'["w"] = 1 /\ lag'["b"] = 0 /\ lag'["ar"] = 1 /\ lag'["r"] = 0
  BY <1>4, <1>5 DEF Channels
<1>9. lag' \in [Channels -> Int]
  <2>1. \A ch \in Channels : lag'[ch] \in Int
    BY <1>8 DEF Channels
  <2> QED BY <1>4, <2>1
<1>10. Device(c)' /\ SlaveStill
  BY <1>2, <1>6, DeviceStill
<1>11. aw_pend' = FALSE /\ w_pend' = FALSE /\ rvalid_q' = FALSE /\ bvalid_q' = FALSE
  BY <1>6, <1>7, <1>10 DEF SlaveStill
<1>12. Both(c, op)'
  BY <1>3, <1>8, <1>10, <1>11 DEF Both
<1>13. aresetn' = TRUE
  BY <1>2, <1>6
<1>14. During(c, op, d)'
  BY <1>1, <1>12, <1>13 DEF During
<1> QED BY <1>2, <1>3, <1>9, <1>14

\* No channel moves either: the master is as quiet as it was.
LEMMA QuietStill ==
    ASSUME UNCHANGED <<vars, lag>>, NEW c
    PROVE  Quiet(c) => Quiet(c)'
<1>1. /\ start_pulse' = start_pulse /\ aw_pend' = aw_pend /\ w_pend' = w_pend
      /\ bvalid_q' = bvalid_q /\ rvalid_q' = rvalid_q /\ lag' = lag
  BY DEF vars, slaveVars, tileVars, start_pulse
<1> QED BY <1>1 DEF Quiet, ResponseAt

\* A statement from which a reset or a loop over edges begins.
LEMMA AwaitBegins ==
    ASSUME BenchTypes, NEW op, NEW c \in Contexts, NEW d \in Contexts,
           ResetRule(c, op, d) \/ EdgesRule(c, op, d), Between(c), StatementIn(op)
    PROVE  /\ begun' = TRUE /\ UNCHANGED <<at, failed>> /\ During(c, op, d)' /\ aresetn' \in BOOLEAN
           /\ lag' = lag /\ wr' = wr /\ ra' = ra /\ Frozen
<1>1. op.kind \in {"reset", "edges"} /\ op.edges \in Nat \ {0}
  BY DEF ResetRule, EdgesRule
<1>2. Await(op) /\ UNCHANGED <<test, tiles, counterVars, vars>>
  BY <1>1 DEF StatementIn, Immediate, UntilConsumed, Notes, Issue, Stream, Jump
<1>3. /\ begun' = TRUE /\ left' = op.edges /\ UNCHANGED <<at, failed>>
      /\ aresetn' = (op.kind # "reset")
      /\ lag' = lag /\ wr' = wr /\ ra' = ra /\ Frozen
  BY <1>2 DEF Await, pinVars, Frozen
<1>4. Device(c) /\ Quiet(c)
  BY DEF Between
<1>5. Device(c)' /\ Quiet(c)'
  BY <1>2, <1>3, <1>4, DeviceStill, QuietStill
<1>6. left' \in 1 .. op.edges
  BY <1>1, <1>3
<1>7. aresetn' \in BOOLEAN
  BY <1>3
<1>8. CASE op.kind = "edges"
  BY <1>3, <1>5, <1>6, <1>7, <1>8 DEF During
<1>9. CASE op.kind = "reset"
  <2>1. c.source = "steady" \/ ~c.sent
    BY <1>9 DEF ResetRule, EdgesRule
  <2>2. (c.source = "steady" => (frame # <<>> => offered)) /\ (~c.sent => frame = <<>>)
    BY <1>4 DEF Device, Engine, SourceAt, TileAt
  <2>3. (frame # <<>> => offered)'
    BY <1>3, <2>1, <2>2 DEF Frozen
  <2>4. aresetn' = FALSE
    BY <1>3, <1>9
  <2>5. InReset(c, op, d)'
    BY <1>3, <1>5, <1>6, <2>3, <2>4 DEF InReset
  <2> QED BY <1>3, <1>7, <1>9, <2>5 DEF During
<1> QED BY <1>1, <1>8, <1>9

\* One frame is one tile.
LEMMA FrameOfTile ==
    ASSUME BenchTypes, NEW k \in DOMAIN tiles
    PROVE  /\ Frames[k] \in Seq(Beat) /\ Len(Frames[k]) = Len(tiles[k])
           /\ Frames[k] # <<>> /\ PairsOf(Frames[k]) = tiles[k] /\ Framed(Frames[k])
<1> DEFINE s == tiles[k]
           n == Len(s)
           f == Frames[k]
<1>1. s \in Seq(Pe!Pair) /\ n \in Nat /\ n = Lengths[test][k] /\ k \in DOMAIN Lengths[test]
  BY TileFits
<1>2. n > 0
  <2>1. test \in Tests
    BY DEF BenchTypes
  <2>2. Lengths[test] \in Seq(Nat \ {0})
    BY <2>1, BenchAssumption
  <2> QED BY <1>1, <2>2
<1>3. DOMAIN s = 1 .. n /\ \A i \in 1 .. n : s[i] \in Pe!Pair
  BY <1>1
<1>4. f = [i \in 1 .. n |-> [valid |-> TRUE, pair |-> s[i], last |-> i = n]]
  BY <1>3 DEF Frames
<1> HIDE DEF f, s, n
<1>5. ASSUME NEW i \in 1 .. n
      PROVE  [valid |-> TRUE, pair |-> s[i], last |-> i = n] \in Beat
  <2>1. s[i] \in Pe!Pair /\ (i = n) \in BOOLEAN
    BY <1>3
  <2> QED BY <2>1 DEF Beat
<1>6. f \in [1 .. n -> Beat]
  BY <1>4, <1>5
<1>7. f \in Seq(Beat) /\ Len(f) = n
  BY <1>1, <1>6, LenProperties DEF n, s
<1>8. f # <<>>
  BY <1>2, <1>7
<1>9. PairsOf(f) = s
  <2>1. PairsOf(f) = [i \in 1 .. n |-> f[i].pair]
    BY <1>7 DEF PairsOf
  <2>2. \A i \in 1 .. n : f[i].pair = s[i]
    BY <1>4
  <2>3. PairsOf(f) = [i \in 1 .. n |-> s[i]]
    BY <2>1, <2>2
  <2>4. s = [i \in 1 .. n |-> s[i]]
    BY <1>1, <1>3 DEF s
  <2> QED BY <2>3, <2>4
<1>10. Framed(f)
  <2>1. \A i \in 1 .. n : f[i].last = (i = n)
    BY <1>4
  <2> QED BY <1>7, <2>1 DEF Framed
<1> QED BY <1>7, <1>8, <1>9, <1>10 DEF f, s, n

\* What a context in which the tile k has been sent to the accelerator of c says.
LEMMA SentDevice ==
    ASSUME BenchTypes, NEW c \in Contexts, c.mode # "polled", ~c.sent, Device(c),
           NEW k \in {1, 2}, k \in DOMAIN tiles, c.count = "none" \/ (c.count = "moving" /\ k = 1),
           UNCHANGED <<vars, test, tiles, polls, offered, pause, counterVars>>,
           frame' = frame \o Frames[k],
           NEW d \in Shapes, d.sent = TRUE, d.goal = k, d.last = c.last, d.done = c.done,
           d.mode = "idle" <=> c.mode = "idle", d.en = c.en, d.count = c.count,
           d.source # "steady", c.source = "paused" => d.source = "paused",
           d.watch = "seen" => c.watch = "seen"
    PROVE  Device(d)' /\ frame' = Frames[k] /\ frame' # <<>> /\ Len(frame') = Len(tiles[k])
<1>1. /\ Frames[k] \in Seq(Beat) /\ Len(Frames[k]) = Len(tiles[k])
      /\ Frames[k] # <<>> /\ PairsOf(Frames[k]) = tiles[k] /\ Framed(Frames[k])
  BY FrameOfTile
<1>2. /\ TileAt(c, start_pulse) /\ SourceAt(c) /\ CounterAt(c) /\ PollsAt(c)
      /\ clear_pulse = FALSE /\ en_reg = c.en
  BY DEF Device, Engine
<1>3. frame = <<>>
  BY <1>2 DEF TileAt
<1>4. frame' = Frames[k]
  <2>1. <<>> \o Frames[k] = Frames[k]
    BY <1>1, ConcatEmptySeq
  <2> QED BY <1>3, <2>1
<1>5. frame' # <<>> /\ Framed(frame') /\ PairsOf(frame') = tiles[k] /\ Len(frame') = Len(tiles[k])
  BY <1>1, <1>4
<1>6. /\ state' = state /\ done_q' = done_q /\ tile' = tile /\ last' = last
      /\ tiles' = tiles /\ split' = split
      /\ start_pulse' = start_pulse /\ clear_pulse' = clear_pulse /\ en_reg' = en_reg
  BY DEF vars, tileVars, histVars, counterVars, start_pulse, clear_pulse, en_reg
<1>7. Result(k)' = tiles[k] /\ Result(c.last)' = Result(c.last)
  <2>1. k # 0 /\ k # REST
    BY DEF REST
  <2> QED BY <1>6, <2>1 DEF Result
<1>8. PairsOf(frame)' = tiles[k]
  <2>1. PairsOf(frame)' = PairsOf(frame')
    BY DEF PairsOf
  <2> QED BY <1>5, <2>1
<1>9. Ahead(d)'
  BY <1>5, <1>7, <1>8 DEF Ahead
<1>10. tile = <<>> => tile' \o PairsOf(frame)' = Result(k)'
  <2>1. tiles[k] \in Seq(Pe!Pair)
    BY TileFits
  <2>2. <<>> \o tiles[k] = tiles[k]
    BY <2>1, ConcatEmptySeq
  <2> QED BY <1>6, <1>7, <1>8, <2>2
<1>11. TileAt(d, start_pulse)'
  <2>1. CASE c.mode = "idle"
    <3>1. Resting(c, start_pulse)
      BY <1>2, <2>1 DEF TileAt
    <3>2. Resting(d, start_pulse)'
      BY <1>6, <1>7, <1>9, <3>1 DEF Resting
    <3> QED BY <2>1, <3>2 DEF TileAt
  <2>2. CASE c.mode # "idle"
    <3>1. Underway(c, start_pulse)
      BY <1>2, <2>2 DEF TileAt, Complete
    <3>2. /\ last = Result(c.last)
          /\ \/ state = "S_IDLE" /\ start_pulse
             \/ ~start_pulse /\ done_q = FALSE /\ state = "S_CLEAR"
             \/ ~start_pulse /\ done_q = FALSE /\ state = "S_RUN" /\ tile = <<>>
      BY <3>1 DEF Underway
    <3>3. Underway(d, start_pulse)'
      <4>1. last' = Result(d.last)'
        BY <1>6, <1>7, <3>2
      <4>2. CASE state = "S_IDLE" /\ start_pulse
        BY <1>6, <1>9, <4>1, <4>2 DEF Underway
      <4>3. CASE ~start_pulse /\ done_q = FALSE /\ state = "S_CLEAR"
        BY <1>6, <1>9, <4>1, <4>3 DEF Underway
      <4>4. CASE ~start_pulse /\ done_q = FALSE /\ state = "S_RUN" /\ tile = <<>>
        <5>1. (tile \o PairsOf(frame))' = Result(d.goal)'
          BY <1>10, <4>4
        <5> QED BY <1>5, <1>6, <4>1, <4>4, <5>1 DEF Underway
      <4> QED BY <3>2, <4>2, <4>3, <4>4
    <3> QED BY <2>2, <3>3 DEF TileAt
  <2> QED BY <2>1, <2>2
<1>12. SourceAt(d)'
  <2>1. \E j \in DOMAIN tiles : Len(frame') <= Len(tiles[j])
    <3>1. Len(tiles[k]) \in Nat
      BY TileFits
    <3> QED BY <1>5, <3>1
  <2>2. d.source # "paused" => pause' = 0
    BY <1>2 DEF SourceAt
  <2>3. Framed(frame)'
    BY <1>5 DEF Framed
  <2> QED BY <1>5, <1>6, <2>1, <2>2, <2>3 DEF SourceAt
<1>13. CounterAt(d)'
  <2>1. consumed' = consumed /\ saw' = saw
    BY DEF counterVars
  <2>2. d.count # "none" => consumed = 0 /\ k = 1
    BY <1>2 DEF CounterAt
  <2>3. d.count # "none" => consumed' = Len(tiles[1]) - Len(frame')
    <3>1. Len(tiles[k]) \in Nat
      BY TileFits
    <3> QED BY <1>5, <2>1, <2>2, <3>1
  <2>4. d.watch = "seen" => saw' = TRUE
    BY <1>2, <2>1 DEF CounterAt
  <2>5. d.count \notin {"still", "cut"}
    OBVIOUS
  <2> QED BY <1>6, <2>3, <2>4, <2>5 DEF CounterAt
<1>14. PollsAt(d)'
  BY <1>2 DEF PollsAt
<1>15. Engine(d)'
  BY <1>2, <1>6, <1>11, <1>12, <1>13 DEF Engine
<1> QED BY <1>4, <1>5, <1>14, <1>15 DEF Device

\* A tile is sent to a source that holds none.
LEMMA SendStatement ==
    ASSUME BenchTypes, NEW op, NEW c \in Contexts, NEW d \in Contexts,
           SendRule(test, c, op, d), op.tile \in DOMAIN Lengths[test],
           Between(c), StatementIn(op), failed = FALSE
    PROVE  /\ begun' = FALSE /\ at' = at + 1 /\ failed' = FALSE /\ Between(d)'
           /\ frame' \in Seq(Beat)
           /\ UNCHANGED <<test, tiles, polls, aresetn, lag, wr, ra, offered, pause, counterVars>>
<1> DEFINE k == op.tile
<1>1. /\ op.kind = "send" /\ k \in {1, 2} /\ c.mode # "polled" /\ c.watch # "first" /\ ~c.sent
      /\ c.count = "none" \/ (c.count = "moving" /\ k = 1)
      /\ \/ d = Sent(c, k)
         \/ c.mode = "busy" /\ d = Polled(Sent(c, k))
         \/ /\ c.mode = "busy" /\ Lengths[test][k] > MAX_LAG + 1
            /\ d = Watch(Polled(Sent(c, k)), "first")
  BY DEF SendRule
<1>2. Stream(op, Frames) /\ UNCHANGED <<test, tiles, counterVars, vars>>
  BY <1>1 DEF StatementIn, Immediate, UntilConsumed, Notes, Issue, Await, Jump
<1>3. /\ frame' = frame \o Frames[k] /\ at' = at + 1 /\ begun' = FALSE /\ failed' = FALSE
      /\ UNCHANGED <<polls, aresetn, lag, wr, ra, offered, pause>>
  BY <1>1, <1>2 DEF Stream, Proceed
<1>4. k \in DOMAIN tiles
  <2>1. test \in Tests /\ tiles \in [1 .. Len(Lengths[test]) -> Seq(Pe!Pair)]
    BY DEF BenchTypes
  <2>2. Lengths[test] \in Seq(Nat \ {0})
    BY <2>1, BenchAssumption
  <2> QED BY <2>1, <2>2
<1>5. aresetn = TRUE /\ Device(c) /\ Quiet(c) /\ FirstAt(c)
  BY DEF Between
<1>6. /\ d.sent = TRUE /\ d.goal = k /\ d.last = c.last /\ d.done = c.done
      /\ (d.mode = "idle" <=> c.mode = "idle") /\ d.en = c.en /\ d.count = c.count
      /\ d.source # "steady" /\ (c.source = "paused" => d.source = "paused")
      /\ (d.watch = "seen" => c.watch = "seen") /\ d.open = c.open
      /\ d.watch = "first" => Lengths[test][k] > MAX_LAG + 1
  <2>1. c \in Shapes
    BY ContextFields
  <2> QED BY <1>1, <2>1 DEF Sent, Polled, Watch, Shapes
<1>7. d \in Shapes
  BY ContextFields
<1> HIDE DEF k
<1>8. Device(d)' /\ frame' = Frames[k] /\ frame' # <<>> /\ Len(frame') = Len(tiles[k])
  BY <1>1, <1>2, <1>3, <1>4, <1>5, <1>6, <1>7, SentDevice
<1>9. frame' \in Seq(Beat)
  BY <1>4, <1>8, FrameOfTile
<1>10. Quiet(d)'
  <2>1. Quiet(c)'
    BY <1>2, <1>3, <1>5, QuietStill
  <2> QED BY <1>6, <2>1 DEF Quiet, ResponseAt
<1>11. FirstAt(d)'
  <2>1. Len(tiles[k]) = Lengths[test][k] /\ Len(tiles[k]) \in Nat
    BY <1>4, TileFits
  <2>2. MAX_LAG \in Nat
    BY BenchAssumption
  <2> QED BY <1>6, <1>8, <2>1, <2>2 DEF FirstAt
<1> QED BY <1>2, <1>3, <1>5, <1>8, <1>9, <1>10, <1>11 DEF Between

\* What a note of the test changes of a context and of its own counters, the
\* accelerator does not notice.
LEMMA NotedDevice ==
    ASSUME NEW c \in Contexts, Device(c),
           UNCHANGED <<vars, test, tiles, polls, frame, offered, consumed, shown>>,
           pause' = pause \/ c.mode # "polled",
           split' = split \/ (c.goal # REST /\ c.last # REST),
           NEW d, d.sent = c.sent, d.goal = c.goal, d.last = c.last, d.done = c.done,
           d.mode = c.mode, d.en = c.en,
           d.source = "paused" \/ (d.source = c.source /\ pause' = pause),
           d.count = c.count \/ (d.count = "cut" /\ c.count = "still"),
           d.count = "cut" => split' = consumed,
           d.watch = "seen" => saw' = TRUE
    PROVE  Device(d)'
<1>1. /\ TileAt(c, start_pulse) /\ SourceAt(c) /\ CounterAt(c) /\ PollsAt(c)
      /\ clear_pulse = FALSE /\ en_reg = c.en
  BY DEF Device, Engine
<1>2. start_pulse' = start_pulse /\ clear_pulse' = clear_pulse /\ en_reg' = en_reg
  BY DEF vars, tileVars, start_pulse, clear_pulse, en_reg
<1>3. TileAt(d, start_pulse)'
  <2>1. PICK b : b = start_pulse
    OBVIOUS
  <2>2. TileAt(c, b)'
    BY <1>1, <2>1, TileStill
  <2>3. TileAt(d, b)'
    BY <2>2, SameTile
  <2> QED BY <1>2, <2>1, <2>3
<1>4. SourceAt(d)'
  <2>1. Framed(frame)' <=> Framed(frame)
    BY DEF Framed
  <2> QED BY <1>1, <2>1 DEF SourceAt
<1>5. CounterAt(d)'
  BY <1>1 DEF CounterAt
<1>6. PollsAt(d)'
  <2>1. CASE c.mode # "polled"
    BY <1>1, <2>1 DEF PollsAt
  <2>2. CASE pause' = pause
    <3>1. PollsAt(c)'
      BY <1>1, <2>2, SourceStill
    <3> QED BY <3>1 DEF PollsAt
  <2> QED BY <2>1, <2>2
<1>7. Engine(d)'
  BY <1>1, <1>2, <1>3, <1>4, <1>5 DEF Engine
<1> QED BY <1>6, <1>7 DEF Device

\* A statement that takes no time and asserts, if at all, what the context says.
LEMMA NoteStatement ==
    ASSUME BenchTypes, NEW op, NEW c \in Contexts, NEW d \in Contexts,
           NoteRule(test, c, op, d), Between(c), StatementIn(op), failed = FALSE
    PROVE  /\ begun' = FALSE /\ at' = at + 1 /\ failed' = FALSE /\ Between(d)'
           /\ pause' \in {pause, 1} /\ split' \in {split, consumed, shown}
           /\ saw' \in {saw, TRUE}
           /\ UNCHANGED <<test, tiles, polls, aresetn, lag, wr, ra, offered, frame,
                          consumed, shown>>
<1>1. aresetn = TRUE /\ Device(c) /\ Quiet(c) /\ FirstAt(c) /\ CounterAt(c) /\ c \in Shapes
  BY ContextFields DEF Between, Device, Engine
<1>2. UNCHANGED <<vars, test, tiles>>
  <2>1. UNCHANGED vars
    BY DEF StatementIn
  <2> QED BY <2>1 DEF StatementIn, Immediate
<1>3. /\ begun' = FALSE /\ at' = at + 1 /\ failed' = FALSE
      /\ UNCHANGED <<polls, aresetn, lag, wr, ra, offered, frame, consumed, shown>>
      /\ pause' \in {pause, 1} /\ split' \in {split, consumed, shown} /\ saw' \in {saw, TRUE}
      /\ pause' = pause \/ c.mode # "polled"
      /\ split' = split \/ (c.goal # REST /\ c.last # REST)
      /\ d.sent = c.sent /\ d.goal = c.goal /\ d.last = c.last /\ d.done = c.done
      /\ d.mode = c.mode /\ d.en = c.en /\ d.open = c.open
      /\ d.source = "paused" \/ (d.source = c.source /\ pause' = pause)
      /\ d.count = c.count \/ (d.count = "cut" /\ c.count = "still")
      /\ d.count = "cut" => split' = consumed
      /\ d.watch = "seen" => saw' = TRUE
      /\ d.watch # "first"
  <2>1. CASE op.kind = "pauses" /\ Plain(c) /\ d = Source(c, "paused")
    <3>1. Stream(op, Frames) /\ UNCHANGED counterVars
      BY <2>1 DEF StatementIn, Immediate, UntilConsumed, Notes, Issue, Await, Jump
    <3>2. /\ begun' = FALSE /\ at' = at + 1 /\ failed' = FALSE /\ pause' = 1 /\ frame' = frame
          /\ UNCHANGED <<polls, aresetn, lag, wr, ra, offered>>
      BY <2>1, <3>1 DEF Stream, Proceed
    <3>3. UNCHANGED <<consumed, shown, split, saw>>
      BY <3>1 DEF counterVars
    <3>4. /\ d.sent = c.sent /\ d.goal = c.goal /\ d.last = c.last /\ d.done = c.done
          /\ d.mode = c.mode /\ d.en = c.en /\ d.open = c.open /\ d.source = "paused"
          /\ d.count = c.count /\ d.watch = c.watch /\ c.mode # "polled" /\ c.watch # "first"
      BY <1>1, <2>1 DEF Source, Shapes, Plain
    <3> QED BY <1>1, <3>2, <3>3, <3>4 DEF CounterAt
  <2>2. CASE op.kind = "stream_clear" /\ Plain(c) /\ ~c.sent /\ d = c
    <3>1. Stream(op, Frames) /\ UNCHANGED counterVars
      BY <2>2 DEF StatementIn, Immediate, UntilConsumed, Notes, Issue, Await, Jump
    <3>2. /\ begun' = FALSE /\ at' = at + 1 /\ failed' = FALSE /\ pause' = pause /\ frame' = <<>>
          /\ UNCHANGED <<polls, aresetn, lag, wr, ra, offered>>
      BY <2>2, <3>1 DEF Stream, Proceed
    <3>3. frame = <<>>
      BY <1>1, <2>2 DEF Device, Engine, TileAt
    <3>4. UNCHANGED <<consumed, shown, split, saw>>
      BY <3>1 DEF counterVars
    <3> QED BY <1>1, <2>2, <3>2, <3>3, <3>4 DEF CounterAt, Plain
  <2>3. CASE /\ op.kind = "split" /\ Plain(c) /\ c.count = "still"
             /\ c.goal # REST /\ c.last # REST /\ d = Count(c, "cut")
    <3>1. /\ Notes(op) /\ UNCHANGED <<polls, aresetn, pinVars, consumed, shown>>
      BY <2>3 DEF StatementIn, Immediate, UntilConsumed, Stream, Issue, Await, Jump
    <3>2. begun' = FALSE /\ at' = at + 1 /\ failed' = FALSE /\ split' \in Seen /\ saw' = saw
      BY <2>3, <3>1 DEF Notes, Proceed
    <3>3. shown = consumed
      BY <1>1, <2>3 DEF CounterAt
    <3>4. split' = consumed
      BY <3>2, <3>3 DEF Seen
    <3>5. /\ d.sent = c.sent /\ d.goal = c.goal /\ d.last = c.last /\ d.done = c.done
          /\ d.mode = c.mode /\ d.en = c.en /\ d.open = c.open /\ d.source = c.source
          /\ d.count = "cut" /\ d.watch = c.watch /\ c.mode # "polled" /\ c.watch # "first"
      BY <1>1, <2>3 DEF Count, Shapes, Plain
    <3>6. UNCHANGED <<polls, aresetn, lag, wr, ra, offered, frame, pause, consumed, shown>>
      BY <3>1 DEF pinVars
    <3> QED BY <1>1, <2>3, <3>2, <3>4, <3>5, <3>6 DEF CounterAt
  <2>4. CASE op.kind = "assert_split" /\ Plain(c) /\ c.count = "cut" /\ d = c
    <3>1. /\ Notes(op) /\ UNCHANGED <<polls, aresetn, pinVars, consumed, shown>>
      BY <2>4 DEF StatementIn, Immediate, UntilConsumed, Stream, Issue, Await, Jump
    <3>2. (\E total \in Seen : Proceed(1, total = split)) /\ split' = split /\ saw' = saw
      BY <2>4, <3>1 DEF Notes
    <3>3. shown = consumed /\ split = consumed
      BY <1>1, <2>4 DEF CounterAt
    <3>4. Proceed(1, TRUE)
      BY <3>2, <3>3 DEF Seen
    <3>5. begun' = FALSE /\ at' = at + 1 /\ failed' = FALSE
      BY <3>4 DEF Proceed
    <3>6. UNCHANGED <<polls, aresetn, lag, wr, ra, offered, frame, pause, consumed, shown>>
      BY <3>1 DEF pinVars
    <3> QED BY <1>1, <2>4, <3>2, <3>3, <3>5, <3>6 DEF CounterAt, Plain
  <2>5. CASE op.kind = "saw_busy" /\ ~c.open /\ c.watch = "none" /\ d = Watch(c, "seen")
    <3>1. /\ Notes(op) /\ UNCHANGED <<polls, aresetn, pinVars, consumed, shown>>
      BY <2>5 DEF StatementIn, Immediate, UntilConsumed, Stream, Issue, Await, Jump
    <3>2. begun' = FALSE /\ at' = at + 1 /\ failed' = FALSE /\ split' = split /\ saw' = TRUE
      BY <2>5, <3>1 DEF Notes, Proceed
    <3>3. UNCHANGED <<polls, aresetn, lag, wr, ra, offered, frame, pause, consumed, shown>>
      BY <3>1 DEF pinVars
    <3>4. /\ d.sent = c.sent /\ d.goal = c.goal /\ d.last = c.last /\ d.done = c.done
          /\ d.mode = c.mode /\ d.en = c.en /\ d.open = c.open /\ d.source = c.source
          /\ d.count = c.count /\ d.watch = "seen"
      BY <1>1, <2>5 DEF Watch, Shapes
    <3> QED BY <1>1, <3>2, <3>3, <3>4 DEF CounterAt
  <2>6. CASE op.kind = "assert_saw" /\ Plain(c) /\ c.watch = "seen" /\ d = c
    <3>1. /\ Notes(op) /\ UNCHANGED <<polls, aresetn, pinVars, consumed, shown>>
      BY <2>6 DEF StatementIn, Immediate, UntilConsumed, Stream, Issue, Await, Jump
    <3>2. saw = TRUE
      BY <1>1, <2>6 DEF CounterAt
    <3>3. begun' = FALSE /\ at' = at + 1 /\ failed' = FALSE /\ split' = split /\ saw' = saw
      BY <2>6, <3>1, <3>2 DEF Notes, Proceed
    <3>4. UNCHANGED <<polls, aresetn, lag, wr, ra, offered, frame, pause, consumed, shown>>
      BY <3>1 DEF pinVars
    <3> QED BY <1>1, <2>6, <3>2, <3>3, <3>4 DEF CounterAt
  <2> QED BY <2>1, <2>2, <2>3, <2>4, <2>5, <2>6 DEF NoteRule
<1>4. Device(d)'
  BY <1>1, <1>2, <1>3, NotedDevice
<1>5. Quiet(d)'
  <2>1. Quiet(c)'
    BY <1>1, <1>2, <1>3, QuietStill
  <2> QED BY <1>3, <2>1 DEF Quiet, ResponseAt
<1>6. FirstAt(d)'
  BY <1>3 DEF FirstAt
<1>7. Between(d)'
  BY <1>1, <1>3, <1>4, <1>5, <1>6 DEF Between
<1> QED BY <1>2, <1>3, <1>7

\* The test has waited for enough beats, or waits for more.
LEMMA UntilStatement ==
    ASSUME NEW op, NEW c \in Contexts, NEW d \in Contexts,
           UntilRule(c, op, d), Between(c), StatementIn(op), failed = FALSE, begun = FALSE
    PROVE  /\ failed' = FALSE /\ Frozen /\ UNCHANGED <<aresetn, lag, wr, ra>>
           /\ \/ at' = at /\ begun' = TRUE /\ During(c, op, d)'
              \/ at' = at + 1 /\ begun' = FALSE /\ Between(d)'
<1>1. op.kind = "until_consumed" /\ d = c
  BY DEF UntilRule
<1>2. /\ UntilConsumed(op)
      /\ UNCHANGED <<test, tiles, polls, aresetn, pinVars, consumed, shown, vars>>
  BY <1>1 DEF StatementIn, Immediate, Notes, Stream, Issue, Await, Jump
<1>3. /\ UNCHANGED <<split, saw>> /\ failed' = FALSE
      /\ (at' = at /\ begun' = TRUE) \/ (at' = at + 1 /\ begun' = FALSE)
  BY <1>2 DEF UntilConsumed, Proceed
<1>4. Frozen /\ UNCHANGED <<aresetn, lag, wr, ra>>
  BY <1>2, <1>3 DEF Frozen, pinVars, counterVars
<1>5. aresetn = TRUE /\ Device(c) /\ Quiet(c) /\ FirstAt(c)
  BY DEF Between
<1>6. Device(c)' /\ FirstAt(c)'
  BY <1>4, <1>5, DeviceStill
<1>7. Quiet(c)'
  BY <1>2, <1>4, <1>5, QuietStill
<1>8. aresetn' = TRUE
  BY <1>4, <1>5
<1> QED BY <1>1, <1>3, <1>4, <1>6, <1>7, <1>8 DEF Between, During

\* The end of the body of the poll loop, which leads back to the poll.
Back(op) == /\ op.kind = "loop" /\ op.back = 4
            /\ failed' = FALSE /\ at' = at - 4 /\ begun' = FALSE /\ Between(First)'

\* The end of a loop leads back to the poll.
LEMMA LoopStatement ==
    ASSUME NEW op, NEW c \in Contexts, LoopRule(test, c, op), Between(c), StatementIn(op),
           failed = FALSE, at \in Nat
    PROVE  Back(op) /\ Frozen /\ UNCHANGED <<aresetn, lag, wr, ra>>
<1>1. op.kind = "loop" /\ op.back = 4 /\ c = Seen2
  BY DEF LoopRule
<1>2. Jump(op) /\ UNCHANGED <<test, tiles, counterVars, vars>>
  BY <1>1 DEF StatementIn, Immediate, UntilConsumed, Notes, Stream, Issue, Await
<1>3. /\ failed' = FALSE /\ at' = at - 4 /\ begun' = FALSE
      /\ UNCHANGED <<polls, aresetn, lag, wr, ra, frame, offered, pause>>
  BY <1>1, <1>2 DEF Jump, Proceed, pinVars
<1>4. Frozen
  BY <1>2, <1>3 DEF Frozen
<1>5. aresetn = TRUE /\ Device(c) /\ Quiet(c) /\ c.watch = "seen"
  <2>1. c.watch = "seen"
    BY <1>1 DEF Seen2, Watch, First, Awaiting, Stalling, After, Fresh, Source, Polled, Sent,
                Started, Ended, Closed
  <2> QED BY <2>1 DEF Between
<1>6. Device(c)'
  BY <1>4, <1>5, DeviceStill
<1>7. Quiet(c)'
  BY <1>2, <1>3, <1>5, QuietStill
<1>8. First = Watch(c, "first")
  <2>1. Awaiting(Stalling, 2) \in Shapes
    BY DEF Shapes, Awaiting, Stalling, After, Fresh, Source, Polled, Sent, Started, Ended, Closed
  <2>2. ASSUME NEW e \in Shapes
        PROVE  Watch(Watch(Watch(e, "first"), "seen"), "first") = Watch(e, "first")
    BY DEF Watch, Shapes
  <2> QED BY <1>1, <2>1, <2>2 DEF Seen2, First
<1>9. saw' = TRUE
  BY <1>5, <1>6 DEF Device, Engine, CounterAt
<1>10. Device(First)'
  BY <1>6, <1>8, WatchDevice DEF Device
<1>11. FirstAt(First)'
  BY <1>9 DEF FirstAt
<1>12. Quiet(First)'
  <2>1. First.open = c.open
    BY <1>8, ContextFields DEF Watch, Shapes
  <2> QED BY <1>7, <2>1 DEF Quiet, ResponseAt
<1> QED BY <1>1, <1>3, <1>4, <1>5, <1>10, <1>11, <1>12 DEF Back, Between

\* The operands and the pins stay what they may be.
LEMMA TypesKept ==
    ASSUME BenchTypes, UNCHANGED <<test, tiles>>,
           lag' \in [Channels -> Int], wr' \in [addr : WrAddrs, data : WrData], ra' \in RdAddrs,
           frame' \in Seq(Beat), pause' \in 0 .. Len(PausePattern), polls' \in Nat,
           {consumed', shown', split'} \subseteq Nat,
           {aresetn', begun', offered', saw'} \subseteq BOOLEAN
    PROVE  BenchTypes'
<1>1. /\ test \in Tests /\ tiles \in [1 .. Len(Lengths[test]) -> Seq(Pe!Pair)]
      /\ \A k \in DOMAIN tiles : tiles[k] \in Operands(test, k)
  BY DEF BenchTypes
<1>2. test' = test /\ tiles' = tiles
  OBVIOUS
<1>3. (\A k \in DOMAIN tiles : tiles[k] \in Operands(test, k))'
  <2>1. \A t : t = test => \A k \in DOMAIN tiles : tiles[k] \in Operands(t, k)
    BY <1>1
  <2> QED BY <1>2, <2>1
<1>4. (test \in Tests /\ tiles \in [1 .. Len(Lengths[test]) -> Seq(Pe!Pair)])'
  BY <1>1, <1>2
<1> QED BY <1>3, <1>4 DEF BenchTypes

\* What an access names is a register, and what it writes is a word of it.
LEMMA PinsOfRule ==
    ASSUME NEW t, NEW op, NEW c, NEW d
    PROVE  /\ ReadRule(t, c, op, d) \/ PollRule(t, c, op, d) => op.addr \in RdAddrs
           /\ WriteRule(c, op, d) =>
                [addr |-> op.addr, data |-> op.data] \in [addr : WrAddrs, data : WrData]
           /\ RaceRule(c, op, d) =>
                /\ op.addr \in RdAddrs
                /\ [addr |-> op.waddr, data |-> op.data] \in [addr : WrAddrs, data : WrData]
<1>1. /\ RdAddrs = Regs /\ "CTRL" \in WrAddrs
      /\ \A x \in CtrlWord : x.strb = TRUE => x \in WrData
  BY TestAssumption
<1>2. Readable(c, op) => op.addr \in Regs
  BY DEF Readable, Regs
<1>3. Racing(t, c, op) => op.addr \in Regs
  <2>1. ReadResult(M, "ACC", 1).addr = "ACC" /\ ReadResult(M, "SKIP", 1).addr = "SKIP"
    BY DEF ReadResult, Read
  <2> QED BY <2>1 DEF Racing, Regs
<1>4. ReadRule(t, c, op, d) => op.addr \in Regs
  BY <1>2, <1>3 DEF ReadRule
<1>5. PollRule(t, c, op, d) => op.addr \in Regs
  BY DEF PollRule, Regs
<1>6. WriteRule(c, op, d) => op.addr = "CTRL" /\ op.data \in CtrlWord /\ op.data.strb = TRUE
  BY DEF WriteRule, CtrlWord
<1>7. RaceRule(c, op, d) => op.addr \in Regs /\ op.waddr = "CTRL"
                            /\ op.data \in CtrlWord /\ op.data.strb = TRUE
  BY DEF RaceRule, Regs, Launch, CTRL, CtrlWord
<1> QED BY <1>1, <1>4, <1>5, <1>6, <1>7

\* Whatever a statement does, the test is then where the outline says.
LEMMA StatementStep ==
    ASSUME BenchTypes, NEW op, NEW c, NEW d, Rule(test, c, op, d),
           op.kind = "send" => op.tile \in DOMAIN Lengths[test],
           Between(c), StatementIn(op), failed = FALSE, begun = FALSE, at \in Nat
    PROVE  /\ Onward(c, op, d) \/ (LoopRule(test, c, op) /\ Back(op))
           /\ BenchTypes' /\ test' = test
<1>1. c \in Contexts /\ d \in Contexts
  BY DEF Rule
<1>2. /\ wr \in [addr : WrAddrs, data : WrData] /\ ra \in RdAddrs /\ lag \in [Channels -> Int]
      /\ frame \in Seq(Beat) /\ pause \in 0 .. Len(PausePattern) /\ polls \in Nat
      /\ {consumed, shown, split} \subseteq Nat
      /\ aresetn \in BOOLEAN /\ begun \in BOOLEAN /\ offered \in BOOLEAN /\ saw \in BOOLEAN
  BY DEF BenchTypes
<1>3. ASSUME Frozen, lag' \in [Channels -> Int], wr' \in [addr : WrAddrs, data : WrData],
             ra' \in RdAddrs, aresetn' \in BOOLEAN, begun' \in BOOLEAN
      PROVE  BenchTypes' /\ test' = test
  <2>1. UNCHANGED <<test, tiles, polls, frame, offered, pause, consumed, shown, split, saw>>
    BY <1>3 DEF Frozen, counterVars
  <2>2. /\ test' = test /\ tiles' = tiles /\ frame' \in Seq(Beat)
        /\ pause' \in 0 .. Len(PausePattern) /\ polls' \in Nat
        /\ {consumed', shown', split'} \subseteq Nat
        /\ {aresetn', begun', offered', saw'} \subseteq BOOLEAN
    BY <1>2, <1>3, <2>1
  <2> QED BY <1>3, <2>2, TypesKept
<1>4. CASE ReadRule(test, c, op, d) \/ PollRule(test, c, op, d)
  <2>1. op.addr \in RdAddrs
    BY <1>4, PinsOfRule
  <2>2. /\ begun' = TRUE /\ at' = at /\ failed' = failed /\ During(c, op, d)'
        /\ lag' \in [Channels -> Int] /\ wr' = wr /\ ra' = op.addr
        /\ Frozen /\ aresetn' = aresetn
    BY <1>1, <1>4, ReadBegins
  <2>3. Onward(c, op, d)
    BY <2>2 DEF Onward
  <2>4. BenchTypes' /\ test' = test
    BY <1>2, <1>3, <2>1, <2>2
  <2> QED BY <2>3, <2>4
<1>5. CASE WriteRule(c, op, d)
  <2>1. [addr |-> op.addr, data |-> op.data] \in [addr : WrAddrs, data : WrData]
    BY <1>5, PinsOfRule
  <2>2. /\ begun' = TRUE /\ at' = at /\ failed' = failed /\ During(c, op, d)'
        /\ lag' \in [Channels -> Int]
        /\ wr' = [addr |-> op.addr, data |-> op.data] /\ ra' = ra
        /\ Frozen /\ aresetn' = aresetn
    BY <1>1, <1>5, WriteBegins
  <2>3. Onward(c, op, d)
    BY <2>2 DEF Onward
  <2>4. BenchTypes' /\ test' = test
    BY <1>2, <1>3, <2>1, <2>2
  <2> QED BY <2>3, <2>4
<1>6. CASE RaceRule(c, op, d)
  <2>1. op.addr \in RdAddrs
        /\ [addr |-> op.waddr, data |-> op.data] \in [addr : WrAddrs, data : WrData]
    BY <1>6, PinsOfRule
  <2>2. /\ begun' = TRUE /\ at' = at /\ failed' = failed /\ During(c, op, d)'
        /\ lag' \in [Channels -> Int]
        /\ wr' = [addr |-> op.waddr, data |-> op.data] /\ ra' = op.addr
        /\ Frozen /\ aresetn' = aresetn
    BY <1>1, <1>6, RaceBegins
  <2>3. Onward(c, op, d)
    BY <2>2 DEF Onward
  <2>4. BenchTypes' /\ test' = test
    BY <1>2, <1>3, <2>1, <2>2
  <2> QED BY <2>3, <2>4
<1>7. CASE ResetRule(c, op, d) \/ EdgesRule(c, op, d)
  <2>1. /\ begun' = TRUE /\ at' = at /\ failed' = failed /\ During(c, op, d)'
        /\ aresetn' \in BOOLEAN /\ lag' = lag /\ wr' = wr /\ ra' = ra /\ Frozen
    BY <1>1, <1>7, AwaitBegins
  <2>2. Onward(c, op, d)
    BY <2>1 DEF Onward
  <2>3. BenchTypes' /\ test' = test
    BY <1>2, <1>3, <2>1
  <2> QED BY <2>2, <2>3
<1>8. CASE UntilRule(c, op, d)
  <2>1. /\ failed' = FALSE /\ Frozen /\ UNCHANGED <<aresetn, lag, wr, ra>>
        /\ \/ at' = at /\ begun' = TRUE /\ During(c, op, d)'
           \/ at' = at + 1 /\ begun' = FALSE /\ Between(d)'
    BY <1>1, <1>8, UntilStatement
  <2>2. Onward(c, op, d)
    BY <2>1 DEF Onward
  <2>3. begun' \in BOOLEAN
    BY <2>1
  <2>4. BenchTypes' /\ test' = test
    BY <1>2, <1>3, <2>1, <2>3
  <2> QED BY <2>2, <2>4
<1>9. CASE LoopRule(test, c, op)
  <2>1. Back(op) /\ Frozen /\ UNCHANGED <<aresetn, lag, wr, ra>>
    BY <1>1, <1>9, LoopStatement
  <2>2. begun' \in BOOLEAN
    BY <2>1 DEF Back
  <2>3. BenchTypes' /\ test' = test
    BY <1>2, <1>3, <2>1, <2>2
  <2> QED BY <1>9, <2>1, <2>3
<1>10. CASE SendRule(test, c, op, d)
  <2>1. op.tile \in DOMAIN Lengths[test]
    BY <1>10 DEF SendRule
  <2>2. /\ begun' = FALSE /\ at' = at + 1 /\ failed' = FALSE /\ Between(d)'
        /\ frame' \in Seq(Beat)
        /\ UNCHANGED <<test, tiles, polls, aresetn, lag, wr, ra, offered, pause, counterVars>>
    BY <1>1, <1>10, <2>1, SendStatement
  <2>3. Onward(c, op, d)
    BY <2>2 DEF Onward
  <2>4. UNCHANGED <<consumed, shown, split, saw>>
    BY <2>2 DEF counterVars
  <2>5. /\ {consumed', shown', split'} \subseteq Nat
        /\ {aresetn', begun', offered', saw'} \subseteq BOOLEAN
    BY <1>2, <2>2, <2>4
  <2>6. BenchTypes' /\ test' = test
    BY <1>2, <2>2, <2>5, TypesKept
  <2> QED BY <2>3, <2>6
<1>11. CASE NoteRule(test, c, op, d)
  <2>1. /\ begun' = FALSE /\ at' = at + 1 /\ failed' = FALSE /\ Between(d)'
        /\ pause' \in {pause, 1} /\ split' \in {split, consumed, shown}
        /\ saw' \in {saw, TRUE}
        /\ UNCHANGED <<test, tiles, polls, aresetn, lag, wr, ra, offered, frame,
                       consumed, shown>>
    BY <1>1, <1>11, NoteStatement
  <2>2. Onward(c, op, d)
    BY <2>1 DEF Onward
  <2>3. 1 \in 0 .. Len(PausePattern)
    BY PatternFacts
  <2>4. /\ pause' \in 0 .. Len(PausePattern)
        /\ {consumed', shown', split'} \subseteq Nat
        /\ {aresetn', begun', offered', saw'} \subseteq BOOLEAN
    BY <1>2, <2>1, <2>3
  <2>5. BenchTypes' /\ test' = test
    BY <1>2, <2>1, <2>4, TypesKept
  <2> QED BY <2>2, <2>5
<1> QED BY <1>4, <1>5, <1>6, <1>7, <1>8, <1>9, <1>10, <1>11 DEF Rule

-----------------------------------------------------------------------------
(* Scripts and their outlines, statement by statement                      *)

\* The contexts cs lead through the statements ops of test t to context d.
Chain(t, cs, ops, d) ==
    /\ \E S : cs \in Seq(S)
    /\ \E S : ops \in Seq(S)
    /\ Len(cs) = Len(ops) /\ Len(ops) > 0
    /\ \A i \in 1 .. Len(ops) :
          Rule(t, cs[i], ops[i], IF i = Len(ops) THEN d ELSE cs[i + 1])

\* What concatenation is, position by position.
LEMMA ConcatAt ==
    ASSUME NEW S, NEW s \in Seq(S), NEW r \in Seq(S)
    PROVE  /\ s \o r \in Seq(S) /\ Len(s \o r) = Len(s) + Len(r)
           /\ \A i \in 1 .. Len(s) + Len(r) :
                 (s \o r)[i] = IF i <= Len(s) THEN s[i] ELSE r[i - Len(s)]
OBVIOUS

\* Chains compose as their scripts do.
LEMMA Compose ==
    ASSUME NEW t, NEW cs, NEW ds, NEW r, NEW s, NEW e,
           Chain(t, cs, r, ds[1]), Chain(t, ds, s, e)
    PROVE  Chain(t, cs \o ds, r \o s, e)
<1>1. PICK S1 : cs \in Seq(S1)
  BY DEF Chain
<1>2. PICK S2 : ds \in Seq(S2)
  BY DEF Chain
<1>3. PICK S3 : r \in Seq(S3)
  BY DEF Chain
<1>4. PICK S4 : s \in Seq(S4)
  BY DEF Chain
<1>5. cs \in Seq(S1 \cup S2) /\ ds \in Seq(S1 \cup S2)
  BY <1>1, <1>2
<1>6. r \in Seq(S3 \cup S4) /\ s \in Seq(S3 \cup S4)
  BY <1>3, <1>4
<1> DEFINE C == S1 \cup S2
           O == S3 \cup S4
           m == Len(r)
           n == Len(s)
<1>7. /\ Len(cs) = m /\ Len(ds) = n /\ m \in Nat /\ n \in Nat /\ m > 0 /\ n > 0
      /\ \A i \in 1 .. m : Rule(t, cs[i], r[i], IF i = m THEN ds[1] ELSE cs[i + 1])
      /\ \A i \in 1 .. n : Rule(t, ds[i], s[i], IF i = n THEN e ELSE ds[i + 1])
  BY <1>3, <1>4 DEF Chain
<1> HIDE DEF C, O, m, n
<1>8. /\ cs \o ds \in Seq(C) /\ Len(cs \o ds) = m + n
      /\ \A i \in 1 .. m + n : (cs \o ds)[i] = IF i <= m THEN cs[i] ELSE ds[i - m]
  <2>1. cs \in Seq(C) /\ ds \in Seq(C) /\ Len(cs) = m /\ Len(ds) = n
    BY <1>5, <1>7 DEF C
  <2> QED BY <2>1, ConcatAt
<1>9. /\ r \o s \in Seq(O) /\ Len(r \o s) = m + n
       /\ \A i \in 1 .. m + n : (r \o s)[i] = IF i <= m THEN r[i] ELSE s[i - m]
  <2>1. r \in Seq(O) /\ s \in Seq(O) /\ Len(r) = m /\ Len(s) = n
    BY <1>6 DEF O, m, n
  <2> QED BY <2>1, ConcatAt
<1>10. ASSUME NEW i \in 1 .. m + n
      PROVE  Rule(t, (cs \o ds)[i], (r \o s)[i],
                  IF i = m + n THEN e ELSE (cs \o ds)[i + 1])
  <2>1. CASE i < m
    <3>1. i \in 1 .. m /\ i + 1 \in 1 .. m + n /\ i # m + n /\ i + 1 <= m
      BY <1>7, <2>1
    <3> QED BY <1>7, <1>8, <1>9, <2>1, <3>1
  <2>2. CASE i = m
    <3>1. i \in 1 .. m /\ i + 1 \in 1 .. m + n /\ i # m + n /\ (i + 1) - m = 1 /\ ~(i + 1 <= m)
      BY <1>7, <2>2
    <3> QED BY <1>7, <1>8, <1>9, <2>2, <3>1
  <2>3. CASE i > m
    <3>1. i - m \in 1 .. n /\ ~(i <= m) /\ (i = m + n <=> i - m = n)
      BY <1>7, <2>3
    <3>2. i # m + n => i + 1 \in 1 .. m + n /\ ~(i + 1 <= m) /\ (i + 1) - m = (i - m) + 1
      BY <1>7, <2>3
    <3>3. (cs \o ds)[i] = ds[i - m] /\ (r \o s)[i] = s[i - m]
      BY <1>8, <1>9, <3>1
    <3>4. i # m + n => (cs \o ds)[i + 1] = ds[(i - m) + 1]
      BY <1>8, <3>2
    <3>5. Rule(t, ds[i - m], s[i - m], IF i - m = n THEN e ELSE ds[(i - m) + 1])
      BY <1>7, <3>1
    <3>6. (IF i = m + n THEN e ELSE (cs \o ds)[i + 1])
          = (IF i - m = n THEN e ELSE ds[(i - m) + 1])
      BY <3>1, <3>4
    <3> QED BY <3>3, <3>5, <3>6, Zenon
  <2>4. i < m \/ i = m \/ i > m
    BY <1>7
  <2> QED BY <2>1, <2>2, <2>3, <2>4, Zenon
<1>11. Len(r \o s) > 0
  BY <1>7, <1>9
<1> QED BY <1>8, <1>9, <1>10, <1>11 DEF Chain

\* A script of one statement.
LEMMA Chain1 ==
    ASSUME NEW t, NEW c1, NEW d,
           NEW s1,
           Rule(t, c1, s1, d)
    PROVE  Chain(t, <<c1>>, <<s1>>, d)
<1> DEFINE cs == <<c1>>
           ss == <<s1>>
<1>1. /\ cs \in Seq({c1}) /\ Len(cs) = 1
      /\ ss \in Seq({s1}) /\ Len(ss) = 1
  OBVIOUS
<1>2. cs[1] = c1
  OBVIOUS
<1>3. ss[1] = s1
  OBVIOUS
<1> HIDE DEF cs, ss
<1>4. ASSUME NEW i \in 1 .. 1 PROVE Rule(t, cs[i], ss[i], IF i = 1 THEN d ELSE cs[i + 1])
  <2>1. CASE i = 1
    BY <1>2, <1>3, <2>1
  <2> QED BY <2>1
<1>5. (\E S : cs \in Seq(S)) /\ (\E S : ss \in Seq(S))
  BY <1>1
<1>6. Chain(t, cs, ss, d)
  BY <1>1, <1>4, <1>5 DEF Chain
<1> QED BY <1>6 DEF cs, ss

\* A script of two statements.
LEMMA Chain2 ==
    ASSUME NEW t, NEW c1, NEW c2, NEW d,
           NEW s1, NEW s2,
           Rule(t, c1, s1, c2), Rule(t, c2, s2, d)
    PROVE  Chain(t, <<c1, c2>>, <<s1, s2>>, d)
<1> DEFINE cs == <<c1, c2>>
           ss == <<s1, s2>>
<1>1. /\ cs \in Seq({c1, c2}) /\ Len(cs) = 2
      /\ ss \in Seq({s1, s2}) /\ Len(ss) = 2
  OBVIOUS
<1>2. cs[1] = c1 /\ cs[2] = c2
  OBVIOUS
<1>3. ss[1] = s1 /\ ss[2] = s2
  OBVIOUS
<1> HIDE DEF cs, ss
<1>4. ASSUME NEW i \in 1 .. 2 PROVE Rule(t, cs[i], ss[i], IF i = 2 THEN d ELSE cs[i + 1])
  <2>1. CASE i = 1
    BY <1>2, <1>3, <2>1
  <2>2. CASE i = 2
    BY <1>2, <1>3, <2>2
  <2> QED BY <2>1, <2>2
<1>5. (\E S : cs \in Seq(S)) /\ (\E S : ss \in Seq(S))
  BY <1>1
<1>6. Chain(t, cs, ss, d)
  BY <1>1, <1>4, <1>5 DEF Chain
<1> QED BY <1>6 DEF cs, ss

\* A script of three statements.
LEMMA Chain3 ==
    ASSUME NEW t, NEW c1, NEW c2, NEW c3, NEW d,
           NEW s1, NEW s2, NEW s3,
           Rule(t, c1, s1, c2), Rule(t, c2, s2, c3), Rule(t, c3, s3, d)
    PROVE  Chain(t, <<c1, c2, c3>>, <<s1, s2, s3>>, d)
<1> DEFINE cs == <<c1, c2, c3>>
           ss == <<s1, s2, s3>>
<1>1. /\ cs \in Seq({c1, c2, c3}) /\ Len(cs) = 3
      /\ ss \in Seq({s1, s2, s3}) /\ Len(ss) = 3
  OBVIOUS
<1>2. cs[1] = c1 /\ cs[2] = c2 /\ cs[3] = c3
  OBVIOUS
<1>3. ss[1] = s1 /\ ss[2] = s2 /\ ss[3] = s3
  OBVIOUS
<1> HIDE DEF cs, ss
<1>4. ASSUME NEW i \in 1 .. 3 PROVE Rule(t, cs[i], ss[i], IF i = 3 THEN d ELSE cs[i + 1])
  <2>1. CASE i = 1
    BY <1>2, <1>3, <2>1
  <2>2. CASE i = 2
    BY <1>2, <1>3, <2>2
  <2>3. CASE i = 3
    BY <1>2, <1>3, <2>3
  <2> QED BY <2>1, <2>2, <2>3
<1>5. (\E S : cs \in Seq(S)) /\ (\E S : ss \in Seq(S))
  BY <1>1
<1>6. Chain(t, cs, ss, d)
  BY <1>1, <1>4, <1>5 DEF Chain
<1> QED BY <1>6 DEF cs, ss

\* A script of four statements.
LEMMA Chain4 ==
    ASSUME NEW t, NEW c1, NEW c2, NEW c3, NEW c4, NEW d,
           NEW s1, NEW s2, NEW s3, NEW s4,
           Rule(t, c1, s1, c2), Rule(t, c2, s2, c3), Rule(t, c3, s3, c4),
           Rule(t, c4, s4, d)
    PROVE  Chain(t, <<c1, c2, c3, c4>>, <<s1, s2, s3, s4>>, d)
<1> DEFINE cs == <<c1, c2, c3, c4>>
           ss == <<s1, s2, s3, s4>>
<1>1. /\ cs \in Seq({c1, c2, c3, c4}) /\ Len(cs) = 4
      /\ ss \in Seq({s1, s2, s3, s4}) /\ Len(ss) = 4
  OBVIOUS
<1>2. cs[1] = c1 /\ cs[2] = c2 /\ cs[3] = c3 /\ cs[4] = c4
  OBVIOUS
<1>3. ss[1] = s1 /\ ss[2] = s2 /\ ss[3] = s3 /\ ss[4] = s4
  OBVIOUS
<1> HIDE DEF cs, ss
<1>4. ASSUME NEW i \in 1 .. 4 PROVE Rule(t, cs[i], ss[i], IF i = 4 THEN d ELSE cs[i + 1])
  <2>1. CASE i = 1
    BY <1>2, <1>3, <2>1
  <2>2. CASE i = 2
    BY <1>2, <1>3, <2>2
  <2>3. CASE i = 3
    BY <1>2, <1>3, <2>3
  <2>4. CASE i = 4
    BY <1>2, <1>3, <2>4
  <2> QED BY <2>1, <2>2, <2>3, <2>4
<1>5. (\E S : cs \in Seq(S)) /\ (\E S : ss \in Seq(S))
  BY <1>1
<1>6. Chain(t, cs, ss, d)
  BY <1>1, <1>4, <1>5 DEF Chain
<1> QED BY <1>6 DEF cs, ss

\* A script of five statements.
LEMMA Chain5 ==
    ASSUME NEW t, NEW c1, NEW c2, NEW c3, NEW c4, NEW c5, NEW d,
           NEW s1, NEW s2, NEW s3, NEW s4, NEW s5,
           Rule(t, c1, s1, c2), Rule(t, c2, s2, c3), Rule(t, c3, s3, c4),
           Rule(t, c4, s4, c5), Rule(t, c5, s5, d)
    PROVE  Chain(t, <<c1, c2, c3, c4, c5>>, <<s1, s2, s3, s4, s5>>, d)
<1> DEFINE cs == <<c1, c2, c3, c4, c5>>
           ss == <<s1, s2, s3, s4, s5>>
<1>1. /\ cs \in Seq({c1, c2, c3, c4, c5}) /\ Len(cs) = 5
      /\ ss \in Seq({s1, s2, s3, s4, s5}) /\ Len(ss) = 5
  OBVIOUS
<1>2. cs[1] = c1 /\ cs[2] = c2 /\ cs[3] = c3 /\ cs[4] = c4 /\ cs[5] = c5
  OBVIOUS
<1>3. ss[1] = s1 /\ ss[2] = s2 /\ ss[3] = s3 /\ ss[4] = s4 /\ ss[5] = s5
  OBVIOUS
<1> HIDE DEF cs, ss
<1>4. ASSUME NEW i \in 1 .. 5 PROVE Rule(t, cs[i], ss[i], IF i = 5 THEN d ELSE cs[i + 1])
  <2>1. CASE i = 1
    BY <1>2, <1>3, <2>1
  <2>2. CASE i = 2
    BY <1>2, <1>3, <2>2
  <2>3. CASE i = 3
    BY <1>2, <1>3, <2>3
  <2>4. CASE i = 4
    BY <1>2, <1>3, <2>4
  <2>5. CASE i = 5
    BY <1>2, <1>3, <2>5
  <2> QED BY <2>1, <2>2, <2>3, <2>4, <2>5
<1>5. (\E S : cs \in Seq(S)) /\ (\E S : ss \in Seq(S))
  BY <1>1
<1>6. Chain(t, cs, ss, d)
  BY <1>1, <1>4, <1>5 DEF Chain
<1> QED BY <1>6 DEF cs, ss

\* A script of seven statements.
LEMMA Chain7 ==
    ASSUME NEW t, NEW c1, NEW c2, NEW c3, NEW c4, NEW c5, NEW c6, NEW c7, NEW d,
           NEW s1, NEW s2, NEW s3, NEW s4, NEW s5, NEW s6, NEW s7,
           Rule(t, c1, s1, c2), Rule(t, c2, s2, c3), Rule(t, c3, s3, c4),
           Rule(t, c4, s4, c5), Rule(t, c5, s5, c6), Rule(t, c6, s6, c7),
           Rule(t, c7, s7, d)
    PROVE  Chain(t, <<c1, c2, c3, c4, c5, c6, c7>>, <<s1, s2, s3, s4, s5, s6, s7>>, d)
<1> DEFINE cs == <<c1, c2, c3, c4, c5, c6, c7>>
           ss == <<s1, s2, s3, s4, s5, s6, s7>>
<1>1. /\ cs \in Seq({c1, c2, c3, c4, c5, c6, c7}) /\ Len(cs) = 7
      /\ ss \in Seq({s1, s2, s3, s4, s5, s6, s7}) /\ Len(ss) = 7
  OBVIOUS
<1>2. cs[1] = c1 /\ cs[2] = c2 /\ cs[3] = c3 /\ cs[4] = c4 /\ cs[5] = c5 /\ cs[6] = c6
      /\ cs[7] = c7
  OBVIOUS
<1>3. ss[1] = s1 /\ ss[2] = s2 /\ ss[3] = s3 /\ ss[4] = s4 /\ ss[5] = s5 /\ ss[6] = s6
      /\ ss[7] = s7
  OBVIOUS
<1> HIDE DEF cs, ss
<1>4. ASSUME NEW i \in 1 .. 7 PROVE Rule(t, cs[i], ss[i], IF i = 7 THEN d ELSE cs[i + 1])
  <2>1. CASE i = 1
    BY <1>2, <1>3, <2>1
  <2>2. CASE i = 2
    BY <1>2, <1>3, <2>2
  <2>3. CASE i = 3
    BY <1>2, <1>3, <2>3
  <2>4. CASE i = 4
    BY <1>2, <1>3, <2>4
  <2>5. CASE i = 5
    BY <1>2, <1>3, <2>5
  <2>6. CASE i = 6
    BY <1>2, <1>3, <2>6
  <2>7. CASE i = 7
    BY <1>2, <1>3, <2>7
  <2> QED BY <2>1, <2>2, <2>3, <2>4, <2>5, <2>6, <2>7
<1>5. (\E S : cs \in Seq(S)) /\ (\E S : ss \in Seq(S))
  BY <1>1
<1>6. Chain(t, cs, ss, d)
  BY <1>1, <1>4, <1>5 DEF Chain
<1> QED BY <1>6 DEF cs, ss

\* A script of eight statements.
LEMMA Chain8 ==
    ASSUME NEW t, NEW c1, NEW c2, NEW c3, NEW c4, NEW c5, NEW c6, NEW c7, NEW c8, NEW d,
           NEW s1, NEW s2, NEW s3, NEW s4, NEW s5, NEW s6, NEW s7, NEW s8,
           Rule(t, c1, s1, c2), Rule(t, c2, s2, c3), Rule(t, c3, s3, c4),
           Rule(t, c4, s4, c5), Rule(t, c5, s5, c6), Rule(t, c6, s6, c7),
           Rule(t, c7, s7, c8), Rule(t, c8, s8, d)
    PROVE  Chain(t, <<c1, c2, c3, c4, c5, c6, c7, c8>>, <<s1, s2, s3, s4, s5, s6, s7, s8>>, d)
<1> DEFINE cs == <<c1, c2, c3, c4, c5, c6, c7, c8>>
           ss == <<s1, s2, s3, s4, s5, s6, s7, s8>>
<1>1. /\ cs \in Seq({c1, c2, c3, c4, c5, c6, c7, c8}) /\ Len(cs) = 8
      /\ ss \in Seq({s1, s2, s3, s4, s5, s6, s7, s8}) /\ Len(ss) = 8
  OBVIOUS
<1>2. cs[1] = c1 /\ cs[2] = c2 /\ cs[3] = c3 /\ cs[4] = c4 /\ cs[5] = c5 /\ cs[6] = c6
      /\ cs[7] = c7 /\ cs[8] = c8
  OBVIOUS
<1>3. ss[1] = s1 /\ ss[2] = s2 /\ ss[3] = s3 /\ ss[4] = s4 /\ ss[5] = s5 /\ ss[6] = s6
      /\ ss[7] = s7 /\ ss[8] = s8
  OBVIOUS
<1> HIDE DEF cs, ss
<1>4. ASSUME NEW i \in 1 .. 8 PROVE Rule(t, cs[i], ss[i], IF i = 8 THEN d ELSE cs[i + 1])
  <2>1. CASE i = 1
    BY <1>2, <1>3, <2>1
  <2>2. CASE i = 2
    BY <1>2, <1>3, <2>2
  <2>3. CASE i = 3
    BY <1>2, <1>3, <2>3
  <2>4. CASE i = 4
    BY <1>2, <1>3, <2>4
  <2>5. CASE i = 5
    BY <1>2, <1>3, <2>5
  <2>6. CASE i = 6
    BY <1>2, <1>3, <2>6
  <2>7. CASE i = 7
    BY <1>2, <1>3, <2>7
  <2>8. CASE i = 8
    BY <1>2, <1>3, <2>8
  <2> QED BY <2>1, <2>2, <2>3, <2>4, <2>5, <2>6, <2>7, <2>8
<1>5. (\E S : cs \in Seq(S)) /\ (\E S : ss \in Seq(S))
  BY <1>1
<1>6. Chain(t, cs, ss, d)
  BY <1>1, <1>4, <1>5 DEF Chain
<1> QED BY <1>6 DEF cs, ss

\* A script of nine statements.
LEMMA Chain9 ==
    ASSUME NEW t, NEW c1, NEW c2, NEW c3, NEW c4, NEW c5, NEW c6, NEW c7, NEW c8, NEW c9, NEW d,
           NEW s1, NEW s2, NEW s3, NEW s4, NEW s5, NEW s6, NEW s7, NEW s8, NEW s9,
           Rule(t, c1, s1, c2), Rule(t, c2, s2, c3), Rule(t, c3, s3, c4),
           Rule(t, c4, s4, c5), Rule(t, c5, s5, c6), Rule(t, c6, s6, c7),
           Rule(t, c7, s7, c8), Rule(t, c8, s8, c9), Rule(t, c9, s9, d)
    PROVE  Chain(t, <<c1, c2, c3, c4, c5, c6, c7, c8, c9>>, <<s1, s2, s3, s4, s5, s6, s7, s8, s9>>, d)
<1> DEFINE cs == <<c1, c2, c3, c4, c5, c6, c7, c8, c9>>
           ss == <<s1, s2, s3, s4, s5, s6, s7, s8, s9>>
<1>1. /\ cs \in Seq({c1, c2, c3, c4, c5, c6, c7, c8, c9}) /\ Len(cs) = 9
      /\ ss \in Seq({s1, s2, s3, s4, s5, s6, s7, s8, s9}) /\ Len(ss) = 9
  OBVIOUS
<1>2. cs[1] = c1 /\ cs[2] = c2 /\ cs[3] = c3 /\ cs[4] = c4 /\ cs[5] = c5 /\ cs[6] = c6
      /\ cs[7] = c7 /\ cs[8] = c8 /\ cs[9] = c9
  OBVIOUS
<1>3. ss[1] = s1 /\ ss[2] = s2 /\ ss[3] = s3 /\ ss[4] = s4 /\ ss[5] = s5 /\ ss[6] = s6
      /\ ss[7] = s7 /\ ss[8] = s8 /\ ss[9] = s9
  OBVIOUS
<1> HIDE DEF cs, ss
<1>4. ASSUME NEW i \in 1 .. 9 PROVE Rule(t, cs[i], ss[i], IF i = 9 THEN d ELSE cs[i + 1])
  <2>1. CASE i = 1
    BY <1>2, <1>3, <2>1
  <2>2. CASE i = 2
    BY <1>2, <1>3, <2>2
  <2>3. CASE i = 3
    BY <1>2, <1>3, <2>3
  <2>4. CASE i = 4
    BY <1>2, <1>3, <2>4
  <2>5. CASE i = 5
    BY <1>2, <1>3, <2>5
  <2>6. CASE i = 6
    BY <1>2, <1>3, <2>6
  <2>7. CASE i = 7
    BY <1>2, <1>3, <2>7
  <2>8. CASE i = 8
    BY <1>2, <1>3, <2>8
  <2>9. CASE i = 9
    BY <1>2, <1>3, <2>9
  <2> QED BY <2>1, <2>2, <2>3, <2>4, <2>5, <2>6, <2>7, <2>8, <2>9
<1>5. (\E S : cs \in Seq(S)) /\ (\E S : ss \in Seq(S))
  BY <1>1
<1>6. Chain(t, cs, ss, d)
  BY <1>1, <1>4, <1>5 DEF Chain
<1> QED BY <1>6 DEF cs, ss

-----------------------------------------------------------------------------
(* What each kind of statement leads to                                    *)

\* What each change of a context changes.
LEMMA StartedFields ==
    ASSUME NEW c \in Shapes
    PROVE  /\ Started(c) \in Shapes
           /\ Started(c).mode = "busy" /\ Started(c).en = TRUE
           /\ Started(c).goal = c.goal /\ Started(c).sent = c.sent
           /\ Started(c).last = c.last /\ Started(c).done = FALSE
           /\ Started(c).open = c.open /\ Started(c).source = c.source
           /\ Started(c).count = c.count /\ Started(c).watch = c.watch
BY DEF Started, Shapes

\* What polling changes.
LEMMA PolledFields ==
    ASSUME NEW c \in Shapes
    PROVE  /\ Polled(c) \in Shapes
           /\ Polled(c).mode = "polled" /\ Polled(c).en = c.en
           /\ Polled(c).goal = c.goal /\ Polled(c).sent = c.sent
           /\ Polled(c).last = c.last /\ Polled(c).done = c.done
           /\ Polled(c).open = c.open /\ Polled(c).source = c.source
           /\ Polled(c).count = c.count /\ Polled(c).watch = c.watch
BY DEF Polled, Shapes

\* What an outstanding response changes.
LEMMA OpenFields ==
    ASSUME NEW c \in Shapes
    PROVE  /\ Open(c) \in Shapes
           /\ Open(c).mode = c.mode /\ Open(c).en = c.en /\ Open(c).goal = c.goal
           /\ Open(c).sent = c.sent /\ Open(c).last = c.last /\ Open(c).done = c.done
           /\ Open(c).open = TRUE /\ Open(c).source = c.source
           /\ Open(c).count = c.count /\ Open(c).watch = c.watch
BY DEF Open, Shapes

\* What an answered write changes.
LEMMA ClosedFields ==
    ASSUME NEW c \in Shapes
    PROVE  /\ Closed(c) \in Shapes
           /\ Closed(c).mode = c.mode /\ Closed(c).en = c.en /\ Closed(c).goal = c.goal
           /\ Closed(c).sent = c.sent /\ Closed(c).last = c.last
           /\ Closed(c).done = c.done /\ Closed(c).open = FALSE
           /\ Closed(c).source = c.source /\ Closed(c).count = c.count
           /\ Closed(c).watch = c.watch
BY DEF Closed, Shapes

\* What CLEAR changes.
LEMMA ClearedFields ==
    ASSUME NEW c \in Shapes
    PROVE  /\ Cleared(c) \in Shapes
           /\ Cleared(c).mode = c.mode /\ Cleared(c).en = c.en
           /\ Cleared(c).goal = c.goal /\ Cleared(c).sent = c.sent
           /\ Cleared(c).last = 0 /\ Cleared(c).done = c.done
           /\ Cleared(c).open = c.open /\ Cleared(c).source = c.source
           /\ Cleared(c).count = c.count /\ Cleared(c).watch = c.watch
BY DEF Cleared, Shapes

\* What the end of a tile changes.
LEMMA EndedFields ==
    ASSUME NEW c \in Shapes
    PROVE  /\ Ended(c) \in Shapes
           /\ Ended(c).mode = "idle" /\ Ended(c).en = c.en /\ Ended(c).goal = c.goal
           /\ Ended(c).sent = FALSE /\ Ended(c).last = c.goal /\ Ended(c).done = TRUE
           /\ Ended(c).open = c.open /\ Ended(c).source = c.source
           /\ Ended(c).count = c.count /\ Ended(c).watch = c.watch
BY DEF Ended, Shapes

\* What EN changes.
LEMMA EnabledFields ==
    ASSUME NEW c \in Shapes, NEW x \in BOOLEAN
    PROVE  /\ Enabled(c, x) \in Shapes
           /\ Enabled(c, x).mode = c.mode /\ Enabled(c, x).en = x
           /\ Enabled(c, x).goal = c.goal /\ Enabled(c, x).sent = c.sent
           /\ Enabled(c, x).last = c.last /\ Enabled(c, x).done = c.done
           /\ Enabled(c, x).open = c.open /\ Enabled(c, x).source = c.source
           /\ Enabled(c, x).count = c.count /\ Enabled(c, x).watch = c.watch
BY DEF Enabled, Shapes

\* What the source changes.
LEMMA SourceFields ==
    ASSUME NEW c \in Shapes, NEW x \in {"free", "steady", "paused"}
    PROVE  /\ Source(c, x) \in Shapes
           /\ Source(c, x).mode = c.mode /\ Source(c, x).en = c.en
           /\ Source(c, x).goal = c.goal /\ Source(c, x).sent = c.sent
           /\ Source(c, x).last = c.last /\ Source(c, x).done = c.done
           /\ Source(c, x).open = c.open /\ Source(c, x).source = x
           /\ Source(c, x).count = c.count /\ Source(c, x).watch = c.watch
BY DEF Source, Shapes

\* What the beat counter changes.
LEMMA CountFields ==
    ASSUME NEW c \in Shapes, NEW x \in {"none", "moving", "still", "cut"}
    PROVE  /\ Count(c, x) \in Shapes
           /\ Count(c, x).mode = c.mode /\ Count(c, x).en = c.en
           /\ Count(c, x).goal = c.goal /\ Count(c, x).sent = c.sent
           /\ Count(c, x).last = c.last /\ Count(c, x).done = c.done
           /\ Count(c, x).open = c.open /\ Count(c, x).source = c.source
           /\ Count(c, x).count = x /\ Count(c, x).watch = c.watch
BY DEF Count, Shapes

\* What saw_busy changes.
LEMMA WatchFields ==
    ASSUME NEW c \in Shapes, NEW x \in {"none", "first", "seen"}
    PROVE  /\ Watch(c, x) \in Shapes
           /\ Watch(c, x).mode = c.mode /\ Watch(c, x).en = c.en
           /\ Watch(c, x).goal = c.goal /\ Watch(c, x).sent = c.sent
           /\ Watch(c, x).last = c.last /\ Watch(c, x).done = c.done
           /\ Watch(c, x).open = c.open /\ Watch(c, x).source = c.source
           /\ Watch(c, x).count = c.count /\ Watch(c, x).watch = x
BY DEF Watch, Shapes

\* What sending a tile changes.
LEMMA SentFields ==
    ASSUME NEW c \in Shapes, NEW x \in Nat
    PROVE  /\ Sent(c, x) \in Shapes
           /\ Sent(c, x).mode = c.mode /\ Sent(c, x).en = c.en /\ Sent(c, x).goal = x
           /\ Sent(c, x).sent = TRUE /\ Sent(c, x).last = c.last
           /\ Sent(c, x).done = c.done /\ Sent(c, x).open = c.open
           /\ c.source = "steady" => Sent(c, x).source = "free"
           /\ c.source # "steady" => Sent(c, x).source = c.source
           /\ Sent(c, x).count = c.count /\ Sent(c, x).watch = c.watch
BY DEF Sent, Shapes

\* The fields are all that there is of a context.
LEMMA SameFields ==
    ASSUME NEW c \in Shapes, NEW d \in Shapes,
           c.mode = d.mode, c.en = d.en, c.goal = d.goal, c.sent = d.sent, c.last = d.last,
           c.done = d.done, c.open = d.open, c.source = d.source, c.count = d.count,
           c.watch = d.watch
    PROVE  c = d
BY DEF Shapes

\* The context after reset.
LEMMA FreshFields ==
    /\ Fresh \in Shapes /\ Fresh.mode = "idle" /\ Fresh.en = TRUE /\ Fresh.goal = 0
    /\ Fresh.sent = FALSE /\ Fresh.last = 0 /\ Fresh.done = FALSE /\ Fresh.open = FALSE
    /\ Fresh.source = "free" /\ Fresh.count = "none" /\ Fresh.watch = "none"
BY DEF Fresh, Shapes

\* A shape is a context.
LEMMA ShapeIsContext ==
    ASSUME NEW c \in Shapes, c.mode = "polled" => c.sent /\ c.en,
           c.count \in {"still", "cut"} => ~c.en
    PROVE  c \in Contexts
BY DEF Contexts

\* Waiting for edges leaves a context, or lets the source offer what it has.
LEMMA EdgesLeads ==
    ASSUME NEW t, NEW c \in Contexts, Plain(c), NEW n \in Nat \ {0}
    PROVE  /\ Rule(t, c, Edges(n), c)
           /\ c.mode = "idle" \/ ~c.en => Rule(t, c, StalledEdges(n), c)
           /\ \A d \in Contexts : c.source # "paused" /\ d = Source(c, "steady") =>
                 /\ Rule(t, c, Edges(n), d)
                 /\ c.mode = "idle" \/ ~c.en => Rule(t, c, StalledEdges(n), d)
<1>1. /\ Edges(n).kind = "edges" /\ Edges(n).edges = n /\ Edges(n).stalled = FALSE
      /\ StalledEdges(n).kind = "edges" /\ StalledEdges(n).edges = n
      /\ StalledEdges(n).stalled = TRUE
  BY DEF Edges, StalledEdges
<1> QED BY <1>1 DEF Rule, EdgesRule

\* A read leaves a context.
LEMMA ReadLeads ==
    ASSUME NEW t, NEW c \in Contexts, Plain(c), NEW lite \in {"master", "raw"}, NEW reg,
           NEW want, Readable(c, read(lite, reg, want))
    PROVE  Rule(t, c, read(lite, reg, want), c)
<1> DEFINE op == read(lite, reg, want)
<1>1. /\ op.kind = "read" /\ op.awaits = {"ar", "r"}
      /\ op.lags = ReadLags("master") \/ op.lags = ReadLags("raw")
  BY DEF read, Read
<1> HIDE DEF op
<1> QED BY <1>1 DEF Rule, ReadRule, Plain, op

\* What such a read is.
LEMMA ReadFields ==
    ASSUME NEW lite, NEW reg, NEW want
    PROVE  LET op == read(lite, reg, want) IN op.addr = reg /\ op.of = 0 /\ op.want = want
BY DEF read, Read

\* So does the read of the results, and of registers that were cleared.
LEMMA ResultsChain ==
    ASSUME NEW t, NEW c \in Contexts, Plain(c), NEW lite \in {"master", "raw"}, NEW k,
           c.last = k, k # 0, c.mode = "idle"
    PROVE  Chain(t, <<c, c>>, Results(lite, k), c)
<1>1. ASSUME NEW reg \in {"ACC", "SKIP"} PROVE Rule(t, c, ReadResult(lite, reg, k), c)
  <2> DEFINE op == ReadResult(lite, reg, k)
  <2>1. /\ op.kind = "read" /\ op.awaits = {"ar", "r"} /\ op.addr = reg /\ op.of = k
        /\ op.lags = ReadLags("master") \/ op.lags = ReadLags("raw")
    BY DEF ReadResult, Read
  <2> HIDE DEF op
  <2>2. Readable(c, op)
    BY <2>1 DEF Readable
  <2> QED BY <2>1, <2>2 DEF Rule, ReadRule, Plain, op
<1> QED BY <1>1, Chain2 DEF Results

\* Reading the zeros of a cleared accelerator.
LEMMA ZerosChain ==
    ASSUME NEW t, NEW c \in Contexts, Plain(c), c.last = 0,
           c.mode = "idle" \/ (c.count = "cut" /\ c.sent /\ c.goal = REST)
    PROVE  Chain(t, <<c, c>>, Zeros, c)
<1>1. ASSUME NEW reg \in {"ACC", "SKIP"} PROVE Rule(t, c, read("master", reg, {0}), c)
  <2>1. Readable(c, read("master", reg, {0}))
    BY ReadFields DEF Readable
  <2> QED BY <2>1, ReadLeads
<1> QED BY <1>1, Chain2 DEF Zeros

\* A write leads where its word says.
LEMMA WriteLeads ==
    ASSUME NEW t, NEW c \in Contexts, Plain(c), NEW s \in BOOLEAN, NEW cl \in BOOLEAN,
           NEW e \in BOOLEAN, MayWrite(c, CTRL(s, cl, e)), NEW d \in Contexts,
           d \in Written(c, CTRL(s, cl, e))
              \/ \E f \in Written(c, CTRL(s, cl, e)) : f.mode = "busy" /\ d = Polled(f)
    PROVE  Rule(t, c, write("master", CTRL(s, cl, e)), d)
<1> DEFINE x == CTRL(s, cl, e)
           op == write("master", x)
<1>1. x \in CtrlWord /\ x.strb = TRUE
  BY DEF CTRL, CtrlWord
<1>2. MayWrite(c, x) /\ \E f \in Written(c, x) : d = f \/ (f.mode = "busy" /\ d = Polled(f))
  OBVIOUS
<1> HIDE DEF x
<1>3. /\ op.kind = "write" /\ op.addr = "CTRL" /\ op.data = x
      /\ op.lags = WriteLags("master") /\ op.awaits = {"aw", "w", "b"}
  BY DEF write, Write
<1> HIDE DEF op
<1>4. WriteRule(c, op, d)
  BY <1>1, <1>2, <1>3 DEF WriteRule
<1> QED BY <1>4 DEF Rule, op, x

\* What the fields of a word of CTRL are.
LEMMA CtrlFields ==
    ASSUME NEW s, NEW cl, NEW e
    PROVE  CTRL(s, cl, e).start = s /\ CTRL(s, cl, e).clear = cl /\ CTRL(s, cl, e).en = e
BY DEF CTRL

\* Sending a tile puts it under way, and the test may poll for it.
LEMMA SendLeads ==
    ASSUME NEW t, NEW c \in Contexts, c.mode # "polled", c.watch # "first", c.sent = FALSE,
           NEW k \in {1, 2}, c.count = "none" \/ (c.count = "moving" /\ k = 1),
           NEW d \in Contexts,
           d = Sent(c, k) \/ (c.mode = "busy" /\ d = Polled(Sent(c, k)))
             \/ (c.mode = "busy" /\ Lengths[t][k] > MAX_LAG + 1
                 /\ d = Watch(Polled(Sent(c, k)), "first"))
    PROVE  Rule(t, c, Send(k), d)
<1>1. Send(k).kind = "send" /\ Send(k).tile = k
  BY DEF Send
<1> QED BY <1>1 DEF Rule, SendRule

\* A poll loop leads past the end of the tile.
LEMMA PollLeads ==
    ASSUME NEW t, NEW c \in Contexts, c.mode = "polled", c.count = "none", c.watch # "first",
           NEW lite \in {"master", "raw"}, NEW d \in Contexts, d = Ended(Closed(c))
    PROVE  Rule(t, c, await_done(lite), d)
<1> DEFINE op == await_done(lite)
<1>1. /\ op.kind = "poll" /\ op.awaits = {"ar", "r"} /\ op.addr = "STATUS" /\ op.body = 0
      /\ op.lags = ReadLags("master") \/ op.lags = ReadLags("raw")
  BY DEF await_done, Poll
<1> HIDE DEF op
<1> QED BY <1>1 DEF Rule, PollRule, op

\* Reset leads back to the start, whatever the tile.
LEMMA ResetLeads ==
    ASSUME NEW t, NEW c \in Contexts, Plain(c), c.source # "paused",
           c.source = "steady" \/ c.sent = FALSE,
           c.count = "none" \/ (c.count = "moving" /\ c.sent = FALSE),
           NEW d \in Contexts, d = Count(Fresh, c.count)
    PROVE  Rule(t, c, ResetEdges, d)
<1>1. ResetEdges.kind = "reset" /\ ResetEdges.edges = RESET_EDGES
  BY DEF ResetEdges
<1>2. RESET_EDGES \in Nat \ {0}
  BY BenchAssumption
<1> QED BY <1>1, <1>2 DEF Rule, ResetRule

-----------------------------------------------------------------------------
(* The tests, statement by statement                                       *)

\* The contexts cs, of which c is the first, lead through ops to d.
Leads(t, c, cs, ops, d) == Chain(t, cs, ops, d) /\ cs[1] = c

\* What comes after what leads there.
LEMMA Joined ==
    ASSUME NEW t, NEW c, NEW cs, NEW r, NEW b, NEW ds, NEW s, NEW e,
           Leads(t, c, cs, r, b), Leads(t, b, ds, s, e)
    PROVE  Leads(t, c, cs \o ds, r \o s, e)
<1>1. Chain(t, cs, r, ds[1]) /\ Chain(t, ds, s, e) /\ cs[1] = c
  BY Zenon DEF Leads
<1>2. Chain(t, cs \o ds, r \o s, e)
  BY <1>1, Compose, Zenon
<1>3. (cs \o ds)[1] = c
  <2>1. PICK S1 : cs \in Seq(S1)
    BY <1>1 DEF Chain
  <2>2. PICK S2 : ds \in Seq(S2)
    BY <1>1 DEF Chain
  <2>3. PICK S : S = S1 \cup S2
    OBVIOUS
  <2>4. cs \in Seq(S) /\ ds \in Seq(S)
    BY <2>1, <2>2, <2>3
  <2>5. 1 <= Len(cs) /\ 1 \in 1 .. Len(cs) + Len(ds)
    <3>1. PICK S3 : r \in Seq(S3)
      BY <1>1 DEF Chain
    <3>2. Len(cs) = Len(r) /\ Len(r) > 0 /\ Len(ds) \in Nat /\ Len(r) \in Nat
      BY <1>1, <2>2, <3>1 DEF Chain
    <3> QED BY <3>2
  <2>6. (cs \o ds)[1] = cs[1]
    BY <2>4, <2>5, ConcatAt
  <2> QED BY <1>1, <2>6
<1> QED BY <1>2, <1>3 DEF Leads

\* The fields of a context, all of them.
Is(c, mode, en, goal, sent, lst, done, open, source, count, watch) ==
    /\ c \in Shapes /\ c.mode = mode /\ c.en = en /\ c.goal = goal /\ c.sent = sent
    /\ c.last = lst /\ c.done = done /\ c.open = open /\ c.source = source
    /\ c.count = count /\ c.watch = watch

\* A context is its fields.
LEMMA IsSame ==
    ASSUME NEW c, NEW d, NEW m, NEW e, NEW g, NEW s, NEW l, NEW dn, NEW o, NEW so, NEW n,
           NEW w, Is(c, m, e, g, s, l, dn, o, so, n, w), Is(d, m, e, g, s, l, dn, o, so, n, w)
    PROVE  c = d
BY SameFields DEF Is

\* What a test waits for once it has sent a tile, and what it finds then.
LEMMA AwaitingFields ==
    ASSUME NEW c \in Shapes, NEW k \in Nat
    PROVE  /\ Awaiting(c, k) \in Shapes
           /\ Awaiting(c, k).mode = "polled" /\ Awaiting(c, k).en = TRUE
           /\ Awaiting(c, k).goal = k /\ Awaiting(c, k).sent = TRUE
           /\ Awaiting(c, k).last = c.last /\ Awaiting(c, k).done = FALSE
           /\ Awaiting(c, k).open = c.open
           /\ c.source # "steady" => Awaiting(c, k).source = c.source
           /\ Awaiting(c, k).count = c.count /\ Awaiting(c, k).watch = c.watch
<1>1. PICK s : s = Started(c)
  OBVIOUS
<1>2. /\ s \in Shapes /\ s.mode = "busy" /\ s.en = TRUE /\ s.last = c.last /\ s.done = FALSE
      /\ s.open = c.open /\ s.source = c.source /\ s.count = c.count /\ s.watch = c.watch
  BY <1>1, StartedFields
<1>3. PICK n : n = Sent(s, k)
  OBVIOUS
<1>4. /\ n \in Shapes /\ n.en = s.en /\ n.goal = k /\ n.sent = TRUE /\ n.last = s.last
      /\ n.done = s.done /\ n.open = s.open
      /\ s.source # "steady" => n.source = s.source
      /\ n.count = s.count /\ n.watch = s.watch
  BY <1>2, <1>3, SentFields
<1>5. PICK p : p = Polled(n)
  OBVIOUS
<1>6. /\ p \in Shapes /\ p.mode = "polled" /\ p.en = n.en /\ p.goal = n.goal
      /\ p.sent = n.sent /\ p.last = n.last /\ p.done = n.done /\ p.open = n.open
      /\ p.source = n.source /\ p.count = n.count /\ p.watch = n.watch
  BY <1>4, <1>5, PolledFields
<1>7. p = Awaiting(c, k)
  BY <1>1, <1>3, <1>5 DEF Awaiting
<1> QED BY <1>2, <1>4, <1>6, <1>7

\* What a whole tile changes.
LEMMA AfterFields ==
    ASSUME NEW c \in Shapes, NEW k \in Nat
    PROVE  /\ After(c, k) \in Shapes
           /\ After(c, k).mode = "idle" /\ After(c, k).en = TRUE /\ After(c, k).goal = k
           /\ After(c, k).sent = FALSE /\ After(c, k).last = k /\ After(c, k).done = TRUE
           /\ After(c, k).open = FALSE
           /\ c.source # "steady" => After(c, k).source = c.source
           /\ After(c, k).count = c.count /\ After(c, k).watch = c.watch
<1>1. PICK p : p = Awaiting(c, k)
  OBVIOUS
<1>2. /\ p \in Shapes /\ p.en = TRUE /\ p.goal = k /\ p.count = c.count /\ p.watch = c.watch
      /\ c.source # "steady" => p.source = c.source
  BY <1>1, AwaitingFields
<1>3. PICK b : b = Closed(p)
  OBVIOUS
<1>4. /\ b \in Shapes /\ b.en = p.en /\ b.goal = p.goal /\ b.open = FALSE
      /\ b.source = p.source /\ b.count = p.count /\ b.watch = p.watch
  BY <1>2, <1>3, ClosedFields
<1>5. PICK a : a = Ended(b)
  OBVIOUS
<1>6. /\ a \in Shapes /\ a.mode = "idle" /\ a.en = b.en /\ a.goal = b.goal /\ a.sent = FALSE
      /\ a.last = b.goal /\ a.done = TRUE /\ a.open = b.open /\ a.source = b.source
      /\ a.count = b.count /\ a.watch = b.watch
  BY <1>4, <1>5, EndedFields
<1>7. a = After(c, k)
  BY <1>1, <1>3, <1>5 DEF After
<1> QED BY <1>2, <1>4, <1>6, <1>7

\* The same of a source that may stall.
LEMMA SentIs ==
    ASSUME NEW c, NEW k \in {1, 2}, NEW m, NEW e, NEW g, NEW s, NEW l, NEW dn, NEW o,
           NEW so \in {"free", "paused"}, NEW n, NEW w,
           Is(c, m, e, g, s, l, dn, o, so, n, w)
    PROVE  Is(Sent(c, k), m, e, k, TRUE, l, dn, o, so, n, w)
<1>1. c \in Shapes /\ c.source = so
  BY Zenon DEF Is
<1>2. k \in Nat /\ c.source # "steady"
  BY <1>1
<1> QED BY <1>1, <1>2, SentFields, Zenon DEF Is

\* The context that awaits a tile, field by field.
LEMMA AwaitingIs ==
    ASSUME NEW c, NEW k \in {1, 2}, NEW m, NEW e, NEW g, NEW s, NEW l, NEW dn, NEW o,
           NEW so \in {"free", "paused"}, NEW n, NEW w,
           Is(c, m, e, g, s, l, dn, o, so, n, w)
    PROVE  Is(Awaiting(c, k), "polled", TRUE, k, TRUE, l, FALSE, o, so, n, w)
<1>1. c \in Shapes /\ c.source = so
  BY Zenon DEF Is
<1>2. k \in Nat /\ c.source # "steady"
  BY <1>1
<1> QED BY <1>1, <1>2, AwaitingFields, Zenon DEF Is

\* The context after a tile, field by field.
LEMMA AfterIs ==
    ASSUME NEW c, NEW k \in {1, 2}, NEW m, NEW e, NEW g, NEW s, NEW l, NEW dn, NEW o,
           NEW so \in {"free", "paused"}, NEW n, NEW w,
           Is(c, m, e, g, s, l, dn, o, so, n, w)
    PROVE  Is(After(c, k), "idle", TRUE, k, FALSE, k, TRUE, FALSE, so, n, w)
<1>1. c \in Shapes /\ c.source = so
  BY Zenon DEF Is
<1>2. k \in Nat /\ c.source # "steady"
  BY <1>1
<1> QED BY <1>1, <1>2, AfterFields, Zenon DEF Is

\* A tile from start to results, where nothing is under way.
LEMMA TileLeads ==
    ASSUME NEW t, NEW c \in Contexts, c.mode = "idle", c.en = TRUE, c.sent = FALSE,
           c.open = FALSE, c.count = "none", c.watch # "first", NEW k \in {1, 2}
    PROVE  Leads(t, c, tile_outline(c, k), run_tile(M, k), After(c, k))
<1>1. c \in Shapes /\ k \in Nat /\ k # 0 /\ Plain(c)
  BY DEF Contexts, Plain
<1>2. PICK s : s = Started(c)
  OBVIOUS
<1>3. PICK p : p = Awaiting(c, k)
  OBVIOUS
<1>4. PICK a : a = After(c, k)
  OBVIOUS
<1>5. /\ s \in Shapes /\ s.mode = "busy" /\ s.en = TRUE /\ s.sent = FALSE /\ s.open = FALSE
      /\ s.count = "none" /\ s.watch # "first"
  BY <1>1, <1>2, StartedFields
<1>6. /\ p \in Shapes /\ p.mode = "polled" /\ p.sent = TRUE /\ p.en = TRUE
      /\ p.count = "none" /\ p.watch # "first"
  BY <1>1, <1>3, AwaitingFields
<1>7. /\ a \in Shapes /\ a.mode = "idle" /\ a.last = k /\ a.open = FALSE
      /\ a.count = "none" /\ a.watch # "first"
  BY <1>1, <1>4, AfterFields
<1>8. s \in Contexts /\ p \in Contexts /\ a \in Contexts
  BY <1>5, <1>6, <1>7, ShapeIsContext
<1>9. p = Polled(Sent(s, k)) /\ a = Ended(Closed(p))
  BY <1>2, <1>3, <1>4 DEF Awaiting, After
<1>10. Rule(t, c, start(M), s)
  <2>1. MayWrite(c, Launch) /\ s \in Written(c, Launch)
    BY <1>2 DEF MayWrite, Written, Wrote, Launch, CTRL
  <2> QED BY <1>1, <1>8, <2>1, WriteLeads DEF start, Launch, M
<1>11. Rule(t, s, Send(k), p)
  BY <1>5, <1>8, <1>9, SendLeads
<1>12. Rule(t, p, await_done(M), a)
  BY <1>6, <1>8, <1>9, PollLeads DEF M
<1>13. Leads(t, c, <<c, s, p>>, <<start(M), Send(k), await_done(M)>>, a)
  <2>1. <<c, s, p>>[1] = c
    OBVIOUS
  <2> QED BY <1>10, <1>11, <1>12, <2>1, Chain3 DEF Leads
<1>14. Leads(t, a, <<a, a>>, Results(M, k), a)
  <2>1. Plain(a)
    BY <1>7 DEF Plain
  <2>2. <<a, a>>[1] = a
    OBVIOUS
  <2> QED BY <1>1, <1>7, <1>8, <2>1, <2>2, ResultsChain DEF Leads, M
<1>15. Leads(t, c, <<c, s, p>> \o <<a, a>>,
             <<start(M), Send(k), await_done(M)>> \o Results(M, k), a)
  BY <1>13, <1>14, Joined
<1> QED BY <1>2, <1>3, <1>4, <1>15 DEF tile_outline, run_tile

\* test_id_register.
LEMMA IdChain ==
    ASSUME NEW t
    PROVE  Leads(t, Fresh, OutlineOf.id_register, test_id_register, Fresh)
<1>1. Is(Fresh, "idle", TRUE, 0, FALSE, 0, FALSE, FALSE, "free", "none", "none")
  BY FreshFields DEF Is
<1>2. Fresh \in Contexts /\ Plain(Fresh)
  BY <1>1, ShapeIsContext DEF Is, Plain
<1>3. Rule(t, Fresh, read(M, "ID", {ID_VALUE}), Fresh)
  <2>1. Readable(Fresh, read(M, "ID", {ID_VALUE}))
    BY <1>1, ReadFields DEF Readable, Is
  <2> QED BY <1>2, <2>1, ReadLeads DEF M
<1>4. Leads(t, Fresh, <<Fresh>>,
             <<read(M, "ID", {ID_VALUE})>>, Fresh)
  <2>1. <<Fresh>>[1] = Fresh
    OBVIOUS
  <2> QED BY <1>3, <2>1, Chain1 DEF Leads
<1> QED BY <1>4 DEF test_id_register, OutlineOf


\* test_register_map.
LEMMA RegisterMapChain ==
    ASSUME NEW t
    PROVE  Leads(t, Fresh, OutlineOf.register_map, test_register_map, Shut)
<1>1. Is(Fresh, "idle", TRUE, 0, FALSE, 0, FALSE, FALSE, "free", "none", "none")
  BY FreshFields DEF Is
<1>2. Fresh \in Contexts /\ Plain(Fresh)
  BY <1>1, ShapeIsContext DEF Is, Plain
<1>3. Is(Off(Fresh), "idle", FALSE, 0, FALSE, 0, FALSE, FALSE, "free", "none", "none")
  BY <1>1, EnabledFields DEF Is, Off
<1>4. Off(Fresh) \in Contexts /\ Plain(Off(Fresh))
  BY <1>3, ShapeIsContext DEF Is, Plain
<1>5. Is(Shut, "busy", TRUE, 0, FALSE, 0, FALSE, FALSE, "free", "none", "none")
  BY <1>1, StartedFields DEF Is, Shut
<1>6. Shut \in Contexts /\ Plain(Shut)
  BY <1>5, ShapeIsContext DEF Is, Plain
<1>7. Rule(t, Fresh, read(M, "CTRL", {CTRL_EN}), Fresh)
  <2>1. Readable(Fresh, read(M, "CTRL", {CTRL_EN}))
    BY <1>1, ReadFields DEF Readable, Is
  <2> QED BY <1>2, <2>1, ReadLeads DEF M
<1>8. Rule(t, Fresh, read(M, "STATUS", {0}), Fresh)
  <2>1. Readable(Fresh, read(M, "STATUS", {0}))
    BY <1>1, ReadFields DEF Readable, Is
  <2> QED BY <1>2, <2>1, ReadLeads DEF M
<1>9. Leads(t, Fresh, <<Fresh, Fresh>>,
             <<read(M, "CTRL", {CTRL_EN}), read(M, "STATUS", {0})>>, Fresh)
  <2>1. <<Fresh, Fresh>>[1] = Fresh
    OBVIOUS
  <2> QED BY <1>7, <1>8, <2>1, Chain2 DEF Leads
<1>10. Leads(t, Fresh, <<Fresh, Fresh>>, Zeros, Fresh)
  <2>1. <<Fresh, Fresh>>[1] = Fresh
    OBVIOUS
  <2> QED BY <1>2, <1>1, <2>1, ZerosChain DEF Leads, Is
<1>11. Rule(t, Fresh, write(M, Stop), Off(Fresh))
  <2>1. MayWrite(Fresh, CTRL(FALSE, FALSE, FALSE))
    BY <1>1 DEF MayWrite, Is, CTRL
  <2>2. Off(Fresh) \in Written(Fresh, CTRL(FALSE, FALSE, FALSE))
    BY DEF Written, Wrote, CTRL, Off
  <2> QED BY <1>2, <1>1, <1>4, <1>3, <2>1, <2>2, WriteLeads DEF Stop, M
<1>12. Rule(t, Off(Fresh), read(M, "CTRL", {0}), Off(Fresh))
  <2>1. Readable(Off(Fresh), read(M, "CTRL", {0}))
    BY <1>3, ReadFields DEF Readable, Is
  <2> QED BY <1>4, <2>1, ReadLeads DEF M
<1>13. Rule(t, Off(Fresh), write(M, CTRL(TRUE, TRUE, TRUE)), Shut)
  <2>1. MayWrite(Off(Fresh), CTRL(TRUE, TRUE, TRUE))
    BY <1>3 DEF MayWrite, Is, CTRL
  <2>2. PICK s : s = Started(Off(Fresh))
    OBVIOUS
  <2>3. Is(s, "busy", TRUE, 0, FALSE, 0, FALSE, FALSE, "free", "none", "none")
    BY <1>3, <2>2, StartedFields DEF Is
  <2>4. Is(Cleared(s), "busy", TRUE, 0, FALSE, 0, FALSE, FALSE, "free", "none", "none")
    BY <2>3, ClearedFields DEF Is
  <2>5. Cleared(s) = Shut
    BY <1>5, <2>4, IsSame
  <2>6. Cleared(s) \in Written(Off(Fresh), CTRL(TRUE, TRUE, TRUE))
    BY <1>3, <2>2 DEF Written, Wrote, Is, CTRL
  <2> QED BY <1>4, <1>3, <1>6, <1>5, <2>1, <2>5, <2>6, WriteLeads DEF M
<1>14. Rule(t, Shut, write(M, CTRL(TRUE, TRUE, TRUE)), Shut)
  <2>1. MayWrite(Shut, CTRL(TRUE, TRUE, TRUE))
    BY <1>5 DEF MayWrite, Is, CTRL
  <2>2. PICK s : s = Enabled(Shut, TRUE)
    OBVIOUS
  <2>3. Is(s, "busy", TRUE, 0, FALSE, 0, FALSE, FALSE, "free", "none", "none")
    BY <1>5, <2>2, EnabledFields DEF Is
  <2>4. Is(Cleared(s), "busy", TRUE, 0, FALSE, 0, FALSE, FALSE, "free", "none", "none")
    BY <2>3, ClearedFields DEF Is
  <2>5. Cleared(s) = Shut
    BY <1>5, <2>4, IsSame
  <2>6. Cleared(s) \in Written(Shut, CTRL(TRUE, TRUE, TRUE))
    BY <1>5, <2>2 DEF Written, Wrote, Is, CTRL
  <2> QED BY <1>6, <1>5, <2>1, <2>5, <2>6, WriteLeads DEF M
<1>15. Rule(t, Shut, read(M, "CTRL", {CTRL_EN}), Shut)
  <2>1. Readable(Shut, read(M, "CTRL", {CTRL_EN}))
    BY <1>5, ReadFields DEF Readable, Is
  <2> QED BY <1>6, <2>1, ReadLeads DEF M
<1>16. Rule(t, Shut, read(M, "UNMAPPED", {0}), Shut)
  <2>1. Readable(Shut, read(M, "UNMAPPED", {0}))
    BY <1>5, ReadFields DEF Readable, Is
  <2> QED BY <1>6, <2>1, ReadLeads DEF M
<1>17. Leads(t, Fresh, <<Fresh, Off(Fresh), Off(Fresh), Shut, Shut, Shut, Shut>>,
             <<write(M, Stop), read(M, "CTRL", {0}), write(M, CTRL(TRUE, TRUE, TRUE)), read(M,
                "CTRL", {CTRL_EN}), write(M, CTRL(TRUE, TRUE, TRUE)), read(M, "CTRL", {CTRL_EN}),
                read(M, "UNMAPPED", {0})>>, Shut)
  <2>1. <<Fresh, Off(Fresh), Off(Fresh), Shut, Shut, Shut, Shut>>[1] = Fresh
    OBVIOUS
  <2> QED BY <1>11, <1>12, <1>13, <1>15, <1>14, <1>16, <2>1, Chain7 DEF Leads
<1>18. Leads(t, Fresh,
             <<Fresh, Fresh>> \o <<Fresh, Fresh>>,
             <<read(M, "CTRL", {CTRL_EN}), read(M, "STATUS", {0})>> \o Zeros,
             Fresh)
  BY <1>9, <1>10, Joined
<1>19. Leads(t, Fresh,
             <<Fresh, Fresh>> \o <<Fresh, Fresh>>
                \o <<Fresh, Off(Fresh), Off(Fresh), Shut, Shut, Shut, Shut>>,
             <<read(M, "CTRL", {CTRL_EN}), read(M, "STATUS", {0})>> \o Zeros
                \o <<write(M, Stop), read(M, "CTRL", {0}), write(M, CTRL(TRUE, TRUE, TRUE)),
                read(M, "CTRL", {CTRL_EN}), write(M, CTRL(TRUE, TRUE, TRUE)), read(M, "CTRL",
                {CTRL_EN}), read(M, "UNMAPPED", {0})>>,
             Shut)
  BY <1>18, <1>17, Joined
<1> QED BY <1>19 DEF test_register_map, OutlineOf


\* test_backpressure_from_source.
LEMMA SourceChain ==
    ASSUME NEW t
    PROVE  Leads(t, Fresh, OutlineOf.backpressure_from_source, test_backpressure_from_source,
                 After(Paused, 1))
<1>1. Is(Fresh, "idle", TRUE, 0, FALSE, 0, FALSE, FALSE, "free", "none", "none")
  BY FreshFields DEF Is
<1>2. Fresh \in Contexts /\ Plain(Fresh)
  BY <1>1, ShapeIsContext DEF Is, Plain
<1>3. Is(Paused, "idle", TRUE, 0, FALSE, 0, FALSE, FALSE, "paused", "none", "none")
  BY <1>1, SourceFields DEF Is, Paused
<1>4. Paused \in Contexts /\ Plain(Paused)
  BY <1>3, ShapeIsContext DEF Is, Plain
<1>5. Rule(t, Fresh, Pauses, Paused)
  <2>1. Pauses.kind = "pauses"
    BY DEF Pauses
  <2> QED BY <1>2, <1>1, <1>4, <1>3, <2>1 DEF Rule, NoteRule, Paused
<1>6. Leads(t, Fresh, <<Fresh>>,
             <<Pauses>>, Paused)
  <2>1. <<Fresh>>[1] = Fresh
    OBVIOUS
  <2> QED BY <1>5, <2>1, Chain1 DEF Leads
<1>7. Leads(t, Paused, tile_outline(Paused, 1), run_tile(M, 1), After(Paused, 1))
  BY <1>4, <1>3, TileLeads DEF Is
<1>8. Leads(t, Fresh,
             <<Fresh>> \o tile_outline(Paused, 1),
             <<Pauses>> \o run_tile(M, 1),
             After(Paused, 1))
  BY <1>6, <1>7, Joined
<1> QED BY <1>8 DEF test_backpressure_from_source, check_tile, OutlineOf


\* test_backpressure_from_wrapper.
LEMMA WrapperChain ==
    ASSUME NEW t
    PROVE  Leads(t, Fresh, OutlineOf.backpressure_from_wrapper, test_backpressure_from_wrapper,
                 Ended(Held))
<1>1. Is(Fresh, "idle", TRUE, 0, FALSE, 0, FALSE, FALSE, "free", "none", "none")
  BY FreshFields DEF Is
<1>2. Fresh \in Contexts /\ Plain(Fresh)
  BY <1>1, ShapeIsContext DEF Is, Plain
<1>3. Is(Shut, "busy", TRUE, 0, FALSE, 0, FALSE, FALSE, "free", "none", "none")
  BY <1>1, StartedFields DEF Is, Shut
<1>4. Shut \in Contexts /\ Plain(Shut)
  BY <1>3, ShapeIsContext DEF Is, Plain
<1>5. Is(Under, "busy", TRUE, 1, TRUE, 0, FALSE, FALSE, "free", "none", "none")
  BY <1>3, SentIs, Zenon DEF Under
<1>6. Under \in Contexts /\ Plain(Under)
  BY <1>5, ShapeIsContext DEF Is, Plain
<1>7. Is(Held, "busy", TRUE, 1, TRUE, 0, FALSE, FALSE, "steady", "none", "none")
  BY <1>5, SourceFields DEF Is, Held
<1>8. Held \in Contexts /\ Plain(Held)
  BY <1>7, ShapeIsContext DEF Is, Plain
<1>9. Is(Stopped, "busy", FALSE, 1, TRUE, 0, FALSE, FALSE, "steady", "none", "none")
  BY <1>7, EnabledFields DEF Is, Stopped, Off
<1>10. Stopped \in Contexts /\ Plain(Stopped)
  BY <1>9, ShapeIsContext DEF Is, Plain
<1>11. Is(Polled(Held), "polled", TRUE, 1, TRUE, 0, FALSE, FALSE, "steady", "none", "none")
  BY <1>7, PolledFields DEF Is
<1>12. Polled(Held) \in Contexts
  BY <1>11, ShapeIsContext DEF Is
<1>13. Is(Ended(Held), "idle", TRUE, 1, FALSE, 1, TRUE, FALSE, "steady", "none", "none")
  BY <1>7, EndedFields DEF Is
<1>14. Ended(Held) \in Contexts /\ Plain(Ended(Held))
  BY <1>13, ShapeIsContext DEF Is, Plain
<1>15. Rule(t, Fresh, start(M), Shut)
  <2>1. MayWrite(Fresh, CTRL(TRUE, FALSE, TRUE))
    BY <1>1 DEF MayWrite, Is, CTRL
  <2>2. Shut \in Written(Fresh, CTRL(TRUE, FALSE, TRUE))
    BY DEF Written, Wrote, CTRL, Shut
  <2> QED BY <1>2, <1>1, <1>4, <1>3, <2>1, <2>2, WriteLeads DEF start, Launch, M
<1>16. Rule(t, Shut, Send(1), Under)
  BY <1>4, <1>3, <1>6, <1>5, SendLeads DEF Is, Under
<1>17. Rule(t, Under, Edges(1), Held)
  BY <1>6, <1>5, <1>8, <1>7, EdgesLeads DEF Is, Held
<1>18. Rule(t, Held, write(M, Stop), Stopped)
  <2>1. MayWrite(Held, CTRL(FALSE, FALSE, FALSE))
    BY <1>7 DEF MayWrite, Is, CTRL
  <2>2. Stopped \in Written(Held, CTRL(FALSE, FALSE, FALSE))
    BY DEF Written, Wrote, CTRL, Stopped, Off
  <2> QED BY <1>8, <1>7, <1>10, <1>9, <2>1, <2>2, WriteLeads DEF Stop, M
<1>19. Rule(t, Stopped, StalledEdges(3), Stopped)
  BY <1>10, <1>9, EdgesLeads DEF Is
<1>20. Rule(t, Stopped, write(M, Resume), Polled(Held))
  <2>1. MayWrite(Stopped, CTRL(FALSE, FALSE, TRUE))
    BY <1>9 DEF MayWrite, Is, CTRL
  <2>2. Is(Enabled(Stopped, TRUE), "busy", TRUE, 1, TRUE, 0, FALSE, FALSE, "steady", "none", "none")
    BY <1>9, EnabledFields DEF Is
  <2>3. Enabled(Stopped, TRUE) = Held /\ Held.mode = "busy"
    BY <1>7, <2>2, IsSame DEF Is
  <2>4. Held \in Written(Stopped, CTRL(FALSE, FALSE, TRUE))
    BY <2>3 DEF Written, Wrote, CTRL
  <2> QED BY <1>10, <1>9, <1>12, <1>11, <2>1, <2>3, <2>4, WriteLeads DEF Resume, M
<1>21. Rule(t, Polled(Held), await_done(M), Ended(Held))
  <2>1. PICK b : b = Closed(Polled(Held))
    OBVIOUS
  <2>2. Is(b, "polled", TRUE, 1, TRUE, 0, FALSE, FALSE, "steady", "none", "none")
    BY <1>11, <2>1, ClosedFields DEF Is
  <2>3. Is(Ended(b), "idle", TRUE, 1, FALSE, 1, TRUE, FALSE, "steady", "none", "none")
    BY <2>2, EndedFields DEF Is
  <2>4. Ended(b) = Ended(Held)
    BY <1>13, <2>3, IsSame
  <2> QED BY <1>12, <1>11, <1>14, <1>13, <2>1, <2>4, PollLeads DEF Is, M
<1>22. Leads(t, Fresh, <<Fresh, Shut, Under, Held, Stopped, Stopped, Polled(Held)>>,
             <<start(M), Send(1), Edges(1), write(M, Stop), StalledEdges(3), write(M, Resume),
                await_done(M)>>, Ended(Held))
  <2>1. <<Fresh, Shut, Under, Held, Stopped, Stopped, Polled(Held)>>[1] = Fresh
    OBVIOUS
  <2> QED BY <1>15, <1>16, <1>17, <1>18, <1>19, <1>20, <1>21, <2>1, Chain7 DEF Leads
<1>23. Leads(t, Ended(Held), <<Ended(Held), Ended(Held)>>, Results(M, 1), Ended(Held))
  <2>1. <<Ended(Held), Ended(Held)>>[1] = Ended(Held)
    OBVIOUS
  <2> QED BY <1>14, <1>13, <2>1, ResultsChain DEF Leads, Is, M
<1>24. Leads(t, Fresh,
             <<Fresh, Shut, Under, Held, Stopped, Stopped, Polled(Held)>>
                \o <<Ended(Held), Ended(Held)>>,
             <<start(M), Send(1), Edges(1), write(M, Stop), StalledEdges(3), write(M, Resume),
                await_done(M)>> \o Results(M, 1),
             Ended(Held))
  BY <1>22, <1>23, Joined
<1> QED BY <1>24 DEF test_backpressure_from_wrapper, OutlineOf


\* test_no_beats_before_start.
LEMMA NoBeatsChain ==
    ASSUME NEW t
    PROVE  Leads(t, Fresh, OutlineOf.no_beats_before_start, test_no_beats_before_start, Ended(Begun))
<1>1. Is(Fresh, "idle", TRUE, 0, FALSE, 0, FALSE, FALSE, "free", "none", "none")
  BY FreshFields DEF Is
<1>2. Fresh \in Contexts /\ Plain(Fresh)
  BY <1>1, ShapeIsContext DEF Is, Plain
<1>3. Is(Loaded, "idle", TRUE, 1, TRUE, 0, FALSE, FALSE, "free", "none", "none")
  BY <1>1, SentIs, Zenon DEF Loaded
<1>4. Loaded \in Contexts /\ Plain(Loaded)
  BY <1>3, ShapeIsContext DEF Is, Plain
<1>5. Is(Begun, "busy", TRUE, 1, TRUE, 0, FALSE, FALSE, "free", "none", "none")
  BY <1>3, StartedFields DEF Is, Begun
<1>6. Begun \in Contexts /\ Plain(Begun)
  BY <1>5, ShapeIsContext DEF Is, Plain
<1>7. Is(Polled(Begun), "polled", TRUE, 1, TRUE, 0, FALSE, FALSE, "free", "none", "none")
  BY <1>5, PolledFields DEF Is
<1>8. Polled(Begun) \in Contexts
  BY <1>7, ShapeIsContext DEF Is
<1>9. Is(Ended(Begun), "idle", TRUE, 1, FALSE, 1, TRUE, FALSE, "free", "none", "none")
  BY <1>5, EndedFields DEF Is
<1>10. Ended(Begun) \in Contexts /\ Plain(Ended(Begun))
  BY <1>9, ShapeIsContext DEF Is, Plain
<1>11. Rule(t, Fresh, Send(1), Loaded)
  BY <1>2, <1>1, <1>4, <1>3, SendLeads DEF Is, Loaded
<1>12. Rule(t, Loaded, StalledEdges(3), Loaded)
  BY <1>4, <1>3, EdgesLeads DEF Is
<1>13. Rule(t, Loaded, start(M), Polled(Begun))
  <2>1. MayWrite(Loaded, CTRL(TRUE, FALSE, TRUE))
    BY <1>3 DEF MayWrite, Is, CTRL
  <2>2. Begun \in Written(Loaded, CTRL(TRUE, FALSE, TRUE)) /\ Begun.mode = "busy"
    BY <1>5 DEF Written, Wrote, CTRL, Begun, Is
  <2> QED BY <1>4, <1>3, <1>8, <1>7, <2>1, <2>2, WriteLeads DEF start, Launch, M
<1>14. Rule(t, Polled(Begun), await_done(M), Ended(Begun))
  <2>1. PICK b : b = Closed(Polled(Begun))
    OBVIOUS
  <2>2. Is(b, "polled", TRUE, 1, TRUE, 0, FALSE, FALSE, "free", "none", "none")
    BY <1>7, <2>1, ClosedFields DEF Is
  <2>3. Is(Ended(b), "idle", TRUE, 1, FALSE, 1, TRUE, FALSE, "free", "none", "none")
    BY <2>2, EndedFields DEF Is
  <2>4. Ended(b) = Ended(Begun)
    BY <1>9, <2>3, IsSame
  <2> QED BY <1>8, <1>7, <1>10, <1>9, <2>1, <2>4, PollLeads DEF Is, M
<1>15. Leads(t, Fresh, <<Fresh, Loaded, Loaded, Polled(Begun)>>,
             <<Send(1), StalledEdges(3), start(M), await_done(M)>>, Ended(Begun))
  <2>1. <<Fresh, Loaded, Loaded, Polled(Begun)>>[1] = Fresh
    OBVIOUS
  <2> QED BY <1>11, <1>12, <1>13, <1>14, <2>1, Chain4 DEF Leads
<1>16. Leads(t, Ended(Begun), <<Ended(Begun), Ended(Begun)>>, Results(M, 1), Ended(Begun))
  <2>1. <<Ended(Begun), Ended(Begun)>>[1] = Ended(Begun)
    OBVIOUS
  <2> QED BY <1>10, <1>9, <2>1, ResultsChain DEF Leads, Is, M
<1>17. Leads(t, Fresh,
             <<Fresh, Loaded, Loaded, Polled(Begun)>> \o <<Ended(Begun), Ended(Begun)>>,
             <<Send(1), StalledEdges(3), start(M), await_done(M)>> \o Results(M, 1),
             Ended(Begun))
  BY <1>15, <1>16, Joined
<1> QED BY <1>17 DEF test_no_beats_before_start, OutlineOf


\* test_back_to_back_tiles.
LEMMA BackToBackChain ==
    ASSUME NEW t
    PROVE  Leads(t, Fresh, OutlineOf.back_to_back_tiles, test_back_to_back_tiles,
                 After(After(Fresh, 1), 2))
<1>1. Is(Fresh, "idle", TRUE, 0, FALSE, 0, FALSE, FALSE, "free", "none", "none")
  BY FreshFields DEF Is
<1>2. Fresh \in Contexts /\ Plain(Fresh)
  BY <1>1, ShapeIsContext DEF Is, Plain
<1>3. Is(After(Fresh, 1), "idle", TRUE, 1, FALSE, 1, TRUE, FALSE, "free", "none", "none")
  BY <1>1, AfterIs, Zenon
<1>4. After(Fresh, 1) \in Contexts /\ Plain(After(Fresh, 1))
  BY <1>3, ShapeIsContext DEF Is, Plain
<1>5. Leads(t, Fresh, tile_outline(Fresh, 1), run_tile(M, 1), After(Fresh, 1))
  BY <1>2, <1>1, TileLeads DEF Is
<1>6. Leads(t, After(Fresh, 1), tile_outline(After(Fresh, 1), 2), run_tile(M, 2),
        After(After(Fresh, 1), 2))
  BY <1>4, <1>3, TileLeads DEF Is
<1>7. Leads(t, Fresh,
             tile_outline(Fresh, 1) \o tile_outline(After(Fresh, 1), 2),
             run_tile(M, 1) \o run_tile(M, 2),
             After(After(Fresh, 1), 2))
  BY <1>5, <1>6, Joined
<1> QED BY <1>7 DEF test_back_to_back_tiles, check_tile, OutlineOf


\* test_explicit_clear.
LEMMA ClearChain ==
    ASSUME NEW t
    PROVE  Leads(t, Fresh, OutlineOf.explicit_clear, test_explicit_clear, After(Wiped, 2))
<1>1. Is(Fresh, "idle", TRUE, 0, FALSE, 0, FALSE, FALSE, "free", "none", "none")
  BY FreshFields DEF Is
<1>2. Fresh \in Contexts /\ Plain(Fresh)
  BY <1>1, ShapeIsContext DEF Is, Plain
<1>3. Is(After(Fresh, 1), "idle", TRUE, 1, FALSE, 1, TRUE, FALSE, "free", "none", "none")
  BY <1>1, AfterIs, Zenon
<1>4. After(Fresh, 1) \in Contexts /\ Plain(After(Fresh, 1))
  BY <1>3, ShapeIsContext DEF Is, Plain
<1>5. Is(Wiped, "idle", TRUE, 1, FALSE, 0, TRUE, FALSE, "free", "none", "none")
  BY <1>3, ClearedFields DEF Is, Wiped
<1>6. Wiped \in Contexts /\ Plain(Wiped)
  BY <1>5, ShapeIsContext DEF Is, Plain
<1>7. Rule(t, After(Fresh, 1), write(M, CTRL(FALSE, TRUE, TRUE)), Wiped)
  <2>1. MayWrite(After(Fresh, 1), CTRL(FALSE, TRUE, TRUE))
    BY <1>3 DEF MayWrite, Is, CTRL
  <2>2. PICK s : s = Enabled(After(Fresh, 1), TRUE)
    OBVIOUS
  <2>3. Is(s, "idle", TRUE, 1, FALSE, 1, TRUE, FALSE, "free", "none", "none")
    BY <1>3, <2>2, EnabledFields DEF Is
  <2>4. s = After(Fresh, 1)
    BY <1>3, <2>3, IsSame
  <2>5. Cleared(s) \in Written(After(Fresh, 1), CTRL(FALSE, TRUE, TRUE))
    BY <1>3, <2>2 DEF Written, Wrote, Is, CTRL
  <2> QED BY <1>4, <1>3, <1>6, <1>5, <2>1, <2>4, <2>5, WriteLeads DEF Wiped, M
<1>8. Rule(t, Wiped, Edges(2), Wiped)
  BY <1>6, <1>5, EdgesLeads DEF Is
<1>9. Leads(t, Fresh, tile_outline(Fresh, 1), run_tile(M, 1), After(Fresh, 1))
  BY <1>2, <1>1, TileLeads DEF Is
<1>10. Leads(t, After(Fresh, 1), <<After(Fresh, 1), Wiped>>,
             <<write(M, CTRL(FALSE, TRUE, TRUE)), Edges(2)>>, Wiped)
  <2>1. <<After(Fresh, 1), Wiped>>[1] = After(Fresh, 1)
    OBVIOUS
  <2> QED BY <1>7, <1>8, <2>1, Chain2 DEF Leads
<1>11. Leads(t, Wiped, <<Wiped, Wiped>>, Zeros, Wiped)
  <2>1. <<Wiped, Wiped>>[1] = Wiped
    OBVIOUS
  <2> QED BY <1>6, <1>5, <2>1, ZerosChain DEF Leads, Is
<1>12. Leads(t, Wiped, tile_outline(Wiped, 2), run_tile(M, 2), After(Wiped, 2))
  BY <1>6, <1>5, TileLeads DEF Is
<1>13. Leads(t, Fresh,
             tile_outline(Fresh, 1) \o <<After(Fresh, 1), Wiped>>,
             run_tile(M, 1) \o <<write(M, CTRL(FALSE, TRUE, TRUE)), Edges(2)>>,
             Wiped)
  BY <1>9, <1>10, Joined
<1>14. Leads(t, Fresh,
             tile_outline(Fresh, 1) \o <<After(Fresh, 1), Wiped>> \o <<Wiped, Wiped>>,
             run_tile(M, 1) \o <<write(M, CTRL(FALSE, TRUE, TRUE)), Edges(2)>> \o Zeros,
             Wiped)
  BY <1>13, <1>11, Joined
<1>15. Leads(t, Fresh,
             tile_outline(Fresh, 1) \o <<After(Fresh, 1), Wiped>> \o <<Wiped, Wiped>>
                \o tile_outline(Wiped, 2),
             run_tile(M, 1) \o <<write(M, CTRL(FALSE, TRUE, TRUE)), Edges(2)>> \o Zeros
                \o run_tile(M, 2),
             After(Wiped, 2))
  BY <1>14, <1>12, Joined
<1> QED BY <1>15 DEF test_explicit_clear, check_tile, OutlineOf


\* test_reset_mid_stream.
LEMMA ResetChain ==
    ASSUME NEW t
    PROVE  Leads(t, Fresh, OutlineOf.reset_mid_stream, test_reset_mid_stream, After(Fresh, 2))
<1>1. Is(Fresh, "idle", TRUE, 0, FALSE, 0, FALSE, FALSE, "free", "none", "none")
  BY FreshFields DEF Is
<1>2. Fresh \in Contexts /\ Plain(Fresh)
  BY <1>1, ShapeIsContext DEF Is, Plain
<1>3. Is(Shut, "busy", TRUE, 0, FALSE, 0, FALSE, FALSE, "free", "none", "none")
  BY <1>1, StartedFields DEF Is, Shut
<1>4. Shut \in Contexts /\ Plain(Shut)
  BY <1>3, ShapeIsContext DEF Is, Plain
<1>5. Is(Under, "busy", TRUE, 1, TRUE, 0, FALSE, FALSE, "free", "none", "none")
  BY <1>3, SentIs, Zenon DEF Under
<1>6. Under \in Contexts /\ Plain(Under)
  BY <1>5, ShapeIsContext DEF Is, Plain
<1>7. Is(Held, "busy", TRUE, 1, TRUE, 0, FALSE, FALSE, "steady", "none", "none")
  BY <1>5, SourceFields DEF Is, Held
<1>8. Held \in Contexts /\ Plain(Held)
  BY <1>7, ShapeIsContext DEF Is, Plain
<1>9. Rule(t, Fresh, start(M), Shut)
  <2>1. MayWrite(Fresh, CTRL(TRUE, FALSE, TRUE))
    BY <1>1 DEF MayWrite, Is, CTRL
  <2>2. Shut \in Written(Fresh, CTRL(TRUE, FALSE, TRUE))
    BY DEF Written, Wrote, CTRL, Shut
  <2> QED BY <1>2, <1>1, <1>4, <1>3, <2>1, <2>2, WriteLeads DEF start, Launch, M
<1>10. Rule(t, Shut, Send(1), Under)
  BY <1>4, <1>3, <1>6, <1>5, SendLeads DEF Is, Under
<1>11. Rule(t, Under, Edges(4), Held)
  BY <1>6, <1>5, <1>8, <1>7, EdgesLeads DEF Is, Held
<1>12. Rule(t, Held, ResetEdges, Fresh)
  <2>1. Is(Count(Fresh, "none"), "idle", TRUE, 0, FALSE, 0, FALSE, FALSE, "free", "none", "none")
    BY <1>1, CountFields DEF Is
  <2>2. Count(Fresh, "none") = Fresh
    BY <1>1, <2>1, IsSame
  <2>3. Held.count = "none" /\ Held.source = "steady"
    BY <1>7 DEF Is
  <2> QED BY <1>8, <1>2, <2>2, <2>3, ResetLeads
<1>13. Rule(t, Fresh, Edges(1), Fresh)
  BY <1>2, <1>1, EdgesLeads DEF Is
<1>14. Rule(t, Fresh, StreamClear, Fresh)
  <2>1. StreamClear.kind = "stream_clear"
    BY DEF StreamClear
  <2> QED BY <1>2, <1>1, <2>1 DEF Rule, NoteRule, Is
<1>15. Rule(t, Fresh, read(M, "STATUS", {0}), Fresh)
  <2>1. Readable(Fresh, read(M, "STATUS", {0}))
    BY <1>1, ReadFields DEF Readable, Is
  <2> QED BY <1>2, <2>1, ReadLeads DEF M
<1>16. Rule(t, Fresh, read(M, "CTRL", {CTRL_EN}), Fresh)
  <2>1. Readable(Fresh, read(M, "CTRL", {CTRL_EN}))
    BY <1>1, ReadFields DEF Readable, Is
  <2> QED BY <1>2, <2>1, ReadLeads DEF M
<1>17. Leads(t, Fresh, <<Fresh, Shut, Under, Held, Fresh, Fresh, Fresh, Fresh, Fresh>>,
             <<start(M), Send(1), Edges(4), ResetEdges, Edges(1), StreamClear, Edges(1), read(M,
                "STATUS", {0}), read(M, "CTRL", {CTRL_EN})>>, Fresh)
  <2>1. <<Fresh, Shut, Under, Held, Fresh, Fresh, Fresh, Fresh, Fresh>>[1] = Fresh
    OBVIOUS
  <2> QED BY <1>9, <1>10, <1>11, <1>12, <1>13, <1>14, <1>15, <1>16, <2>1, Chain9 DEF Leads
<1>18. Leads(t, Fresh, <<Fresh, Fresh>>, Zeros, Fresh)
  <2>1. <<Fresh, Fresh>>[1] = Fresh
    OBVIOUS
  <2> QED BY <1>2, <1>1, <2>1, ZerosChain DEF Leads, Is
<1>19. Leads(t, Fresh, tile_outline(Fresh, 2), run_tile(M, 2), After(Fresh, 2))
  BY <1>2, <1>1, TileLeads DEF Is
<1>20. Leads(t, Fresh,
             <<Fresh, Shut, Under, Held, Fresh, Fresh, Fresh, Fresh, Fresh>> \o <<Fresh, Fresh>>,
             <<start(M), Send(1), Edges(4), ResetEdges, Edges(1), StreamClear, Edges(1), read(M,
                "STATUS", {0}), read(M, "CTRL", {CTRL_EN})>> \o Zeros,
             Fresh)
  BY <1>17, <1>18, Joined
<1>21. Leads(t, Fresh,
             <<Fresh, Shut, Under, Held, Fresh, Fresh, Fresh, Fresh, Fresh>> \o <<Fresh, Fresh>>
                \o tile_outline(Fresh, 2),
             <<start(M), Send(1), Edges(4), ResetEdges, Edges(1), StreamClear, Edges(1), read(M,
                "STATUS", {0}), read(M, "CTRL", {CTRL_EN})>> \o Zeros \o run_tile(M, 2),
             After(Fresh, 2))
  BY <1>20, <1>19, Joined
<1> QED BY <1>21 DEF test_reset_mid_stream, check_tile, OutlineOf


\* test_status_never_reports_the_previous_tile.
LEMMA StatusChain ==
    ASSUME NEW t
    PROVE  Leads(t, Fresh, OutlineOf.status_never_reports_the_previous_tile,
                 test_status_never_reports_the_previous_tile, After(After(Fresh, 1), 2))
<1>1. Is(Fresh, "idle", TRUE, 0, FALSE, 0, FALSE, FALSE, "free", "none", "none")
  BY FreshFields DEF Is
<1>2. Fresh \in Contexts /\ Plain(Fresh)
  BY <1>1, ShapeIsContext DEF Is, Plain
<1>3. Is(After(Fresh, 1), "idle", TRUE, 1, FALSE, 1, TRUE, FALSE, "free", "none", "none")
  BY <1>1, AfterIs, Zenon
<1>4. After(Fresh, 1) \in Contexts /\ Plain(After(Fresh, 1))
  BY <1>3, ShapeIsContext DEF Is, Plain
<1>5. Is(Shut, "busy", TRUE, 0, FALSE, 0, FALSE, FALSE, "free", "none", "none")
  BY <1>1, StartedFields DEF Is, Shut
<1>6. Shut \in Contexts /\ Plain(Shut)
  BY <1>5, ShapeIsContext DEF Is, Plain
<1>7. Is(OpenOne, "busy", TRUE, 0, FALSE, 0, FALSE, TRUE, "free", "none", "none")
  BY <1>5, OpenFields DEF Is, OpenOne
<1>8. OpenOne \in Contexts
  BY <1>7, ShapeIsContext DEF Is
<1>9. Is(Sent(OpenOne, 1), "busy", TRUE, 1, TRUE, 0, FALSE, TRUE, "free", "none", "none")
  BY <1>7, SentIs, Zenon
<1>10. Sent(OpenOne, 1) \in Contexts
  BY <1>9, ShapeIsContext DEF Is
<1>11. Is(Polled(Sent(OpenOne, 1)), "polled", TRUE, 1, TRUE, 0, FALSE, TRUE, "free", "none", "none")
  BY <1>9, PolledFields DEF Is
<1>12. Polled(Sent(OpenOne, 1)) \in Contexts
  BY <1>11, ShapeIsContext DEF Is
<1>13. Is(Raced, "busy", TRUE, 1, FALSE, 1, FALSE, FALSE, "free", "none", "none")
  BY <1>3, StartedFields DEF Is, Raced
<1>14. Raced \in Contexts /\ Plain(Raced)
  BY <1>13, ShapeIsContext DEF Is, Plain
<1>15. Is(Awaiting(After(Fresh, 1), 2), "polled", TRUE, 2, TRUE, 1, FALSE, FALSE, "free", "none",
        "none")
  BY <1>3, AwaitingIs, Zenon
<1>16. Awaiting(After(Fresh, 1), 2) \in Contexts
  BY <1>15, ShapeIsContext DEF Is
<1>17. Is(After(After(Fresh, 1), 2), "idle", TRUE, 2, FALSE, 2, TRUE, FALSE, "free", "none", "none")
  BY <1>3, AfterIs, Zenon
<1>18. After(After(Fresh, 1), 2) \in Contexts /\ Plain(After(After(Fresh, 1), 2))
  BY <1>17, ShapeIsContext DEF Is, Plain
<1>19. Rule(t, Fresh, start("raw"), OpenOne)
  <2>1. MayWrite(Fresh, Launch) /\ Launch \in CtrlWord /\ Launch.strb = TRUE
        /\ Launch.clear = FALSE /\ Launch.start = TRUE
    BY <1>1 DEF MayWrite, Is, Launch, CTRL, CtrlWord
  <2>2. PICK op : op = start("raw")
    OBVIOUS
  <2>3. op.kind = "write" /\ op.addr = "CTRL" /\ op.data = Launch
        /\ op.lags = WriteLags("raw") /\ op.awaits = {"aw", "w"}
    BY <2>2 DEF start, write, Write
  <2>4. OpenOne = Open(Started(Fresh))
    BY DEF OpenOne, Shut
  <2>5. WriteRule(Fresh, op, OpenOne)
    BY <1>2, <2>1, <2>3, <2>4 DEF WriteRule
  <2> QED BY <1>2, <1>8, <2>2, <2>5 DEF Rule
<1>20. Rule(t, OpenOne, Send(1), Polled(Sent(OpenOne, 1)))
  BY <1>8, <1>7, <1>12, <1>11, SendLeads DEF Is
<1>21. Rule(t, Polled(Sent(OpenOne, 1)), await_done("raw"), After(Fresh, 1))
  <2>1. PICK b : b = Closed(Polled(Sent(OpenOne, 1)))
    OBVIOUS
  <2>2. Is(b, "polled", TRUE, 1, TRUE, 0, FALSE, FALSE, "free", "none", "none")
    BY <1>11, <2>1, ClosedFields DEF Is
  <2>3. Is(Ended(b), "idle", TRUE, 1, FALSE, 1, TRUE, FALSE, "free", "none", "none")
    BY <2>2, EndedFields DEF Is
  <2>4. Ended(b) = After(Fresh, 1)
    BY <1>3, <2>3, IsSame
  <2> QED BY <1>12, <1>11, <1>4, <1>3, <2>1, <2>4, PollLeads DEF Is
<1>22. Rule(t, After(Fresh, 1), Race("CTRL", Launch, "STATUS", InFlight), Raced)
  <2>1. PICK op : op = Race("CTRL", Launch, "STATUS", InFlight)
    OBVIOUS
  <2>2. op.kind = "race" /\ op.lags = RaceLags /\ op.awaits = {"aw", "w", "ar", "r"}
        /\ op.waddr = "CTRL" /\ op.data = Launch /\ op.addr = "STATUS" /\ op.of = 0
        /\ op.want = InFlight
    BY <2>1 DEF Race
  <2>3. RaceRule(After(Fresh, 1), op, Raced)
    BY <1>4, <1>3, <2>2 DEF RaceRule, Is, Raced
  <2> QED BY <1>4, <1>14, <2>1, <2>3 DEF Rule
<1>23. Rule(t, Raced, read("raw", "STATUS", InFlight), Raced)
  <2>1. Readable(Raced, read("raw", "STATUS", InFlight))
    BY <1>13, ReadFields DEF Readable, Is
  <2> QED BY <1>14, <2>1, ReadLeads
<1>24. Rule(t, Raced, Send(2), Awaiting(After(Fresh, 1), 2))
  BY <1>14, <1>13, <1>16, <1>15, SendLeads DEF Is, Awaiting, Raced
<1>25. Rule(t, Awaiting(After(Fresh, 1), 2), await_done("raw"), After(After(Fresh, 1), 2))
  <2>1. PICK b : b = Closed(Awaiting(After(Fresh, 1), 2))
    OBVIOUS
  <2>2. Is(b, "polled", TRUE, 2, TRUE, 1, FALSE, FALSE, "free", "none", "none")
    BY <1>15, <2>1, ClosedFields DEF Is
  <2>3. Is(Ended(b), "idle", TRUE, 2, FALSE, 2, TRUE, FALSE, "free", "none", "none")
    BY <2>2, EndedFields DEF Is
  <2>4. Ended(b) = After(After(Fresh, 1), 2)
    BY <1>17, <2>3, IsSame
  <2> QED BY <1>16, <1>15, <1>18, <1>17, <2>1, <2>4, PollLeads DEF Is
<1>26. Leads(t, Fresh, <<Fresh, OpenOne, Polled(Sent(OpenOne, 1))>>,
             <<start("raw"), Send(1), await_done("raw")>>, After(Fresh, 1))
  <2>1. <<Fresh, OpenOne, Polled(Sent(OpenOne, 1))>>[1] = Fresh
    OBVIOUS
  <2> QED BY <1>19, <1>20, <1>21, <2>1, Chain3 DEF Leads
<1>27. Leads(t, After(Fresh, 1), <<After(Fresh, 1), After(Fresh, 1)>>, Results("raw", 1),
        After(Fresh, 1))
  <2>1. <<After(Fresh, 1), After(Fresh, 1)>>[1] = After(Fresh, 1)
    OBVIOUS
  <2> QED BY <1>4, <1>3, <2>1, ResultsChain DEF Leads, Is, M
<1>28. Leads(t, After(Fresh, 1), <<After(Fresh, 1)>>,
             <<Race("CTRL", Launch, "STATUS", InFlight)>>, Raced)
  <2>1. <<After(Fresh, 1)>>[1] = After(Fresh, 1)
    OBVIOUS
  <2> QED BY <1>22, <2>1, Chain1 DEF Leads
<1>29. Leads(t, Raced, <<Raced, Raced, Raced>>,
             <<read("raw", "STATUS", InFlight), read("raw", "STATUS", InFlight), read("raw",
                "STATUS", InFlight)>>, Raced)
  <2>1. <<Raced, Raced, Raced>>[1] = Raced
    OBVIOUS
  <2> QED BY <1>23, <2>1, Chain3 DEF Leads
<1>30. <<read("raw", "STATUS", InFlight), read("raw", "STATUS", InFlight), read("raw", "STATUS",
        InFlight)>>
       = [i \in 1 .. 3 |-> read("raw", "STATUS", InFlight)]
  OBVIOUS
<1>31. Leads(t, Raced, <<Raced, Raced, Raced>>, [i \in 1 .. 3 |-> read("raw", "STATUS", InFlight)],
        Raced)
  BY <1>29, <1>30, Zenon
<1>32. Leads(t, Raced, <<Raced, Awaiting(After(Fresh, 1), 2)>>,
             <<Send(2), await_done("raw")>>, After(After(Fresh, 1), 2))
  <2>1. <<Raced, Awaiting(After(Fresh, 1), 2)>>[1] = Raced
    OBVIOUS
  <2> QED BY <1>24, <1>25, <2>1, Chain2 DEF Leads
<1>33. Leads(t, After(After(Fresh, 1), 2), <<After(After(Fresh, 1), 2), After(After(Fresh, 1),
        2)>>, Results("raw", 2), After(After(Fresh, 1), 2))
  <2>1. <<After(After(Fresh, 1), 2), After(After(Fresh, 1), 2)>>[1] = After(After(Fresh, 1), 2)
    OBVIOUS
  <2> QED BY <1>18, <1>17, <2>1, ResultsChain DEF Leads, Is, M
<1>34. Leads(t, Fresh,
             <<Fresh, OpenOne, Polled(Sent(OpenOne, 1))>> \o <<After(Fresh, 1), After(Fresh, 1)>>,
             <<start("raw"), Send(1), await_done("raw")>> \o Results("raw", 1),
             After(Fresh, 1))
  BY <1>26, <1>27, Joined
<1>35. Leads(t, Fresh, <<Fresh, OpenOne, Polled(Sent(OpenOne, 1))>>
        \o <<After(Fresh, 1), After(Fresh, 1)>>,
             run_tile("raw", 1), After(Fresh, 1))
  BY <1>34 DEF run_tile
<1>36. Leads(t, Fresh,
             <<Fresh, OpenOne, Polled(Sent(OpenOne, 1))>>
                \o <<After(Fresh, 1), After(Fresh, 1)>> \o <<After(Fresh, 1)>>,
             run_tile("raw", 1) \o <<Race("CTRL", Launch, "STATUS", InFlight)>>,
             Raced)
  BY <1>35, <1>28, Joined
<1>37. Leads(t, Fresh,
             <<Fresh, OpenOne, Polled(Sent(OpenOne, 1))>>
                \o <<After(Fresh, 1), After(Fresh, 1)>> \o <<After(Fresh, 1)>>
                \o <<Raced, Raced, Raced>>,
             run_tile("raw", 1) \o <<Race("CTRL", Launch, "STATUS", InFlight)>>
                \o [i \in 1 .. 3 |-> read("raw", "STATUS", InFlight)],
             Raced)
  BY <1>36, <1>31, Joined
<1>38. Leads(t, Fresh,
             <<Fresh, OpenOne, Polled(Sent(OpenOne, 1))>>
                \o <<After(Fresh, 1), After(Fresh, 1)>> \o <<After(Fresh, 1)>>
                \o <<Raced, Raced, Raced>> \o <<Raced, Awaiting(After(Fresh, 1), 2)>>,
             run_tile("raw", 1) \o <<Race("CTRL", Launch, "STATUS", InFlight)>>
                \o [i \in 1 .. 3 |-> read("raw", "STATUS", InFlight)] \o <<Send(2), await_done("raw")>>,
             After(After(Fresh, 1), 2))
  BY <1>37, <1>32, Joined
<1>39. Leads(t, Fresh,
             <<Fresh, OpenOne, Polled(Sent(OpenOne, 1))>>
                \o <<After(Fresh, 1), After(Fresh, 1)>> \o <<After(Fresh, 1)>>
                \o <<Raced, Raced, Raced>> \o <<Raced, Awaiting(After(Fresh, 1), 2)>>
                \o <<After(After(Fresh, 1), 2), After(After(Fresh, 1), 2)>>,
             run_tile("raw", 1) \o <<Race("CTRL", Launch, "STATUS", InFlight)>>
                \o [i \in 1 .. 3 |-> read("raw", "STATUS", InFlight)]
                \o <<Send(2), await_done("raw")>> \o Results("raw", 2),
             After(After(Fresh, 1), 2))
  BY <1>38, <1>33, Joined
<1> QED BY <1>39 DEF test_status_never_reports_the_previous_tile, check_tile, OutlineOf


\* test_clear_mid_tile.
LEMMA ClearMidChain ==
    ASSUME NEW t
    PROVE  Leads(t, Counted, OutlineOf.clear_mid_tile, test_clear_mid_tile, Ended(Resumed))
<1>1. Is(Fresh, "idle", TRUE, 0, FALSE, 0, FALSE, FALSE, "free", "none", "none")
  BY FreshFields DEF Is
<1>2. Fresh \in Contexts /\ Plain(Fresh)
  BY <1>1, ShapeIsContext DEF Is, Plain
<1>3. Is(Counted, "idle", TRUE, 0, FALSE, 0, FALSE, FALSE, "free", "moving", "none")
  BY <1>1, CountFields DEF Is, Counted
<1>4. Counted \in Contexts /\ Plain(Counted)
  BY <1>3, ShapeIsContext DEF Is, Plain
<1>5. Is(Started(Counted), "busy", TRUE, 0, FALSE, 0, FALSE, FALSE, "free", "moving", "none")
  BY <1>3, StartedFields DEF Is
<1>6. Started(Counted) \in Contexts /\ Plain(Started(Counted))
  BY <1>5, ShapeIsContext DEF Is, Plain
<1>7. Is(Counting, "busy", TRUE, 1, TRUE, 0, FALSE, FALSE, "free", "moving", "none")
  BY <1>5, SentIs, Zenon DEF Counting
<1>8. Counting \in Contexts /\ Plain(Counting)
  BY <1>7, ShapeIsContext DEF Is, Plain
<1>9. Is(Off(Counting), "busy", FALSE, 1, TRUE, 0, FALSE, FALSE, "free", "moving", "none")
  BY <1>7, EnabledFields DEF Is, Off
<1>10. Off(Counting) \in Contexts /\ Plain(Off(Counting))
  BY <1>9, ShapeIsContext DEF Is, Plain
<1>11. Is(Still, "busy", FALSE, 1, TRUE, 0, FALSE, FALSE, "free", "still", "none")
  BY <1>9, CountFields DEF Is, Still
<1>12. Still \in Contexts /\ Plain(Still)
  BY <1>11, ShapeIsContext DEF Is, Plain
<1>13. Is(Source(Still, "steady"), "busy", FALSE, 1, TRUE, 0, FALSE, FALSE, "steady", "still", "none")
  BY <1>11, SourceFields DEF Is
<1>14. Source(Still, "steady") \in Contexts /\ Plain(Source(Still, "steady"))
  BY <1>13, ShapeIsContext DEF Is, Plain
<1>15. Is(Cut, "busy", FALSE, 1, TRUE, 0, FALSE, FALSE, "steady", "cut", "none")
  BY <1>13, CountFields DEF Is, Cut
<1>16. Cut \in Contexts /\ Plain(Cut)
  BY <1>15, ShapeIsContext DEF Is, Plain
<1>17. Is(Cleared(Cut), "busy", FALSE, 1, TRUE, 0, FALSE, FALSE, "steady", "cut", "none")
  BY <1>15, ClearedFields DEF Is
<1>18. Cleared(Cut) \in Contexts /\ Plain(Cleared(Cut))
  BY <1>17, ShapeIsContext DEF Is, Plain
<1>19. Is(Rest, "busy", FALSE, REST, TRUE, 0, FALSE, FALSE, "steady", "cut", "none")
  <2>1. Rest = [Cleared(Cut) EXCEPT !.goal = REST] /\ REST \in Nat
    BY DEF Rest, REST
  <2>2. PICK c : c = Cleared(Cut)
    OBVIOUS
  <2>3. Is(c, "busy", FALSE, 1, TRUE, 0, FALSE, FALSE, "steady", "cut", "none")
          /\ Rest = [c EXCEPT !.goal = REST]
    BY <1>17, <2>1, <2>2
  <2> QED BY <2>1, <2>3 DEF Is, Shapes
<1>20. Rest \in Contexts /\ Plain(Rest)
  BY <1>19, ShapeIsContext DEF Is, Plain
<1>21. Is(Enabled(Rest, TRUE), "busy", TRUE, REST, TRUE, 0, FALSE, FALSE, "steady", "cut", "none")
  BY <1>19, EnabledFields DEF Is
<1>22. Is(Count(Enabled(Rest, TRUE), "none"), "busy", TRUE, REST, TRUE, 0, FALSE, FALSE, "steady",
        "none", "none")
  BY <1>21, CountFields DEF Is
<1>23. Count(Enabled(Rest, TRUE), "none") \in Contexts /\ Plain(Count(Enabled(Rest, TRUE), "none"))
  BY <1>22, ShapeIsContext DEF Is, Plain
<1>24. Is(Resumed, "polled", TRUE, REST, TRUE, 0, FALSE, FALSE, "steady", "none", "none")
  BY <1>22, PolledFields DEF Is, Resumed
<1>25. Resumed \in Contexts
  BY <1>24, ShapeIsContext DEF Is
<1>26. Is(Ended(Resumed), "idle", TRUE, REST, FALSE, REST, TRUE, FALSE, "steady", "none", "none")
  BY <1>24, EndedFields DEF Is
<1>27. Ended(Resumed) \in Contexts /\ Plain(Ended(Resumed))
  BY <1>26, ShapeIsContext DEF Is, Plain
<1>28. Rule(t, Counted, start(M), Started(Counted))
  <2>1. MayWrite(Counted, CTRL(TRUE, FALSE, TRUE))
    BY <1>3 DEF MayWrite, Is, CTRL
  <2>2. Started(Counted) \in Written(Counted, CTRL(TRUE, FALSE, TRUE))
    BY DEF Written, Wrote, CTRL
  <2> QED BY <1>4, <1>3, <1>6, <1>5, <2>1, <2>2, WriteLeads DEF start, Launch, M
<1>29. Rule(t, Started(Counted), Send(1), Counting)
  BY <1>6, <1>5, <1>8, <1>7, SendLeads DEF Is, Counting
<1>30. Rule(t, Counting, [kind |-> "until_consumed"], Counting)
  BY <1>8 DEF Rule, UntilRule
<1>31. Rule(t, Counting, write(M, Stop), Still)
  <2>1. MayWrite(Counting, CTRL(FALSE, FALSE, FALSE))
    BY <1>7 DEF MayWrite, Is, CTRL
  <2>2. Still \in Written(Counting, CTRL(FALSE, FALSE, FALSE))
    BY <1>7 DEF Written, Wrote, CTRL, Still, Off, Is
  <2> QED BY <1>8, <1>7, <1>12, <1>11, <2>1, <2>2, WriteLeads DEF Stop, M
<1>32. Rule(t, Still, Edges(1), Source(Still, "steady"))
  BY <1>12, <1>11, <1>14, <1>13, EdgesLeads DEF Is
<1>33. Rule(t, Source(Still, "steady"), [kind |-> "split"], Cut)
  <2>1. Source(Still, "steady").count = "still" /\ Source(Still, "steady").goal # REST
        /\ Source(Still, "steady").last # REST
    BY <1>13 DEF Is, REST
  <2> QED BY <1>14, <1>16, <2>1 DEF Rule, NoteRule, Cut
<1>34. Rule(t, Cut, write(M, CTRL(FALSE, TRUE, FALSE)), Rest)
  <2>1. MayWrite(Cut, CTRL(FALSE, TRUE, FALSE))
    BY <1>15 DEF MayWrite, Is, CTRL
  <2>2. Rest \in Written(Cut, CTRL(FALSE, TRUE, FALSE))
    BY <1>15 DEF Written, Wrote, CTRL, Rest, Is
  <2> QED BY <1>16, <1>15, <1>20, <1>19, <2>1, <2>2, WriteLeads DEF M
<1>35. Rule(t, Rest, Edges(1), Rest)
  BY <1>20, <1>19, EdgesLeads DEF Is
<1>36. Rule(t, Rest, [kind |-> "assert_split"], Rest)
  BY <1>20, <1>19 DEF Rule, NoteRule, Is
<1>37. Rule(t, Rest, write(M, Resume), Resumed)
  <2>1. MayWrite(Rest, CTRL(FALSE, FALSE, TRUE))
    BY <1>19 DEF MayWrite, Is, CTRL
  <2>2. Rest.count # "moving" /\ Count(Enabled(Rest, TRUE), "none").mode = "busy"
    BY <1>19, <1>22 DEF Is
  <2>3. Count(Enabled(Rest, TRUE), "none") \in Written(Rest, CTRL(FALSE, FALSE, TRUE))
    BY <2>2 DEF Written, Wrote, CTRL
  <2>4. Resumed = Polled(Count(Enabled(Rest, TRUE), "none"))
    BY DEF Resumed
  <2> QED BY <1>20, <1>19, <1>25, <1>24, <2>1, <2>2, <2>3, <2>4, WriteLeads DEF Resume, M
<1>38. Rule(t, Resumed, await_done(M), Ended(Resumed))
  <2>1. PICK b : b = Closed(Resumed)
    OBVIOUS
  <2>2. Is(b, "polled", TRUE, REST, TRUE, 0, FALSE, FALSE, "steady", "none", "none")
    BY <1>24, <2>1, ClosedFields DEF Is
  <2>3. Is(Ended(b), "idle", TRUE, REST, FALSE, REST, TRUE, FALSE, "steady", "none", "none")
    BY <2>2, EndedFields DEF Is
  <2>4. Ended(b) = Ended(Resumed)
    BY <1>26, <2>3, IsSame
  <2> QED BY <1>25, <1>24, <1>27, <1>26, <2>1, <2>4, PollLeads DEF Is, M
<1>39. Leads(t, Counted, <<Counted, Started(Counted), Counting, Counting, Still, Source(Still,
        "steady"), Cut, Rest>>,
             <<start(M), Send(1), [kind |-> "until_consumed"], write(M, Stop), Edges(1),
                [kind |-> "split"], write(M, CTRL(FALSE, TRUE, FALSE)), Edges(1)>>, Rest)
  <2>1. <<Counted, Started(Counted), Counting, Counting, Still, Source(Still, "steady"), Cut,
          Rest>>[1] = Counted
    OBVIOUS
  <2> QED BY <1>28, <1>29, <1>30, <1>31, <1>32, <1>33, <1>34, <1>35, <2>1, Chain8 DEF Leads
<1>40. Leads(t, Rest, <<Rest, Rest>>, Zeros, Rest)
  <2>1. <<Rest, Rest>>[1] = Rest
    OBVIOUS
  <2> QED BY <1>20, <1>19, <2>1, ZerosChain DEF Leads, Is
<1>41. Leads(t, Rest, <<Rest, Rest, Resumed>>,
             <<[kind |-> "assert_split"], write(M, Resume), await_done(M)>>, Ended(Resumed))
  <2>1. <<Rest, Rest, Resumed>>[1] = Rest
    OBVIOUS
  <2> QED BY <1>36, <1>37, <1>38, <2>1, Chain3 DEF Leads
<1>42. Leads(t, Ended(Resumed), <<Ended(Resumed), Ended(Resumed)>>, Results(M, REST), Ended(Resumed))
  <2>1. <<Ended(Resumed), Ended(Resumed)>>[1] = Ended(Resumed)
    OBVIOUS
  <2> QED BY <1>27, <1>26, <2>1, ResultsChain DEF Leads, Is, M, REST
<1>43. Leads(t, Counted,
             <<Counted, Started(Counted), Counting, Counting, Still, Source(Still, "steady"), Cut,
                Rest>> \o <<Rest, Rest>>,
             <<start(M), Send(1), [kind |-> "until_consumed"], write(M, Stop), Edges(1),
                [kind |-> "split"], write(M, CTRL(FALSE, TRUE, FALSE)), Edges(1)>> \o Zeros,
             Rest)
  BY <1>39, <1>40, Joined
<1>44. Leads(t, Counted,
             <<Counted, Started(Counted), Counting, Counting, Still, Source(Still, "steady"), Cut,
                Rest>> \o <<Rest, Rest>> \o <<Rest, Rest, Resumed>>,
             <<start(M), Send(1), [kind |-> "until_consumed"], write(M, Stop), Edges(1),
                [kind |-> "split"], write(M, CTRL(FALSE, TRUE, FALSE)), Edges(1)>> \o Zeros
                \o <<[kind |-> "assert_split"], write(M, Resume), await_done(M)>>,
             Ended(Resumed))
  BY <1>43, <1>41, Joined
<1>45. Leads(t, Counted,
             <<Counted, Started(Counted), Counting, Counting, Still, Source(Still, "steady"), Cut,
                Rest>> \o <<Rest, Rest>> \o <<Rest, Rest, Resumed>>
                \o <<Ended(Resumed), Ended(Resumed)>>,
             <<start(M), Send(1), [kind |-> "until_consumed"], write(M, Stop), Edges(1),
                [kind |-> "split"], write(M, CTRL(FALSE, TRUE, FALSE)), Edges(1)>> \o Zeros
                \o <<[kind |-> "assert_split"], write(M, Resume), await_done(M)>> \o Results(M, REST),
             Ended(Resumed))
  BY <1>44, <1>42, Joined
<1> QED BY <1>45 DEF test_clear_mid_tile, OutlineOf


\* test_result_read_before_completion.
LEMMA ReadEarlyChain ==
    ASSUME NEW t, t = "result_read_before_completion", Lengths[t][2] > MAX_LAG + 1
    PROVE  Leads(t, Fresh, OutlineOf.result_read_before_completion,
                 test_result_read_before_completion, Whole)
<1>1. Is(Fresh, "idle", TRUE, 0, FALSE, 0, FALSE, FALSE, "free", "none", "none")
  BY FreshFields DEF Is
<1>2. Fresh \in Contexts /\ Plain(Fresh)
  BY <1>1, ShapeIsContext DEF Is, Plain
<1>3. Is(After(Fresh, 1), "idle", TRUE, 1, FALSE, 1, TRUE, FALSE, "free", "none", "none")
  BY <1>1, AfterIs, Zenon
<1>4. After(Fresh, 1) \in Contexts /\ Plain(After(Fresh, 1))
  BY <1>3, ShapeIsContext DEF Is, Plain
<1>5. Is(Stalling, "idle", TRUE, 1, FALSE, 1, TRUE, FALSE, "paused", "none", "none")
  BY <1>3, SourceFields DEF Is, Stalling
<1>6. Stalling \in Contexts /\ Plain(Stalling)
  BY <1>5, ShapeIsContext DEF Is, Plain
<1>7. Is(Started(Stalling), "busy", TRUE, 1, FALSE, 1, FALSE, FALSE, "paused", "none", "none")
  BY <1>5, StartedFields DEF Is
<1>8. Started(Stalling) \in Contexts /\ Plain(Started(Stalling))
  BY <1>7, ShapeIsContext DEF Is, Plain
<1>9. Is(Awaiting(Stalling, 2), "polled", TRUE, 2, TRUE, 1, FALSE, FALSE, "paused", "none", "none")
  BY <1>5, AwaitingIs, Zenon
<1>10. Awaiting(Stalling, 2) \in Contexts
  BY <1>9, ShapeIsContext DEF Is
<1>11. Is(First, "polled", TRUE, 2, TRUE, 1, FALSE, FALSE, "paused", "none", "first")
  BY <1>9, WatchFields DEF Is, First
<1>12. First \in Contexts
  BY <1>11, ShapeIsContext DEF Is
<1>13. Is(Watch(First, "none"), "polled", TRUE, 2, TRUE, 1, FALSE, FALSE, "paused", "none", "none")
  BY <1>11, WatchFields DEF Is
<1>14. Watch(First, "none") \in Contexts
  BY <1>13, ShapeIsContext DEF Is
<1>15. Is(Seen2, "polled", TRUE, 2, TRUE, 1, FALSE, FALSE, "paused", "none", "seen")
  BY <1>11, WatchFields DEF Is, Seen2
<1>16. Seen2 \in Contexts
  BY <1>15, ShapeIsContext DEF Is
<1>17. Is(Whole, "idle", TRUE, 2, FALSE, 2, TRUE, FALSE, "paused", "none", "seen")
  BY <1>15, EndedFields DEF Is, Whole
<1>18. Whole \in Contexts /\ Plain(Whole)
  BY <1>17, ShapeIsContext DEF Is, Plain
<1>19. Rule(t, After(Fresh, 1), Pauses, Stalling)
  <2>1. Pauses.kind = "pauses"
    BY DEF Pauses
  <2> QED BY <1>4, <1>3, <1>6, <1>5, <2>1 DEF Rule, NoteRule, Stalling
<1>20. Rule(t, Stalling, start(M), Started(Stalling))
  <2>1. MayWrite(Stalling, CTRL(TRUE, FALSE, TRUE))
    BY <1>5 DEF MayWrite, Is, CTRL
  <2>2. Started(Stalling) \in Written(Stalling, CTRL(TRUE, FALSE, TRUE))
    BY DEF Written, Wrote, CTRL
  <2> QED BY <1>6, <1>5, <1>8, <1>7, <2>1, <2>2, WriteLeads DEF start, Launch, M
<1>21. Rule(t, Started(Stalling), Send(2), First)
  <2>1. First = Watch(Polled(Sent(Started(Stalling), 2)), "first")
    BY DEF First, Awaiting
  <2> QED BY <1>8, <1>7, <1>12, <1>11, <2>1, SendLeads DEF Is
<1>22. Rule(t, First, Poll(M, {}, 4), Watch(First, "none"))
  <2>1. PICK op : op = Poll(M, {}, 4)
    OBVIOUS
  <2>2. op.kind = "poll" /\ op.awaits = {"ar", "r"} /\ op.addr = "STATUS"
        /\ op.lags = ReadLags("master") /\ op.body = 4 /\ op.asserts = {}
    BY <2>1 DEF Poll, M
  <2>3. First.mode = "polled" /\ First.count = "none" /\ First.watch = "first" /\ First.open = FALSE
    BY <1>11 DEF Is
  <2>4. PollRule(t, First, op, Watch(First, "none"))
    BY <2>2, <2>3 DEF PollRule
  <2> QED BY <1>12, <1>14, <2>1, <2>4 DEF Rule
<1>23. Rule(t, Watch(First, "none"), [kind |-> "saw_busy"], Seen2)
  <2>1. Is(Watch(Watch(First, "none"), "seen"), "polled", TRUE, 2, TRUE, 1, FALSE, FALSE, "paused",
          "none", "seen")
    BY <1>13, WatchFields DEF Is
  <2>2. Watch(Watch(First, "none"), "seen") = Seen2
    BY <1>15, <2>1, IsSame
  <2>3. Watch(First, "none").open = FALSE /\ Watch(First, "none").watch = "none"
    BY <1>13 DEF Is
  <2> QED BY <1>14, <1>16, <2>2, <2>3 DEF Rule, NoteRule
<1>24. Rule(t, Seen2, ReadResult(M, "ACC", 1), Seen2)
  <2>1. PICK op : op = ReadResult(M, "ACC", 1)
    OBVIOUS
  <2>2. op.kind = "read" /\ op.awaits = {"ar", "r"} /\ op.lags = ReadLags("master")
    BY <2>1 DEF ReadResult, Read, M
  <2>3. Racing(t, Seen2, op) /\ Seen2.open = FALSE /\ Seen2.watch # "first"
    BY <1>15, <2>1 DEF Racing, Is
  <2>4. ReadRule(t, Seen2, op, Seen2)
    BY <2>2, <2>3 DEF ReadRule
  <2> QED BY <1>16, <2>1, <2>4 DEF Rule
<1>25. Rule(t, Seen2, ReadResult(M, "SKIP", 1), Seen2)
  <2>1. PICK op : op = ReadResult(M, "SKIP", 1)
    OBVIOUS
  <2>2. op.kind = "read" /\ op.awaits = {"ar", "r"} /\ op.lags = ReadLags("master")
    BY <2>1 DEF ReadResult, Read, M
  <2>3. Racing(t, Seen2, op) /\ Seen2.open = FALSE /\ Seen2.watch # "first"
    BY <1>15, <2>1 DEF Racing, Is
  <2>4. ReadRule(t, Seen2, op, Seen2)
    BY <2>2, <2>3 DEF ReadRule
  <2> QED BY <1>16, <2>1, <2>4 DEF Rule
<1>26. Rule(t, Seen2, Loop(4), Whole)
  <2>1. Loop(4).kind = "loop" /\ Loop(4).back = 4
    BY DEF Loop
  <2> QED BY <1>16, <1>18, <2>1 DEF Rule, LoopRule
<1>27. Rule(t, Whole, [kind |-> "assert_saw"], Whole)
  BY <1>18, <1>17 DEF Rule, NoteRule, Is
<1>28. Leads(t, Fresh, tile_outline(Fresh, 1), run_tile(M, 1), After(Fresh, 1))
  BY <1>2, <1>1, TileLeads DEF Is
<1>29. Leads(t, After(Fresh, 1), <<After(Fresh, 1), Stalling, Started(Stalling), First,
        Watch(First, "none")>>,
             <<Pauses, start(M), Send(2), Poll(M, {}, 4), [kind |-> "saw_busy"]>>, Seen2)
  <2>1. <<After(Fresh, 1), Stalling, Started(Stalling), First, Watch(First,
          "none")>>[1] = After(Fresh, 1)
    OBVIOUS
  <2> QED BY <1>19, <1>20, <1>21, <1>22, <1>23, <2>1, Chain5 DEF Leads
<1>30. Leads(t, Seen2, <<Seen2, Seen2>>,
             <<ReadResult(M, "ACC", 1), ReadResult(M, "SKIP", 1)>>, Seen2)
  <2>1. <<Seen2, Seen2>>[1] = Seen2
    OBVIOUS
  <2> QED BY <1>24, <1>25, <2>1, Chain2 DEF Leads
<1>31. Leads(t, Seen2, <<Seen2, Seen2>>, Results(M, 1), Seen2)
  BY <1>30 DEF Results
<1>32. Leads(t, Seen2, <<Seen2, Whole>>,
             <<Loop(4), [kind |-> "assert_saw"]>>, Whole)
  <2>1. <<Seen2, Whole>>[1] = Seen2
    OBVIOUS
  <2> QED BY <1>26, <1>27, <2>1, Chain2 DEF Leads
<1>33. Leads(t, Whole, <<Whole, Whole>>, Results(M, 2), Whole)
  <2>1. <<Whole, Whole>>[1] = Whole
    OBVIOUS
  <2> QED BY <1>18, <1>17, <2>1, ResultsChain DEF Leads, Is, M
<1>34. Leads(t, Fresh,
             tile_outline(Fresh, 1)
                \o <<After(Fresh, 1), Stalling, Started(Stalling), First, Watch(First, "none")>>,
             run_tile(M, 1) \o <<Pauses, start(M), Send(2), Poll(M, {}, 4), [kind |-> "saw_busy"]>>,
             Seen2)
  BY <1>28, <1>29, Joined
<1>35. Leads(t, Fresh,
             tile_outline(Fresh, 1)
                \o <<After(Fresh, 1), Stalling, Started(Stalling), First, Watch(First, "none")>>
                \o <<Seen2, Seen2>>,
             run_tile(M, 1) \o <<Pauses, start(M), Send(2), Poll(M, {}, 4),
                [kind |-> "saw_busy"]>> \o Results(M, 1),
             Seen2)
  BY <1>34, <1>31, Joined
<1>36. Leads(t, Fresh,
             tile_outline(Fresh, 1)
                \o <<After(Fresh, 1), Stalling, Started(Stalling), First, Watch(First, "none")>>
                \o <<Seen2, Seen2>> \o <<Seen2, Whole>>,
             run_tile(M, 1) \o <<Pauses, start(M), Send(2), Poll(M, {}, 4),
                [kind |-> "saw_busy"]>> \o Results(M, 1) \o <<Loop(4), [kind |-> "assert_saw"]>>,
             Whole)
  BY <1>35, <1>32, Joined
<1>37. Leads(t, Fresh,
             tile_outline(Fresh, 1)
                \o <<After(Fresh, 1), Stalling, Started(Stalling), First, Watch(First, "none")>>
                \o <<Seen2, Seen2>> \o <<Seen2, Whole>> \o <<Whole, Whole>>,
             run_tile(M, 1) \o <<Pauses, start(M), Send(2), Poll(M, {}, 4),
                [kind |-> "saw_busy"]>> \o Results(M, 1) \o <<Loop(4), [kind |-> "assert_saw"]>>
                \o Results(M, 2),
             Whole)
  BY <1>36, <1>33, Joined
<1> QED BY <1>37 DEF test_result_read_before_completion, check_tile, OutlineOf

-----------------------------------------------------------------------------
(* Every test follows its outline.                                         *)

\* From where a test starts, resetting the accelerator leads back there.
LEMMA BringUp ==
    ASSUME NEW t, NEW c \in {Fresh, Counted}
    PROVE  Leads(t, c, <<c, c>>, bring_up, c) /\ c \in Contexts
<1>1. Fresh.count = "none" /\ Fresh \in Shapes
  BY FreshFields
<1>2. /\ Counted \in Shapes /\ Counted.count = "moving" /\ Counted.source = "free"
      /\ Counted.sent = FALSE /\ Counted.mode = "idle" /\ Counted.open = FALSE
      /\ Counted.watch = "none"
  BY FreshFields, CountFields DEF Counted
<1>3. Count(Fresh, "none") = Fresh
  BY <1>1, CountFields, SameFields
<1>4. c = Count(Fresh, c.count)
  BY <1>1, <1>2, <1>3 DEF Counted
<1>5. /\ c \in Shapes /\ c.source = "free" /\ c.sent = FALSE /\ c.mode = "idle"
      /\ c.open = FALSE /\ c.watch = "none" /\ c.count \in {"none", "moving"}
  BY <1>1, <1>2, FreshFields
<1>6. c \in Contexts /\ Plain(c)
  BY <1>5, ShapeIsContext DEF Plain
<1>7. Rule(t, c, ResetEdges, c)
  BY <1>4, <1>5, <1>6, ResetLeads
<1>8. Rule(t, c, Edges(1), c)
  BY <1>6, EdgesLeads
<1>9. Chain(t, <<c, c>>, <<ResetEdges, Edges(1)>>, c)
  BY <1>7, <1>8, Chain2
<1>10. <<c, c>>[1] = c
  OBVIOUS
<1> QED BY <1>6, <1>9, <1>10 DEF Leads, bring_up

\* Every test of the accelerator follows its outline.
LEMMA TestChain ==
    ASSUME NEW t \in Tests, t \notin PeTests
    PROVE  Leads(t, FirstOf(t), Outline(t), Scripts[t], EndOf[t])
<1> DEFINE Outlined == Leads(t, FirstOf(t), Outline(t), Scripts[t], EndOf[t])
<1> SUFFICES Outlined
  OBVIOUS
<1> HIDE DEF Outlined
<1>1. t \in DOMAIN Scripts
  BY TestAssumption
<1>2. ASSUME NEW s, Leads(t, FirstOf(t), OutlineOf[t], s, EndOf[t]), Scripts[t] = bring_up \o s
      PROVE  Outlined
  <2>1. FirstOf(t) \in {Fresh, Counted}
    BY DEF FirstOf
  <2>2. PICK c \in {Fresh, Counted} : c = FirstOf(t)
    BY <2>1
  <2>3. Leads(t, c, <<c, c>>, bring_up, c)
    BY BringUp
  <2>4. Leads(t, c, OutlineOf[t], s, EndOf[t])
    BY <1>2, <2>2
  <2>5. Leads(t, c, <<c, c>> \o OutlineOf[t], bring_up \o s, EndOf[t])
    BY <2>3, <2>4, Joined
  <2> QED BY <1>2, <2>2, <2>5 DEF Outline, Outlined
<1>3. FirstOf(t) = IF t = "clear_mid_tile" THEN Counted ELSE Fresh
  BY DEF FirstOf
<1>4. /\ Fresh \in Contexts /\ Fresh.mode = "idle" /\ Fresh.en = TRUE /\ Fresh.sent = FALSE
      /\ Fresh.open = FALSE /\ Fresh.count = "none" /\ Fresh.watch # "first"
  BY FreshFields, ShapeIsContext
<1>5. CASE t = "dense"
  <2>1. Leads(t, Fresh, tile_outline(Fresh, 1), run_tile(M, 1), After(Fresh, 1))
    BY <1>4, TileLeads
  <2>2. Leads(t, Fresh, OutlineOf[t], test_one_tile(1), EndOf[t])
    BY <1>5, <2>1 DEF OutlineOf, EndOf, test_one_tile, check_tile
  <2>3. Scripts[t] = bring_up \o test_one_tile(1)
    BY <1>5 DEF Scripts
  <2> QED BY <1>2, <1>3, <1>5, <2>2, <2>3
<1>6. CASE t = "sparse"
  <2>1. Leads(t, Fresh, tile_outline(Fresh, 1), run_tile(M, 1), After(Fresh, 1))
    BY <1>4, TileLeads
  <2>2. Leads(t, Fresh, OutlineOf[t], test_one_tile(1), EndOf[t])
    BY <1>6, <2>1 DEF OutlineOf, EndOf, test_one_tile, check_tile
  <2>3. Scripts[t] = bring_up \o test_one_tile(1)
    BY <1>6 DEF Scripts
  <2> QED BY <1>2, <1>3, <1>6, <2>2, <2>3
<1>7. CASE t = "all_zero"
  <2>1. Leads(t, Fresh, tile_outline(Fresh, 1), run_tile(M, 1), After(Fresh, 1))
    BY <1>4, TileLeads
  <2>2. Leads(t, Fresh, OutlineOf[t], test_one_tile(1), EndOf[t])
    BY <1>7, <2>1 DEF OutlineOf, EndOf, test_one_tile, check_tile
  <2>3. Scripts[t] = bring_up \o test_one_tile(1)
    BY <1>7 DEF Scripts
  <2> QED BY <1>2, <1>3, <1>7, <2>2, <2>3
<1>8. CASE t = "saturation_range"
  <2>1. Leads(t, Fresh, tile_outline(Fresh, 1), run_tile(M, 1), After(Fresh, 1))
    BY <1>4, TileLeads
  <2>2. Leads(t, Fresh, OutlineOf[t], test_one_tile(1), EndOf[t])
    BY <1>8, <2>1 DEF OutlineOf, EndOf, test_one_tile, check_tile
  <2>3. Scripts[t] = bring_up \o test_one_tile(1)
    BY <1>8 DEF Scripts
  <2> QED BY <1>2, <1>3, <1>8, <2>2, <2>3
<1>9. CASE t = "id_register"
  <2>2. Leads(t, Fresh, OutlineOf[t], test_id_register, EndOf[t])
    BY <1>9, IdChain DEF EndOf
  <2>3. Scripts[t] = bring_up \o test_id_register
    BY <1>9 DEF Scripts
  <2> QED BY <1>2, <1>3, <1>9, <2>2, <2>3
<1>10. CASE t = "register_map"
  <2>2. Leads(t, Fresh, OutlineOf[t], test_register_map, EndOf[t])
    BY <1>10, RegisterMapChain DEF EndOf
  <2>3. Scripts[t] = bring_up \o test_register_map
    BY <1>10 DEF Scripts
  <2> QED BY <1>2, <1>3, <1>10, <2>2, <2>3
<1>11. CASE t = "backpressure_from_source"
  <2>2. Leads(t, Fresh, OutlineOf[t], test_backpressure_from_source, EndOf[t])
    BY <1>11, SourceChain DEF EndOf
  <2>3. Scripts[t] = bring_up \o test_backpressure_from_source
    BY <1>11 DEF Scripts
  <2> QED BY <1>2, <1>3, <1>11, <2>2, <2>3
<1>12. CASE t = "backpressure_from_wrapper"
  <2>2. Leads(t, Fresh, OutlineOf[t], test_backpressure_from_wrapper, EndOf[t])
    BY <1>12, WrapperChain DEF EndOf
  <2>3. Scripts[t] = bring_up \o test_backpressure_from_wrapper
    BY <1>12 DEF Scripts
  <2> QED BY <1>2, <1>3, <1>12, <2>2, <2>3
<1>13. CASE t = "no_beats_before_start"
  <2>2. Leads(t, Fresh, OutlineOf[t], test_no_beats_before_start, EndOf[t])
    BY <1>13, NoBeatsChain DEF EndOf
  <2>3. Scripts[t] = bring_up \o test_no_beats_before_start
    BY <1>13 DEF Scripts
  <2> QED BY <1>2, <1>3, <1>13, <2>2, <2>3
<1>14. CASE t = "back_to_back_tiles"
  <2>2. Leads(t, Fresh, OutlineOf[t], test_back_to_back_tiles, EndOf[t])
    BY <1>14, BackToBackChain DEF EndOf
  <2>3. Scripts[t] = bring_up \o test_back_to_back_tiles
    BY <1>14 DEF Scripts
  <2> QED BY <1>2, <1>3, <1>14, <2>2, <2>3
<1>15. CASE t = "result_read_before_completion"
  <2>1. Lengths[t][2] > MAX_LAG + 1
    BY <1>15, PaceAssumption
  <2>2. Leads(t, Fresh, OutlineOf[t], test_result_read_before_completion, EndOf[t])
    BY <1>15, <2>1, ReadEarlyChain DEF EndOf
  <2>3. Scripts[t] = bring_up \o test_result_read_before_completion
    BY <1>15 DEF Scripts
  <2> QED BY <1>2, <1>3, <1>15, <2>2, <2>3
<1>16. CASE t = "status_never_reports_the_previous_tile"
  <2>2. Leads(t, Fresh, OutlineOf[t], test_status_never_reports_the_previous_tile, EndOf[t])
    BY <1>16, StatusChain DEF EndOf
  <2>3. Scripts[t] = bring_up \o test_status_never_reports_the_previous_tile
    BY <1>16 DEF Scripts
  <2> QED BY <1>2, <1>3, <1>16, <2>2, <2>3
<1>17. CASE t = "explicit_clear"
  <2>2. Leads(t, Fresh, OutlineOf[t], test_explicit_clear, EndOf[t])
    BY <1>17, ClearChain DEF EndOf
  <2>3. Scripts[t] = bring_up \o test_explicit_clear
    BY <1>17 DEF Scripts
  <2> QED BY <1>2, <1>3, <1>17, <2>2, <2>3
<1>18. CASE t = "clear_mid_tile"
  <2>2. Leads(t, Counted, OutlineOf[t], test_clear_mid_tile, EndOf[t])
    BY <1>18, ClearMidChain DEF EndOf
  <2>3. Scripts[t] = bring_up \o test_clear_mid_tile
    BY <1>18 DEF Scripts
  <2> QED BY <1>2, <1>3, <1>18, <2>2, <2>3
<1>19. CASE t = "reset_mid_stream"
  <2>2. Leads(t, Fresh, OutlineOf[t], test_reset_mid_stream, EndOf[t])
    BY <1>19, ResetChain DEF EndOf
  <2>3. Scripts[t] = bring_up \o test_reset_mid_stream
    BY <1>19 DEF Scripts
  <2> QED BY <1>2, <1>3, <1>19, <2>2, <2>3
<1>20. t \in {"dense", "sparse", "all_zero", "saturation_range", "id_register",
               "register_map", "backpressure_from_source", "backpressure_from_wrapper",
               "no_beats_before_start", "back_to_back_tiles",
               "result_read_before_completion", "status_never_reports_the_previous_tile",
               "explicit_clear", "clear_mid_tile", "reset_mid_stream"}
  BY <1>1 DEF Scripts, PeTests
<1> QED BY <1>5, <1>6, <1>7, <1>8, <1>9, <1>10, <1>11, <1>12, <1>13, <1>14, <1>15, <1>16, 
       <1>17, <1>18, <1>19, <1>20, Zenon

-----------------------------------------------------------------------------
(* Where a test is in its script                                           *)

\* Statement i of a test is one the outline's rules allow where the test reaches it.
LEMMA OnContext ==
    ASSUME NEW t \in Tests, t \notin PeTests
    PROVE  /\ Len(Scripts[t]) \in Nat \ {0} /\ DOMAIN Scripts[t] = 1 .. Len(Scripts[t])
           /\ Context(t, 1) = FirstOf(t)
           /\ \A i \in 1 .. Len(Scripts[t]) :
                 Rule(t, Context(t, i), Scripts[t][i], Context(t, i + 1))
<1>1. Chain(t, Outline(t), Scripts[t], EndOf[t]) /\ Outline(t)[1] = FirstOf(t)
  BY TestChain DEF Leads
<1>2. PICK S : Scripts[t] \in Seq(S)
  BY <1>1 DEF Chain
<1> DEFINE n == Len(Scripts[t])
<1>3. n \in Nat \ {0} /\ DOMAIN Scripts[t] = 1 .. n
  BY <1>1, <1>2 DEF Chain
<1>4. ASSUME NEW i \in 1 .. n
      PROVE  Rule(t, Outline(t)[i], Scripts[t][i], IF i = n THEN EndOf[t] ELSE Outline(t)[i + 1])
  BY <1>1 DEF Chain
<1> HIDE DEF n
<1>5. ASSUME NEW i \in 1 .. n
      PROVE  /\ Context(t, i) = Outline(t)[i]
             /\ Context(t, i + 1) = IF i = n THEN EndOf[t] ELSE Outline(t)[i + 1]
  <2>1. i <= n /\ (i + 1 <= n <=> i # n)
    BY <1>3
  <2> QED BY <2>1 DEF Context, n
<1>6. Context(t, 1) = FirstOf(t)
  <2>1. 1 \in 1 .. n
    BY <1>3
  <2> QED BY <1>1, <1>5, <2>1
<1>7. \A i \in 1 .. n : Rule(t, Context(t, i), Scripts[t][i], Context(t, i + 1))
  BY <1>4, <1>5
<1> QED BY <1>3, <1>6, <1>7 DEF n

Cat(s, r) == s \o r

\* What one sequence after another holds.
LEMMA CatIs ==
    ASSUME NEW S, NEW s \in Seq(S), NEW r \in Seq(S), NEW q, q = Cat(s, r)
    PROVE  /\ q \in Seq(S) /\ Len(q) = Len(s) + Len(r)
           /\ \A i \in 1 .. Len(s) + Len(r) :
                 q[i] = IF i <= Len(s) THEN s[i] ELSE r[i - Len(s)]
BY ConcatAt DEF Cat

\* Two lists, one after the other: what they are lists of,
LEMMA CatIn ==
    ASSUME NEW S, NEW s \in Seq(S), NEW r \in Seq(S)
    PROVE  Cat(s, r) \in Seq(S)
BY CatIs

\* how long it is,
LEMMA CatLen ==
    ASSUME NEW S, NEW s \in Seq(S), NEW r \in Seq(S)
    PROVE  Len(Cat(s, r)) = Len(s) + Len(r)
BY ConcatAt DEF Cat

\* its first part,
LEMMA CatHead ==
    ASSUME NEW S, NEW s \in Seq(S), NEW r \in Seq(S)
    PROVE  \A i \in 1 .. Len(s) : Cat(s, r)[i] = s[i]
<1> SUFFICES ASSUME NEW i \in 1 .. Len(s) PROVE Cat(s, r)[i] = s[i]
  OBVIOUS
<1>1. i \in 1 .. Len(s) + Len(r) /\ i <= Len(s)
  OBVIOUS
<1> QED BY <1>1, ConcatAt DEF Cat

\* and its second.
LEMMA CatTail ==
    ASSUME NEW S, NEW s \in Seq(S), NEW r \in Seq(S)
    PROVE  \A i \in 1 .. Len(r) : Cat(s, r)[Len(s) + i] = r[i]
<1> SUFFICES ASSUME NEW i \in 1 .. Len(r) PROVE Cat(s, r)[Len(s) + i] = r[i]
  OBVIOUS
<1>1. Len(s) + i \in 1 .. Len(s) + Len(r) /\ ~(Len(s) + i <= Len(s)) /\ (Len(s) + i) - Len(s) = i
  OBVIOUS
<1> QED BY <1>1, ConcatAt DEF Cat

\* A sequence put together as the script and the outline of
\* test_result_read_before_completion are.
Eighteen(a1, a2, b1, b2, b3, b4, b5, c1, c2, c3, c4, c5, d1, d2, e1, e2, f1, f2) ==
    <<a1, a2>> \o ((<<b1, b2, b3>> \o <<b4, b5>>) \o <<c1, c2, c3, c4, c5>>
                   \o <<d1, d2>> \o <<e1, e2>> \o <<f1, f2>>)

Are(s, a1, a2, b1, b2, b3, b4, b5, c1, c2, c3, c4, c5, d1, d2, e1, e2, f1, f2) ==
    /\ Len(s) = 18
    /\ s[1] = a1 /\ s[2] = a2 /\ s[3] = b1 /\ s[4] = b2 /\ s[5] = b3
    /\ s[6] = b4 /\ s[7] = b5 /\ s[8] = c1 /\ s[9] = c2 /\ s[10] = c3
    /\ s[11] = c4 /\ s[12] = c5 /\ s[13] = d1 /\ s[14] = d2 /\ s[15] = e1
    /\ s[16] = e2 /\ s[17] = f1 /\ s[18] = f2

\* A list of eighteen has them at their places.
LEMMA EighteenAt ==
    ASSUME NEW a1, NEW a2, NEW b1, NEW b2, NEW b3, NEW b4, NEW b5, NEW c1, NEW c2, NEW c3,
           NEW c4, NEW c5, NEW d1, NEW d2, NEW e1, NEW e2, NEW f1, NEW f2
    PROVE  Are(Eighteen(a1, a2, b1, b2, b3, b4, b5, c1, c2, c3, c4, c5, d1, d2, e1, e2, f1, f2),
               a1, a2, b1, b2, b3, b4, b5, c1, c2, c3, c4, c5, d1, d2, e1, e2, f1, f2)
<1> PICK s : s = Eighteen(a1, a2, b1, b2, b3, b4, b5, c1, c2, c3, c4, c5, d1, d2, e1, e2, f1, f2)
  OBVIOUS
<1> PICK S : /\ a1 \in S /\ a2 \in S /\ b1 \in S /\ b2 \in S /\ b3 \in S /\ b4 \in S /\ b5 \in S
             /\ c1 \in S /\ c2 \in S /\ c3 \in S /\ c4 \in S /\ c5 \in S
             /\ d1 \in S /\ d2 \in S /\ e1 \in S /\ e2 \in S /\ f1 \in S /\ f2 \in S
  <2>1. PICK S : S = {a1, a2, b1, b2, b3, b4, b5, c1, c2, c3, c4, c5, d1, d2, e1, e2, f1, f2}
    OBVIOUS
  <2> QED BY <2>1
<1>1. PICK a : a = <<a1, a2>>
  OBVIOUS
<1>2. a \in Seq(S) /\ Len(a) = 2 /\ a[1] = a1 /\ a[2] = a2
  BY <1>1
<1>3. PICK b : b = <<b1, b2, b3>>
  OBVIOUS
<1>4. b \in Seq(S) /\ Len(b) = 3 /\ b[1] = b1 /\ b[2] = b2 /\ b[3] = b3
  BY <1>3
<1>5. PICK g : g = <<b4, b5>>
  OBVIOUS
<1>6. g \in Seq(S) /\ Len(g) = 2 /\ g[1] = b4 /\ g[2] = b5
  BY <1>5
<1>7. PICK c : c = <<c1, c2, c3, c4, c5>>
  OBVIOUS
<1>8. c \in Seq(S) /\ Len(c) = 5 /\ c[1] = c1 /\ c[2] = c2 /\ c[3] = c3 /\ c[4] = c4 /\ c[5] = c5
  BY <1>7
<1>9. PICK d : d = <<d1, d2>>
  OBVIOUS
<1>10. d \in Seq(S) /\ Len(d) = 2 /\ d[1] = d1 /\ d[2] = d2
  BY <1>9
<1>11. PICK e : e = <<e1, e2>>
  OBVIOUS
<1>12. e \in Seq(S) /\ Len(e) = 2 /\ e[1] = e1 /\ e[2] = e2
  BY <1>11
<1>13. PICK f : f = <<f1, f2>>
  OBVIOUS
<1>14. f \in Seq(S) /\ Len(f) = 2 /\ f[1] = f1 /\ f[2] = f2
  BY <1>13
<1>15. PICK u : u = Cat(b, g)
  OBVIOUS
<1>16. /\ u \in Seq(S) /\ Len(u) = Len(b) + Len(g)
       /\ \A i \in 1 .. Len(b) : u[i] = b[i]
       /\ \A i \in 1 .. Len(g) : u[Len(b) + i] = g[i]
  <2>1. b \in Seq(S) /\ g \in Seq(S)
    BY <1>4, <1>6
  <2>2. Cat(b, g) \in Seq(S)
    BY <2>1, CatIn, Zenon
  <2>3. Len(Cat(b, g)) = Len(b) + Len(g)
    BY <2>1, CatLen, Zenon
  <2>4. \A i \in 1 .. Len(b) : Cat(b, g)[i] = b[i]
    BY <2>1, CatHead, Zenon
  <2>5. \A i \in 1 .. Len(g) : Cat(b, g)[Len(b) + i] = g[i]
    BY <2>1, CatTail, Zenon
  <2> QED BY <1>15, <2>2, <2>3, <2>4, <2>5
<1>17. PICK v : v = Cat(u, c)
  OBVIOUS
<1>18. /\ v \in Seq(S) /\ Len(v) = Len(u) + Len(c)
       /\ \A i \in 1 .. Len(u) : v[i] = u[i]
       /\ \A i \in 1 .. Len(c) : v[Len(u) + i] = c[i]
  <2>1. u \in Seq(S) /\ c \in Seq(S)
    BY <1>16, <1>8
  <2>2. Cat(u, c) \in Seq(S)
    BY <2>1, CatIn, Zenon
  <2>3. Len(Cat(u, c)) = Len(u) + Len(c)
    BY <2>1, CatLen, Zenon
  <2>4. \A i \in 1 .. Len(u) : Cat(u, c)[i] = u[i]
    BY <2>1, CatHead, Zenon
  <2>5. \A i \in 1 .. Len(c) : Cat(u, c)[Len(u) + i] = c[i]
    BY <2>1, CatTail, Zenon
  <2> QED BY <1>17, <2>2, <2>3, <2>4, <2>5
<1>19. PICK w : w = Cat(v, d)
  OBVIOUS
<1>20. /\ w \in Seq(S) /\ Len(w) = Len(v) + Len(d)
       /\ \A i \in 1 .. Len(v) : w[i] = v[i]
       /\ \A i \in 1 .. Len(d) : w[Len(v) + i] = d[i]
  <2>1. v \in Seq(S) /\ d \in Seq(S)
    BY <1>18, <1>10
  <2>2. Cat(v, d) \in Seq(S)
    BY <2>1, CatIn, Zenon
  <2>3. Len(Cat(v, d)) = Len(v) + Len(d)
    BY <2>1, CatLen, Zenon
  <2>4. \A i \in 1 .. Len(v) : Cat(v, d)[i] = v[i]
    BY <2>1, CatHead, Zenon
  <2>5. \A i \in 1 .. Len(d) : Cat(v, d)[Len(v) + i] = d[i]
    BY <2>1, CatTail, Zenon
  <2> QED BY <1>19, <2>2, <2>3, <2>4, <2>5
<1>21. PICK x : x = Cat(w, e)
  OBVIOUS
<1>22. /\ x \in Seq(S) /\ Len(x) = Len(w) + Len(e)
       /\ \A i \in 1 .. Len(w) : x[i] = w[i]
       /\ \A i \in 1 .. Len(e) : x[Len(w) + i] = e[i]
  <2>1. w \in Seq(S) /\ e \in Seq(S)
    BY <1>20, <1>12
  <2>2. Cat(w, e) \in Seq(S)
    BY <2>1, CatIn, Zenon
  <2>3. Len(Cat(w, e)) = Len(w) + Len(e)
    BY <2>1, CatLen, Zenon
  <2>4. \A i \in 1 .. Len(w) : Cat(w, e)[i] = w[i]
    BY <2>1, CatHead, Zenon
  <2>5. \A i \in 1 .. Len(e) : Cat(w, e)[Len(w) + i] = e[i]
    BY <2>1, CatTail, Zenon
  <2> QED BY <1>21, <2>2, <2>3, <2>4, <2>5
<1>23. PICK y : y = Cat(x, f)
  OBVIOUS
<1>24. /\ y \in Seq(S) /\ Len(y) = Len(x) + Len(f)
       /\ \A i \in 1 .. Len(x) : y[i] = x[i]
       /\ \A i \in 1 .. Len(f) : y[Len(x) + i] = f[i]
  <2>1. x \in Seq(S) /\ f \in Seq(S)
    BY <1>22, <1>14
  <2>2. Cat(x, f) \in Seq(S)
    BY <2>1, CatIn, Zenon
  <2>3. Len(Cat(x, f)) = Len(x) + Len(f)
    BY <2>1, CatLen, Zenon
  <2>4. \A i \in 1 .. Len(x) : Cat(x, f)[i] = x[i]
    BY <2>1, CatHead, Zenon
  <2>5. \A i \in 1 .. Len(f) : Cat(x, f)[Len(x) + i] = f[i]
    BY <2>1, CatTail, Zenon
  <2> QED BY <1>23, <2>2, <2>3, <2>4, <2>5
<1>25. s = Cat(a, y)
  BY <1>1, <1>3, <1>5, <1>7, <1>9, <1>11, <1>13, <1>15, <1>17, <1>19, <1>21, <1>23 DEF Cat, Eighteen
<1>26. /\ s \in Seq(S) /\ Len(s) = Len(a) + Len(y)
       /\ \A i \in 1 .. Len(a) : s[i] = a[i]
       /\ \A i \in 1 .. Len(y) : s[Len(a) + i] = y[i]
  <2>1. a \in Seq(S) /\ y \in Seq(S)
    BY <1>2, <1>24
  <2>2. Cat(a, y) \in Seq(S)
    BY <2>1, CatIn, Zenon
  <2>3. Len(Cat(a, y)) = Len(a) + Len(y)
    BY <2>1, CatLen, Zenon
  <2>4. \A i \in 1 .. Len(a) : Cat(a, y)[i] = a[i]
    BY <2>1, CatHead, Zenon
  <2>5. \A i \in 1 .. Len(y) : Cat(a, y)[Len(a) + i] = y[i]
    BY <2>1, CatTail, Zenon
  <2> QED BY <1>25, <2>2, <2>3, <2>4, <2>5
<1>27. /\ u \in Seq(S) /\ Len(u) = 5
         /\ u[1] = b1 /\ u[2] = b2 /\ u[3] = b3 /\ u[4] = b4 /\ u[5] = b5
  <2>1. \A i \in 1 .. 3 : u[i] = b[i]
    BY <1>4, <1>16
  <2>2. \A i \in 1 .. 2 : u[3 + i] = g[i]
    BY <1>4, <1>6, <1>16
  <2> QED BY <1>4, <1>6, <1>16, <2>1, <2>2
<1>28. /\ v \in Seq(S) /\ Len(v) = 10
         /\ v[1] = b1 /\ v[2] = b2 /\ v[3] = b3 /\ v[4] = b4 /\ v[5] = b5 /\ v[6] = c1
         /\ v[7] = c2 /\ v[8] = c3 /\ v[9] = c4 /\ v[10] = c5
  <2>1. \A i \in 1 .. 5 : v[i] = u[i]
    BY <1>27, <1>18
  <2>2. \A i \in 1 .. 5 : v[5 + i] = c[i]
    BY <1>27, <1>8, <1>18
  <2> QED BY <1>27, <1>8, <1>18, <2>1, <2>2
<1>29. /\ w \in Seq(S) /\ Len(w) = 12
         /\ w[1] = b1 /\ w[2] = b2 /\ w[3] = b3 /\ w[4] = b4 /\ w[5] = b5 /\ w[6] = c1
         /\ w[7] = c2 /\ w[8] = c3 /\ w[9] = c4 /\ w[10] = c5 /\ w[11] = d1 /\ w[12] = d2
  <2>1. \A i \in 1 .. 10 : w[i] = v[i]
    BY <1>28, <1>20
  <2>2. \A i \in 1 .. 2 : w[10 + i] = d[i]
    BY <1>28, <1>10, <1>20
  <2> QED BY <1>28, <1>10, <1>20, <2>1, <2>2
<1>30. /\ x \in Seq(S) /\ Len(x) = 14
         /\ x[1] = b1 /\ x[2] = b2 /\ x[3] = b3 /\ x[4] = b4 /\ x[5] = b5 /\ x[6] = c1
         /\ x[7] = c2 /\ x[8] = c3 /\ x[9] = c4 /\ x[10] = c5 /\ x[11] = d1 /\ x[12] = d2
         /\ x[13] = e1 /\ x[14] = e2
  <2>1. \A i \in 1 .. 12 : x[i] = w[i]
    BY <1>29, <1>22
  <2>2. \A i \in 1 .. 2 : x[12 + i] = e[i]
    BY <1>29, <1>12, <1>22
  <2> QED BY <1>29, <1>12, <1>22, <2>1, <2>2
<1>31. /\ y \in Seq(S) /\ Len(y) = 16
         /\ y[1] = b1 /\ y[2] = b2 /\ y[3] = b3 /\ y[4] = b4 /\ y[5] = b5 /\ y[6] = c1
         /\ y[7] = c2 /\ y[8] = c3 /\ y[9] = c4 /\ y[10] = c5 /\ y[11] = d1 /\ y[12] = d2
         /\ y[13] = e1 /\ y[14] = e2 /\ y[15] = f1 /\ y[16] = f2
  <2>1. \A i \in 1 .. 14 : y[i] = x[i]
    BY <1>30, <1>24
  <2>2. \A i \in 1 .. 2 : y[14 + i] = f[i]
    BY <1>30, <1>14, <1>24
  <2> QED BY <1>30, <1>14, <1>24, <2>1, <2>2
<1>32. /\ s \in Seq(S) /\ Len(s) = 18
         /\ s[1] = a1 /\ s[2] = a2 /\ s[3] = b1 /\ s[4] = b2 /\ s[5] = b3 /\ s[6] = b4
         /\ s[7] = b5 /\ s[8] = c1 /\ s[9] = c2 /\ s[10] = c3 /\ s[11] = c4 /\ s[12] = c5
         /\ s[13] = d1 /\ s[14] = d2 /\ s[15] = e1 /\ s[16] = e2 /\ s[17] = f1 /\ s[18] = f2
  <2>1. \A i \in 1 .. 2 : s[i] = a[i]
    BY <1>2, <1>26
  <2>2. \A i \in 1 .. 16 : s[2 + i] = y[i]
    BY <1>2, <1>31, <1>26
  <2> QED BY <1>2, <1>31, <1>26, <2>1, <2>2
<1> HIDE DEF Eighteen
<1>33. Are(s, a1, a2, b1, b2, b3, b4, b5, c1, c2, c3, c4, c5, d1, d2, e1, e2, f1, f2)
  BY <1>32 DEF Are
<1> QED BY <1>33

\* The loop of test_result_read_before_completion: the poll that may leave it,
\* its end, and what follows it.
LEMMA RaceScript ==
    ASSUME NEW t, t = "result_read_before_completion"
    PROVE  /\ Len(Scripts[t]) = 18
           /\ \A i \in 1 .. 18 : LET op == Scripts[t][i] IN
                 /\ op.kind = "poll" /\ op.body = 4 => i = 11
                 /\ op.kind = "loop" => i = 15
           /\ Context(t, 11) = First /\ Context(t, 16) = Ended(Watch(First, "seen"))
<1> DEFINE rows == test_result_read_before_completion
           poll == Poll(M, {}, 4)
           acc(k) == ReadResult(M, "ACC", k)
           skip(k) == ReadResult(M, "SKIP", k)
<1>1. Scripts[t] = bring_up \o rows
  BY DEF Scripts
<1>3. PICK s : s = Scripts[t]
  OBVIOUS
<1>4. s = Eighteen(ResetEdges, Edges(1), start(M), Send(1), await_done(M), acc(1), skip(1),
                   Pauses, start(M), Send(2), poll, [kind |-> "saw_busy"],
                   acc(1), skip(1), Loop(4), [kind |-> "assert_saw"], acc(2), skip(2))
  BY <1>1, <1>3, Zenon DEF bring_up, test_result_read_before_completion, check_tile, run_tile,
                           Results, Eighteen
<1> HIDE DEF rows, poll, acc, skip
<1>5. /\ Len(s) = 18
      /\ s[1] = ResetEdges /\ s[2] = Edges(1) /\ s[3] = start(M) /\ s[4] = Send(1)
      /\ s[5] = await_done(M) /\ s[6] = acc(1) /\ s[7] = skip(1) /\ s[8] = Pauses
      /\ s[9] = start(M) /\ s[10] = Send(2) /\ s[11] = poll
      /\ s[12] = [kind |-> "saw_busy"] /\ s[13] = acc(1) /\ s[14] = skip(1)
      /\ s[15] = Loop(4) /\ s[16] = [kind |-> "assert_saw"]
      /\ s[17] = acc(2) /\ s[18] = skip(2)
  <2>1. Are(s, ResetEdges, Edges(1), start(M), Send(1), await_done(M), acc(1), skip(1),
            Pauses, start(M), Send(2), poll, [kind |-> "saw_busy"],
            acc(1), skip(1), Loop(4), [kind |-> "assert_saw"], acc(2), skip(2))
    BY <1>4, EighteenAt, Zenon
  <2> QED BY <2>1, Zenon DEF Are
<1>6. /\ ResetEdges.kind = "reset" /\ Edges(1).kind = "edges" /\ start(M).kind = "write"
      /\ Send(1).kind = "send" /\ Send(2).kind = "send" /\ Pauses.kind = "pauses"
      /\ await_done(M).kind = "poll" /\ await_done(M).body = 0
      /\ Loop(4).kind = "loop" /\ poll.kind = "poll"
  BY DEF ResetEdges, Edges, start, write, Write, Send, Pauses, await_done, Poll, Loop, poll
<1>7. /\ acc(1).kind = "read" /\ acc(2).kind = "read"
      /\ skip(1).kind = "read" /\ skip(2).kind = "read"
  BY DEF acc, skip, ReadResult, Read
<1>8. /\ [kind |-> "saw_busy"].kind = "saw_busy" /\ [kind |-> "assert_saw"].kind = "assert_saw"
  OBVIOUS
<1>9. ASSUME NEW i \in 1 .. 18
      PROVE  /\ s[i].kind = "poll" /\ s[i].body = 4 => i = 11
             /\ s[i].kind = "loop" => i = 15
  <2>1. /\ s[1].kind = "reset" /\ s[2].kind = "edges" /\ s[3].kind = "write" /\ s[4].kind = "send"
        /\ s[5].body = 0 /\ s[5].kind = "poll" /\ s[6].kind = "read" /\ s[7].kind = "read"
        /\ s[8].kind = "pauses" /\ s[9].kind = "write" /\ s[10].kind = "send"
        /\ s[11].kind = "poll" /\ s[12].kind = "saw_busy" /\ s[13].kind = "read"
        /\ s[14].kind = "read" /\ s[15].kind = "loop" /\ s[16].kind = "assert_saw"
        /\ s[17].kind = "read" /\ s[18].kind = "read"
    BY <1>5, <1>6, <1>7, <1>8
  <2>2. i \in {1, 2, 3, 4, 5, 6, 7, 8, 9, 10, 11, 12, 13, 14, 15, 16, 17, 18}
    OBVIOUS
  <2> QED BY <2>1, <2>2
<1>10. PICK o : o = Outline(t)
  OBVIOUS
<1>11. PICK A : A = After(Fresh, 1)
  OBVIOUS
<1>12. PICK N : N = Watch(First, "none")
  OBVIOUS
<1>13. o = Eighteen(Fresh, Fresh, Fresh, Started(Fresh), Awaiting(Fresh, 1), A, A,
                    A, Stalling, Started(Stalling), First, N,
                    Seen2, Seen2, Seen2, Whole, Whole, Whole)
  <2>1. FirstOf(t) = Fresh
    BY DEF FirstOf
  <2>2. OutlineOf[t] = tile_outline(Fresh, 1)
            \o <<After(Fresh, 1), Stalling, Started(Stalling), First, Watch(First, "none")>>
            \o <<Seen2, Seen2>> \o <<Seen2, Whole>> \o <<Whole, Whole>>
    BY DEF OutlineOf
  <2> QED BY <1>10, <1>11, <1>12, <2>1, <2>2, Zenon DEF Outline, tile_outline, Eighteen
<1>15. o[11] = First /\ o[16] = Whole
  <2>1. Are(o, Fresh, Fresh, Fresh, Started(Fresh), Awaiting(Fresh, 1), A, A,
            A, Stalling, Started(Stalling), First, N,
            Seen2, Seen2, Seen2, Whole, Whole, Whole)
    BY <1>13, EighteenAt, Zenon
  <2> QED BY <2>1, Zenon DEF Are
<1>16. Context(t, 11) = o[11] /\ Context(t, 16) = o[16]
  BY <1>3, <1>5, <1>10 DEF Context
<1>17. Whole = Ended(Watch(First, "seen"))
  BY DEF Whole, Seen2
<1> QED BY <1>3, <1>5, <1>9, <1>15, <1>16, <1>17

\* What the outline says of the statement a test has reached.
LEMMA OnStatement ==
    ASSUME BenchTypes, test \notin PeTests, at \in 1 .. Len(Script)
    PROVE  /\ Rule(test, Here, Op, There) /\ Fits(Op)
           /\ Op.kind = "send" => Op.tile \in DOMAIN Lengths[test]
           /\ at + 1 \in 1 .. Len(Script) + 1 /\ at \in Nat
<1>1. test \in Tests /\ DOMAIN tiles = DOMAIN Lengths[test]
  <2>1. test \in Tests /\ tiles \in [1 .. Len(Lengths[test]) -> Seq(Pe!Pair)]
    BY DEF BenchTypes
  <2>2. Lengths[test] \in Seq(Nat \ {0})
    BY <2>1, BenchAssumption
  <2> QED BY <2>1, <2>2
<1>2. /\ Len(Scripts[test]) \in Nat \ {0} /\ DOMAIN Scripts[test] = 1 .. Len(Scripts[test])
      /\ \A i \in 1 .. Len(Scripts[test]) :
            Rule(test, Context(test, i), Scripts[test][i], Context(test, i + 1))
  BY <1>1, OnContext
<1>3. at \in 1 .. Len(Scripts[test]) /\ at \in DOMAIN Scripts[test]
  BY <1>2 DEF Script
<1>4. Rule(test, Here, Op, There)
  BY <1>2, <1>3, Zenon DEF Here, There, Op, Script
<1>5. LET op == Scripts[test][at] IN
        /\ op.kind = "send" => op.tile \in DOMAIN Lengths[test]
        /\ op.kind = "read" => IF op.of = REST THEN 1 \in DOMAIN Lengths[test]
                               ELSE op.of \in {0} \union DOMAIN Lengths[test]
  BY <1>1, <1>3, TestAssumption, Zenon
<1>6. Fits(Op)
  BY <1>1, <1>5 DEF Fits, Op, Script
<1>7. Op.kind = "send" => Op.tile \in DOMAIN Lengths[test]
  BY <1>5 DEF Op, Script
<1> QED BY <1>2, <1>3, <1>4, <1>6, <1>7 DEF Script

\* From the statement it has reached, a test stays on the outline.
LEMMA OnwardOnOutline ==
    ASSUME test \in Tests, test \notin PeTests, at \in 1 .. Len(Script), test' = test,
           Rule(test, Here, Op, There),
           Onward(Here, Op, There) \/ (LoopRule(test, Here, Op) /\ Back(Op))
    PROVE  failed' = FALSE /\ OnOutline'
<1>1. PICK t : t = test
  OBVIOUS
<1>2. PICK n : n = at
  OBVIOUS
<1>3. /\ n \in 1 .. Len(Scripts[t]) /\ Len(Scripts[t]) \in Nat \ {0}
      /\ n + 1 \in 1 .. Len(Scripts[t]) + 1
  BY <1>1, <1>2, OnContext DEF Script
<1>4. Here = Context(t, n) /\ There = Context(t, n + 1) /\ Op = Scripts[t][n]
  BY <1>1, <1>2 DEF Here, There, Op, Script
<1>5. Len(Script)' = Len(Scripts[t])
  BY <1>1 DEF Script
<1>6. ASSUME NEW m \in 1 .. Len(Scripts[t]) + 1, at' = m, begun' = FALSE,
             Between(Context(t, m))'
      PROVE  OnOutline'
  <2>1. Here' = Context(t, m)
    BY <1>1, <1>6 DEF Here
  <2>2. Between(Here)'
    BY <1>6, <2>1
  <2> QED BY <1>5, <1>6, <2>2 DEF OnOutline
<1>7. CASE LoopRule(test, Here, Op) /\ Back(Op)
  <2>1. /\ t = "result_read_before_completion" /\ Scripts[t][n].kind = "loop"
        /\ failed' = FALSE /\ at' = n - 4 /\ begun' = FALSE /\ Between(First)'
    BY <1>1, <1>2, <1>4, <1>7 DEF LoopRule, Back
  <2>2. /\ Len(Scripts[t]) = 18 /\ Context(t, 11) = First
        /\ \A i \in 1 .. 18 : Scripts[t][i].kind = "loop" => i = 15
    BY <2>1, RaceScript
  <2>3. n = 15
    BY <1>3, <2>1, <2>2
  <2>4. at' = 11 /\ 11 \in 1 .. Len(Scripts[t]) + 1
    BY <2>1, <2>2, <2>3
  <2>5. Between(Context(t, 11))'
    BY <2>1, <2>2
  <2> QED BY <1>6, <2>1, <2>4, <2>5
<1>8. CASE Onward(Here, Op, There)
  <2>1. Onward(Context(t, n), Scripts[t][n], Context(t, n + 1)) /\ failed' = FALSE
    <3>1. Onward(Context(t, n), Scripts[t][n], Context(t, n + 1))
      BY <1>4, <1>8
    <3>2. failed' = FALSE
      BY <1>8 DEF Onward
    <3> QED BY <3>1, <3>2
  <2>2. CASE at' = n /\ begun' = TRUE
             /\ During(Context(t, n), Scripts[t][n], Context(t, n + 1))'
    <3>1. Here' = Context(t, n) /\ There' = Context(t, n + 1) /\ Op' = Scripts[t][n]
      BY <1>1, <2>2 DEF Here, There, Op, Script
    <3>2. During(Here, Op, There)'
      BY <2>2, <3>1
    <3>3. at' \in 1 .. Len(Script)' + 1 /\ at' <= Len(Script)'
      BY <1>3, <1>5, <2>2
    <3> QED BY <2>1, <2>2, <3>2, <3>3 DEF OnOutline
  <2>3. CASE at' = n /\ begun' = FALSE /\ Between(Context(t, n))'
    <3>1. n \in 1 .. Len(Scripts[t]) + 1
      BY <1>3
    <3> QED BY <1>6, <2>1, <2>3, <3>1
  <2>4. CASE at' = n + 1 /\ begun' = FALSE /\ Between(Context(t, n + 1))'
    BY <1>3, <1>6, <2>1, <2>4
  <2>5. CASE /\ Scripts[t][n].kind = "poll" /\ Scripts[t][n].body = 4
             /\ Context(t, n).watch = "first"
             /\ at' = n + 5 /\ begun' = FALSE
             /\ Between(Ended(Watch(Context(t, n), "seen")))'
    <3>1. t = "result_read_before_completion"
      <4>1. Rule(t, Context(t, n), Scripts[t][n], Context(t, n + 1))
        BY <1>1, <1>4
      <4> QED BY <2>5, <4>1 DEF Rule, PollRule, ResetRule, EdgesRule, UntilRule, ReadRule,
                  LoopRule, WriteRule, RaceRule, SendRule, NoteRule
    <3>2. /\ Len(Scripts[t]) = 18 /\ Context(t, 11) = First
          /\ Context(t, 16) = Ended(Watch(First, "seen"))
          /\ \A i \in 1 .. 18 :
                Scripts[t][i].kind = "poll" /\ Scripts[t][i].body = 4 => i = 11
      BY <3>1, RaceScript
    <3>3. n = 11
      BY <1>3, <2>5, <3>2
    <3>4. at' = 16 /\ 16 \in 1 .. Len(Scripts[t]) + 1
      BY <2>5, <3>2, <3>3
    <3>5. Between(Context(t, 16))'
      BY <2>5, <3>2, <3>3
    <3> QED BY <1>6, <2>1, <2>5, <3>4, <3>5
  <2> QED BY <1>2, <2>1, <2>2, <2>3, <2>4, <2>5 DEF Onward
<1> QED BY <1>7, <1>8

-----------------------------------------------------------------------------
(* The tests of the bare processing element                                *)

\* Reset, a stream of pairs and, in one of them, a clear.
LEMMA PeScript ==
    ASSUME NEW t \in PeTests
    PROVE  /\ Len(Scripts[t]) \in {2, 3}
           /\ Scripts[t][1].kind = "pe_reset" /\ Scripts[t][2].kind = "pe_stream"
           /\ Len(Scripts[t]) = 3 => Scripts[t][3].kind = "pe_clear"
           /\ DOMAIN Scripts[t] = 1 .. Len(Scripts[t])
<1>1. Scripts[t] \in {check_stream, check_stream \o <<clear_acc>>}
  <2>1. /\ Scripts["pe_dense"] = check_stream /\ Scripts["pe_sparse"] = check_stream
        /\ Scripts["pe_all_zero"] = check_stream
        /\ Scripts["pe_saturation_range"] = check_stream
        /\ Scripts["pe_clear_acc"] = check_stream \o <<clear_acc>>
    BY DEF Scripts
  <2> QED BY <2>1 DEF PeTests
<1>2. reset_dut.kind = "pe_reset" /\ run_stream.kind = "pe_stream" /\ clear_acc.kind = "pe_clear"
  BY DEF reset_dut, run_stream, clear_acc
<1>3. PICK a : a = reset_dut
  OBVIOUS
<1>4. PICK b : b = run_stream
  OBVIOUS
<1>5. PICK c : c = clear_acc
  OBVIOUS
<1>6. PICK S : S = {a, b, c}
  OBVIOUS
<1>7. PICK s : s = <<a, b>>
  OBVIOUS
<1>8. s \in Seq(S) /\ Len(s) = 2 /\ s[1] = a /\ s[2] = b /\ DOMAIN s = 1 .. 2
  BY <1>6, <1>7
<1>9. PICK r : r = <<c>>
  OBVIOUS
<1>10. r \in Seq(S) /\ Len(r) = 1 /\ r[1] = c
  BY <1>6, <1>9
<1>11. /\ s \o r \in Seq(S) /\ Len(s \o r) = 3 /\ (s \o r)[1] = a /\ (s \o r)[2] = b
       /\ (s \o r)[3] = c
  <2>1. /\ s \o r \in Seq(S) /\ Len(s \o r) = Len(s) + Len(r)
        /\ \A i \in 1 .. Len(s) + Len(r) :
              (s \o r)[i] = IF i <= Len(s) THEN s[i] ELSE r[i - Len(s)]
    BY <1>8, <1>10, ConcatAt
  <2> QED BY <1>8, <1>10, <2>1
<1>12. DOMAIN (s \o r) = 1 .. 3
  BY <1>11
<1>13. Scripts[t] = s \/ Scripts[t] = s \o r
  BY <1>1, <1>3, <1>4, <1>5, <1>7, <1>9 DEF check_stream
<1> QED BY <1>2, <1>3, <1>4, <1>5, <1>8, <1>11, <1>12, <1>13

\* What the registers of the PE can show of a tile is of their widths.
LEMMA ExpectedInRange ==
    ASSUME NEW t \in Seq(Pe!Pair)
    PROVE  /\ Pe!Expected(t).acc \in SignedRange(ACC_W)
           /\ Pe!Expected(t).skip \in 0 .. 2^SKIP_W - 1
<1>1. ACC_W \in Nat \ {0} /\ SKIP_W \in Nat
  BY Widths
<1>2. Pe!Golden(t).acc \in Int /\ Pe!Golden(t).skip \in Int
  BY GoldenType DEF Totals
<1>3. /\ Signed(Pe!Golden(t).acc, ACC_W) \in SignedRange(ACC_W)
      /\ Unsigned(Pe!Golden(t).skip, SKIP_W) \in 0 .. 2^SKIP_W - 1
  BY <1>1, <1>2, SignedInRange, UnsignedInRange
<1> QED BY <1>3 DEF Pe!Expected, Signed, Pe!Signed, Unsigned, Pe!Unsigned

\* A tile that fits the registers is shown as it is.
LEMMA ExpectedIsGolden ==
    ASSUME BenchTypes, 1 \in DOMAIN tiles
    PROVE  Pe!Expected(tiles[1]) = [acc |-> Pe!Golden(tiles[1]).acc,
                                    skip |-> Pe!Golden(tiles[1]).skip]
<1> DEFINE g == Pe!Golden(tiles[1])
<1>1. g.acc \in SignedRange(ACC_W) /\ g.skip \in 0 .. 2^SKIP_W - 1
  <2>1. Result(1) = tiles[1]
    BY DEF Result, REST
  <2> QED BY <2>1, ResultFits
<1>2. ACC_W \in Nat \ {0} /\ SKIP_W \in Nat
  BY Widths
<1> HIDE DEF g
<1>3. Signed(g.acc, ACC_W) = g.acc
  BY <1>1, <1>2, SignedOfRange
<1>4. Unsigned(g.skip, SKIP_W) = g.skip
  <2>1. 2^SKIP_W \in Nat /\ 2^SKIP_W > 0
    BY <1>2, PowPositive
  <2>2. \A S \in Nat : \A x \in 0 .. S - 1 : x % S = x
    OBVIOUS
  <2>3. g.skip % 2^SKIP_W = g.skip
    BY <1>1, <2>1, <2>2
  <2> QED BY <2>3 DEF Unsigned
<1> QED BY <1>3, <1>4 DEF g, Pe!Expected, Signed, Pe!Signed, Unsigned, Pe!Unsigned

\* One pair more of a tile.
LEMMA PrefixAppend ==
    ASSUME NEW S, NEW s \in Seq(S), NEW n \in Nat, n < Len(s)
    PROVE  /\ SubSeq(s, 1, n) \in Seq(S)
           /\ SubSeq(s, 1, n + 1) = Append(SubSeq(s, 1, n), s[n + 1]) /\ s[n + 1] \in S
<1> DEFINE p == SubSeq(s, 1, n)
           q == SubSeq(s, 1, n + 1)
           r == Append(p, s[n + 1])
<1>1. s[n + 1] \in S /\ Len(s) \in Nat /\ n + 1 \in 1 .. Len(s)
  OBVIOUS
<1>2. p \in Seq(S) /\ Len(p) = n /\ \A i \in 1 .. n : p[i] = s[i]
  BY <1>1, SubSeqProperties
<1>3. q \in Seq(S) /\ Len(q) = n + 1 /\ \A i \in 1 .. n + 1 : q[i] = s[i]
  BY <1>1, SubSeqProperties
<1> HIDE DEF p, q
<1>4. r \in Seq(S) /\ Len(r) = n + 1 /\ \A i \in 1 .. n + 1 : r[i] = IF i <= n THEN p[i] ELSE s[n + 1]
  BY <1>1, <1>2
<1>5. \A i \in 1 .. n + 1 : q[i] = r[i]
  BY <1>2, <1>3, <1>4
<1>6. q = r
  <2>1. Len(q) = Len(r) /\ \A i \in 1 .. Len(q) : q[i] = r[i]
    BY <1>3, <1>4, <1>5
  <2> HIDE DEF r
  <2> QED BY <1>3, <1>4, <2>1, SeqEqual
<1> QED BY <1>1, <1>2, <1>6 DEF p, q, r

\* The accelerator around the PE stays as it was.
LEMMA PeOnly ==
    ASSUME AccelInv, state = "S_IDLE", UNCHANGED <<slaveVars, tileVars, histVars>>, Pe!PeTypeOK'
    PROVE  AccelInv' /\ state' = "S_IDLE"
<1>1. /\ UNCHANGED <<ctrl_reg, state, done_q, acc_q, skip_q, owed, tile, last>>
      /\ UNCHANGED <<aw_pend, w_pend, aw_addr_q, w_data_q, bvalid_q, rvalid_q, rdata_q,
                     awq, wq, applied, unanswered, rd_reg>>
  BY DEF slaveVars, tileVars, histVars
<1>2. TypeOK'
  BY <1>1 DEF AccelInv, DataInv, TypeOK, SlaveTypeOK
<1>3. ClearedTileIsEmpty' /\ AcceptedBeatsAccumulate' /\ ResultIsLastTile'
  BY <1>1 DEF AccelInv, DataInv, ClearedTileIsEmpty, AcceptedBeatsAccumulate, ResultIsLastTile
<1>4. WriteChannelInv' /\ StatusInv'
  BY <1>1 DEF AccelInv, ControlInv, WriteChannelInv, StatusInv, SlaveTypeOK, OneResponsePerWrite, Done, Busy,
              start_pulse, clear_pulse
<1>5. PulsesAreIssuedWrites'
  BY <1>1 DEF AccelInv, ControlInv, PulsesAreIssuedWrites, start_pulse, clear_pulse
<1> QED BY <1>1, <1>2, <1>3, <1>4, <1>5 DEF AccelInv, DataInv, ControlInv

\* Where a statement of a test leaves the test.
LEMMA Went ==
    ASSUME failed = FALSE, Proceed(1, TRUE)
    PROVE  at' = at + 1 /\ left' = 0 /\ begun' = FALSE /\ failed' = FALSE
<1>1. at' = at + 1 /\ left' = 0 /\ begun' = FALSE /\ failed' = (failed \/ ~TRUE)
  BY DEF Proceed
<1>2. failed' = FALSE
  BY <1>1, Zenon
<1> QED BY <1>1, <1>2

\* Where an edge within a statement leaves it.
LEMMA Stayed ==
    ASSUME failed = FALSE, begun = FALSE, NEW l, Stay(l)
    PROVE  at' = at /\ left' = l /\ begun' = FALSE /\ failed' = FALSE
BY DEF Stay

\* A step of a test of the PE.
LEMMA PeTestStep ==
    ASSUME AccelInv, BenchTypes, test \in PeTests, failed = FALSE, at \in 1 .. Len(Script),
           PeAt, PeTest
    PROVE  AccelInv' /\ BenchTypes' /\ test' = test /\ failed' = FALSE /\ PeAt'
<1>1. /\ Len(Script) \in {2, 3} /\ Script[1].kind = "pe_reset" /\ Script[2].kind = "pe_stream"
      /\ Len(Script) = 3 => Script[3].kind = "pe_clear"
      /\ DOMAIN Script = 1 .. Len(Script)
  BY PeScript DEF Script
<1>2. /\ PeStep(Script[at])
      /\ UNCHANGED <<test, tiles, polls, aresetn, lag, wr, ra, frame, offered, pause,
                     consumed, shown, split, saw>>
      /\ UNCHANGED <<slaveVars, tileVars, histVars>>
  BY DEF PeTest, pinVars, counterVars
<1>3. Len(Script)' = Len(Script)
  BY <1>2 DEF Script
<1>4. 1 \in DOMAIN tiles /\ tiles[1] \in Seq(Pe!Pair) /\ Len(tiles[1]) \in Nat
  <2>1. test \in Tests /\ tiles \in [1 .. Len(Lengths[test]) -> Seq(Pe!Pair)]
    BY DEF BenchTypes
  <2>2. Lengths[test] \in Seq(Nat \ {0})
    BY <2>1, BenchAssumption
  <2>3. Scripts[test][2].kind = "pe_stream" /\ 2 \in DOMAIN Scripts[test]
    BY <1>1 DEF Script
  <2>4. 1 \in DOMAIN Lengths[test]
    BY <2>1, <2>3, TestAssumption
  <2>5. 1 \in DOMAIN tiles
    BY <2>1, <2>2, <2>4
  <2> QED BY <2>5, TileFits
<1> DEFINE tile1 == tiles[1]
           L == Len(tile1)
           Prefix(n) == SubSeq(tile1, 1, n)
           Shown(want) == pe_acc' = want.acc /\ pe_skip' = want.skip /\ pe_valid_out' \in BOOLEAN
           Fine == /\ AccelInv' /\ state' = "S_IDLE" /\ begun' = FALSE /\ failed' = FALSE
                   /\ at' \in 1 .. Len(Script) + 1
                   /\ at' = 1 => left' \in 0 .. RESET_EDGES /\ pe_acc' = 0 /\ pe_skip' = 0
                   /\ at' = 2 => left' \in 0 .. L
                                 /\ [acc |-> pe_acc', skip |-> pe_skip'] = Pe!Expected(Prefix(left'))
<1>5. ASSUME NEW t \in Seq(Pe!Pair), Shown(Pe!Expected(t))
      PROVE  AccelInv' /\ state' = "S_IDLE"
  <2>1. Pe!PeTypeOK'
    BY <1>5, ExpectedInRange DEF Pe!PeTypeOK, Pe!SignedRange, SignedRange
  <2> QED BY <1>2, <2>1, PeOnly DEF PeAt
<1>6. <<>> \in Seq(Pe!Pair) /\ Pe!Expected(<<>>).acc = 0 /\ Pe!Expected(<<>>).skip = 0
  BY ExpectedEmpty
<1>7. Prefix(0) = <<>> /\ Prefix(L) = tile1
  BY <1>4, SubSeqEmpty, SubSeqFull
<1>8. begun = FALSE /\ RESET_EDGES \in Nat
  BY BenchAssumption DEF PeAt
<1>9. ASSUME at = 1 PROVE Fine
  <2>1. /\ left \in 0 .. RESET_EDGES /\ pe_acc = 0 /\ pe_skip = 0
        /\ IF left < RESET_EDGES THEN Pe!PeReset /\ Stay(left + 1)
           ELSE PePins(FALSE, FALSE, NoPair) /\ Proceed(1, TRUE)
    BY <1>1, <1>2, <1>9 DEF PeAt, PeStep
  <2>2. pe_acc' = 0 /\ pe_skip' = 0 /\ pe_valid_out' = FALSE
    BY <2>1 DEF Pe!PeReset, PePins, Pe!PeEdge
  <2>3. AccelInv' /\ state' = "S_IDLE"
    BY <1>5, <1>6, <2>2
  <2>9. CASE left < RESET_EDGES
    <3>1. at' = 1 /\ left' = left + 1 /\ begun' = FALSE /\ failed' = FALSE
      BY <1>8, <1>9, <2>1, <2>9, Stayed
    <3>2. left' \in 0 .. RESET_EDGES
      BY <1>8, <2>1, <2>9, <3>1
    <3> QED BY <1>1, <2>2, <2>3, <3>1, <3>2
  <2>10. CASE ~(left < RESET_EDGES)
    <3>4. Proceed(1, TRUE)
      BY <2>1, <2>10
    <3>5. at' = at + 1 /\ left' = 0 /\ begun' = FALSE /\ failed' = FALSE
      BY <3>4, Went, Zenon
    <3>1. at' = 2 /\ left' = 0 /\ begun' = FALSE /\ failed' = FALSE
      BY <1>9, <3>5
    <3>2. left' \in 0 .. L
      BY <1>4, <3>1
    <3>3. [acc |-> pe_acc', skip |-> pe_skip'] = Pe!Expected(Prefix(left'))
      BY <1>7, <2>2, <3>1, ExpectedEmpty
    <3> QED BY <1>1, <2>2, <2>3, <3>1, <3>2, <3>3
  <2> QED BY <2>9, <2>10
<1>10. ASSUME at = 2 PROVE Fine
  <2>1. /\ left \in 0 .. L /\ [acc |-> pe_acc, skip |-> pe_skip] = Pe!Expected(Prefix(left))
        /\ IF left < L THEN PePins(FALSE, TRUE, tile1[left + 1]) /\ Stay(left + 1)
           ELSE PePins(FALSE, FALSE, NoPair) /\ Proceed(1, Shows(Pe!Golden(tile1)))
    BY <1>1, <1>2, <1>10 DEF PeAt, PeStep
  <2>2. ASSUME left < L PROVE Fine
    <3>1. /\ Prefix(left) \in Seq(Pe!Pair)
          /\ Prefix(left + 1) = Append(Prefix(left), tile1[left + 1]) /\ tile1[left + 1] \in Pe!Pair
      BY <1>4, <2>1, <2>2, PrefixAppend
    <3> DEFINE pair == tile1[left + 1]
               e == Pe!Expected(Prefix(left))
               f == Pe!Expected(Prefix(left + 1))
    <3>2. f = IF Pe!IsZero(pair)
              THEN [acc |-> e.acc, skip |-> Pe!Unsigned(e.skip + 1, SKIP_W)]
              ELSE [acc |-> Pe!Signed(e.acc + Pe!Product(pair), ACC_W), skip |-> e.skip]
      BY <3>1, ExpectedAppend
    <3>3. pe_acc = e.acc /\ pe_skip = e.skip
      BY <2>1
    <3>4. /\ pe_acc' = IF Pe!IsZero(pair) THEN pe_acc
                       ELSE Pe!Signed(pe_acc + Pe!Product(pair), ACC_W)
          /\ pe_skip' = IF Pe!IsZero(pair) THEN Pe!Unsigned(pe_skip + 1, SKIP_W) ELSE pe_skip
          /\ pe_valid_out' = TRUE
      BY <2>1, <2>2 DEF PePins, Pe!PeEdge
    <3>5. f = [acc |-> pe_acc', skip |-> pe_skip']
      <4> HIDE DEF e, f, pair
      <4> QED BY <3>2, <3>3, <3>4
    <3>6. Shown(f)
      BY <3>4, <3>5
    <3>7. Prefix(left + 1) \in Seq(Pe!Pair)
      BY <3>1
    <3>8. AccelInv' /\ state' = "S_IDLE"
      BY <1>5, <3>6, <3>7
    <3>9. at' = 2 /\ begun' = FALSE /\ failed' = FALSE /\ left' = left + 1
      BY <1>8, <1>10, <2>1, <2>2, Stayed
    <3>10. left' \in 0 .. L
      BY <1>4, <2>1, <2>2, <3>9
    <3>11. [acc |-> pe_acc', skip |-> pe_skip'] = Pe!Expected(Prefix(left'))
      BY <3>5, <3>9
    <3> QED BY <1>1, <3>8, <3>9, <3>10, <3>11
  <2>3. ASSUME ~(left < L) PROVE Fine
    <3>1. left = L
      BY <1>4, <2>1, <2>3
    <3>2. pe_acc' = pe_acc /\ pe_skip' = pe_skip /\ pe_valid_out' = FALSE
          /\ Proceed(1, Shows(Pe!Golden(tile1)))
      BY <2>1, <2>3 DEF PePins, Pe!PeEdge
    <3>3. [acc |-> pe_acc, skip |-> pe_skip] = Pe!Expected(tile1)
      BY <1>7, <2>1, <3>1
    <3>4. Pe!Expected(tile1) = [acc |-> Pe!Golden(tile1).acc, skip |-> Pe!Golden(tile1).skip]
      BY <1>4, ExpectedIsGolden
    <3>5. Shows(Pe!Golden(tile1)) = TRUE
      BY <3>2, <3>3, <3>4 DEF Shows
    <3>9. Proceed(1, TRUE)
      BY <3>2, <3>5, Zenon
    <3>10. at' = at + 1 /\ begun' = FALSE /\ failed' = FALSE
      BY <3>9, Went, Zenon
    <3>6. at' = 3 /\ begun' = FALSE /\ failed' = FALSE
      BY <1>10, <3>10
    <3>7. Shown(Pe!Expected(tile1))
      <4>1. PICK x : x = Pe!Expected(tile1)
        OBVIOUS
      <4>2. x.acc = pe_acc /\ x.skip = pe_skip
        BY <3>3, <4>1
      <4> QED BY <3>2, <4>1, <4>2
    <3>8. AccelInv' /\ state' = "S_IDLE"
      BY <1>4, <1>5, <3>7
    <3> QED BY <1>1, <3>6, <3>8
  <2> QED BY <2>2, <2>3
<1>11. ASSUME at = 3 PROVE Fine
  <2>1. Len(Script) = 3 /\ Script[3].kind = "pe_clear"
    BY <1>1, <1>11
  <2>2. PePins(TRUE, FALSE, NoPair) /\ Proceed(1, Shows(Pe!Golden(<<>>)))
    BY <1>2, <1>11, <2>1 DEF PeStep
  <2>3. pe_acc' = 0 /\ pe_skip' = 0 /\ pe_valid_out' = FALSE
    BY <2>2 DEF PePins, Pe!PeEdge
  <2>4. Pe!Golden(<<>>).acc = 0 /\ Pe!Golden(<<>>).skip = 0
    BY GoldenEmpty DEF NoTotals
  <2>5. Shows(Pe!Golden(<<>>)) = TRUE
    BY <2>3, <2>4 DEF Shows
  <2>6. at' = 4 /\ begun' = FALSE /\ failed' = FALSE
    <3>1. Proceed(1, TRUE)
      BY <2>2, <2>5, Zenon
    <3>2. at' = at + 1 /\ begun' = FALSE /\ failed' = FALSE
      BY <3>1, Went, Zenon
    <3> QED BY <1>11, <3>2
  <2>7. AccelInv' /\ state' = "S_IDLE"
    BY <1>5, <1>6, <2>3
  <2> QED BY <2>1, <2>6, <2>7
<1>12. Fine
  <2>1. at = 1 \/ at = 2 \/ at = 3
    BY <1>1
  <2> QED BY <1>9, <1>10, <1>11, <2>1, Zenon
<1>13. PeAt'
  <2>1. tiles' = tiles
    BY <1>2
  <2>2. SubSeq(tiles[1], 1, left)' = Prefix(left')
    BY <2>1
  <2> QED BY <1>3, <1>12, <2>1, <2>2 DEF PeAt
<1>14. BenchTypes'
  <2>1. begun' \in BOOLEAN
    BY <1>12
  <2> QED BY <1>2, <2>1 DEF BenchTypes
<1> QED BY <1>2, <1>12, <1>13, <1>14

-----------------------------------------------------------------------------
(* The invariant of the testbench                                          *)

\* A test that starts finds the accelerator at rest.
LEMMA AtRest ==
    ASSUME BInit, NEW c \in Shapes, c.mode = "idle", c.en = TRUE, c.sent = FALSE, c.last = 0,
           c.done = FALSE, c.source = "free", c.count \in {"none", "moving"}, c.watch = "none"
    PROVE  Between(c)
<1>1. /\ aresetn = TRUE /\ lag = [ch \in Channels |-> Idle] /\ polls = 0
      /\ frame = <<>> /\ offered = FALSE /\ pause = 0 /\ consumed = 0
      /\ state = "S_IDLE" /\ done_q = FALSE /\ last = <<>> /\ ctrl_reg = CtrlReset
      /\ aw_pend = FALSE /\ w_pend = FALSE /\ bvalid_q = FALSE /\ rvalid_q = FALSE
  BY DEF BInit, BenchInit, Init, SlaveInit
<1>2. start_pulse = FALSE /\ clear_pulse = FALSE /\ en_reg = TRUE
  BY <1>1 DEF CtrlReset, start_pulse, clear_pulse, en_reg
<1>3. TileAt(c, start_pulse)
  <2>1. Ahead(c)
    BY DEF Ahead
  <2>2. last = Result(c.last)
    BY <1>1 DEF Result
  <2>3. Resting(c, FALSE)
    BY <1>1, <2>1, <2>2 DEF Resting
  <2> QED BY <1>1, <1>2, <2>3 DEF TileAt
<1>4. SourceAt(c)
  <2>1. Framed(frame)
    BY <1>1 DEF Framed
  <2> QED BY <1>1, <2>1 DEF SourceAt
<1>5. CounterAt(c) /\ PollsAt(c) /\ FirstAt(c)
  BY <1>1 DEF CounterAt, PollsAt, FirstAt
<1>6. Device(c)
  BY <1>2, <1>3, <1>4, <1>5 DEF Device, Engine
<1>7. \A ch \in Channels : lag[ch] = Idle
  BY <1>1
<1>8. Quiet(c)
  BY <1>1, <1>2, <1>7 DEF Quiet, ResponseAt, Channels
<1> QED BY <1>1, <1>5, <1>6, <1>8 DEF Between

\* The operands are generated, and the ports carry words.
LEMMA InitBenchTypes ==
    ASSUME BInit
    PROVE  BenchTypes
<1>1. /\ test \in Tests /\ begun = FALSE /\ aresetn = TRUE /\ lag = [ch \in Channels |-> Idle]
      /\ polls = 0 /\ frame = <<>> /\ offered = FALSE /\ pause = 0
      /\ wr = [addr |-> "CTRL", data |-> Stop] /\ ra = "ID"
      /\ consumed = 0 /\ shown = 0 /\ split = 0 /\ saw = FALSE
  BY DEF BInit, BenchInit
<1>2. /\ DOMAIN tiles = 1 .. Len(Lengths[test])
      /\ tiles = [k \in DOMAIN tiles |-> tiles[k]]
      /\ \A k \in DOMAIN tiles : tiles[k] \in Operands(test, k)
  BY DEF BInit
<1>3. DOMAIN Lengths[test] = 1 .. Len(Lengths[test])
  <2>1. Lengths[test] \in Seq(Nat \ {0})
    BY <1>1, BenchAssumption
  <2> QED BY <2>1
<1>4. \A k \in DOMAIN tiles : tiles[k] \in Seq(Pe!Pair)
  BY <1>1, <1>2, <1>3, OperandAssumption
<1>5. tiles \in [1 .. Len(Lengths[test]) -> Seq(Pe!Pair)]
  BY <1>2, <1>4
<1>6. wr \in [addr : WrAddrs, data : WrData] /\ ra \in RdAddrs
  <2>1. Stop \in CtrlWord /\ Stop.strb = TRUE
    BY DEF Stop, CTRL, CtrlWord
  <2>2. "CTRL" \in WrAddrs /\ Stop \in WrData /\ RdAddrs = Regs
    BY <2>1, TestAssumption
  <2> QED BY <1>1, <2>2 DEF Regs
<1>7. lag \in [Channels -> Int]
  BY <1>1 DEF Idle
<1>8. Len(PausePattern) \in Nat
  BY BenchAssumption
<1>9. frame \in Seq(Beat) /\ pause \in 0 .. Len(PausePattern) /\ polls \in Nat
  BY <1>1, <1>8
<1>10. {consumed, shown, split} \subseteq Nat
  BY <1>1
<1>11. {aresetn, begun, offered, saw} \subseteq BOOLEAN
  <2>1. aresetn \in BOOLEAN /\ begun \in BOOLEAN /\ offered \in BOOLEAN /\ saw \in BOOLEAN
    BY <1>1
  <2> QED BY <2>1
<1> QED BY <1>1, <1>2, <1>5, <1>6, <1>7, <1>9, <1>10, <1>11 DEF BenchTypes

\* The invariant holds when a test starts.
LEMMA InitBench == BInit => AccelInv /\ BenchInv
<1> SUFFICES ASSUME BInit PROVE AccelInv /\ BenchInv
  OBVIOUS
<1>1. AccelInv
  BY InitData, InitControl DEF BInit, AccelInv
<1>2. BenchTypes
  BY InitBenchTypes
<1>3. /\ test \in Tests /\ at = 1 /\ begun = FALSE /\ failed = FALSE /\ left = 0
      /\ state = "S_IDLE" /\ pe_acc = 0 /\ pe_skip = 0
  BY DEF BInit, BenchInit, Init, Pe!PeInit
<1>4. ASSUME test \in PeTests PROVE PeAt
  <2>1. Len(Script) \in {2, 3}
    BY <1>4, PeScript DEF Script
  <2>2. RESET_EDGES \in Nat
    BY BenchAssumption
  <2> QED BY <1>3, <2>1, <2>2 DEF PeAt
<1>5. ASSUME test \notin PeTests PROVE OnOutline
  <2>1. Context(test, 1) = FirstOf(test) /\ Len(Scripts[test]) \in Nat \ {0}
    BY <1>3, <1>5, OnContext
  <2>2. Between(Fresh)
    BY AtRest, FreshFields
  <2>3. Between(Counted)
    <3>1. PICK f \in Shapes : f = Fresh
      BY FreshFields
    <3>2. PICK d : d = Count(f, "moving")
      OBVIOUS
    <3>3. /\ d \in Shapes /\ d.mode = "idle" /\ d.en = TRUE /\ d.sent = FALSE /\ d.last = 0
          /\ d.done = FALSE /\ d.source = "free" /\ d.count = "moving" /\ d.watch = "none"
      BY <3>1, <3>2, FreshFields, CountFields
    <3>4. Between(d)
      BY <3>3, AtRest
    <3> QED BY <3>1, <3>2, <3>4 DEF Counted
  <2>4. Here = FirstOf(test)
    BY <1>3, <2>1 DEF Here
  <2>5. Between(Here)
    BY <2>2, <2>3, <2>4 DEF FirstOf
  <2>6. at \in 1 .. Len(Script) + 1
    BY <1>3, <2>1 DEF Script
  <2> QED BY <1>3, <2>5, <2>6 DEF OnOutline
<1> QED BY <1>1, <1>2, <1>3, <1>4, <1>5 DEF BenchInv

\* Nothing moves.
AllStill == /\ Frozen /\ SlaveStill
            /\ UNCHANGED <<vars, test, at, begun, left, failed, aresetn, lag, wr, ra>>

\* Nothing moves between two statements.
LEMMA BetweenStill ==
    ASSUME AllStill, NEW c, Between(c)
    PROVE  Between(c)'
<1>1. Device(c)' /\ FirstAt(c)'
  BY DeviceStill DEF AllStill, Between
<1>2. Quiet(c)'
  BY QuietStill DEF AllStill, Between
<1> QED BY <1>1, <1>2 DEF AllStill, Between

\* Nothing moves while a word is read.
LEMMA ReadingStill ==
    ASSUME AllStill, NEW c, NEW op, Reading(c, op)
    PROVE  Reading(c, op)'
<1>1. Device(c)' /\ start_pulse' = start_pulse
  BY DeviceStill DEF AllStill, Reading
<1>2. /\ UNCHANGED <<aw_pend, w_pend, bvalid_q, rvalid_q, rdata_q, ra, lag, test, tiles, polls,
                     frame, split, saw>>
      /\ UNCHANGED <<state, done_q, offered, pause>>
  BY DEF AllStill, Frozen, SlaveStill, counterVars, vars, tileVars
<1>3. Work' = Work
  <2>1. Gap' = Gap
    BY <1>2 DEF Gap, Flow
  <2> QED BY <1>1, <1>2, <2>1 DEF Work
<1>4. Accepts(op)' <=> Accepts(op)
  BY <1>2 DEF Accepts
<1>5. Racing(test, c, op)' <=> Racing(test, c, op)
  BY <1>2 DEF Racing
<1>6. Heard(c, op)' <=> Heard(c, op)
  BY <1>2, <1>3, <1>4, <1>5 DEF Heard
<1>7. ResponseAt(c)' <=> ResponseAt(c)
  BY <1>2 DEF ResponseAt
<1> QED BY <1>1, <1>2, <1>6, <1>7 DEF Reading

\* Nothing moves while a write that has been done is answered.
LEMMA AppliedStill ==
    ASSUME AllStill, NEW c, NEW x
    PROVE  Applied(c, x) => Applied(c, x)'
<1>1. ASSUME NEW e PROVE Device(e) => Device(e)'
  BY DeviceStill DEF AllStill
<1>2. UNCHANGED <<vars, tiles, frame, offered, pause, polls, split, consumed, shown, saw, ctrl_reg>>
  BY DEF AllStill, Frozen, counterVars, vars, tileVars
<1>3. CASE x.clear
  <2>1. TileAt(c, FALSE) => TileAt(c, FALSE)'
    BY <1>2, TileStill
  <2>2. (SourceAt(c) => SourceAt(c)') /\ (PollsAt(c) => PollsAt(c)')
    BY <1>2, SourceStill
  <2>3. CounterAt(c)' <=> CounterAt(c)
    BY <1>2 DEF CounterAt
  <2> QED BY <1>2, <1>3, <2>1, <2>2, <2>3 DEF Applied
<1>4. CASE ~x.clear
  BY <1>1, <1>4 DEF Applied
<1> QED BY <1>3, <1>4

\* Nothing moves while a write is under way.
LEMMA WritingStill ==
    ASSUME AllStill, NEW c, NEW op, Writing(c, op)
    PROVE  Writing(c, op)'
<1>1. Device(c) => Device(c)'
  BY DeviceStill DEF AllStill
<1>2. UNCHANGED <<aw_pend, w_pend, aw_addr_q, w_data_q, bvalid_q, rvalid_q, wr, lag>>
  BY DEF AllStill, SlaveStill
<1>3. Applied(c, op.data) => Applied(c, op.data)'
  <2>1. PICK x : x = op.data
    OBVIOUS
  <2>2. Applied(c, x) => Applied(c, x)'
    BY AppliedStill
  <2> QED BY <2>1, <2>2
<1>4. /\ Waiting(c, "aw")' <=> Waiting(c, "aw")
      /\ Waiting(c, "w")' <=> Waiting(c, "w")
  BY <1>2 DEF Waiting
<1> QED BY <1>1, <1>2, <1>3, <1>4 DEF Writing

\* Nothing moves while a word is written and another one read.
LEMMA BothStill ==
    ASSUME AllStill, NEW c, NEW op, Both(c, op)
    PROVE  Both(c, op)'
<1>1. Device(c) => Device(c)'
  BY DeviceStill DEF AllStill
<1>2. Device(Started(c)) => Device(Started(c))'
  <2>1. PICK e : e = Started(c)
    OBVIOUS
  <2>2. Device(e) => Device(e)'
    BY DeviceStill DEF AllStill
  <2> QED BY <2>1, <2>2
<1>3. UNCHANGED <<aw_pend, w_pend, bvalid_q, rvalid_q, rdata_q, wr, ra, lag>>
  BY DEF AllStill, SlaveStill
<1> QED BY <1>1, <1>2, <1>3 DEF Both

\* Nothing moves during a statement.
LEMMA DuringStill ==
    ASSUME AllStill, NEW c, NEW op, NEW d, During(c, op, d)
    PROVE  During(c, op, d)'
<1>1. ASSUME NEW e PROVE (Device(e) => Device(e)') /\ (Quiet(e) => Quiet(e)')
  BY DeviceStill, QuietStill DEF AllStill
<1>2. UNCHANGED <<left, aresetn, frame, offered>>
  BY DEF AllStill, Frozen
<1>3. CASE op.kind = "reset" /\ InReset(c, op, d)
  <2>1. InReset(c, op, d)'
    BY <1>1, <1>2, <1>3 DEF InReset
  <2> QED BY <1>3, <2>1 DEF During
<1>4. CASE op.kind = "edges" /\ aresetn = TRUE /\ left \in 1 .. op.edges /\ Device(c) /\ Quiet(c)
  BY <1>1, <1>2, <1>4 DEF During
<1>5. CASE op.kind = "until_consumed" /\ aresetn = TRUE /\ Device(c) /\ Quiet(c)
  BY <1>1, <1>2, <1>5 DEF During
<1>6. CASE op.kind \in {"read", "poll"} /\ aresetn = TRUE /\ Reading(c, op)
  BY <1>2, <1>6, ReadingStill DEF During
<1>7. CASE op.kind = "write" /\ aresetn = TRUE /\ Writing(c, op)
  BY <1>2, <1>7, WritingStill DEF During
<1>8. CASE op.kind = "race" /\ aresetn = TRUE /\ Both(c, op)
  BY <1>2, <1>8, BothStill DEF During
<1> QED BY <1>3, <1>4, <1>5, <1>6, <1>7, <1>8 DEF During

\* A statement of the accelerator's tests is none of the PE's.
LEMMA RuleKinds ==
    ASSUME NEW t, NEW c, NEW op, NEW d, Rule(t, c, op, d)
    PROVE  op.kind \notin {"pe_reset", "pe_stream", "pe_clear"}
BY DEF Rule, ResetRule, EdgesRule, UntilRule, ReadRule, PollRule, LoopRule, WriteRule, RaceRule,
       SendRule, NoteRule

\* A statement of the PE's tests is none of the accelerator's.
LEMMA PeKinds ==
    ASSUME test \in PeTests, at \in 1 .. Len(Script)
    PROVE  Op.kind \in {"pe_reset", "pe_stream", "pe_clear"}
<1>1. /\ Len(Script) \in {2, 3} /\ Script[1].kind = "pe_reset" /\ Script[2].kind = "pe_stream"
      /\ Len(Script) = 3 => Script[3].kind = "pe_clear"
  BY PeScript DEF Script
<1>2. (at = 1 \/ at = 2 \/ at = 3) /\ (at = 3 => Len(Script) = 3)
  <2>1. PICK n : n = Len(Script)
    OBVIOUS
  <2>2. n = 2 \/ n = 3
    BY <1>1, <2>1
  <2>3. at \in 1 .. n
    BY <2>1
  <2>4. (at = 1 \/ at = 2 \/ at = 3) /\ (at = 3 => n = 3)
    BY <2>2, <2>3
  <2> QED BY <2>1, <2>4
<1> QED BY <1>1, <1>2 DEF Op

\* A tile that overtakes the read fails the test, and nothing else does.
LEMMA OutrunOvertakes ==
    ASSUME at \in Nat, test' = test, Outrun(Here, Op)
    PROVE  failed' = TRUE /\ Overtaken'
<1>1. /\ failed' = TRUE /\ at' = at + 1 /\ saw' = TRUE /\ done_q' = TRUE
      /\ test = "result_read_before_completion"
      /\ Op \in {ReadResult(M, "ACC", 1), ReadResult(M, "SKIP", 1)}
  BY DEF Outrun, Racing
<1>2. Script' = Script
  BY DEF Script
<1>3. Script'[at' - 1] = Op
  <2>1. at' - 1 = at
    BY <1>1
  <2> QED BY <1>2, <2>1 DEF Op
<1>4. (test = "result_read_before_completion")'
  BY <1>1
<1>5. PICK good : good = {ReadResult(M, "ACC", 1), ReadResult(M, "SKIP", 1)}
  OBVIOUS
<1>6. Script'[at' - 1] \in good
  BY <1>1, <1>3, <1>5
<1> QED BY <1>1, <1>4, <1>5, <1>6 DEF Overtaken

\* A test that stands still stays where it is.
LEMMA NothingMoves ==
    ASSUME AccelInv, BenchInv, UNCHANGED allVars
    PROVE  AccelInv' /\ BenchInv'
<1>1. /\ UNCHANGED <<vars, counterVars>>
      /\ UNCHANGED <<test, tiles, at, begun, left, polls, failed, aresetn, lag, wr, ra, frame,
                     offered, pause, consumed, shown, split, saw>>
  BY DEF allVars, benchVars, scriptVars, pinVars, counterVars
<1>2. /\ UNCHANGED <<aw_pend, w_pend, aw_addr_q, w_data_q, bvalid_q, rvalid_q, rdata_q>>
      /\ UNCHANGED <<state, done_q, pe_acc, pe_skip>>
  BY <1>1 DEF vars, slaveVars, tileVars, peRegs
<1>3. AccelInv'
  BY <1>1, NextData, NextControl DEF AccelInv
<1>4. BenchTypes' /\ failed' \in BOOLEAN
  <2>1. BenchTypes
    BY DEF BenchInv
  <2>2. (\A k \in DOMAIN tiles : tiles[k] \in Operands(test, k))'
    <3>1. \A t : t = test => \A k \in DOMAIN tiles : tiles[k] \in Operands(t, k)
      BY <2>1 DEF BenchTypes
    <3> QED BY <1>1, <3>1
  <2>3. BenchTypes'
    BY <1>1, <2>1, <2>2 DEF BenchTypes
  <2> QED BY <1>1, <2>3 DEF BenchInv
<1>5. Script' = Script /\ Here' = Here /\ There' = There /\ Op' = Op
  BY <1>1 DEF Here, There, Op, Script
<1>6. CASE failed
  <2>1. Overtaken
    BY <1>6 DEF BenchInv
  <2>2. Overtaken'
    BY <1>1, <1>2, <1>5, <2>1 DEF Overtaken
  <2> QED BY <1>1, <1>3, <1>4, <1>6, <2>2 DEF BenchInv
<1>7. CASE ~failed /\ test \in PeTests
  <2>1. PeAt
    BY <1>7 DEF BenchInv
  <2>2. PeAt'
    BY <1>1, <1>2, <1>5, <2>1 DEF PeAt
  <2>3. (~failed /\ test \in PeTests)'
    BY <1>1, <1>7
  <2> QED BY <1>3, <1>4, <2>2, <2>3 DEF BenchInv
<1>8. CASE ~failed /\ test \notin PeTests
  <2>1. OnOutline
    BY <1>8 DEF BenchInv
  <2>2. AllStill
    BY <1>1, <1>2 DEF AllStill, Frozen, SlaveStill
  <2>3. ASSUME begun PROVE During(Here, Op, There)'
    <3>1. PICK c : c = Here
      OBVIOUS
    <3>2. PICK op : op = Op
      OBVIOUS
    <3>3. PICK d : d = There
      OBVIOUS
    <3>4. During(c, op, d)
      BY <2>1, <2>3, <3>1, <3>2, <3>3 DEF OnOutline
    <3>5. During(c, op, d)'
      BY <2>2, <3>4, DuringStill
    <3> QED BY <1>5, <3>1, <3>2, <3>3, <3>5
  <2>4. ASSUME ~begun PROVE Between(Here)'
    <3>1. PICK c : c = Here
      OBVIOUS
    <3>2. Between(c)
      BY <2>1, <2>4, <3>1 DEF OnOutline
    <3>3. Between(c)'
      BY <2>2, <3>2, BetweenStill
    <3> QED BY <1>5, <3>1, <3>3
  <2>5. OnOutline'
    BY <1>1, <1>5, <2>1, <2>3, <2>4 DEF OnOutline
  <2>6. (~failed /\ test \notin PeTests)'
    BY <1>1, <1>8
  <2> QED BY <1>3, <1>4, <2>5, <2>6 DEF BenchInv
<1> QED BY <1>6, <1>7, <1>8

\* Every step of the testbench keeps it.
LEMMA NextBench == AccelInv /\ BenchInv /\ [BNext]_allVars => (AccelInv /\ BenchInv)'
<1> SUFFICES ASSUME AccelInv, BenchInv, [BNext]_allVars
             PROVE  (AccelInv /\ BenchInv)'
  OBVIOUS
<1>1. BenchTypes /\ test \in Tests /\ begun \in BOOLEAN /\ failed \in BOOLEAN
  BY DEF BenchInv, BenchTypes
<1>2. ASSUME Running, test \notin PeTests
      PROVE  /\ OnOutline /\ failed = FALSE /\ at \in 1 .. Len(Script) /\ at \in Nat
             /\ Rule(test, Here, Op, There) /\ Fits(Op)
             /\ Op.kind = "send" => Op.tile \in DOMAIN Lengths[test]
  <2>1. OnOutline /\ failed = FALSE
    BY <1>1, <1>2 DEF BenchInv, Running
  <2>2. at \in 1 .. Len(Script)
    <3>1. Len(Script) \in Nat
      BY <1>1, <1>2, OnContext DEF Script
    <3> QED BY <1>2, <2>1, <3>1 DEF OnOutline, Running
  <2> QED BY <1>1, <1>2, <2>1, <2>2, OnStatement
<1>3. ASSUME Running, test \in PeTests
      PROVE  PeAt /\ failed = FALSE /\ at \in 1 .. Len(Script) /\ begun = FALSE
  <2>1. PeAt /\ failed = FALSE
    BY <1>1, <1>3 DEF BenchInv, Running
  <2>2. Len(Script) \in {2, 3}
    BY <1>3, PeScript DEF Script
  <2> QED BY <1>3, <2>1, <2>2 DEF PeAt, Running
<1>4. ASSUME test' = test, BenchTypes', AccelInv', test \notin PeTests, failed' = FALSE /\ OnOutline'
      PROVE  (AccelInv /\ BenchInv)'
  BY <1>4 DEF BenchInv
<1>5. CASE Statement
  <2>1. Running /\ begun = FALSE
    BY <1>1, <1>5 DEF Statement
  <2>2. StatementIn(Op) /\ UNCHANGED vars
    BY <1>5 DEF Statement, StatementIn, Op
  <2>3. test \notin PeTests
    <3>1. Op.kind \notin {"pe_reset", "pe_stream", "pe_clear"}
      BY <2>2 DEF StatementIn, Immediate, Issue, Await, Stream, Jump, UntilConsumed, Notes
    <3> QED BY <1>3, <2>1, <3>1, PeKinds
  <2>4. /\ OnOutline /\ failed = FALSE /\ at \in 1 .. Len(Script) /\ at \in Nat
        /\ Rule(test, Here, Op, There)
        /\ Op.kind = "send" => Op.tile \in DOMAIN Lengths[test]
    BY <1>2, <2>1, <2>3
  <2>5. Between(Here)
    BY <2>1, <2>4 DEF OnOutline
  <2>6. AccelInv'
    BY <2>2, NextData, NextControl DEF AccelInv
  <2>7. /\ Onward(Here, Op, There) \/ (LoopRule(test, Here, Op) /\ Back(Op))
        /\ BenchTypes' /\ test' = test
    BY <1>1, <2>1, <2>2, <2>4, <2>5, StatementStep
  <2>8. failed' = FALSE /\ OnOutline'
    BY <1>1, <2>3, <2>4, <2>7, OnwardOnOutline
  <2> QED BY <1>4, <2>3, <2>6, <2>7, <2>8
<1>6. CASE Edge
  <2>1. Running /\ begun = TRUE
    BY <1>1, <1>6 DEF Edge
  <2>2. test \notin PeTests
    BY <1>3, <2>1
  <2>3. EdgeIn(Op)
    BY <1>6 DEF Edge, EdgeIn, Op
  <2>4. /\ OnOutline /\ failed = FALSE /\ at \in 1 .. Len(Script) /\ at \in Nat
        /\ Rule(test, Here, Op, There) /\ Fits(Op)
    BY <1>2, <2>1, <2>2
  <2>5. During(Here, Op, There)
    BY <2>1, <2>4 DEF OnOutline
  <2>6. /\ Onward(Here, Op, There) \/ Outrun(Here, Op)
        /\ AccelInv' /\ BenchTypes' /\ test' = test
    BY <1>1, <2>1, <2>3, <2>4, <2>5, EdgeStep
  <2>7. CASE Onward(Here, Op, There)
    <3>1. failed' = FALSE /\ OnOutline'
      BY <1>1, <2>2, <2>4, <2>6, <2>7, OnwardOnOutline
    <3> QED BY <1>4, <2>2, <2>6, <3>1
  <2>8. CASE Outrun(Here, Op)
    <3>1. failed' = TRUE /\ Overtaken'
      BY <2>4, <2>6, <2>8, OutrunOvertakes
    <3> QED BY <2>6, <3>1 DEF BenchInv
  <2> QED BY <2>6, <2>7, <2>8
<1>7. CASE PeTest
  <2>1. Running /\ PeStep(Op)
    BY <1>7 DEF PeTest, Op
  <2>2. Op.kind \in {"pe_reset", "pe_stream", "pe_clear"}
    BY <2>1 DEF PeStep
  <2>3. test \in PeTests
    BY <1>2, <2>1, <2>2, RuleKinds
  <2>4. PeAt /\ failed = FALSE /\ at \in 1 .. Len(Script)
    BY <1>3, <2>1, <2>3
  <2>5. AccelInv' /\ BenchTypes' /\ test' = test /\ failed' = FALSE /\ PeAt'
    BY <1>1, <1>7, <2>3, <2>4, PeTestStep
  <2> QED BY <2>3, <2>5 DEF BenchInv
<1>8. CASE UNCHANGED allVars
  BY <1>8, NothingMoves
<1> QED BY <1>5, <1>6, <1>7, <1>8 DEF BNext, Over

\* No assertion of any test fails, but where a tile overtakes a read.
THEOREM TestbenchSound == BSpec => []AssertionsHold
<1>1. AccelInv /\ BenchInv => AssertionsHold
  BY DEF BenchInv, AssertionsHold
<1> QED BY <1>1, InitBench, NextBench, PTL DEF BSpec

\* What holds of the accelerator in its own environment holds of it in the
\* testbench, whose stream may stop half way through a tile: its accumulator,
\* its results, the answers to writes and the pulses of CTRL.
THEOREM AcceleratorInBench ==
    BSpec => [](/\ AcceptedBeatsAccumulate /\ ResultIsLastTile
                /\ OneResponsePerWrite /\ PulsesAreIssuedWrites)
<1>1. AccelInv => /\ AcceptedBeatsAccumulate /\ ResultIsLastTile
                  /\ OneResponsePerWrite /\ PulsesAreIssuedWrites
  BY DEF AccelInv, DataInv, ControlInv, WriteChannelInv
<1> QED BY <1>1, InitBench, NextBench, PTL DEF BSpec
=============================================================================
