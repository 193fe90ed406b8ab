--------------------------- MODULE ReluAxiProofs ---------------------------
(***************************************************************************)
(* The Leaky ReLU unit is exact, the accelerator's registers and stream    *)
(* are what they should be, for every width and environment, and no test   *)
(* of its testbench fails: each follows its outline.                       *)
(***************************************************************************)
EXTENDS ReluOutline, AxiLiteSlaveProofs, SequenceTheorems

-----------------------------------------------------------------------------
(* The unit                                                                *)

\* Scaling a number that is not positive by s out of K moves it towards zero.
LEMMA ScaleBounds ==
    ASSUME NEW K \in Nat, NEW s \in 0 .. K, NEW x \in Int, x <= 0
    PROVE  K * x <= s * x /\ s * x <= 0
<1>1. (K - s) * x <= 0
  OBVIOUS
<1>2. (K - s) * x = K * x - s * x
  OBVIOUS
<1>3. s * x <= 0
  OBVIOUS
<1> QED BY <1>1, <1>2, <1>3

\* Dividing the product again rounds it no further than where it came from.
LEMMA FloorBounds ==
    ASSUME NEW K \in Nat, K > 0, NEW x \in Int, NEW y \in Int, K * x <= y, y <= 0
    PROVE  y \div K \in x .. 0
<1> DEFINE q == y \div K
<1>1. q \in Int /\ K * q <= y /\ y < K * q + K
  OBVIOUS
<1> HIDE DEF q
<1>2. q <= 0
  BY <1>1
<1>3. K * x < K * (q + 1)
  BY <1>1
<1>4. x < q + 1
  BY <1>1, <1>3
<1> QED BY <1>1, <1>2, <1>4 DEF q

\* relu_unit computes the golden model's value for every activation and slope of
\* any widths: the product register is wide enough and the shift floors; and the
\* result lies between the activation and zero, or is the activation.
LEMMA UnitExact ==
    ASSUME NEW x \in Activation, NEW slope \in Slope
    PROVE  /\ relu(x, slope) = GoldenRelu(x, slope)
           /\ relu(x, slope) \in Activation
           /\ x < 0 => relu(x, slope) \in x .. 0
<1> DEFINE H == 2^(DATA_W - 1)
           K == 2^SLOPE_W
           P == 2^(ProdW - 1)
<1>1. /\ DATA_W \in Nat \ {0} /\ SLOPE_W \in Nat /\ DATA_W - 1 \in Nat
      /\ ProdW \in Nat \ {0} /\ ProdW - 1 = ((DATA_W - 1) + SLOPE_W) + 1
  BY ReluWidths DEF ProdW
<1>2. H \in Nat /\ H > 0 /\ K \in Nat /\ K > 0
  BY <1>1, PowPositive
<1>3. P = 2 * (H * K)
  <2>1. (DATA_W - 1) + SLOPE_W \in Nat
    BY <1>1
  <2>2. P = 2 * 2^((DATA_W - 1) + SLOPE_W)
    BY <1>1, <2>1, PowDouble
  <2>3. 2^((DATA_W - 1) + SLOPE_W) = H * K
    BY <1>1, PowSum
  <2> QED BY <2>2, <2>3
<1>4. Activation = -H .. H-1 /\ Slope = 0 .. K-1 /\ SignedRange(ProdW) = -P .. P-1
  BY DEF Activation, SignedRange, Slope
<1> HIDE DEF H, K, P
<1>5. x \in Int /\ -H <= x /\ slope \in 0 .. K /\ slope \in Int
  BY <1>2, <1>4
<1>6. CASE x >= 0
  BY <1>2, <1>4, <1>5, <1>6 DEF relu, GoldenRelu
<1>7. CASE x < 0
  <2> DEFINE y == slope * x
             q == y \div K
  <2>1. K * x <= y /\ y <= 0 /\ y \in Int
    BY <1>2, <1>5, <1>7, ScaleBounds
  <2>2. -(K * H) <= K * x
    BY <1>2, <1>5, <1>7
  <2>3. H * K = K * H /\ K * H \in Nat
    BY <1>2
  <2> HIDE DEF y
  <2>4. y \in -P .. P-1
    <3> DEFINE N == K * H
               X == K * x
    <3>1. N \in Nat /\ X \in Int /\ -N <= X /\ P = 2 * N
      BY <1>2, <1>3, <1>5, <2>2, <2>3
    <3>2. X <= y
      BY <2>1
    <3>3. N > 0
      BY <1>2
    <3> HIDE DEF N, X
    <3> QED BY <2>1, <3>1, <3>2, <3>3
  <2>5. Scaled(x, slope) = y
    BY <1>1, <1>4, <2>4, SignedOfRange DEF Scaled, y
  <2>6. q \in x .. 0
    BY <1>2, <1>5, <2>1, FloorBounds
  <2> HIDE DEF q
  <2>7. q \in Activation
    BY <1>2, <1>4, <1>5, <2>6
  <2>8. Signed(q, DATA_W) = q
    BY <1>1, <2>7, SignedOfRange DEF Activation
  <2>9. relu(x, slope) = q
    BY <1>7, <1>5, <2>5, <2>8 DEF relu, q, K
  <2>10. GoldenRelu(x, slope) = q
    <3>1. x * slope = slope * x
      BY <1>5
    <3> QED BY <3>1, <1>5, <1>7 DEF GoldenRelu, q, y, K
  <2> QED BY <2>6, <2>7, <2>9, <2>10
<1> QED BY <1>5, <1>6, <1>7

\* A leaky ReLU never reorders activations, at any widths.
THEOREM UnitMonotone ==
    ASSUME NEW x \in Activation, x + 1 \in Activation, NEW slope \in Slope
    PROVE  relu(x, slope) <= relu(x + 1, slope)
<1>1. SLOPE_W \in Nat /\ DATA_W - 1 \in Nat
  BY ReluWidths
<1>2. 2^SLOPE_W \in Nat /\ 2^SLOPE_W > 0 /\ 2^(DATA_W - 1) \in Nat
  BY <1>1, PowPositive
<1>3. x \in Int /\ slope \in Nat
  BY <1>2 DEF Activation, SignedRange, Slope
<1>4. /\ relu(x, slope) = GoldenRelu(x, slope)
      /\ relu(x + 1, slope) = GoldenRelu(x + 1, slope)
      /\ relu(x, slope) \in Int /\ relu(x + 1, slope) \in Int
      /\ x < 0 => relu(x, slope) <= 0
  BY <1>2, <1>3, UnitExact DEF Activation, SignedRange
<1>5. CASE x >= 0
  BY <1>3, <1>4, <1>5 DEF GoldenRelu
<1>6. CASE x < 0 /\ x + 1 >= 0
  BY <1>3, <1>4, <1>6 DEF GoldenRelu
<1>7. CASE x + 1 < 0
  <2> DEFINE K == 2^SLOPE_W
             y == x * slope
             z == (x + 1) * slope
  <2>1. y \in Int /\ z \in Int /\ y <= z /\ K \in Nat /\ K > 0
    BY <1>2, <1>3
  <2> HIDE DEF K, y, z
  <2>2. y \div K <= z \div K
    <3> DEFINE q == y \div K
               r == z \div K
    <3>1. /\ q \in Int /\ K * q <= y
          /\ r \in Int /\ z < K * r + K
      BY <2>1
    <3> HIDE DEF q, r
    <3>2. K * q < K * (r + 1)
      BY <2>1, <3>1
    <3>3. q < r + 1
      BY <2>1, <3>1, <3>2
    <3> QED BY <3>1, <3>3 DEF q, r
  <2>3. GoldenRelu(x, slope) = y \div K /\ GoldenRelu(x + 1, slope) = z \div K
    BY <1>3, <1>7 DEF GoldenRelu, y, z, K
  <2> QED BY <1>4, <2>2, <2>3
<1> QED BY <1>3, <1>5, <1>6, <1>7

-----------------------------------------------------------------------------
(* Types                                                                   *)

\* The ports carry what the environment may put on them.
PortsOK(aw, w, bready, ar, rready, s, m_ready) ==
    /\ SlavePortsOK(aw, w, bready, ar, rready)
    /\ s \in [valid : BOOLEAN, data : Activation, last : BOOLEAN]
    /\ m_ready \in BOOLEAN

\* What the widths come to: the powers of two behind the registers.
LEMMA Bounds ==
    /\ DATA_W - 1 \in Nat /\ SLOPE_W \in Nat /\ COUNT_W \in Nat
    /\ 2^(DATA_W - 1) \in Nat /\ 2^(DATA_W - 1) > 0
    /\ 2^SLOPE_W \in Nat /\ 2^SLOPE_W > 0
    /\ 2^COUNT_W \in Nat /\ 2^COUNT_W > 0
    /\ 0 \in Activation /\ 0 \in 0 .. 2^COUNT_W - 1
<1>1. DATA_W - 1 \in Nat /\ SLOPE_W \in Nat /\ COUNT_W \in Nat
  BY ReluWidths, CountWidth
<1>2. /\ 2^(DATA_W - 1) \in Nat /\ 2^(DATA_W - 1) > 0
      /\ 2^SLOPE_W \in Nat /\ 2^SLOPE_W > 0
      /\ 2^COUNT_W \in Nat /\ 2^COUNT_W > 0
  BY <1>1, PowPositive
<1> QED BY <1>1, <1>2 DEF Activation, SignedRange

\* Every edge the next-state relation takes has well-typed ports.
LEMMA PortTypes ==
    ASSUME TypeOK,
           NEW aw \in AwPort, NEW w \in WPort, NEW bready \in BPort,
           NEW ar \in ArPort, NEW rready \in RPort, NEW m_ready \in MPort,
           NEW s \in SPort(m_ready)
    PROVE  PortsOK(aw, w, bready, ar, rready, s, m_ready)
<1>1. SlavePortsOK(aw, w, bready, ar, rready)
  BY SlavePorts DEF TypeOK
<1>2. s \in [valid : BOOLEAN, data : Activation, last : BOOLEAN]
  <2>1. CASE s = NoBeat
    BY <2>1, Bounds DEF NoBeat
  <2>2. CASE s \in [valid : {TRUE}, data : Xs, last : BOOLEAN]
    BY <2>2, Environment
  <2> QED BY <2>1, <2>2 DEF SPort, Offer
<1>3. m_ready \in BOOLEAN
  BY DEF MPort, Offer
<1> QED BY <1>1, <1>2, <1>3 DEF PortsOK

\* Every word the read multiplexer can produce fits the bus.
LEMMA ReadWords ==
    ASSUME TypeOK, NEW addr \in Regs
    PROVE  rd_mux(addr) \in Words
<1>1. AXIL_DATA_W \in Nat /\ 2 <= AXIL_DATA_W
  BY BusWidth, CountWidth
<1>2. 2^AXIL_DATA_W \in Nat /\ 4 <= 2^AXIL_DATA_W
  <2>1. 2^2 = 4
    OBVIOUS
  <2> QED BY <1>1, <2>1, PowPositive, PowMonotone
<1>3. 0 .. 3 \subseteq Words
  BY <1>2 DEF Words
<1>4. slope_reg \in Int /\ count_q \in Int
  BY Bounds DEF TypeOK, Slope
<1>5. Unsigned(slope_reg, AXIL_DATA_W) \in Words /\ Unsigned(count_q, AXIL_DATA_W) \in Words
  BY <1>1, <1>4, UnsignedInRange DEF Words
<1>6. \A b : Bit(b, 0) \in {0, 1} /\ Bit(b, 1) \in {0, 2}
  <2>1. 2^0 = 1 /\ 2^1 = 2
    OBVIOUS
  <2> QED BY <2>1 DEF Bit
<1>7. status_word \in 0 .. 3 /\ Bit(en_reg, 0) \in 0 .. 3
  BY <1>6 DEF status_word
<1>8. ID_VALUE \in Words /\ 0 \in Words /\ status_word \in Words /\ Bit(en_reg, 0) \in Words
  BY <1>3, <1>7, Environment
<1> QED BY <1>5, <1>8, Zenon DEF rd_mux, Regs

\* The word on the bus of a write is one the environment issued.
LEMMA WrittenWord ==
    ASSUME TypeOK, NEW aw, NEW w, NEW bready, NEW ar, NEW rready,
           SlavePortsOK(aw, w, bready, ar, rready)
    PROVE  /\ wr_data(w) \in DataWord
           /\ Unsigned(wr_data(w).word, SLOPE_W) \in Slope
<1>1. wr_data(w) \in DataWord
  BY Environment DEF SlavePortsOK, wr_data, TypeOK, SlaveTypeOK
<1>2. 2^AXIL_DATA_W \in Nat
  BY BusWidth, PowPositive
<1>3. wr_data(w).word \in Int
  BY <1>1, <1>2 DEF DataWord, Words
<1> QED BY <1>1, <1>3, Bounds, UnsignedInRange DEF Slope

\* The history reads SLOPE off the completed writes; the register takes the same.
LEMMA SlopeIssued ==
    ASSUME TypeOK, WriteChannelInv, NEW aw, NEW w, NEW bready, NEW ar, NEW rready,
           NEW s, NEW m_ready,
           SlavePortsOK(aw, w, bready, ar, rready),
           SlaveHistory(aw, w, bready, ar), StreamHistory(s, m_ready)
    PROVE  slope_issued' = IF reg_wr(aw, w, "SLOPE") /\ wr_data(w).strb
                           THEN Unsigned(wr_data(w).word, SLOPE_W) ELSE slope_issued
<1> DEFINE slopeWrites == {x \in applied' : x.addr = "SLOPE" /\ x.data.strb}
           v == Unsigned(wr_data(w).word, SLOPE_W)
           commit == [addr |-> wr_addr(aw), data |-> wr_data(w)]
<1>1. applied' = IF wr_commit(aw, w) THEN {commit} ELSE {}
  BY PairingIsCommit
<1>2. slope_issued' = IF slopeWrites = {} THEN slope_issued
                      ELSE CHOOSE u \in Slope : \E x \in slopeWrites :
                               u = Unsigned(x.data.word, SLOPE_W)
  BY DEF StreamHistory
<1>3. commit.addr = wr_addr(aw) /\ commit.data = wr_data(w)
  OBVIOUS
<1>4. CASE reg_wr(aw, w, "SLOPE") /\ wr_data(w).strb
  <2>1. slopeWrites = {commit}
    BY <1>1, <1>3, <1>4 DEF reg_wr
  <2>2. v \in Slope
    BY WrittenWord
  <2>3. \A u : (\E x \in slopeWrites : u = Unsigned(x.data.word, SLOPE_W)) <=> u = v
    BY <1>3, <2>1
  <2> HIDE DEF slopeWrites, v
  <2>4. (CHOOSE u \in Slope : \E x \in slopeWrites :
             u = Unsigned(x.data.word, SLOPE_W)) = v
    BY <2>2, <2>3
  <2>5. slopeWrites # {}
    BY <2>1
  <2> QED BY <1>2, <1>4, <2>4, <2>5 DEF v
<1>5. CASE ~(reg_wr(aw, w, "SLOPE") /\ wr_data(w).strb)
  <2>1. slopeWrites = {}
    BY <1>1, <1>3, <1>5 DEF reg_wr
  <2> HIDE DEF slopeWrites
  <2> QED BY <1>2, <1>5, <2>1
<1> QED BY <1>4, <1>5

-----------------------------------------------------------------------------
(* The inductive invariant                                                 *)

\* The output register holds the last beat accepted, so it holds a tlast exactly
\* when no beat of a next tile has been accepted behind it.
PipeInv ==
    /\ out_last_q => out_valid_q
    /\ out_last_q => entering = 0
    /\ out_valid_q /\ ~out_last_q => entering > 0

\* The beat counter has counted the beats of the tile in flight, unless its first
\* beat met the tlast before it.
CountInv ==
    ~meets => beats_q = Unsigned(IF out_last_q THEN leaving ELSE entering, COUNT_W)

StreamInv ==
    /\ TypeOK
    /\ WriteChannelInv
    /\ slope_issued = slope_reg
    /\ StreamIsGolden
    /\ PipeInv
    /\ BusySpansTile
    /\ CountInv
    /\ SerialCountIsExact

\* Counting on the register is counting modulo its width.
LEMMA CountOnModulus ==
    ASSUME NEW M \in Nat, M > 0, NEW x \in Nat
    PROVE  ((x % M) + 1) % M = (x + 1) % M
<1> DEFINE q == x \div M
           r == x % M
<1>1. q \in Int /\ r \in 0 .. M-1 /\ x = M * q + r
  OBVIOUS
<1> HIDE DEF q, r
<1>2. CASE r + 1 < M
  <2>1. x + 1 = M * q + (r + 1) /\ r + 1 \in 0 .. M-1
    BY <1>1, <1>2
  <2>2. (x + 1) % M = r + 1
    BY <2>1, <1>1
  <2>3. (r + 1) % M = r + 1
    BY <2>1
  <2> QED BY <2>2, <2>3 DEF r
<1>3. CASE r + 1 = M
  <2>1. x + 1 = M * (q + 1) + 0
    BY <1>1, <1>3
  <2>2. (x + 1) % M = 0
    BY <2>1, <1>1
  <2>3. (r + 1) % M = 0
    BY <1>3
  <2> QED BY <2>2, <2>3 DEF r
<1> QED BY <1>1, <1>2, <1>3

\* Reset establishes the invariant from any state whose types are right.
LEMMA ResetStream == TypeOK /\ Reset => StreamInv'
<1> SUFFICES ASSUME TypeOK, Reset PROVE StreamInv'
  OBVIOUS
<1>1. WriteChannelInv' /\ SlaveTypeOK'
  BY SlaveResetInv, SlaveResetTypes DEF TypeOK, Reset
<1>2. TypeOK'
  <2>1. slope_reg' \in Slope /\ slope_issued' \in Slope
    BY Environment DEF Reset
  <2>2. inflight' \in Seq([data : Int, last : BOOLEAN])
    BY DEF Reset
  <2>3. /\ out_data_q' \in Activation
        /\ beats_q' \in 0 .. 2^COUNT_W - 1 /\ count_q' \in 0 .. 2^COUNT_W - 1
    BY Bounds DEF Reset
  <2>4. /\ en_reg' \in BOOLEAN /\ out_valid_q' \in BOOLEAN /\ out_last_q' \in BOOLEAN
        /\ busy_q' \in BOOLEAN /\ done_q' \in BOOLEAN
        /\ entering' \in Nat /\ leaving' \in Nat /\ completed' \in Nat
        /\ meets' \in BOOLEAN /\ met' \in BOOLEAN
    BY DEF Reset
  <2> QED BY <1>1, <2>1, <2>2, <2>3, <2>4 DEF TypeOK
<1>3. Unsigned(0, COUNT_W) = 0
  BY Bounds DEF Unsigned
<1>4. slope_issued' = slope_reg' /\ StreamIsGolden' /\ PipeInv' /\ BusySpansTile'
  <2>1. slope_issued' = slope_reg' /\ StreamIsGolden'
    BY DEF Reset, StreamIsGolden
  <2>2. PipeInv'
    BY DEF Reset, PipeInv
  <2>3. BusySpansTile'
    <3>1. ~(entering' > 0) /\ busy_q' = FALSE /\ out_valid_q' = FALSE
      BY DEF Reset
    <3> QED BY <3>1, Zenon DEF BusySpansTile
  <2> QED BY <2>1, <2>2, <2>3
<1>5. CountInv' /\ SerialCountIsExact'
  BY <1>3 DEF Reset, CountInv, SerialCountIsExact
<1> QED BY <1>1, <1>2, <1>4, <1>5 DEF StreamInv

\* It holds initially.
LEMMA InitStream == Init => StreamInv
<1> SUFFICES ASSUME Init PROVE StreamInv
  OBVIOUS
<1>1. WriteChannelInv /\ SlaveTypeOK
  BY SlaveInitInv, SlaveInitTypes DEF Init
<1>2. TypeOK
  <2>1. slope_reg \in Slope /\ slope_issued \in Slope
    BY Environment DEF Init
  <2>2. inflight \in Seq([data : Int, last : BOOLEAN])
    BY DEF Init
  <2>3. /\ out_data_q \in Activation
        /\ beats_q \in 0 .. 2^COUNT_W - 1 /\ count_q \in 0 .. 2^COUNT_W - 1
    BY Bounds DEF Init
  <2>4. /\ en_reg \in BOOLEAN /\ out_valid_q \in BOOLEAN /\ out_last_q \in BOOLEAN
        /\ busy_q \in BOOLEAN /\ done_q \in BOOLEAN
        /\ entering \in Nat /\ leaving \in Nat /\ completed \in Nat
        /\ meets \in BOOLEAN /\ met \in BOOLEAN
    BY DEF Init
  <2> QED BY <1>1, <2>1, <2>2, <2>3, <2>4 DEF TypeOK
<1>3. Unsigned(0, COUNT_W) = 0
  BY Bounds DEF Unsigned
<1>4. slope_issued = slope_reg /\ StreamIsGolden /\ PipeInv /\ BusySpansTile
  <2>1. slope_issued = slope_reg /\ StreamIsGolden
    BY DEF Init, StreamIsGolden
  <2>2. PipeInv
    BY DEF Init, PipeInv
  <2>3. BusySpansTile
    <3>1. ~(entering > 0) /\ busy_q = FALSE /\ out_valid_q = FALSE
      BY DEF Init
    <3> QED BY <3>1, Zenon DEF BusySpansTile
  <2> QED BY <2>1, <2>2, <2>3
<1>5. CountInv /\ SerialCountIsExact
  BY <1>3 DEF Init, CountInv, SerialCountIsExact
<1> QED BY <1>1, <1>2, <1>4, <1>5 DEF StreamInv

\* An edge out of reset: the register types, and with them what the stream shows.
LEMMA CycleData ==
    ASSUME StreamInv, NEW aw, NEW w, NEW bready, NEW ar, NEW rready,
           NEW s, NEW m_ready,
           PortsOK(aw, w, bready, ar, rready, s, m_ready),
           Cycle(aw, w, bready, ar, rready, s, m_ready)
    PROVE  TypeOK' /\ slope_issued' = slope_reg' /\ StreamIsGolden'
<1>1. /\ TypeOK /\ WriteChannelInv /\ SlavePortsOK(aw, w, bready, ar, rready)
      /\ s.valid \in BOOLEAN /\ s.data \in Activation /\ s.last \in BOOLEAN
      /\ m_ready \in BOOLEAN
  BY DEF StreamInv, PortsOK
<1>2. /\ SlaveEdge(aw, w, bready, ar, rready, rd_mux(ar.addr))
      /\ SlaveHistory(aw, w, bready, ar)
      /\ Registers(aw, w) /\ Pipeline(s, m_ready) /\ Accounting(s, m_ready)
      /\ StreamHistory(s, m_ready)
  BY DEF Cycle, SlaveEdge
<1>3. SlaveTypeOK'
  <2>1. ar.addr \in RdAddrs => rd_mux(ar.addr) \in Words
    BY <1>1, ReadWords, Environment
  <2> QED BY <1>1, <1>2, <2>1, SlaveEdgeTypes DEF TypeOK
<1>4. /\ wr_data(w) \in DataWord /\ Unsigned(wr_data(w).word, SLOPE_W) \in Slope
  BY <1>1, WrittenWord
<1>5. en_reg' \in BOOLEAN /\ slope_reg' \in Slope
  BY <1>1, <1>2, <1>4 DEF Registers, CtrlEn, TypeOK
<1>6. slope_issued' = slope_reg'
  <2>1. slope_issued = slope_reg
    BY DEF StreamInv
  <2>2. slope_issued' = IF reg_wr(aw, w, "SLOPE") /\ wr_data(w).strb
                        THEN Unsigned(wr_data(w).word, SLOPE_W) ELSE slope_issued
    BY <1>1, <1>2, SlopeIssued
  <2> QED BY <1>2, <2>1, <2>2 DEF Registers
<1>7. /\ relu(s.data, slope_reg) = GoldenRelu(s.data, slope_issued)
      /\ relu(s.data, slope_reg) \in Activation
      /\ relu(s.data, slope_reg) \in Int
  <2>1. slope_issued = slope_reg /\ slope_reg \in Slope
    BY DEF StreamInv, TypeOK
  <2>2. \A a \in Activation : a \in Int
    BY Bounds DEF Activation, SignedRange
  <2> QED BY <1>1, <2>1, <2>2, UnitExact
<1>8. out_valid_q' \in BOOLEAN /\ out_last_q' \in BOOLEAN /\ out_data_q' \in Activation
  BY <1>1, <1>2, <1>7 DEF Pipeline, TypeOK
<1>9. counted(s, m_ready) \in 0 .. 2^COUNT_W - 1
  <2>1. beats_q + 1 \in Int
    BY <1>1, Bounds DEF TypeOK
  <2>2. Unsigned(beats_q + 1, COUNT_W) \in 0 .. 2^COUNT_W - 1
    BY <2>1, Bounds, UnsignedInRange
  <2> QED BY <1>1, <2>2 DEF counted, TypeOK
<1>10. /\ busy_q' \in BOOLEAN /\ done_q' \in BOOLEAN
       /\ beats_q' \in 0 .. 2^COUNT_W - 1 /\ count_q' \in 0 .. 2^COUNT_W - 1
  BY <1>1, <1>2, <1>9, Bounds DEF Accounting, TypeOK
<1>11. /\ entering' \in Nat /\ leaving' \in Nat /\ completed' \in Nat
       /\ meets' \in BOOLEAN /\ met' \in BOOLEAN
  BY <1>1, <1>2 DEF StreamHistory, TypeOK, in_fire, s_axis_tready
<1>12. inflight' = IF out_valid_q' THEN <<[data |-> out_data_q', last |-> out_last_q']>>
                   ELSE <<>>
  <2> DEFINE new  == [data |-> GoldenRelu(s.data, slope_issued), last |-> s.last]
             kept == IF out_fire(m_ready) THEN Tail(inflight) ELSE inflight
  <2>1. inflight' = IF in_fire(s, m_ready) THEN Append(kept, new) ELSE kept
    BY <1>2 DEF StreamHistory
  <2>2. inflight = IF out_valid_q THEN <<[data |-> out_data_q, last |-> out_last_q]>>
                   ELSE <<>>
    BY DEF StreamInv, StreamIsGolden
  <2>3. kept = IF out_valid_q /\ ~m_ready
               THEN <<[data |-> out_data_q, last |-> out_last_q]>> ELSE <<>>
    <3>1. out_fire(m_ready) => Tail(inflight) = <<>>
      BY <2>2, Singleton DEF out_fire
    <3> QED BY <2>2, <3>1 DEF out_fire
  <2> HIDE DEF kept, new
  <2>4. CASE in_fire(s, m_ready)
    <3>1. kept = <<>>
      BY <2>3, <2>4 DEF in_fire, s_axis_tready
    <3>2. out_valid_q' /\ new = [data |-> out_data_q', last |-> out_last_q']
      BY <1>2, <1>7, <2>4 DEF Pipeline, new
    <3>3. inflight' = <<new>>
      BY <2>1, <2>4, <3>1
    <3> QED BY <3>2, <3>3
  <2>5. CASE ~in_fire(s, m_ready)
    <3>1. /\ out_valid_q' = (out_valid_q /\ ~m_ready)
          /\ out_valid_q' => out_last_q' = out_last_q /\ out_data_q' = out_data_q
      BY <1>1, <1>2, <2>5 DEF Pipeline, out_fire, TypeOK
    <3> QED BY <2>1, <2>3, <2>5, <3>1
  <2> QED BY <2>4, <2>5
<1>13. inflight' \in Seq([data : Int, last : BOOLEAN])
  <2>1. out_data_q' \in Int
    BY <1>8, Bounds DEF Activation, SignedRange
  <2>2. [data |-> out_data_q', last |-> out_last_q'] \in [data : Int, last : BOOLEAN]
    BY <1>8, <2>1
  <2> DEFINE T == [data : Int, last : BOOLEAN]
             out == [data |-> out_data_q', last |-> out_last_q']
  <2> HIDE DEF T, out
  <2>3. out \in T => <<out>> \in Seq(T)
    OBVIOUS
  <2>4. <<>> \in Seq(T)
    OBVIOUS
  <2> QED BY <1>12, <2>2, <2>3, <2>4 DEF T, out
<1> QED BY <1>3, <1>5, <1>6, <1>8, <1>10, <1>11, <1>12, <1>13 DEF TypeOK, StreamIsGolden

\* An edge out of reset: the tile accounting.
LEMMA CycleTiles ==
    ASSUME StreamInv, NEW aw, NEW w, NEW bready, NEW ar, NEW rready,
           NEW s, NEW m_ready,
           PortsOK(aw, w, bready, ar, rready, s, m_ready),
           Cycle(aw, w, bready, ar, rready, s, m_ready)
    PROVE  PipeInv' /\ BusySpansTile' /\ CountInv' /\ SerialCountIsExact'
<1> DEFINE in   == in_fire(s, m_ready)
           done == tile_done(m_ready)
<1>1. /\ s.valid \in BOOLEAN /\ s.last \in BOOLEAN /\ m_ready \in BOOLEAN
      /\ en_reg \in BOOLEAN /\ out_valid_q \in BOOLEAN /\ out_last_q \in BOOLEAN
      /\ busy_q \in BOOLEAN /\ done_q \in BOOLEAN /\ meets \in BOOLEAN /\ met \in BOOLEAN
      /\ entering \in Nat /\ leaving \in Nat
  BY DEF StreamInv, TypeOK, PortsOK
<1>2. PipeInv /\ BusySpansTile /\ CountInv /\ SerialCountIsExact
  BY DEF StreamInv
<1>3. /\ out_valid_q' = (in \/ (out_valid_q /\ ~m_ready))
      /\ out_last_q' = IF in THEN s.last ELSE out_last_q /\ ~(out_valid_q /\ m_ready)
      /\ in => ~out_valid_q \/ m_ready
      /\ done <=> out_valid_q /\ out_last_q /\ m_ready
  BY <1>1 DEF Cycle, Pipeline, out_fire, in_fire, s_axis_tready, tile_done
<1>4. /\ entering' = IF ~in THEN entering ELSE IF s.last THEN 0 ELSE entering + 1
      /\ leaving' = IF in /\ s.last THEN entering + 1 ELSE leaving
      /\ completed' = IF done THEN leaving ELSE completed
      /\ meets' = IF done THEN in ELSE meets
      /\ met' = IF done THEN meets \/ in ELSE met
  BY DEF Cycle, StreamHistory
<1>5. /\ busy_q' = (~done /\ (busy_q \/ (in /\ ~busy_q)))
      /\ done_q' = (done \/ (done_q /\ ~(in /\ ~busy_q)))
      /\ count_q' = IF done THEN counted(s, m_ready) ELSE count_q
      /\ beats_q' = IF done THEN 0 ELSE counted(s, m_ready)
      /\ counted(s, m_ready) = IF in THEN Unsigned(beats_q + 1, COUNT_W) ELSE beats_q
  BY DEF Cycle, Accounting, begins, counted
<1>6. in \in BOOLEAN /\ done \in BOOLEAN
  <2>1. in \in BOOLEAN
    BY DEF in_fire
  <2>2. done \in BOOLEAN
    BY DEF tile_done
  <2> QED BY <2>1, <2>2
<1> HIDE DEF in, done
<1>7. PipeInv'
  BY <1>1, <1>2, <1>3, <1>4, <1>6 DEF PipeInv
<1>8. BusySpansTile'
  <2> USE <1>1, <1>6
  <2>1. CASE done
    <3>1. ~in => ~out_valid_q' /\ entering' = 0 /\ ~busy_q'
      BY <1>2, <1>3, <1>4, <1>5, <2>1 DEF PipeInv
    <3>2. busy_q' \in BOOLEAN /\ entering' \in Nat
      BY <1>4, <1>5
    <3> QED BY <1>4, <2>1, <3>1, <3>2 DEF BusySpansTile
  <2>2. CASE ~done /\ in
    <3>1. busy_q' = TRUE
      BY <1>5, <2>2
    <3>2. entering' > 0 \/ (out_valid_q' /\ out_last_q')
      BY <1>3, <1>4, <2>2
    <3> QED BY <3>1, <3>2 DEF BusySpansTile
  <2>3. CASE ~done /\ ~in
    <3>1. busy_q' = busy_q /\ entering' = entering /\ meets' = meets
      BY <1>4, <1>5, <2>3
    <3>2. (out_valid_q' /\ out_last_q') <=> (out_valid_q /\ out_last_q)
      BY <1>3, <2>3
    <3> QED BY <1>2, <3>1, <3>2 DEF BusySpansTile
  <2> QED BY <2>1, <2>2, <2>3
<1>9. \A n \in Nat : beats_q = Unsigned(n, COUNT_W)
                     => Unsigned(beats_q + 1, COUNT_W) = Unsigned(n + 1, COUNT_W)
  BY Bounds, CountOnModulus DEF Unsigned
<1>10. CountInv'
  <2>1. CASE done
    <3>1. Unsigned(0, COUNT_W) = 0
      BY Bounds DEF Unsigned
    <3>2. ~in => ~out_last_q' /\ entering' = 0 /\ beats_q' = 0
      BY <1>1, <1>2, <1>3, <1>4, <1>5, <2>1 DEF PipeInv
    <3> QED BY <1>4, <2>1, <3>1, <3>2 DEF CountInv
  <2>2. CASE ~done /\ in
    <3>1. ~out_last_q
      BY <1>1, <1>2, <1>3, <2>2 DEF PipeInv
    <3>2. ~meets => beats_q = Unsigned(entering, COUNT_W)
      BY <1>2, <3>1 DEF CountInv
    <3>3. ~meets => beats_q' = Unsigned(entering + 1, COUNT_W)
      BY <1>1, <1>5, <1>9, <2>2, <3>2
    <3>4. (IF out_last_q' THEN leaving' ELSE entering') = entering + 1
      BY <1>3, <1>4, <2>2
    <3> QED BY <1>4, <2>2, <3>3, <3>4 DEF CountInv
  <2>3. CASE ~done /\ ~in
    <3>1. out_last_q' = out_last_q
      BY <1>1, <1>2, <1>3, <2>3 DEF PipeInv
    <3> QED BY <1>2, <1>4, <1>5, <2>3, <3>1 DEF CountInv
  <2> QED BY <1>6, <2>1, <2>2, <2>3
<1>11. SerialCountIsExact'
  <2>1. CASE done
    <3>1. ~meets => beats_q = Unsigned(leaving, COUNT_W)
      BY <1>2, <1>3, <2>1 DEF CountInv
    <3> QED BY <1>4, <1>5, <2>1, <3>1 DEF SerialCountIsExact
  <2>2. CASE ~done
    BY <1>1, <1>2, <1>4, <1>5, <2>2 DEF SerialCountIsExact
  <2> QED BY <2>1, <2>2
<1> QED BY <1>7, <1>8, <1>10, <1>11

\* The invariant is inductive.
LEMMA NextStream == StreamInv /\ [Next]_vars => StreamInv'
<1> SUFFICES ASSUME StreamInv, [Next]_vars PROVE StreamInv'
  OBVIOUS
<1>1. CASE Reset
  BY <1>1, ResetStream DEF StreamInv
<1>2. ASSUME NEW aw \in AwPort, NEW w \in WPort, NEW bready \in BPort,
             NEW ar \in ArPort, NEW rready \in RPort, NEW m_ready \in MPort,
             NEW s \in SPort(m_ready),
             Cycle(aw, w, bready, ar, rready, s, m_ready)
      PROVE  StreamInv'
  <2>1. PortsOK(aw, w, bready, ar, rready, s, m_ready)
    BY PortTypes DEF StreamInv
  <2>2. WriteChannelInv'
    <3>1. ar.addr \in RdAddrs => rd_mux(ar.addr) \in Words
      BY ReadWords, Environment DEF StreamInv
    <3>2. SlaveEdge(aw, w, bready, ar, rready, rd_mux(ar.addr))
      BY <1>2 DEF Cycle
    <3> QED BY <2>1, <3>1, <3>2, SlaveEdgeInv DEF StreamInv, PortsOK
  <2>3. TypeOK' /\ slope_issued' = slope_reg' /\ StreamIsGolden'
    BY <1>2, <2>1, CycleData
  <2>4. PipeInv' /\ BusySpansTile' /\ CountInv' /\ SerialCountIsExact'
    BY <1>2, <2>1, CycleTiles
  <2> QED BY <2>2, <2>3, <2>4 DEF StreamInv
<1>3. CASE UNCHANGED vars
  <2>1. WriteChannelInv'
    BY <1>3, SlaveStutterInv DEF StreamInv, vars
  <2>2. TypeOK'
    BY <1>3, <2>1 DEF StreamInv, WriteChannelInv, TypeOK,
       vars, regVars, outVars, tileVars, histVars
  <2>3. slope_issued' = slope_reg' /\ StreamIsGolden' /\ PipeInv' /\ BusySpansTile'
    BY <1>3 DEF StreamInv, StreamIsGolden, PipeInv, BusySpansTile,
       vars, regVars, outVars, tileVars, histVars
  <2>4. CountInv' /\ SerialCountIsExact'
    BY <1>3 DEF StreamInv, CountInv, SerialCountIsExact,
       vars, regVars, outVars, tileVars, histVars
  <2> QED BY <2>1, <2>2, <2>3, <2>4 DEF StreamInv
<1> QED BY <1>1, <1>2, <1>3 DEF Next

-----------------------------------------------------------------------------
(* What follows                                                            *)

\* Every register of relu_axi keeps a value of its width for ever.
THEOREM TypeCorrect == Spec => []TypeOK
<1>1. StreamInv => TypeOK
  BY DEF StreamInv
<1> QED BY <1>1, InitStream, NextStream, PTL DEF Spec

\* Every write is answered exactly once.
THEOREM WritesAnswered == Spec => []OneResponsePerWrite
<1>1. StreamInv => OneResponsePerWrite
  BY DEF StreamInv, WriteChannelInv
<1> QED BY <1>1, InitStream, NextStream, PTL DEF Spec

\* Every accepted activation leaves exactly once, in order, as the golden model
\* computes it under the slope in force when it was accepted.
THEOREM StreamHolds == Spec => []StreamIsGolden
<1>1. StreamInv => StreamIsGolden
  BY DEF StreamInv
<1> QED BY <1>1, InitStream, NextStream, PTL DEF Spec

\* BUSY spans every tile that met no neighbour on the edge a tlast left.
THEOREM BusyHolds == Spec => []BusySpansTile
<1>1. StreamInv => BusySpansTile
  BY DEF StreamInv
<1> QED BY <1>1, InitStream, NextStream, PTL DEF Spec

\* COUNT is the length of every completed tile that met no neighbour on the edge a
\* tlast left.
THEOREM AccountingHolds == Spec => []SerialCountIsExact
<1>1. StreamInv => SerialCountIsExact
  BY DEF StreamInv
<1> QED BY <1>1, InitStream, NextStream, PTL DEF Spec

-----------------------------------------------------------------------------
(* The testbench: what each kind of statement leads to                     *)

\* The contexts cs lead through the statements ops of test t to context d.
Chain(t, cs, ops, d) ==
    /\ \E S : cs \in Seq(S)
    /\ \E S : ops \in Seq(S)
    /\ Len(cs) = Len(ops) /\ Len(ops) > 0
    /\ \A i \in 1 .. Len(ops) :
          Rule(t, cs[i], ops[i], IF i = Len(ops) THEN d ELSE cs[i + 1])

\* What concatenation is, position by position.
LEMMA ConcatAt ==
    ASSUME NEW S, NEW s \in Seq(S), NEW r \in Seq(S)
    PROVE  /\ s \o r \in Seq(S) /\ Len(s \o r) = Len(s) + Len(r)
           /\ \A i \in 1 .. Len(s) + Len(r) :
                 (s \o r)[i] = IF i <= Len(s) THEN s[i] ELSE r[i - Len(s)]
OBVIOUS

\* Chains compose as their scripts do.
LEMMA Compose ==
    ASSUME NEW t, NEW cs, NEW ds, NEW r, NEW s, NEW e,
           Chain(t, cs, r, ds[1]), Chain(t, ds, s, e)
    PROVE  Chain(t, cs \o ds, r \o s, e)
<1>1. PICK S1 : cs \in Seq(S1)
  BY DEF Chain
<1>2. PICK S2 : ds \in Seq(S2)
  BY DEF Chain
<1>3. PICK S3 : r \in Seq(S3)
  BY DEF Chain
<1>4. PICK S4 : s \in Seq(S4)
  BY DEF Chain
<1>5. cs \in Seq(S1 \cup S2) /\ ds \in Seq(S1 \cup S2)
  BY <1>1, <1>2
<1>6. r \in Seq(S3 \cup S4) /\ s \in Seq(S3 \cup S4)
  BY <1>3, <1>4
<1> DEFINE C == S1 \cup S2
           O == S3 \cup S4
           m == Len(r)
           n == Len(s)
<1>7. /\ Len(cs) = m /\ Len(ds) = n /\ m \in Nat /\ n \in Nat /\ m > 0 /\ n > 0
      /\ \A i \in 1 .. m : Rule(t, cs[i], r[i], IF i = m THEN ds[1] ELSE cs[i + 1])
      /\ \A i \in 1 .. n : Rule(t, ds[i], s[i], IF i = n THEN e ELSE ds[i + 1])
  BY <1>3, <1>4 DEF Chain
<1> HIDE DEF C, O, m, n
<1>8. /\ cs \o ds \in Seq(C) /\ Len(cs \o ds) = m + n
      /\ \A i \in 1 .. m + n : (cs \o ds)[i] = IF i <= m THEN cs[i] ELSE ds[i - m]
  <2>1. cs \in Seq(C) /\ ds \in Seq(C) /\ Len(cs) = m /\ Len(ds) = n
    BY <1>5, <1>7 DEF C
  <2> QED BY <2>1, ConcatAt
<1>9. /\ r \o s \in Seq(O) /\ Len(r \o s) = m + n
       /\ \A i \in 1 .. m + n : (r \o s)[i] = IF i <= m THEN r[i] ELSE s[i - m]
  <2>1. r \in Seq(O) /\ s \in Seq(O) /\ Len(r) = m /\ Len(s) = n
    BY <1>6 DEF O, m, n
  <2> QED BY <2>1, ConcatAt
<1>10. ASSUME NEW i \in 1 .. m + n
      PROVE  Rule(t, (cs \o ds)[i], (r \o s)[i],
                  IF i = m + n THEN e ELSE (cs \o ds)[i + 1])
  <2>1. CASE i < m
    <3>1. i \in 1 .. m /\ i + 1 \in 1 .. m + n /\ i # m + n /\ i + 1 <= m
      BY <1>7, <2>1
    <3> QED BY <1>7, <1>8, <1>9, <2>1, <3>1
  <2>2. CASE i = m
    <3>1. i \in 1 .. m /\ i + 1 \in 1 .. m + n /\ i # m + n /\ (i + 1) - m = 1 /\ ~(i + 1 <= m)
      BY <1>7, <2>2
    <3> QED BY <1>7, <1>8, <1>9, <2>2, <3>1
  <2>3. CASE i > m
    <3>1. i - m \in 1 .. n /\ ~(i <= m) /\ (i = m + n <=> i - m = n)
      BY <1>7, <2>3
    <3>2. i # m + n => i + 1 \in 1 .. m + n /\ ~(i + 1 <= m) /\ (i + 1) - m = (i - m) + 1
      BY <1>7, <2>3
    <3>3. (cs \o ds)[i] = ds[i - m] /\ (r \o s)[i] = s[i - m]
      BY <1>8, <1>9, <3>1
    <3>4. i # m + n => (cs \o ds)[i + 1] = ds[(i - m) + 1]
      BY <1>8, <3>2
    <3>5. Rule(t, ds[i - m], s[i - m], IF i - m = n THEN e ELSE ds[(i - m) + 1])
      BY <1>7, <3>1
    <3>6. (IF i = m + n THEN e ELSE (cs \o ds)[i + 1])
          = (IF i - m = n THEN e ELSE ds[(i - m) + 1])
      BY <3>1, <3>4
    <3> QED BY <3>3, <3>5, <3>6, Zenon
  <2>4. i < m \/ i = m \/ i > m
    BY <1>7
  <2> QED BY <2>1, <2>2, <2>3, <2>4, Zenon
<1>11. Len(r \o s) > 0
  BY <1>7, <1>9
<1> QED BY <1>8, <1>9, <1>10, <1>11 DEF Chain

\* The contexts of the outline are contexts.
LEMMA ContextTypes ==
    /\ Start \in Contexts /\ Up \in Contexts /\ Pausing \in Contexts
    /\ Watched \in Contexts /\ Disabled \in Contexts /\ Driven \in Contexts
    /\ \A slope \in Slope : Under(slope) \in Contexts
    /\ \A c \in Contexts : /\ \A k \in Nat : Sent(c, k) \in Contexts /\ Home(c, k) \in Contexts
                           /\ \A e \in {"no", "before", "after"} : Early(c, e) \in Contexts
<1>1. SLOPE_RESET \in Slope
  BY Environment
<1>2. Start \in Contexts
  BY <1>1 DEF Start, Contexts
<1>3. Up \in Contexts
  BY <1>2 DEF Up, Contexts
<1>4. Pausing \in Contexts /\ Watched \in Contexts /\ Disabled \in Contexts
  BY <1>3 DEF Pausing, Watched, Disabled, Contexts
<1>5. Driven \in Contexts
  BY <1>4 DEF Driven, Contexts
<1>6. \A slope \in Slope : Under(slope) \in Contexts
  BY <1>3 DEF Under, Contexts
<1>7. ASSUME NEW c \in Contexts
      PROVE  /\ \A k \in Nat : Sent(c, k) \in Contexts /\ Home(c, k) \in Contexts
             /\ \A e \in {"no", "before", "after"} : Early(c, e) \in Contexts
  BY DEF Sent, Home, Early, Contexts
<1> QED BY <1>2, <1>3, <1>4, <1>5, <1>6, <1>7

\* What the context Up says.
LEMMA UpFields ==
    /\ Up.up = TRUE /\ Up.flow = TRUE /\ Up.en = TRUE /\ Up.slope = SLOPE_RESET
    /\ Up.driven = FALSE /\ Up.monitoring = FALSE /\ Up.sent = FALSE /\ Up.tile = 0
    /\ Up.early = "no"
BY DEF Up, Start

\* What Pausing says.
LEMMA PausingFields ==
    /\ Pausing.up = TRUE /\ Pausing.flow = FALSE /\ Pausing.en = TRUE /\ Pausing.slope = SLOPE_RESET
    /\ Pausing.driven = FALSE /\ Pausing.monitoring = FALSE
    /\ Pausing.sent = FALSE /\ Pausing.tile = 0
    /\ Pausing.early = "no"
BY DEF Pausing, Up, Start

\* What Watched says.
LEMMA WatchedFields ==
    /\ Watched.up = TRUE /\ Watched.flow = TRUE /\ Watched.en = TRUE /\ Watched.slope = SLOPE_RESET
    /\ Watched.driven = FALSE /\ Watched.monitoring = TRUE
    /\ Watched.sent = FALSE /\ Watched.tile = 0
    /\ Watched.early = "no"
BY DEF Watched, Up, Start

\* What Disabled says.
LEMMA DisabledFields ==
    /\ Disabled.up = TRUE /\ Disabled.flow = TRUE
    /\ Disabled.en = FALSE /\ Disabled.slope = SLOPE_RESET
    /\ Disabled.driven = FALSE /\ Disabled.monitoring = FALSE
    /\ Disabled.sent = FALSE /\ Disabled.tile = 0
    /\ Disabled.early = "no"
BY DEF Disabled, Up, Start

\* What Driven says.
LEMMA DrivenFields ==
    /\ Driven.up = TRUE /\ Driven.flow = TRUE /\ Driven.en = FALSE /\ Driven.slope = SLOPE_RESET
    /\ Driven.driven = TRUE /\ Driven.monitoring = FALSE /\ Driven.sent = FALSE /\ Driven.tile = 0
    /\ Driven.early = "no"
BY DEF Driven, Disabled, Up, Start

\* What Under says.
LEMMA UnderFields ==
    ASSUME NEW s
    PROVE /\ Under(s).up = TRUE /\ Under(s).flow = TRUE /\ Under(s).en = TRUE /\ Under(s).slope = s
          /\ Under(s).driven = FALSE /\ Under(s).monitoring = FALSE
          /\ Under(s).sent = FALSE /\ Under(s).tile = 0
          /\ Under(s).early = "no"
BY DEF Under, Up, Start

\* What sending a tile changes of a context.
LEMMA SentFields ==
    ASSUME NEW c \in Contexts, NEW k
    PROVE /\ Sent(c, k).up = c.up /\ Sent(c, k).flow = c.flow /\ Sent(c, k).en = c.en
          /\ Sent(c, k).slope = c.slope
          /\ Sent(c, k).driven = c.driven /\ Sent(c, k).monitoring = c.monitoring
          /\ Sent(c, k).sent = TRUE /\ Sent(c, k).tile = k /\ Sent(c, k).early = c.early
BY DEF Sent, Contexts

\* What receiving a tile changes of a context.
LEMMA HomeFields ==
    ASSUME NEW c \in Contexts, NEW k
    PROVE /\ Home(c, k).up = c.up /\ Home(c, k).flow = c.flow /\ Home(c, k).en = c.en
          /\ Home(c, k).slope = c.slope
          /\ Home(c, k).driven = c.driven /\ Home(c, k).monitoring = c.monitoring
          /\ Home(c, k).sent = FALSE /\ Home(c, k).tile = k /\ Home(c, k).early = c.early
BY DEF Home, Contexts

\* What an early read changes of a context.
LEMMA EarlyFields ==
    ASSUME NEW c \in Contexts, NEW e
    PROVE /\ Early(c, e).up = c.up /\ Early(c, e).flow = c.flow /\ Early(c, e).en = c.en
          /\ Early(c, e).slope = c.slope
          /\ Early(c, e).driven = c.driven /\ Early(c, e).monitoring = c.monitoring
          /\ Early(c, e).sent = c.sent /\ Early(c, e).tile = c.tile /\ Early(c, e).early = e
BY DEF Early, Contexts

\* A change that is undone, or made again, leaves the context as it was.
LEMMA SameContext ==
    /\ \A c \in Contexts : c.early = "no" => Early(c, "no") = c
    /\ \A c \in Contexts : \A k, l : Home(Sent(c, l), k) = Home(c, k)
    /\ \A c \in Contexts : \A d, e : Early(Early(c, d), e) = Early(c, e)
<1>1. \A c \in Contexts : c.early = "no" => Early(c, "no") = c
  BY DEF Early, Contexts
<1>2. ASSUME NEW c \in Contexts, NEW k, NEW l PROVE Home(Sent(c, l), k) = Home(c, k)
  BY DEF Home, Sent, Contexts
<1>3. ASSUME NEW c \in Contexts, NEW d, NEW e PROVE Early(Early(c, d), e) = Early(c, e)
  BY DEF Early, Contexts
<1> QED BY <1>1, <1>2, <1>3

\* A context is its fields.
LEMMA ContextEq ==
    ASSUME NEW c \in Contexts, NEW d \in Contexts,
           c.up = d.up, c.flow = d.flow, c.en = d.en, c.slope = d.slope, c.driven = d.driven,
           c.monitoring = d.monitoring, c.sent = d.sent, c.tile = d.tile, c.early = d.early
    PROVE  c = d
BY DEF Contexts

\* Writing SLOPE changes the slope a context is under, and nothing else of it.
LEMMA SlopeContext ==
    ASSUME NEW s \in Slope, NEW r \in Slope, NEW k \in Nat
    PROVE  /\ [Home(Under(s), k) EXCEPT !.slope = r] = Home(Under(r), k)
           /\ Up = Home(Under(SLOPE_RESET), 0)
<1>1. /\ Under(s) \in Contexts /\ Under(r) \in Contexts /\ SLOPE_RESET \in Slope
      /\ Under(SLOPE_RESET) \in Contexts /\ Up \in Contexts
  BY ContextTypes, Environment
<1>2. /\ Home(Under(s), k) \in Contexts /\ Home(Under(r), k) \in Contexts
      /\ Home(Under(SLOPE_RESET), 0) \in Contexts
  BY <1>1, ContextTypes
<1>3. Up = Home(Under(SLOPE_RESET), 0)
  <2> DEFINE c == Home(Under(SLOPE_RESET), 0)
  <2>1. /\ Up.up = c.up /\ Up.flow = c.flow /\ Up.en = c.en /\ Up.slope = c.slope
        /\ Up.driven = c.driven /\ Up.monitoring = c.monitoring /\ Up.sent = c.sent
        /\ Up.tile = c.tile /\ Up.early = c.early
    <3>1. /\ c.up = TRUE /\ c.flow = TRUE /\ c.en = TRUE /\ c.slope = SLOPE_RESET
            /\ c.driven = FALSE /\ c.monitoring = FALSE /\ c.sent = FALSE
            /\ c.tile = 0 /\ c.early = "no"
      BY DEF Home, Under, Up, Start
    <3> HIDE DEF c
    <3> QED BY <3>1, UpFields
  <2> QED BY <1>1, <1>2, <2>1, ContextEq, Zenon
<1> DEFINE c == Home(Under(s), k)
           d == [c EXCEPT !.slope = r]
<1>4. /\ d \in Contexts
      /\ d.up = c.up /\ d.flow = c.flow /\ d.en = c.en /\ d.slope = r /\ d.driven = c.driven
      /\ d.monitoring = c.monitoring /\ d.sent = c.sent /\ d.tile = c.tile /\ d.early = c.early
  <2>1. c \in Contexts
    BY <1>2
  <2> HIDE DEF c
  <2> QED BY <2>1 DEF Contexts
<1> HIDE DEF d
<1>5. d = Home(Under(r), k)
  <2> DEFINE e == Home(Under(r), k)
  <2>1. /\ d.up = e.up /\ d.flow = e.flow /\ d.en = e.en /\ d.slope = e.slope
        /\ d.driven = e.driven /\ d.monitoring = e.monitoring /\ d.sent = e.sent
        /\ d.tile = e.tile /\ d.early = e.early
    <3>1. /\ c.up = TRUE /\ c.flow = TRUE /\ c.en = TRUE /\ c.slope = s
            /\ c.driven = FALSE /\ c.monitoring = FALSE /\ c.sent = FALSE
            /\ c.tile = k /\ c.early = "no"
      BY DEF Home, Under, Up, Start
    <3>2. /\ e.up = TRUE /\ e.flow = TRUE /\ e.en = TRUE /\ e.slope = r
            /\ e.driven = FALSE /\ e.monitoring = FALSE /\ e.sent = FALSE
            /\ e.tile = k /\ e.early = "no"
      BY DEF Home, Under, Up, Start
    <3> HIDE DEF c, e
    <3> QED BY <1>4, <3>1, <3>2
  <2> QED BY <1>2, <1>4, <2>1, ContextEq, Zenon
<1> QED BY <1>3, <1>5 DEF d

\* A script of one statement.
LEMMA Chain1 ==
    ASSUME NEW t, NEW c1, NEW s1, NEW d, Rule(t, c1, s1, d)
    PROVE  Chain(t, <<c1>>, <<s1>>, d)
<1>1. <<c1>> \in Seq({c1}) /\ <<s1>> \in Seq({s1})
  OBVIOUS
<1>2. Len(<<c1>>) = 1 /\ Len(<<s1>>) = 1 /\ <<c1>>[1] = c1 /\ <<s1>>[1] = s1
  OBVIOUS
<1>3. ASSUME NEW i \in 1 .. 1
      PROVE  Rule(t, <<c1>>[i], <<s1>>[i], IF i = 1 THEN d ELSE <<c1>>[i + 1])
  <2>1. i = 1
    OBVIOUS
  <2> QED BY <2>1, <1>2
<1>4. (\E S : <<c1>> \in Seq(S)) /\ (\E S : <<s1>> \in Seq(S))
  BY <1>1
<1> QED BY <1>2, <1>3, <1>4 DEF Chain

\* A script of two statements.
LEMMA Chain2 ==
    ASSUME NEW t, NEW c1, NEW c2, NEW d,
           NEW s1, NEW s2,
           Rule(t, c1, s1, c2), Rule(t, c2, s2, d)
    PROVE  Chain(t, <<c1, c2>>,
                    <<s1, s2>>, d)
<1> DEFINE cs == <<c1, c2>>
           ss == <<s1, s2>>
<1>1. cs \in Seq({c1, c2}) /\ Len(cs) = 2
  OBVIOUS
<1>2. ss \in Seq({s1, s2}) /\ Len(ss) = 2
  OBVIOUS
<1>3. cs[1] = c1 /\ cs[2] = c2
  OBVIOUS
<1>4. ss[1] = s1 /\ ss[2] = s2
  OBVIOUS
<1> HIDE DEF cs, ss
<1>5. ASSUME NEW i \in 1 .. 2 PROVE Rule(t, cs[i], ss[i], IF i = 2 THEN d ELSE cs[i + 1])
  <2>1. CASE i = 1
    BY <1>3, <1>4, <2>1
  <2>2. CASE i = 2
    BY <1>3, <1>4, <2>2
  <2> QED BY <2>1, <2>2
<1>6. (\E S : cs \in Seq(S)) /\ (\E S : ss \in Seq(S))
  BY <1>1, <1>2
<1>7. Chain(t, cs, ss, d)
  BY <1>1, <1>2, <1>5, <1>6 DEF Chain
<1> QED BY <1>7 DEF cs, ss

\* A script of four statements.
LEMMA Chain4 ==
    ASSUME NEW t, NEW c1, NEW c2, NEW c3, NEW c4, NEW d,
           NEW s1, NEW s2, NEW s3, NEW s4,
           Rule(t, c1, s1, c2), Rule(t, c2, s2, c3), Rule(t, c3, s3, c4),
           Rule(t, c4, s4, d)
    PROVE  Chain(t, <<c1, c2, c3, c4>>,
                    <<s1, s2, s3, s4>>, d)
<1> DEFINE cs == <<c1, c2, c3, c4>>
           ss == <<s1, s2, s3, s4>>
<1>1. cs \in Seq({c1, c2, c3, c4}) /\ Len(cs) = 4
  OBVIOUS
<1>2. ss \in Seq({s1, s2, s3, s4}) /\ Len(ss) = 4
  OBVIOUS
<1>3. cs[1] = c1 /\ cs[2] = c2 /\ cs[3] = c3 /\ cs[4] = c4
  OBVIOUS
<1>4. ss[1] = s1 /\ ss[2] = s2 /\ ss[3] = s3 /\ ss[4] = s4
  OBVIOUS
<1> HIDE DEF cs, ss
<1>5. ASSUME NEW i \in 1 .. 4 PROVE Rule(t, cs[i], ss[i], IF i = 4 THEN d ELSE cs[i + 1])
  <2>1. CASE i = 1
    BY <1>3, <1>4, <2>1
  <2>2. CASE i = 2
    BY <1>3, <1>4, <2>2
  <2>3. CASE i = 3
    BY <1>3, <1>4, <2>3
  <2>4. CASE i = 4
    BY <1>3, <1>4, <2>4
  <2> QED BY <2>1, <2>2, <2>3, <2>4
<1>6. (\E S : cs \in Seq(S)) /\ (\E S : ss \in Seq(S))
  BY <1>1, <1>2
<1>7. Chain(t, cs, ss, d)
  BY <1>1, <1>2, <1>5, <1>6 DEF Chain
<1> QED BY <1>7 DEF cs, ss

\* A script of five statements.
LEMMA Chain5 ==
    ASSUME NEW t, NEW c1, NEW c2, NEW c3, NEW c4, NEW c5, NEW d,
           NEW s1, NEW s2, NEW s3, NEW s4, NEW s5,
           Rule(t, c1, s1, c2), Rule(t, c2, s2, c3), Rule(t, c3, s3, c4),
           Rule(t, c4, s4, c5), Rule(t, c5, s5, d)
    PROVE  Chain(t, <<c1, c2, c3, c4, c5>>,
                    <<s1, s2, s3, s4, s5>>, d)
<1> DEFINE cs == <<c1, c2, c3, c4, c5>>
           ss == <<s1, s2, s3, s4, s5>>
<1>1. cs \in Seq({c1, c2, c3, c4, c5}) /\ Len(cs) = 5
  OBVIOUS
<1>2. ss \in Seq({s1, s2, s3, s4, s5}) /\ Len(ss) = 5
  OBVIOUS
<1>3. cs[1] = c1 /\ cs[2] = c2 /\ cs[3] = c3 /\ cs[4] = c4 /\ cs[5] = c5
  OBVIOUS
<1>4. ss[1] = s1 /\ ss[2] = s2 /\ ss[3] = s3 /\ ss[4] = s4 /\ ss[5] = s5
  OBVIOUS
<1> HIDE DEF cs, ss
<1>5. ASSUME NEW i \in 1 .. 5 PROVE Rule(t, cs[i], ss[i], IF i = 5 THEN d ELSE cs[i + 1])
  <2>1. CASE i = 1
    BY <1>3, <1>4, <2>1
  <2>2. CASE i = 2
    BY <1>3, <1>4, <2>2
  <2>3. CASE i = 3
    BY <1>3, <1>4, <2>3
  <2>4. CASE i = 4
    BY <1>3, <1>4, <2>4
  <2>5. CASE i = 5
    BY <1>3, <1>4, <2>5
  <2> QED BY <2>1, <2>2, <2>3, <2>4, <2>5
<1>6. (\E S : cs \in Seq(S)) /\ (\E S : ss \in Seq(S))
  BY <1>1, <1>2
<1>7. Chain(t, cs, ss, d)
  BY <1>1, <1>2, <1>5, <1>6 DEF Chain
<1> QED BY <1>7 DEF cs, ss

\* A script of six statements.
LEMMA Chain6 ==
    ASSUME NEW t, NEW c1, NEW c2, NEW c3, NEW c4, NEW c5, NEW c6, NEW d,
           NEW s1, NEW s2, NEW s3, NEW s4, NEW s5, NEW s6,
           Rule(t, c1, s1, c2), Rule(t, c2, s2, c3), Rule(t, c3, s3, c4),
           Rule(t, c4, s4, c5), Rule(t, c5, s5, c6), Rule(t, c6, s6, d)
    PROVE  Chain(t, <<c1, c2, c3, c4, c5, c6>>,
                    <<s1, s2, s3, s4, s5, s6>>, d)
<1> DEFINE cs == <<c1, c2, c3, c4, c5, c6>>
           ss == <<s1, s2, s3, s4, s5, s6>>
<1>1. cs \in Seq({c1, c2, c3, c4, c5, c6}) /\ Len(cs) = 6
  OBVIOUS
<1>2. ss \in Seq({s1, s2, s3, s4, s5, s6}) /\ Len(ss) = 6
  OBVIOUS
<1>3. cs[1] = c1 /\ cs[2] = c2 /\ cs[3] = c3 /\ cs[4] = c4 /\ cs[5] = c5 /\ cs[6] = c6
  OBVIOUS
<1>4. ss[1] = s1 /\ ss[2] = s2 /\ ss[3] = s3 /\ ss[4] = s4 /\ ss[5] = s5 /\ ss[6] = s6
  OBVIOUS
<1> HIDE DEF cs, ss
<1>5. ASSUME NEW i \in 1 .. 6 PROVE Rule(t, cs[i], ss[i], IF i = 6 THEN d ELSE cs[i + 1])
  <2>1. CASE i = 1
    BY <1>3, <1>4, <2>1
  <2>2. CASE i = 2
    BY <1>3, <1>4, <2>2
  <2>3. CASE i = 3
    BY <1>3, <1>4, <2>3
  <2>4. CASE i = 4
    BY <1>3, <1>4, <2>4
  <2>5. CASE i = 5
    BY <1>3, <1>4, <2>5
  <2>6. CASE i = 6
    BY <1>3, <1>4, <2>6
  <2> QED BY <2>1, <2>2, <2>3, <2>4, <2>5, <2>6
<1>6. (\E S : cs \in Seq(S)) /\ (\E S : ss \in Seq(S))
  BY <1>1, <1>2
<1>7. Chain(t, cs, ss, d)
  BY <1>1, <1>2, <1>5, <1>6 DEF Chain
<1> QED BY <1>7 DEF cs, ss

\* A script of seven statements.
LEMMA Chain7 ==
    ASSUME NEW t, NEW c1, NEW c2, NEW c3, NEW c4, NEW c5, NEW c6, NEW c7, NEW d,
           NEW s1, NEW s2, NEW s3, NEW s4, NEW s5, NEW s6, NEW s7,
           Rule(t, c1, s1, c2), Rule(t, c2, s2, c3), Rule(t, c3, s3, c4),
           Rule(t, c4, s4, c5), Rule(t, c5, s5, c6), Rule(t, c6, s6, c7),
           Rule(t, c7, s7, d)
    PROVE  Chain(t, <<c1, c2, c3, c4, c5, c6, c7>>,
                    <<s1, s2, s3, s4, s5, s6, s7>>, d)
<1> DEFINE cs == <<c1, c2, c3, c4, c5, c6, c7>>
           ss == <<s1, s2, s3, s4, s5, s6, s7>>
<1>1. cs \in Seq({c1, c2, c3, c4, c5, c6, c7}) /\ Len(cs) = 7
  OBVIOUS
<1>2. ss \in Seq({s1, s2, s3, s4, s5, s6, s7}) /\ Len(ss) = 7
  OBVIOUS
<1>3. cs[1] = c1 /\ cs[2] = c2 /\ cs[3] = c3 /\ cs[4] = c4 /\ cs[5] = c5 /\ cs[6] = c6 /\ cs[7] = c7
  OBVIOUS
<1>4. ss[1] = s1 /\ ss[2] = s2 /\ ss[3] = s3 /\ ss[4] = s4 /\ ss[5] = s5 /\ ss[6] = s6 /\ ss[7] = s7
  OBVIOUS
<1> HIDE DEF cs, ss
<1>5. ASSUME NEW i \in 1 .. 7 PROVE Rule(t, cs[i], ss[i], IF i = 7 THEN d ELSE cs[i + 1])
  <2>1. CASE i = 1
    BY <1>3, <1>4, <2>1
  <2>2. CASE i = 2
    BY <1>3, <1>4, <2>2
  <2>3. CASE i = 3
    BY <1>3, <1>4, <2>3
  <2>4. CASE i = 4
    BY <1>3, <1>4, <2>4
  <2>5. CASE i = 5
    BY <1>3, <1>4, <2>5
  <2>6. CASE i = 6
    BY <1>3, <1>4, <2>6
  <2>7. CASE i = 7
    BY <1>3, <1>4, <2>7
  <2> QED BY <2>1, <2>2, <2>3, <2>4, <2>5, <2>6, <2>7
<1>6. (\E S : cs \in Seq(S)) /\ (\E S : ss \in Seq(S))
  BY <1>1, <1>2
<1>7. Chain(t, cs, ss, d)
  BY <1>1, <1>2, <1>5, <1>6 DEF Chain
<1> QED BY <1>7 DEF cs, ss

\* What each kind of statement leads to, from a context a test is in while no
\* statement of it must be early.
Calm(c) == c \in Contexts /\ c.up = TRUE /\ c.early = "no"

\* What the statement read is.
LEMMA ReadFields ==
    ASSUME NEW reg, NEW want
    PROVE  /\ read(reg, want).kind = "read" /\ read(reg, want).lags = ReadLags("master")
           /\ read(reg, want).awaits = {"ar", "r"} /\ read(reg, want).addr = reg
           /\ read(reg, want).want = want /\ read(reg, want).of = 0
BY DEF read, Read

\* A read leaves the context.
LEMMA ReadLeads ==
    ASSUME NEW t, NEW c, Calm(c), NEW reg, NEW want, Readable(c, read(reg, want))
    PROVE  Rule(t, c, read(reg, want), c)
<1>1. c \in Contexts /\ c.up = TRUE /\ c.early # "before" /\ Early(c, "no") = c
  BY SameContext DEF Calm
<1>2. ReadRule(c, read(reg, want), c)
  BY <1>1, ReadFields DEF ReadRule
<1> QED BY <1>1, <1>2 DEF Rule

\* Reading the result of the last tile leaves the context.
LEMMA ResultLeads ==
    ASSUME NEW t, NEW c, Calm(c), NEW k, c.tile = k, k # 0, c.sent = FALSE
    PROVE  Rule(t, c, ReadResult("master", "COUNT", k), c)
<1> DEFINE op == ReadResult("master", "COUNT", k)
<1>1. c \in Contexts /\ c.up = TRUE /\ c.early # "before" /\ Early(c, "no") = c
  BY SameContext DEF Calm
<1>2. /\ op.kind = "read" /\ op.lags = ReadLags("master")
      /\ op.awaits = {"ar", "r"} /\ op.addr = "COUNT" /\ op.of = k
  BY DEF ReadResult, Read
<1> HIDE DEF op
<1>3. Readable(c, op)
  BY <1>2 DEF Readable
<1>4. ReadRule(c, op, c)
  BY <1>1, <1>2, <1>3 DEF ReadRule
<1> QED BY <1>1, <1>4 DEF Rule, op

\* Polling for DONE leaves the context.
LEMMA PollLeads ==
    ASSUME NEW t, NEW c, Calm(c), c.tile # 0, c.sent = FALSE
    PROVE  Rule(t, c, await_done, c)
<1>1. c \in Contexts /\ c.up = TRUE /\ c.early = "no"
  BY DEF Calm
<1>2. PollRule(c, await_done, c)
  BY <1>1 DEF PollRule, await_done, Poll
<1> QED BY <1>1, <1>2 DEF Rule

\* Sending a tile puts it under way.
LEMMA SendLeads ==
    ASSUME NEW t, NEW c, Calm(c), NEW k \in Nat \ {0},
           c.sent = FALSE, c.driven = FALSE, c.monitoring = FALSE \/ c.tile = 0
    PROVE  Rule(t, c, Send(k), Sent(c, k))
<1>1. c \in Contexts /\ c.up = TRUE /\ c.early = "no" /\ Sent(c, k) \in Contexts
  BY ContextTypes DEF Calm
<1>2. Send(k).kind = "send" /\ Send(k).tile = k
  BY DEF Send
<1>3. SendRule(t, c, Send(k), Sent(c, k))
  BY <1>1, <1>2 DEF SendRule
<1> QED BY <1>1, <1>3 DEF Rule

\* Receiving a tile brings it home, its values compared or only counted.
LEMMA RecvLeads ==
    ASSUME NEW t, NEW c, Calm(c), NEW k \in Nat \ {0}
    PROVE  /\ Rule(t, Sent(c, k), recv_tile(k, c.slope), Home(c, k))
           /\ Rule(t, Sent(c, k), recv_length(k), Home(c, k))
<1>1. /\ c \in Contexts /\ c.up = TRUE /\ c.early = "no"
      /\ Sent(c, k) \in Contexts /\ Home(c, k) \in Contexts /\ Home(Sent(c, k), k) = Home(c, k)
  BY ContextTypes, SameContext DEF Calm
<1>2. /\ Sent(c, k).up = c.up /\ Sent(c, k).early = c.early /\ Sent(c, k).sent = TRUE
      /\ Sent(c, k).tile = k /\ Sent(c, k).slope = c.slope
  BY <1>1, SentFields
<1>3. /\ recv_tile(k, c.slope).kind = "recv" /\ recv_tile(k, c.slope).tile = k
      /\ recv_tile(k, c.slope).golden = TRUE /\ recv_tile(k, c.slope).slope = c.slope
      /\ recv_length(k).kind = "recv" /\ recv_length(k).tile = k
      /\ recv_length(k).golden = FALSE
  BY DEF recv_tile, recv_length
<1>4. RecvRule(Sent(c, k), recv_tile(k, c.slope), Home(c, k))
  BY <1>1, <1>2, <1>3 DEF RecvRule
<1>5. RecvRule(Sent(c, k), recv_length(k), Home(c, k))
  BY <1>1, <1>2, <1>3 DEF RecvRule
<1> QED BY <1>1, <1>4, <1>5 DEF Rule

\* run_tile sends a tile and brings it home.
LEMMA TileLeads ==
    ASSUME NEW t, NEW c, Calm(c), NEW k \in Nat \ {0},
           c.sent = FALSE, c.driven = FALSE, c.monitoring = FALSE
    PROVE  Chain(t, <<c, Sent(c, k)>>, run_tile(k, c.slope), Home(c, k))
<1>1. Rule(t, c, Send(k), Sent(c, k))
  BY SendLeads
<1>2. Rule(t, Sent(c, k), recv_tile(k, c.slope), Home(c, k))
  BY RecvLeads
<1> QED BY <1>1, <1>2, Chain2 DEF run_tile

\* Writing SLOPE sets the slope to the low bits of the word.
LEMMA SlopeLeads ==
    ASSUME NEW t, NEW c, Calm(c), c.sent = FALSE, c.driven = FALSE, NEW word \in Int
    PROVE  Rule(t, c, write("SLOPE", word), [c EXCEPT !.slope = Unsigned(word, SLOPE_W)])
<1> DEFINE d == [c EXCEPT !.slope = Unsigned(word, SLOPE_W)]
           op == write("SLOPE", word)
<1>1. c \in Contexts /\ c.up = TRUE /\ c.early = "no"
  BY DEF Calm
<1>2. Unsigned(word, SLOPE_W) \in Slope
  BY Bounds, UnsignedInRange DEF Slope
<1>3. d \in Contexts
  BY <1>1, <1>2 DEF Contexts
<1>4. /\ op.kind = "write" /\ op.lags = WriteLags("master") /\ op.addr = "SLOPE"
      /\ op.awaits = {"aw", "w", "b"} /\ op.data.strb = TRUE /\ op.data.word = word
  BY DEF write, Write
<1> HIDE DEF op
<1>5. WriteRule(c, op, d)
  BY <1>1, <1>4 DEF WriteRule
<1> QED BY <1>1, <1>3, <1>5 DEF Rule, op

\* Writing CTRL sets the enable to bit 0 of the word.
LEMMA CtrlLeads ==
    ASSUME NEW t, NEW c, Calm(c), c.sent = FALSE, c.driven = FALSE, NEW word \in Int
    PROVE  Rule(t, c, write("CTRL", word), [c EXCEPT !.en = (word % 2 = 1)])
<1> DEFINE d == [c EXCEPT !.en = (word % 2 = 1)]
           op == write("CTRL", word)
<1>1. c \in Contexts /\ c.up = TRUE /\ c.early = "no"
  BY DEF Calm
<1>3. d \in Contexts
  BY <1>1 DEF Contexts
<1>4. /\ op.kind = "write" /\ op.lags = WriteLags("master") /\ op.addr = "CTRL"
      /\ op.awaits = {"aw", "w", "b"} /\ op.data.strb = TRUE /\ op.data.word = word
  BY DEF write, Write
<1> HIDE DEF op
<1>5. WriteRule(c, op, d)
  BY <1>1, <1>4 DEF WriteRule, CtrlEn
<1> QED BY <1>1, <1>3, <1>5 DEF Rule, op

\* Every test starts with reset.
LEMMA ResetLeads ==
    ASSUME NEW t
    PROVE  Chain(t, <<Start, Start>>, reset, Up) /\ Chain(t, <<Start, Start>>, reset, Pausing)
<1>1. /\ Start \in Contexts /\ Up \in Contexts /\ Pausing \in Contexts
  BY ContextTypes
<1>2. Rule(t, Start, ResetEdges, Start)
  BY <1>1, BenchAssumption DEF Rule, ResetRule, ResetEdges
<1>3. Rule(t, Start, Edges(1), Up)
  BY <1>1 DEF Rule, EdgesRule, Edges
<1>4. Rule(t, Start, Edges(1), Pausing)
  BY <1>1 DEF Rule, EdgesRule, Edges
<1>5. Chain(t, <<Start, Start>>, reset, Up)
  BY <1>2, <1>3, Chain2 DEF reset
<1>6. Chain(t, <<Start, Start>>, reset, Pausing)
  BY <1>2, <1>4, Chain2 DEF reset
<1> QED BY <1>5, <1>6

\* Up is such a context.
LEMMA UpCalm ==
    /\ Calm(Up) /\ Calm(Pausing) /\ Calm(Watched) /\ Calm(Disabled)
    /\ Calm(Driven)
BY ContextTypes, UpFields, PausingFields, WatchedFields, DisabledFields, DrivenFields
   DEF Calm

\* So is one whose tile has come home.
LEMMA HomeCalm ==
    ASSUME NEW c, Calm(c), NEW k \in Nat
    PROVE  Calm(Home(c, k)) /\ Calm(Sent(c, k))
<1>1. c \in Contexts /\ c.up = TRUE /\ c.early = "no"
  BY DEF Calm
<1>2. Home(c, k) \in Contexts /\ Sent(c, k) \in Contexts
  BY <1>1, ContextTypes
<1>3. Home(c, k).up = TRUE /\ Home(c, k).early = "no"
  BY <1>1, HomeFields
<1>4. Sent(c, k).up = TRUE /\ Sent(c, k).early = "no"
  BY <1>1, SentFields
<1> QED BY <1>2, <1>3, <1>4 DEF Calm

\* The words the tests expect of the registers they have not written.
LEMMA ResetReads ==
    /\ Readable(Up, read("ID", {ID_VALUE})) /\ Readable(Up, read("CTRL", EnSet))
    /\ Readable(Up, read("SLOPE", {SLOPE_RESET})) /\ Readable(Up, read("COUNT", {0}))
    /\ Readable(Up, read("STATUS", {0})) /\ Readable(Up, read("UNMAPPED", {0}))
<1>1. ASSUME NEW reg, NEW want
      PROVE  /\ read(reg, want).addr = reg
             /\ read(reg, want).want = want /\ read(reg, want).of = 0
  BY ReadFields
<1>2. Readable(Up, read("ID", {ID_VALUE})) /\ Readable(Up, read("UNMAPPED", {0}))
  BY <1>1 DEF Readable
<1>3. Readable(Up, read("CTRL", EnSet))
  BY <1>1, UpFields DEF Readable
<1>4. Readable(Up, read("SLOPE", {SLOPE_RESET}))
  BY <1>1, UpFields DEF Readable
<1>5. Readable(Up, read("COUNT", {0})) 
  BY <1>1, UpFields DEF Readable
<1>6. Readable(Up, read("STATUS", {0})) 
  BY <1>1, UpFields DEF Readable
<1> QED BY <1>2, <1>3, <1>4, <1>5, <1>6

\* test_id_reads_before_any_write follows its outline.
LEMMA IdChain == ASSUME NEW t PROVE Chain(t, <<Up>>, test_id_reads_before_any_write, Up)
BY UpCalm, ResetReads, ReadLeads, Chain1 DEF test_id_reads_before_any_write

\* test_reset_values follows its outline.
LEMMA ResetValuesChain == ASSUME NEW t PROVE Chain(t, <<Up, Up, Up, Up>>, test_reset_values, Up)
<1>1. /\ Rule(t, Up, read("CTRL", EnSet), Up) /\ Rule(t, Up, read("SLOPE", {SLOPE_RESET}), Up)
      /\ Rule(t, Up, read("COUNT", {0}), Up) /\ Rule(t, Up, read("STATUS", {0}), Up)
  BY UpCalm, ResetReads, ReadLeads
<1> QED BY <1>1, Chain4 DEF test_reset_values

\* test_unmapped_offset_reads_zero follows its outline.
LEMMA UnmappedChain == ASSUME NEW t PROVE Chain(t, <<Up>>, test_unmapped_offset_reads_zero, Up)
BY UpCalm, ResetReads, ReadLeads, Chain1 DEF test_unmapped_offset_reads_zero

\* test_default_slope_matches_the_model follows its outline.
LEMMA DefaultChain ==
    ASSUME NEW t
    PROVE  Chain(t, <<Up, Sent(Up, 1)>>, test_default_slope_matches_the_model, Home(Up, 1))
<1>1. 1 \in Nat \ {0}
  OBVIOUS
<1>2. Chain(t, <<Up, Sent(Up, 1)>>, run_tile(1, Up.slope), Home(Up, 1))
  BY <1>1, UpCalm, UpFields, TileLeads, Zenon
<1> QED BY <1>2, UpFields DEF test_default_slope_matches_the_model

\* The slopes the test writes are slopes, and read back as they were written.
LEMMA Slopes ==
    /\ {0, 1, Slope3, Slope4} \subseteq Slope
    /\ \A slope \in Slope : Unsigned(slope, SLOPE_W) = slope
<1>1. SLOPE_W - 1 \in Nat /\ SLOPE_W = (SLOPE_W - 1) + 1 /\ SLOPE_W \in Nat
  BY ReluWidths
<1> DEFINE H == 2^(SLOPE_W - 1)
           K == 2^SLOPE_W
<1>2. H \in Nat /\ H > 0
  BY <1>1, PowPositive
<1>3. K = 2 * H
  BY <1>1, PowDouble
<1>4. Slope3 = H /\ Slope4 = K - 1 /\ Slope = 0 .. K - 1
  BY DEF Slope3, Slope4, Slope
<1> HIDE DEF H, K
<1>5. {0, 1, Slope3, Slope4} \subseteq Slope
  BY <1>2, <1>3, <1>4
<1>6. ASSUME NEW slope \in Slope PROVE slope % K = slope
  BY <1>2, <1>3, <1>4
<1> QED BY <1>5, <1>6 DEF Unsigned, K

\* One round of test_slope_is_writable follows its outline, from the slope before.
LEMMA RoundChain ==
    ASSUME NEW t, NEW s \in Slope, NEW slope \in Slope, NEW k \in Nat
    PROVE  Chain(t, round_outline(Home(Under(s), k), slope), slope_round(slope), After(slope))
<1> DEFINE c == Home(Under(s), k)
           d == Home(Under(slope), k)
<1>1. /\ c \in Contexts /\ c.up = TRUE /\ c.early = "no"
      /\ c.sent = FALSE /\ c.driven = FALSE /\ c.tile = k
  BY ContextTypes DEF Home, Under, Up, Start
<1>2. /\ d \in Contexts /\ d.up = TRUE /\ d.early = "no" /\ d.sent = FALSE /\ d.driven = FALSE
      /\ d.monitoring = FALSE /\ d.slope = slope
  BY ContextTypes DEF Home, Under, Up, Start
<1>3. [c EXCEPT !.slope = slope] = d
  BY SlopeContext
<1>4. Home(Under(slope), c.tile) = d
  BY <1>1
<1> HIDE DEF c, d
<1>5. Calm(c) /\ Calm(d)
  BY <1>1, <1>2 DEF Calm
<1>6. slope \in Int /\ Unsigned(slope, SLOPE_W) = slope
  BY Slopes, Bounds DEF Slope
<1>7. Rule(t, c, write("SLOPE", slope), d)
  <2>1. Rule(t, c, write("SLOPE", slope), [c EXCEPT !.slope = Unsigned(slope, SLOPE_W)])
    BY <1>1, <1>5, <1>6, SlopeLeads
  <2> QED BY <1>3, <1>6, <2>1, Zenon
<1>8. Rule(t, d, read("SLOPE", {slope}), d)
  <2>1. Readable(d, read("SLOPE", {slope}))
    BY <1>2, ReadFields DEF Readable
  <2> QED BY <1>5, <2>1, ReadLeads
<1>9. Chain(t, <<c, d>>, <<write("SLOPE", slope), read("SLOPE", {slope})>>, d)
  BY <1>7, <1>8, Chain2
<1>10. Chain(t, <<d, Sent(d, 1)>>, run_tile(1, d.slope), Home(d, 1))
  <2>1. 1 \in Nat \ {0}
    OBVIOUS
  <2> QED BY <1>2, <1>5, <2>1, TileLeads, Zenon
<1>11. /\ Sent(d, 1) = Sent(Under(slope), 1) /\ Home(d, 1) = Home(Under(slope), 1)
  <2>1. Under(slope) \in Contexts
    BY ContextTypes
  <2>2. Home(Under(slope), k) \in Contexts
    BY <2>1, ContextTypes
  <2>3. Sent(Home(Under(slope), k), 1) = Sent(Under(slope), 1)
    BY <2>1 DEF Sent, Home, Contexts
  <2>4. Home(Home(Under(slope), k), 1) = Home(Under(slope), 1)
    BY <2>1 DEF Home, Contexts
  <2> QED BY <2>3, <2>4 DEF d
<1>12. Chain(t, <<c, d>> \o <<d, Sent(d, 1)>>, slope_round(slope), Home(d, 1))
  <2>1. <<d, Sent(d, 1)>>[1] = d
    OBVIOUS
  <2> QED BY <1>2, <1>9, <1>10, <2>1, Compose DEF slope_round
<1>13. round_outline(c, slope) = <<c, d>> \o <<d, Sent(d, 1)>>
  BY <1>4, <1>11 DEF round_outline
<1> QED BY <1>11, <1>12, <1>13 DEF c, After

\* test_slope_is_writable follows its outline.
LEMMA SlopeChain ==
    ASSUME NEW t
    PROVE  Chain(t, round_outline(Up, 0) \o round_outline(After(0), 1)
                    \o round_outline(After(1), Slope3) \o round_outline(After(Slope3), Slope4),
                 test_slope_is_writable, After(Slope4))
<1>1. {0, 1, Slope3, Slope4, SLOPE_RESET} \subseteq Slope /\ 0 \in Nat /\ 1 \in Nat
  BY Slopes, Environment
<1>2. Chain(t, round_outline(Up, 0), slope_round(0), After(0))
  <2>1. Up = Home(Under(SLOPE_RESET), 0)
    BY <1>1, SlopeContext
  <2>2. Chain(t, round_outline(Home(Under(SLOPE_RESET), 0), 0), slope_round(0), After(0))
    BY <1>1, RoundChain
  <2> QED BY <2>1, <2>2, Zenon
<1>3. \A s, r \in {0, 1, Slope3, Slope4} :
         Chain(t, round_outline(After(s), r), slope_round(r), After(r))
  BY <1>1, RoundChain DEF After
<1>4. ASSUME NEW c, NEW r PROVE round_outline(c, r)[1] = c
  BY DEF round_outline
<1> DEFINE o1 == round_outline(Up, 0)
           o2 == round_outline(After(0), 1)
           o3 == round_outline(After(1), Slope3)
           o4 == round_outline(After(Slope3), Slope4)
<1>5. o2[1] = After(0) /\ o3[1] = After(1) /\ o4[1] = After(Slope3)
  BY <1>4
<1>6. /\ Chain(t, o1, slope_round(0), o2[1]) /\ Chain(t, o2, slope_round(1), o3[1])
      /\ Chain(t, o3, slope_round(Slope3), o4[1])
      /\ Chain(t, o4, slope_round(Slope4), After(Slope4))
  BY <1>2, <1>3, <1>5
<1> HIDE DEF o1, o2, o3, o4
<1>7. Chain(t, o1 \o o2, slope_round(0) \o slope_round(1), o3[1])
  BY <1>6, Compose, Zenon
<1>8. Chain(t, (o1 \o o2) \o o3, (slope_round(0) \o slope_round(1)) \o slope_round(Slope3), o4[1])
  BY <1>6, <1>7, Compose, Zenon
<1>9. Chain(t, ((o1 \o o2) \o o3) \o o4,
            ((slope_round(0) \o slope_round(1)) \o slope_round(Slope3)) \o slope_round(Slope4),
            After(Slope4))
  BY <1>6, <1>8, Compose, Zenon
<1> QED BY <1>9, Zenon DEF test_slope_is_writable, Slope3, Slope4, o1, o2, o3, o4

\* test_slope_is_eight_bits follows its outline.
LEMMA WideChain ==
    ASSUME NEW t
    PROVE  Chain(t, <<Up, Under(WideWord % 2^SLOPE_W)>>, test_slope_is_eight_bits,
                 Under(WideWord % 2^SLOPE_W))
<1> DEFINE v == WideWord % 2^SLOPE_W
           d == [Up EXCEPT !.slope = v]
<1>1. WideWord \in Int /\ v = Unsigned(WideWord, SLOPE_W) /\ v \in Slope
  <2>1. 2^AXIL_DATA_W \in Nat
    BY BusWidth, PowPositive
  <2>2. WideWord \in Int /\ v = Unsigned(WideWord, SLOPE_W)
    BY <2>1 DEF WideWord, Unsigned
  <2> HIDE DEF v
  <2> QED BY <2>2, Bounds, UnsignedInRange DEF Slope
<1> HIDE DEF v
<1>2. d = Under(v)
  BY DEF Under
<1>3. Calm(Up) /\ Up.sent = FALSE /\ Up.driven = FALSE
  BY UpCalm, UpFields
<1>4. Rule(t, Up, write("SLOPE", WideWord), Under(v))
  <2>1. Rule(t, Up, write("SLOPE", WideWord), [Up EXCEPT !.slope = Unsigned(WideWord, SLOPE_W)])
    BY <1>1, <1>3, SlopeLeads
  <2> QED BY <1>1, <1>2, <2>1, Zenon
<1>5. Calm(Under(v)) /\ Under(v).slope = v
  BY <1>1, ContextTypes, UnderFields DEF Calm
<1>6. Rule(t, Under(v), read("SLOPE", {v}), Under(v))
  <2>1. Readable(Under(v), read("SLOPE", {v}))
    BY <1>5, ReadFields DEF Readable
  <2> QED BY <1>5, <2>1, ReadLeads
<1>7. Chain(t, <<Up, Under(v)>>, <<write("SLOPE", WideWord), read("SLOPE", {v})>>, Under(v))
  BY <1>4, <1>6, Chain2
<1> QED BY <1>7 DEF test_slope_is_eight_bits, v

\* test_tlast_marks_the_tile follows its outline.
LEMMA TlastChain ==
    ASSUME NEW t
    PROVE  Chain(t, <<Up, Watched, Sent(Watched, 1), Home(Watched, 1)>>,
                 test_tlast_marks_the_tile, Home(Watched, 1))
<1>1. 1 \in Nat \ {0} /\ 1 \in Nat
  OBVIOUS
<1>2. Calm(Up) /\ Calm(Watched) /\ Calm(Home(Watched, 1))
  BY <1>1, UpCalm, HomeCalm, Zenon
<1>3. Rule(t, Up, [kind |-> "monitor"], Watched)
  <2>1. PinRule(Up, [kind |-> "monitor"], Watched)
    BY UpFields DEF PinRule, Watched
  <2> QED BY <1>2, <2>1 DEF Rule, Calm
<1>4. Rule(t, Watched, Send(1), Sent(Watched, 1))
  BY <1>1, <1>2, WatchedFields, SendLeads, Zenon
<1>5. Rule(t, Sent(Watched, 1), recv_length(1), Home(Watched, 1))
  BY <1>1, <1>2, RecvLeads, Zenon
<1>6. Rule(t, Home(Watched, 1), [kind |-> "assert_flags"], Home(Watched, 1))
  <2>1. /\ Home(Watched, 1).monitoring = TRUE
        /\ Home(Watched, 1).sent = FALSE /\ Home(Watched, 1).tile = 1
    BY DEF Home, Watched, Up, Start
  <2>2. PinRule(Home(Watched, 1), [kind |-> "assert_flags"], Home(Watched, 1))
    BY <1>2, <2>1 DEF PinRule, Calm
  <2> QED BY <1>2, <2>2 DEF Rule, Calm
<1> QED BY <1>3, <1>4, <1>5, <1>6, Chain4 DEF test_tlast_marks_the_tile

\* test_status_and_count_report_the_tile follows its outline.
LEMMA StatusChain ==
    ASSUME NEW t, Lengths[t][1] > MAX_LAG
    PROVE  Chain(t, <<Up, Early(Sent(Up, 1), "before"), Early(Sent(Up, 1), "after"),
                      Sent(Up, 1), Home(Up, 1), Home(Up, 1), Home(Up, 1)>>,
                 test_status_and_count_report_the_tile, Home(Up, 1))
<1>1. 1 \in Nat \ {0} /\ 1 \in Nat
  OBVIOUS
<1> DEFINE c == Sent(Up, 1)
           d == Home(Up, 1)
<1>2. Calm(Up) /\ Calm(c) /\ Calm(d)
  BY <1>1, UpCalm, HomeCalm, Zenon
<1>3. c \in Contexts /\ c.up = TRUE /\ c.early = "no" /\ Early(c, "no") = c
      /\ Early(c, "before") \in Contexts /\ Early(c, "after") \in Contexts
  BY <1>2, ContextTypes, SameContext DEF Calm
<1>4. d.sent = FALSE /\ d.tile = 1 /\ d.tile # 0 /\ 1 # 0
  BY DEF Home, Up, Start
<1>5. /\ Early(c, "before").up = TRUE /\ Early(c, "before").early = "before"
      /\ Early(c, "after").up = TRUE /\ Early(c, "after").early = "after"
      /\ Early(Early(c, "before"), "after") = Early(c, "after")
      /\ Early(Early(c, "after"), "no") = c
  BY <1>3, EarlyFields, SameContext
<1>6. Rule(t, Up, Send(1), Early(c, "before"))
  <2>1. Send(1).kind = "send" /\ Send(1).tile = 1
    BY DEF Send
  <2>2. SendRule(t, Up, Send(1), Early(c, "before"))
    BY UpFields, <2>1 DEF SendRule
  <2> QED BY <1>2, <1>3, <2>2 DEF Rule, Calm
<1> HIDE DEF c, d
<1>7. Rule(t, Early(c, "before"), Edges(1), Early(c, "after"))
  <2>1. EdgesRule(Early(c, "before"), Edges(1), Early(c, "after"))
    <3> DEFINE e1 == Early(c, "before")
               e2 == Early(c, "after")
               op == Edges(1)
    <3>1. /\ op.kind = "edges" /\ op.edges = 1 /\ op.edges \in Nat \ {0}
          /\ op.stalled = FALSE /\ op.stalled \in BOOLEAN
      BY DEF Edges
    <3>2. e1.up = TRUE /\ e1.early = "before" /\ Early(e1, "after") = e2
      BY <1>5
    <3> HIDE DEF e1, e2, op
    <3>3. EdgesRule(e1, op, e2)
      BY <3>1, <3>2 DEF EdgesRule
    <3> QED BY <3>3 DEF e1, e2, op
  <2> QED BY <1>3, <2>1 DEF Rule
<1>8. Rule(t, Early(c, "after"), read("STATUS", Busy), c)
  <2>1. Readable(Early(c, "after"), read("STATUS", Busy))
    BY <1>5, ReadFields DEF Readable
  <2>2. ReadRule(Early(c, "after"), read("STATUS", Busy), c)
    BY <1>5, <2>1, ReadFields DEF ReadRule
  <2> QED BY <1>3, <2>2 DEF Rule
<1>9. Rule(t, c, recv_length(1), d)
  BY <1>1, <1>2, RecvLeads, Zenon DEF c, d
<1>10. Rule(t, d, await_done, d)
  BY <1>2, <1>4, PollLeads, Zenon
<1>11. Rule(t, d, read("STATUS", DoneAndIdle), d)
  <2>1. Readable(d, read("STATUS", DoneAndIdle))
    BY <1>4, ReadFields DEF Readable
  <2> QED BY <1>2, <2>1, ReadLeads
<1>12. Rule(t, d, ReadResult("master", "COUNT", 1), d)
  BY <1>2, <1>4, ResultLeads, Zenon
<1>13. Chain(t, <<Up, Early(c, "before"), Early(c, "after"), c, d, d, d>>,
             test_status_and_count_report_the_tile, d)
  BY <1>6, <1>7, <1>8, <1>9, <1>10, <1>11, <1>12, Chain7
     DEF test_status_and_count_report_the_tile
<1> QED BY <1>13 DEF c, d

\* One tile of test_two_tiles_back_to_back follows its outline.
LEMMA OneOfTwoChain ==
    ASSUME NEW t, NEW c, Calm(c), c.sent = FALSE, c.driven = FALSE, c.monitoring = FALSE,
           NEW k \in Nat \ {0}, Sent(c, k) = Sent(Up, k), Home(c, k) = Home(Up, k),
           c.slope = SLOPE_RESET
    PROVE  Chain(t, one_of_two_outline(c, k), one_of_two(k), Home(Up, k))
<1> DEFINE d == Home(Up, k)
<1>1. Calm(d) /\ d.sent = FALSE /\ d.tile = k /\ k # 0
  <2>1. d.sent = FALSE /\ d.tile = k
    BY DEF Home, Up, Start
  <2> QED BY <2>1, UpCalm, HomeCalm
<1>2. Chain(t, <<c, Sent(Up, k)>>, run_tile(k, SLOPE_RESET), d)
  BY TileLeads, Zenon
<1> HIDE DEF d
<1>3. Rule(t, d, await_done, d)
  BY <1>1, PollLeads
<1>4. Rule(t, d, ReadResult("master", "COUNT", k), d)
  BY <1>1, ResultLeads
<1>5. Chain(t, <<d, d>>, <<await_done, ReadResult("master", "COUNT", k)>>, d)
  BY <1>3, <1>4, Chain2
<1>6. <<d, d>>[1] = d
  OBVIOUS
<1>7. Chain(t, <<c, Sent(Up, k)>> \o <<d, d>>,
            run_tile(k, SLOPE_RESET) \o <<await_done, ReadResult("master", "COUNT", k)>>, d)
  BY <1>2, <1>5, <1>6, Compose, Zenon
<1> QED BY <1>7 DEF one_of_two_outline, one_of_two, d

\* test_two_tiles_back_to_back follows its outline.
LEMMA TwoTilesChain ==
    ASSUME NEW t
    PROVE  Chain(t, one_of_two_outline(Up, 1) \o one_of_two_outline(Home(Up, 1), 2),
                 test_two_tiles_back_to_back, Home(Up, 2))
<1>1. 1 \in Nat \ {0} /\ 2 \in Nat \ {0} /\ 1 \in Nat
  OBVIOUS
<1>2. Chain(t, one_of_two_outline(Up, 1), one_of_two(1), Home(Up, 1))
  BY <1>1, UpCalm, UpFields, OneOfTwoChain, Zenon
<1> DEFINE c == Home(Up, 1)
<1>3. /\ Calm(c) /\ c.sent = FALSE /\ c.driven = FALSE /\ c.monitoring = FALSE
      /\ c.slope = SLOPE_RESET
  <2>1. c.sent = FALSE /\ c.driven = FALSE /\ c.monitoring = FALSE /\ c.slope = SLOPE_RESET
    BY DEF Home, Up, Start
  <2> QED BY <2>1, <1>1, UpCalm, HomeCalm
<1>4. Sent(c, 2) = Sent(Up, 2) /\ Home(c, 2) = Home(Up, 2)
  <2>1. Up \in Contexts
    BY ContextTypes
  <2>2. Sent(Home(Up, 1), 2) = Sent(Up, 2)
    BY <2>1 DEF Sent, Home, Contexts
  <2>3. Home(Home(Up, 1), 2) = Home(Up, 2)
    BY <2>1 DEF Home, Contexts
  <2> QED BY <2>2, <2>3
<1> HIDE DEF c
<1>5. Chain(t, one_of_two_outline(c, 2), one_of_two(2), Home(Up, 2))
  BY <1>1, <1>3, <1>4, OneOfTwoChain, Zenon
<1>6. one_of_two_outline(c, 2)[1] = c
  BY DEF one_of_two_outline
<1> QED BY <1>2, <1>5, <1>6, Compose, Zenon DEF test_two_tiles_back_to_back, c

\* test_enable_low_withdraws_ready follows its outline.
LEMMA EnableChain ==
    ASSUME NEW t
    PROVE  Chain(t, <<Up, Disabled, Driven, Driven, Driven, Disabled>> \o <<Up, Sent(Up, 1)>>,
                 test_enable_low_withdraws_ready, Home(Up, 1))
<1>1. /\ Calm(Up) /\ Calm(Disabled) /\ Calm(Driven)
      /\ Up \in Contexts /\ Disabled \in Contexts /\ Driven \in Contexts
  BY UpCalm, ContextTypes
<1>2. Rule(t, Up, write("CTRL", 0), Disabled)
  <2>1. 0 \in Int /\ (0 % 2 = 1) = FALSE
    OBVIOUS
  <2>2. Rule(t, Up, write("CTRL", 0), [Up EXCEPT !.en = FALSE])
    <3>1. Rule(t, Up, write("CTRL", 0), [Up EXCEPT !.en = (0 % 2 = 1)])
      BY <1>1, <2>1, UpFields, CtrlLeads, Zenon
    <3> QED BY <2>1, <3>1, Zenon
  <2> QED BY <2>2 DEF Disabled
<1>3. Rule(t, Disabled, [kind |-> "drive", on |-> TRUE], Driven)
  <2>1. PinRule(Disabled, [kind |-> "drive", on |-> TRUE], Driven)
    BY DisabledFields DEF PinRule, Driven
  <2> QED BY <1>1, <2>1 DEF Rule
<1>4. Rule(t, Driven, StalledEdges(3), Driven)
  <2>1. EdgesRule(Driven, StalledEdges(3), Driven)
    BY DrivenFields DEF EdgesRule, StalledEdges
  <2> QED BY <1>1, <2>1 DEF Rule
<1>5. Rule(t, Driven, Edges(1), Driven)
  <2>1. EdgesRule(Driven, Edges(1), Driven)
    BY DrivenFields DEF EdgesRule, Edges
  <2> QED BY <1>1, <2>1 DEF Rule
<1>6. Rule(t, Driven, [kind |-> "drive", on |-> FALSE], Disabled)
  <2>1. [Driven EXCEPT !.driven = FALSE] = Disabled
    <3>1. [[Disabled EXCEPT !.driven = TRUE] EXCEPT !.driven = FALSE] = Disabled
      BY <1>1, DisabledFields DEF Contexts
    <3> QED BY <3>1 DEF Driven
  <2>2. PinRule(Driven, [kind |-> "drive", on |-> FALSE], Disabled)
    BY <2>1, DrivenFields DEF PinRule
  <2> QED BY <1>1, <2>2 DEF Rule
<1>7. Rule(t, Disabled, write("CTRL", CTRL_EN), Up)
  <2>1. CTRL_EN \in Int /\ (CTRL_EN % 2 = 1) = TRUE
    BY DEF CTRL_EN
  <2>2. Rule(t, Disabled, write("CTRL", CTRL_EN), [Disabled EXCEPT !.en = TRUE])
    <3>1. Rule(t, Disabled, write("CTRL", CTRL_EN), [Disabled EXCEPT !.en = (CTRL_EN % 2 = 1)])
      BY <1>1, <2>1, DisabledFields, CtrlLeads, Zenon
    <3> QED BY <2>1, <3>1, Zenon
  <2>3. [[Up EXCEPT !.en = FALSE] EXCEPT !.en = TRUE] = Up
    BY <1>1, UpFields DEF Contexts
  <2> QED BY <2>2, <2>3 DEF Disabled
<1>8. Chain(t, <<Up, Disabled, Driven, Driven, Driven, Disabled>>,
            <<write("CTRL", 0), [kind |-> "drive", on |-> TRUE], StalledEdges(3), Edges(1),
              [kind |-> "drive", on |-> FALSE], write("CTRL", CTRL_EN)>>, Up)
  BY <1>2, <1>3, <1>4, <1>5, <1>6, <1>7, Chain6
<1>9. Chain(t, <<Up, Sent(Up, 1)>>, run_tile(1, SLOPE_RESET), Home(Up, 1))
  BY DefaultChain DEF test_default_slope_matches_the_model
<1>10. <<Up, Sent(Up, 1)>>[1] = Up
  OBVIOUS
<1> QED BY <1>8, <1>9, <1>10, Compose, Zenon DEF test_enable_low_withdraws_ready

\* test_backpressure_preserves_the_tile follows its outline.
LEMMA BackpressureChain ==
    ASSUME NEW t
    PROVE  Chain(t, <<Pausing, Pausing, Sent(Pausing, 1), Sent(Pausing, 1), Sent(Pausing, 1)>>,
                 test_backpressure_preserves_the_tile, Home(Pausing, 1))
<1>1. 1 \in Nat \ {0} /\ 1 \in Nat
  OBVIOUS
<1> DEFINE c == Sent(Pausing, 1)
<1>2. Calm(Pausing) /\ Calm(c) /\ Pausing \in Contexts /\ c \in Contexts
  BY <1>1, UpCalm, HomeCalm DEF Calm
<1>3. Rule(t, Pausing, [kind |-> "pause", on |-> TRUE], Pausing)
  <2>1. PinRule(Pausing, [kind |-> "pause", on |-> TRUE], Pausing)
    BY PausingFields DEF PinRule
  <2> QED BY <1>2, <2>1 DEF Rule
<1>4. Rule(t, Pausing, Send(1), c)
  BY <1>1, <1>2, PausingFields, SendLeads, Zenon
<1>5. c.up = TRUE /\ c.early = "no" /\ c.flow = FALSE
  BY <1>2, PausingFields, SentFields DEF Calm
<1>6. Rule(t, c, recv_tile(1, SLOPE_RESET), Home(Pausing, 1))
  <2>1. Rule(t, c, recv_tile(1, Pausing.slope), Home(Pausing, 1))
    BY <1>1, <1>2, RecvLeads, Zenon
  <2> QED BY <2>1, PausingFields
<1> HIDE DEF c
<1>7. Rule(t, c, Edges(4), c)
  <2>1. EdgesRule(c, Edges(4), c)
    BY <1>5 DEF EdgesRule, Edges
  <2> QED BY <1>2, <2>1 DEF Rule
<1>8. Rule(t, c, [kind |-> "pause", on |-> FALSE], c)
  <2>1. PinRule(c, [kind |-> "pause", on |-> FALSE], c)
    BY <1>5 DEF PinRule
  <2> QED BY <1>2, <2>1 DEF Rule
<1>9. Chain(t, <<Pausing, Pausing, c, c, c>>, test_backpressure_preserves_the_tile,
            Home(Pausing, 1))
  BY <1>3, <1>4, <1>6, <1>7, <1>8, Chain5 DEF test_backpressure_preserves_the_tile
<1> QED BY <1>9 DEF c

-----------------------------------------------------------------------------
(* Every test follows its outline.                                         *)

\* A test that goes on from where reset leaves it.
LEMMA AfterReset ==
    ASSUME NEW t, NEW c \in {Up, Pausing}, NEW cs, cs[1] = c, NEW ops, NEW d,
           Chain(t, cs, ops, d)
    PROVE  /\ Chain(t, <<Start, Start>> \o cs, reset \o ops, d)
           /\ (<<Start, Start>> \o cs)[1] = Start
<1>1. Chain(t, <<Start, Start>>, reset, cs[1])
  BY ResetLeads
<1>2. (<<Start, Start>> \o cs)[1] = Start
  <2>1. PICK S : cs \in Seq(S)
    BY DEF Chain
  <2>2. cs \in Seq(S \cup {Start}) /\ <<Start, Start>> \in Seq(S \cup {Start})
    BY <2>1
  <2>3. Len(<<Start, Start>>) = 2 /\ <<Start, Start>>[1] = Start /\ Len(cs) \in Nat
    BY <2>1
  <2> QED BY <2>2, <2>3, ConcatAt
<1> QED BY <1>1, <1>2, Compose, Zenon

\* Where the tests start after reset.
LEMMA FirstContexts ==
    ASSUME NEW t \in DOMAIN Scripts
    PROVE  OutlineOf[t][1] = IF t = "backpressure_preserves_the_tile" THEN Pausing ELSE Up
<1>2. t \in DOMAIN OutlineOf
  BY DEF OutlineOf, Scripts
<1>3. CASE t = "slope_is_writable"
  BY <1>3 DEF OutlineOf, round_outline
<1>4. CASE t = "two_tiles_back_to_back"
  BY <1>4 DEF OutlineOf, one_of_two_outline
<1>5. CASE t = "enable_low_withdraws_ready"
  BY <1>5 DEF OutlineOf
<1>6. CASE t \notin {"slope_is_writable", "two_tiles_back_to_back", "enable_low_withdraws_ready"}
  BY <1>2, <1>6 DEF OutlineOf
<1> QED BY <1>3, <1>4, <1>5, <1>6

\* Every test follows its outline.
LEMMA TestChain ==
    ASSUME NEW t \in Tests
    PROVE  Chain(t, Outline(t), Scripts[t], EndOf[t]) /\ Outline(t)[1] = Start
<1> DEFINE Outlined == Chain(t, Outline(t), Scripts[t], EndOf[t]) /\ Outline(t)[1] = Start
<1> SUFFICES Outlined
  OBVIOUS
<1> HIDE DEF Outlined
<1>1. t \in DOMAIN Scripts
  BY TestAssumption
<1>2. CASE t = "id_reads_before_any_write"
  <2>2. Scripts[t] = reset \o test_id_reads_before_any_write
    BY <1>2 DEF Scripts
  <2>3. Chain(t, OutlineOf[t], test_id_reads_before_any_write, EndOf[t])
    BY <1>2, IdChain DEF OutlineOf, EndOf
  <2>4. OutlineOf[t][1] = Up
    BY <1>1, <1>2, FirstContexts
  <2> QED BY <2>2, <2>3, <2>4, AfterReset DEF Outline, Outlined
<1>3. CASE t = "reset_values"
  <2>2. Scripts[t] = reset \o test_reset_values
    BY <1>3 DEF Scripts
  <2>3. Chain(t, OutlineOf[t], test_reset_values, EndOf[t])
    BY <1>3, ResetValuesChain DEF OutlineOf, EndOf
  <2>4. OutlineOf[t][1] = Up
    BY <1>1, <1>3, FirstContexts
  <2> QED BY <2>2, <2>3, <2>4, AfterReset DEF Outline, Outlined
<1>4. CASE t = "unmapped_offset_reads_zero"
  <2>2. Scripts[t] = reset \o test_unmapped_offset_reads_zero
    BY <1>4 DEF Scripts
  <2>3. Chain(t, OutlineOf[t], test_unmapped_offset_reads_zero, EndOf[t])
    BY <1>4, UnmappedChain DEF OutlineOf, EndOf
  <2>4. OutlineOf[t][1] = Up
    BY <1>1, <1>4, FirstContexts
  <2> QED BY <2>2, <2>3, <2>4, AfterReset DEF Outline, Outlined
<1>5. CASE t = "default_slope_matches_the_model"
  <2>2. Scripts[t] = reset \o test_default_slope_matches_the_model
    BY <1>5 DEF Scripts
  <2>3. Chain(t, OutlineOf[t], test_default_slope_matches_the_model, EndOf[t])
    BY <1>5, DefaultChain DEF OutlineOf, EndOf
  <2>4. OutlineOf[t][1] = Up
    BY <1>1, <1>5, FirstContexts
  <2> QED BY <2>2, <2>3, <2>4, AfterReset DEF Outline, Outlined
<1>6. CASE t = "slope_is_writable"
  <2>2. Scripts[t] = reset \o test_slope_is_writable
    BY <1>6 DEF Scripts
  <2>3. Chain(t, OutlineOf[t], test_slope_is_writable, EndOf[t])
    BY <1>6, SlopeChain DEF OutlineOf, EndOf
  <2>4. OutlineOf[t][1] = Up
    BY <1>1, <1>6, FirstContexts
  <2> QED BY <2>2, <2>3, <2>4, AfterReset DEF Outline, Outlined
<1>7. CASE t = "slope_is_eight_bits"
  <2>2. Scripts[t] = reset \o test_slope_is_eight_bits
    BY <1>7 DEF Scripts
  <2>3. Chain(t, OutlineOf[t], test_slope_is_eight_bits, EndOf[t])
    BY <1>7, WideChain DEF OutlineOf, EndOf
  <2>4. OutlineOf[t][1] = Up
    BY <1>1, <1>7, FirstContexts
  <2> QED BY <2>2, <2>3, <2>4, AfterReset DEF Outline, Outlined
<1>8. CASE t = "tlast_marks_the_tile"
  <2>2. Scripts[t] = reset \o test_tlast_marks_the_tile
    BY <1>8 DEF Scripts
  <2>3. Chain(t, OutlineOf[t], test_tlast_marks_the_tile, EndOf[t])
    BY <1>8, TlastChain DEF OutlineOf, EndOf
  <2>4. OutlineOf[t][1] = Up
    BY <1>1, <1>8, FirstContexts
  <2> QED BY <2>2, <2>3, <2>4, AfterReset DEF Outline, Outlined
<1>9. CASE t = "status_and_count_report_the_tile"
  <2>1. Lengths[t][1] > MAX_LAG
    BY <1>9, TestAssumption
  <2>2. Scripts[t] = reset \o test_status_and_count_report_the_tile
    BY <1>9 DEF Scripts
  <2>3. Chain(t, OutlineOf[t], test_status_and_count_report_the_tile, EndOf[t])
    BY <1>9, <2>1, StatusChain DEF OutlineOf, EndOf
  <2>4. OutlineOf[t][1] = Up
    BY <1>1, <1>9, FirstContexts
  <2> QED BY <2>2, <2>3, <2>4, AfterReset DEF Outline, Outlined
<1>10. CASE t = "two_tiles_back_to_back"
  <2>2. Scripts[t] = reset \o test_two_tiles_back_to_back
    BY <1>10 DEF Scripts
  <2>3. Chain(t, OutlineOf[t], test_two_tiles_back_to_back, EndOf[t])
    BY <1>10, TwoTilesChain DEF OutlineOf, EndOf
  <2>4. OutlineOf[t][1] = Up
    BY <1>1, <1>10, FirstContexts
  <2> QED BY <2>2, <2>3, <2>4, AfterReset DEF Outline, Outlined
<1>11. CASE t = "enable_low_withdraws_ready"
  <2>2. Scripts[t] = reset \o test_enable_low_withdraws_ready
    BY <1>11 DEF Scripts
  <2>3. Chain(t, OutlineOf[t], test_enable_low_withdraws_ready, EndOf[t])
    BY <1>11, EnableChain DEF OutlineOf, EndOf
  <2>4. OutlineOf[t][1] = Up
    BY <1>1, <1>11, FirstContexts
  <2> QED BY <2>2, <2>3, <2>4, AfterReset DEF Outline, Outlined
<1>12. CASE t = "backpressure_preserves_the_tile"
  <2>2. Scripts[t] = reset \o test_backpressure_preserves_the_tile
    BY <1>12 DEF Scripts
  <2>3. Chain(t, OutlineOf[t], test_backpressure_preserves_the_tile, EndOf[t])
    BY <1>12, BackpressureChain DEF OutlineOf, EndOf
  <2>4. OutlineOf[t][1] = Pausing
    BY <1>1, <1>12, FirstContexts
  <2> QED BY <2>2, <2>3, <2>4, AfterReset DEF Outline, Outlined
<1>13. t \in {"id_reads_before_any_write", "reset_values", "unmapped_offset_reads_zero",
               "default_slope_matches_the_model", "slope_is_writable", "slope_is_eight_bits",
               "tlast_marks_the_tile", "status_and_count_report_the_tile",
               "two_tiles_back_to_back", "enable_low_withdraws_ready",
               "backpressure_preserves_the_tile"}
  BY <1>1 DEF Scripts
<1> QED BY <1>2, <1>3, <1>4, <1>5, <1>6, <1>7, <1>8, <1>9, <1>10, <1>11, <1>12, <1>13, Zenon

\* Statement i of a test is one the outline's rules allow where the test reaches it.
LEMMA OnContext ==
    ASSUME NEW t \in Tests
    PROVE  /\ Len(Scripts[t]) \in Nat \ {0} /\ DOMAIN Scripts[t] = 1 .. Len(Scripts[t])
           /\ Context(t, 1) = Start
           /\ \A i \in 1 .. Len(Scripts[t]) :
                 Rule(t, Context(t, i), Scripts[t][i], Context(t, i + 1))
<1>1. Chain(t, Outline(t), Scripts[t], EndOf[t]) /\ Outline(t)[1] = Start
  BY TestChain
<1>2. PICK S : Scripts[t] \in Seq(S)
  BY <1>1 DEF Chain
<1>3. PICK T : Outline(t) \in Seq(T)
  BY <1>1 DEF Chain
<1> DEFINE n == Len(Scripts[t])
<1>4. n \in Nat \ {0} /\ DOMAIN Scripts[t] = 1 .. n
  BY <1>1, <1>2 DEF Chain
<1>5. ASSUME NEW i \in 1 .. n
      PROVE  Rule(t, Outline(t)[i], Scripts[t][i], IF i = n THEN EndOf[t] ELSE Outline(t)[i + 1])
  BY <1>1 DEF Chain
<1> HIDE DEF n
<1>6. ASSUME NEW i \in 1 .. n
      PROVE  /\ Context(t, i) = Outline(t)[i]
             /\ Context(t, i + 1) = IF i = n THEN EndOf[t] ELSE Outline(t)[i + 1]
  <2>1. i <= n /\ (i + 1 <= n <=> i # n)
    BY <1>4
  <2> QED BY <2>1 DEF Context, n
<1>7. Context(t, 1) = Start
  <2>1. 1 \in 1 .. n
    BY <1>4
  <2> QED BY <1>1, <1>6, <2>1
<1>8. \A i \in 1 .. n : Rule(t, Context(t, i), Scripts[t][i], Context(t, i + 1))
  BY <1>5, <1>6
<1> QED BY <1>4, <1>7, <1>8 DEF n

-----------------------------------------------------------------------------
(* Tiles, their images and their marks                                     *)

\* A tile is a sequence of valid beats, and its last beat alone is marked.
LEMMA TileFacts ==
    ASSUME BenchTypes, NEW k \in DOMAIN tiles
    PROVE  /\ tiles[k] \in Seq(Beat) /\ Len(tiles[k]) \in Nat \ {0} /\ k \in Nat \ {0}
           /\ Len(tiles[k]) = Lengths[test][k] /\ k \in DOMAIN Lengths[test]
           /\ \A i \in 1 .. Len(tiles[k]) :
                 /\ tiles[k][i].valid = TRUE /\ tiles[k][i].data \in Activation
                 /\ tiles[k][i].last = IF i = Len(tiles[k]) THEN TRUE ELSE FALSE
<1>1. /\ test \in Tests /\ tiles \in [DOMAIN Lengths[test] -> Seq(Beat)]
      /\ Len(tiles[k]) = Lengths[test][k]
      /\ \A i \in 1 .. Len(tiles[k]) : tiles[k][i].last = (i = Len(tiles[k]))
  BY DEF BenchTypes
<1>2. Lengths[test] \in Seq(Nat \ {0})
  BY <1>1, BenchAssumption
<1>3. DOMAIN Lengths[test] = 1 .. Len(Lengths[test]) /\ Len(Lengths[test]) \in Nat
  BY <1>2
<1>4. k \in DOMAIN Lengths[test] /\ tiles[k] \in Seq(Beat)
  BY <1>1
<1>5. k \in Nat \ {0} /\ Len(tiles[k]) \in Nat \ {0}
  BY <1>1, <1>2, <1>3, <1>4
<1>6. ASSUME NEW i \in 1 .. Len(tiles[k])
      PROVE  tiles[k][i].valid = TRUE /\ tiles[k][i].data \in Activation
  <2>1. tiles[k][i] \in Beat
    BY <1>4, ElementOfSeq
  <2> QED BY <2>1 DEF Beat
<1>7. ASSUME NEW i \in 1 .. Len(tiles[k])
      PROVE  tiles[k][i].last = IF i = Len(tiles[k]) THEN TRUE ELSE FALSE
  BY <1>1
<1> QED BY <1>1, <1>4, <1>5, <1>6, <1>7

\* What is left of a tile after its first n beats.
LEMMA RestOfTile ==
    ASSUME BenchTypes, NEW k \in DOMAIN tiles, NEW n \in Nat, n < Len(tiles[k])
    PROVE  LET rest == SubSeq(tiles[k], n + 1, Len(tiles[k])) IN
           /\ rest # <<>> /\ Head(rest) = tiles[k][n + 1]
           /\ Tail(rest) = SubSeq(tiles[k], (n + 1) + 1, Len(tiles[k]))
<1> DEFINE L == Len(tiles[k])
           T == tiles[k]
           S == Beat
<1>1. T \in Seq(S) /\ L \in Nat
  BY TileFacts
<1>2. L = Len(T) /\ n < L /\ n \in Nat
  OBVIOUS
<1> HIDE DEF L, T, S
<1>3. n + 1 \in 1 .. Len(T) /\ L \in n + 1 .. Len(T)
  BY <1>1, <1>2
<1>4. /\ Head(SubSeq(T, n + 1, L)) = T[n + 1]
      /\ Tail(SubSeq(T, n + 1, L)) = SubSeq(T, (n + 1) + 1, L)
  BY <1>1, <1>3, HeadTailOfSubSeq
<1>5. SubSeq(T, n + 1, L) # <<>>
  <2>1. \A i \in n + 1 .. L : T[i] \in S
    BY <1>1, <1>2, ElementOfSeq
  <2>2. Len(SubSeq(T, n + 1, L)) = IF n + 1 <= L THEN L - (n + 1) + 1 ELSE 0
    BY <1>1, <1>2, <2>1, SubSeqProperties
  <2>3. n + 1 <= L /\ L - (n + 1) + 1 # 0
    BY <1>1, <1>2
  <2>4. Len(SubSeq(T, n + 1, L)) # 0
    BY <2>2, <2>3
  <2>5. Len(<<>>) = 0
    OBVIOUS
  <2> QED BY <2>4, <2>5, Zenon
<1> QED BY <1>4, <1>5 DEF L, T

\* Nothing is left of a tile after all its beats.
LEMMA NoRest ==
    ASSUME BenchTypes, NEW k \in DOMAIN tiles
    PROVE  SubSeq(tiles[k], Len(tiles[k]) + 1, Len(tiles[k])) = <<>>
<1>1. Len(tiles[k]) \in Nat
  BY TileFacts
<1> QED BY <1>1, SubSeqEmpty

\* One more entry of a sequence defined entry by entry.
LEMMA AppendEntry ==
    ASSUME NEW f, NEW n \in Nat
    PROVE  Append([i \in 1 .. n |-> f[i]], f[n + 1]) = [i \in 1 .. n + 1 |-> f[i]]
<1> DEFINE S == {f[i] : i \in 1 .. n + 1}
           s == [i \in 1 .. n |-> f[i]]
           r == [i \in 1 .. n + 1 |-> f[i]]
<1>1. s \in Seq(S) /\ Len(s) = n
  OBVIOUS
<1>2. r \in Seq(S) /\ Len(r) = n + 1
  OBVIOUS
<1>3. f[n + 1] \in S
  OBVIOUS
<1>4. /\ \A i \in 1 .. n : s[i] = f[i]
      /\ \A i \in 1 .. n + 1 : r[i] = f[i]
  OBVIOUS
<1> HIDE DEF S, s, r
<1>5. /\ Append(s, f[n + 1]) \in Seq(S) /\ Len(Append(s, f[n + 1])) = n + 1
      /\ \A i \in 1 .. n : Append(s, f[n + 1])[i] = s[i]
      /\ Append(s, f[n + 1])[n + 1] = f[n + 1]
  BY <1>1, <1>3, AppendProperties
<1>6. \A i \in 1 .. n + 1 : Append(s, f[n + 1])[i] = r[i]
  BY <1>4, <1>5
<1> QED BY <1>2, <1>5, <1>6, SeqEqual DEF s, r

\* The image of one beat more.
LEMMA ImageNext ==
    ASSUME NEW k, NEW n \in Nat, NEW slope
    PROVE  /\ Append(Image(k, n, slope), GoldenRelu(tiles[k][n + 1].data, slope))
                 = Image(k, n + 1, slope)
           /\ Len(Image(k, n, slope)) = n
           /\ Image(k, 0, slope) = <<>>
<1>1. Append(Image(k, n, slope), GoldenRelu(tiles[k][n + 1].data, slope))
                 = Image(k, n + 1, slope)
  <2> DEFINE f == [i \in Nat |-> GoldenRelu(tiles[k][i].data, slope)]
  <2>1. n + 1 \in Nat
    OBVIOUS
  <2>2. \A i \in Nat : f[i] = GoldenRelu(tiles[k][i].data, slope)
    OBVIOUS
  <2> HIDE DEF f
  <2>3. Append([i \in 1 .. n |-> f[i]], f[n + 1]) = [i \in 1 .. n + 1 |-> f[i]]
    BY AppendEntry
  <2>4. Image(k, n, slope) = [i \in 1 .. n |-> f[i]]
    BY <2>2 DEF Image
  <2>5. Image(k, n + 1, slope) = [i \in 1 .. n + 1 |-> f[i]]
    BY <2>2 DEF Image
  <2>6. f[n + 1] = GoldenRelu(tiles[k][n + 1].data, slope)
    BY <2>1, <2>2
  <2> QED BY <2>3, <2>4, <2>5, <2>6
<1>3. Len(Image(k, n, slope)) = n
  BY DEF Image
<1>4. Image(k, 0, slope) = <<>>
  BY DEF Image
<1> QED BY <1>1, <1>3, <1>4

\* The marks of one beat more.
LEMMA MarksNext ==
    ASSUME NEW k, NEW n \in Nat
    PROVE  /\ Append(Marks(k, n), IF n + 1 = Len(tiles[k]) THEN TRUE ELSE FALSE)
                 = Marks(k, n + 1)
           /\ Marks(k, 0) = <<>>
<1>1. Append(Marks(k, n), IF n + 1 = Len(tiles[k]) THEN TRUE ELSE FALSE) = Marks(k, n + 1)
  <2> DEFINE f == [i \in Nat |-> IF i = Len(tiles[k]) THEN TRUE ELSE FALSE]
  <2>1. n + 1 \in Nat
    OBVIOUS
  <2>2. \A i \in Nat : f[i] = IF i = Len(tiles[k]) THEN TRUE ELSE FALSE
    OBVIOUS
  <2>3. \A i \in Nat : f[i] = (i = Len(tiles[k]))
    OBVIOUS
  <2> HIDE DEF f
  <2>4. Append([i \in 1 .. n |-> f[i]], f[n + 1]) = [i \in 1 .. n + 1 |-> f[i]]
    BY AppendEntry
  <2>5. Marks(k, n) = [i \in 1 .. n |-> f[i]]
    BY <2>3 DEF Marks
  <2>6. Marks(k, n + 1) = [i \in 1 .. n + 1 |-> f[i]]
    BY <2>3 DEF Marks
  <2>7. f[n + 1] = IF n + 1 = Len(tiles[k]) THEN TRUE ELSE FALSE
    BY <2>1, <2>2
  <2> QED BY <2>4, <2>5, <2>6, <2>7
<1>2. Marks(k, 0) = <<>>
  BY DEF Marks
<1> QED BY <1>1, <1>2

-----------------------------------------------------------------------------
(* An edge of the stream                                                   *)

\* The accelerator takes a beat on this edge.
Taken == in_fire(SPin, m_axis_tready)

\* An edge out of reset, without the registers.
StreamEdge ==
    /\ aresetn = TRUE /\ UNCHANGED tiles
    /\ Pipeline(SPin, m_axis_tready) /\ Accounting(SPin, m_axis_tready)
    /\ SinkEdge /\ MonitorEdge /\ SourceEdge(s_axis_tready(m_axis_tready))

\* What such an edge does, with the operators unfolded.
LEMMA StreamEdgeFacts ==
    ASSUME StreamInv, BenchTypes, StreamEdge
    PROVE  /\ out_valid_q' = (Taken \/ (out_valid_q /\ ~m_axis_tready))
           /\ out_last_q' = IF Taken THEN SPin.last
                           ELSE out_last_q /\ ~(out_valid_q /\ m_axis_tready)
           /\ Taken => out_data_q' = relu(SPin.data, slope_reg)
           /\ ~Taken => out_data_q' = out_data_q
           /\ Taken => en_reg /\ SPin.valid /\ (~out_valid_q \/ m_axis_tready)
           /\ tile_done(m_axis_tready) = (out_valid_q /\ m_axis_tready /\ out_last_q)
           /\ busy_q' = (~tile_done(m_axis_tready) /\ (busy_q \/ Taken))
           /\ done_q' = (tile_done(m_axis_tready) \/ (done_q /\ ~(Taken /\ ~busy_q)))
           /\ Taken \in BOOLEAN /\ tile_done(m_axis_tready) \in BOOLEAN
           /\ {en_reg, out_valid_q, out_last_q, busy_q, done_q, m_axis_tready, paused,
               offered, driven, monitoring} \subseteq BOOLEAN
           /\ m_axis_tready' = ~paused
           /\ pause' = 0
<1>1. {en_reg, out_valid_q, out_last_q, busy_q, done_q, m_axis_tready, paused,
       offered, driven, monitoring} \subseteq BOOLEAN
  BY DEF StreamInv, TypeOK, BenchTypes
<1>2. Taken \in BOOLEAN /\ tile_done(m_axis_tready) \in BOOLEAN
  BY DEF Taken, in_fire, tile_done
<1>3. /\ Taken => en_reg /\ SPin.valid /\ (~out_valid_q \/ m_axis_tready)
      /\ tile_done(m_axis_tready) = (out_valid_q /\ m_axis_tready /\ out_last_q)
  BY DEF Taken, in_fire, tile_done, out_fire, s_axis_tready
<1>4. /\ out_valid_q' = (Taken \/ (out_valid_q /\ ~m_axis_tready))
      /\ out_last_q' = IF Taken THEN SPin.last ELSE out_last_q /\ ~(out_valid_q /\ m_axis_tready)
      /\ Taken => out_data_q' = relu(SPin.data, slope_reg)
      /\ ~Taken => out_data_q' = out_data_q
  BY <1>1 DEF StreamEdge, Pipeline, Taken, out_fire
<1>5. /\ busy_q' = (~tile_done(m_axis_tready) /\ (busy_q \/ Taken))
      /\ done_q' = (tile_done(m_axis_tready) \/ (done_q /\ ~(Taken /\ ~busy_q)))
  BY <1>1, <1>2 DEF StreamEdge, Accounting, begins, Taken
<1>6. m_axis_tready' = ~paused /\ pause' = 0
  BY <1>1 DEF StreamEdge, SinkEdge, SourceEdge, BenchTypes
<1> QED BY <1>1, <1>2, <1>3, <1>4, <1>5, <1>6

\* The source follows the accelerator: it offers the next beat on the edge after.
LEMMA SourceFacts ==
    ASSUME StreamInv, BenchTypes, StreamEdge, driven => ~en_reg,
           offered => frame # <<>> /\ Head(frame).valid = TRUE
    PROVE  /\ frame' = IF Taken THEN Tail(frame) ELSE frame
           /\ offered' = (frame' # <<>>)
           /\ Taken => offered /\ ~driven /\ SPin = Head(frame)
           /\ en_reg /\ m_axis_tready => Taken = offered
<1> DEFINE ready == s_axis_tready(m_axis_tready)
<1>1. /\ {en_reg, out_valid_q, m_axis_tready, offered, driven} \subseteq BOOLEAN
      /\ Taken \in BOOLEAN
  BY StreamEdgeFacts
<1>2. ready = (en_reg /\ (~out_valid_q \/ m_axis_tready)) /\ Taken = (SPin.valid /\ ready)
  BY DEF s_axis_tready, Taken, in_fire
<1>3. driven => ~ready
  BY <1>2
<1>4. ~driven /\ offered => SPin = Head(frame) /\ SPin.valid = TRUE
  BY <1>1 DEF SPin
<1>5. ~driven /\ ~offered => SPin.valid = FALSE
  BY <1>1 DEF SPin, NoBeat
<1>6. Taken = (offered /\ ready)
  BY <1>1, <1>2, <1>3, <1>4, <1>5
<1>7. pause = 0 /\ aresetn = TRUE
  BY DEF BenchTypes, StreamEdge
<1>8. /\ frame' = IF offered /\ ready THEN Tail(frame) ELSE frame
      /\ offered' = (frame' # <<>>)
  BY <1>1, <1>7 DEF StreamEdge, SourceEdge
<1> QED BY <1>1, <1>2, <1>3, <1>4, <1>6, <1>8

\* What a tile that is under way says of the source and the output register.
LEMMA AfloatFacts ==
    ASSUME StreamInv, BenchTypes, NEW k, NEW slope, Afloat(k, slope)
    PROVE  /\ k \in DOMAIN tiles /\ Len(tiles[k]) \in Nat \ {0}
           /\ Len(receiving) \in Nat /\ Accepted \in Nat
           /\ Accepted <= Len(tiles[k])
           /\ out_valid_q => Accepted = Len(receiving) + 1 /\ Accepted \in 1 .. Len(tiles[k])
           /\ ~out_valid_q => Accepted = Len(receiving)
           /\ offered => /\ frame # <<>> /\ Head(frame) = tiles[k][Accepted + 1]
                         /\ Head(frame).valid = TRUE
                         /\ Accepted + 1 \in 1 .. Len(tiles[k])
           /\ frame # <<>> <=> Accepted < Len(tiles[k])
<1>1. k \in DOMAIN tiles /\ Accepted <= Len(tiles[k])
  BY DEF Afloat
<1>2. Len(tiles[k]) \in Nat \ {0}
  BY <1>1, TileFacts
<1>3. Len(receiving) \in Nat
  BY DEF BenchTypes
<1>4. out_valid_q \in BOOLEAN
  BY DEF StreamInv, TypeOK
<1>5. Accepted = Len(receiving) + (IF out_valid_q THEN 1 ELSE 0)
  BY DEF Accepted
<1>6. PICK n \in Nat : n = Accepted
  BY <1>3, <1>4, <1>5
<1>7. /\ out_valid_q => n = Len(receiving) + 1 /\ n \in 1 .. Len(tiles[k])
      /\ ~out_valid_q => n = Len(receiving)
  BY <1>1, <1>2, <1>3, <1>4, <1>5, <1>6
<1>8. /\ frame = SubSeq(tiles[k], n + 1, Len(tiles[k]))
      /\ offered => n < Len(tiles[k])
  BY <1>6 DEF Afloat
<1>9. ASSUME n < Len(tiles[k])
      PROVE  /\ frame # <<>> /\ Head(frame) = tiles[k][n + 1]
             /\ Head(frame).valid = TRUE /\ n + 1 \in 1 .. Len(tiles[k])
  <2>1. frame # <<>> /\ Head(frame) = tiles[k][n + 1]
    BY <1>1, <1>8, <1>9, RestOfTile
  <2>2. n + 1 \in 1 .. Len(tiles[k])
    BY <1>2, <1>9
  <2>3. tiles[k][n + 1].valid = TRUE
    BY <1>1, <2>2, TileFacts
  <2> QED BY <2>1, <2>2, <2>3
<1>10. ASSUME ~(n < Len(tiles[k]))
       PROVE  frame = <<>>
  <2>1. n = Len(tiles[k])
    BY <1>1, <1>2, <1>6, <1>10
  <2> QED BY <1>1, <1>8, <2>1, NoRest
<1>11. frame # <<>> <=> n < Len(tiles[k])
  BY <1>9, <1>10
<1> QED BY <1>1, <1>2, <1>3, <1>6, <1>7, <1>8, <1>9, <1>11

\* A beat enters: the tile is one beat further on its way.
LEMMA BeatEnters ==
    ASSUME StreamInv, BenchTypes, NEW k, NEW slope \in Slope, Afloat(k, slope), frames = <<>>,
           slope_reg = slope, driven => ~en_reg, StreamEdge, Taken
    PROVE  /\ Arrived = <<>> /\ Afloat(k, slope)' /\ Accepted' = Accepted + 1
           /\ out_valid_q' = TRUE /\ out_last_q' = (Accepted + 1 = Len(tiles[k]))
           /\ Accepted + 1 \in 1 .. Len(tiles[k])
<1> DEFINE L == Len(tiles[k])
           n == Accepted
           r == Len(receiving)
<1>1. /\ k \in DOMAIN tiles /\ L \in Nat \ {0} /\ n \in Nat /\ r \in Nat /\ n <= L
      /\ out_valid_q => n = r + 1
      /\ ~out_valid_q => n = r
      /\ offered => /\ frame # <<>> /\ Head(frame) = tiles[k][n + 1]
                    /\ Head(frame).valid = TRUE /\ n + 1 \in 1 .. L
  BY AfloatFacts
<1>2. /\ frame = SubSeq(tiles[k], n + 1, L)
      /\ receiving = Image(k, r, slope)
      /\ out_valid_q => out_data_q = GoldenRelu(tiles[k][n].data, slope) /\ out_last_q = (n = L)
      /\ busy_q = (n > 0)
      /\ beats_q = Unsigned(n, COUNT_W)
      /\ n > 0 => done_q = FALSE
  BY DEF Afloat
<1>0. /\ \A i \in 1 .. L : /\ tiles[k][i].data \in Activation
                           /\ tiles[k][i].last = IF i = L THEN TRUE ELSE FALSE
      /\ \A i \in Nat : /\ Append(Image(k, i, slope), GoldenRelu(tiles[k][i + 1].data, slope))
                              = Image(k, i + 1, slope)
                        /\ Len(Image(k, i, slope)) = i
  <2>1. \A i \in 1 .. L : /\ tiles[k][i].data \in Activation
                         /\ tiles[k][i].last = IF i = L THEN TRUE ELSE FALSE
    BY <1>1, TileFacts
  <2> QED BY <2>1, ImageNext
<1>3. /\ offered /\ SPin = Head(frame) /\ frame' = Tail(frame) /\ offered' = (frame' # <<>>)
  BY <1>1, SourceFacts
<1>4. /\ out_valid_q' = TRUE /\ out_last_q' = SPin.last
      /\ out_data_q' = relu(SPin.data, slope)
      /\ (~out_valid_q \/ m_axis_tready)
      /\ tile_done(m_axis_tready) = (out_valid_q /\ m_axis_tready /\ out_last_q)
      /\ busy_q' = (~tile_done(m_axis_tready) /\ (busy_q \/ Taken))
      /\ done_q' = (tile_done(m_axis_tready) \/ (done_q /\ ~(Taken /\ ~busy_q)))
      /\ tile_done(m_axis_tready) \in BOOLEAN
      /\ {out_valid_q, busy_q, done_q, m_axis_tready} \subseteq BOOLEAN
  BY StreamEdgeFacts
<1>5. /\ n + 1 \in 1 .. L /\ n < L
      /\ tiles[k][n + 1].data \in Activation
      /\ tiles[k][n + 1].last = IF n + 1 = L THEN TRUE ELSE FALSE
  <2>1. n + 1 \in 1 .. L /\ n < L
    BY <1>1, <1>3
  <2> QED BY <1>0, <2>1
<1>6. tile_done(m_axis_tready) = FALSE
  BY <1>1, <1>2, <1>4, <1>5
<1>7. Arrived = <<>>
  BY <1>6 DEF Arrived
<1>8. out_data_q' = GoldenRelu(tiles[k][n + 1].data, slope)
  BY <1>1, <1>3, <1>4, <1>5, UnitExact
<1>9. out_last_q' = (n + 1 = L)
  BY <1>1, <1>3, <1>4, <1>5
<1>10. frame' = SubSeq(tiles[k], (n + 1) + 1, L)
  BY <1>1, <1>2, <1>3, <1>5, RestOfTile
<1>11. receiving' = Image(k, n, slope) /\ Len(receiving') = n
  <2>1. receiving' = IF out_valid_q /\ m_axis_tready THEN Append(receiving, out_data_q)
                     ELSE receiving
    BY <1>6 DEF StreamEdge, SinkEdge, out_fire
  <2>2. CASE out_valid_q
    <3>1. receiving' = Append(receiving, out_data_q) /\ n = r + 1
      BY <1>1, <1>4, <2>1, <2>2
    <3>2. out_data_q = GoldenRelu(tiles[k][r + 1].data, slope)
      BY <1>2, <2>2, <3>1
    <3>3. Append(Image(k, r, slope), GoldenRelu(tiles[k][r + 1].data, slope))
              = Image(k, r + 1, slope)
      <4>1. r \in Nat
        BY <1>1
      <4> QED BY <4>1, <1>0
    <3>4. receiving' = Image(k, n, slope)
      BY <1>2, <3>1, <3>2, <3>3
    <3>5. Len(Image(k, n, slope)) = n
      <4>1. n \in Nat
        BY <1>1
      <4> QED BY <4>1, <1>0
    <3> QED BY <3>4, <3>5
  <2>3. CASE ~out_valid_q
    <3>1. receiving' = receiving /\ n = r
      BY <1>1, <2>1, <2>3
    <3> QED BY <1>2, <3>1
  <2> QED BY <2>2, <2>3
<1>12. beats_q' = Unsigned(n + 1, COUNT_W)
  <2>1. beats_q' = Unsigned(beats_q + 1, COUNT_W)
    BY <1>6 DEF StreamEdge, Accounting, counted, Taken
  <2>2. COUNT_W \in Nat /\ n \in Int
    BY <1>1, Bounds
  <2>3. Unsigned(Unsigned(n, COUNT_W) + 1, COUNT_W) = Unsigned(n + 1, COUNT_W)
    BY <2>2, UnsignedNext
  <2> QED BY <1>2, <2>1, <2>3
<1>13. busy_q' = TRUE /\ done_q' = FALSE
  <2>1. busy_q' = TRUE
    BY <1>4, <1>6
  <2>2. busy_q => done_q = FALSE
    BY <1>2
  <2> QED BY <1>4, <1>6, <2>1, <2>2
<1>14. tiles' = tiles
  BY DEF StreamEdge
<1>15. Accepted' = n + 1
  <2>1. Accepted' = Len(receiving') + (IF out_valid_q' THEN 1 ELSE 0)
    BY DEF Accepted
  <2> QED BY <1>1, <1>4, <1>11, <2>1
<1>16. offered' => n + 1 < L
  <2>1. CASE n + 1 < L
    BY <2>1
  <2>2. CASE n + 1 = L
    BY <1>1, <1>3, <1>10, <2>2, NoRest
  <2>3. n + 1 < L \/ n + 1 = L
    BY <1>1, <1>5
  <2> QED BY <2>1, <2>2, <2>3
<1>17. Afloat(k, slope)'
  <2>1. n + 1 <= L /\ n + 1 > 0
    BY <1>1, <1>5
  <2>2. (receiving = Image(k, Len(receiving), slope))'
    BY <1>11, <1>14 DEF Image
  <2>3. PICK m : m = n + 1
    OBVIOUS
  <2>4. /\ m <= L /\ m > 0 /\ Accepted' = m
        /\ frame' = SubSeq(tiles[k], m + 1, L)
        /\ offered' => m < L
        /\ out_data_q' = GoldenRelu(tiles[k][m].data, slope)
        /\ out_last_q' = (m = L)
        /\ beats_q' = Unsigned(m, COUNT_W)
    BY <1>8, <1>9, <1>10, <1>12, <1>15, <1>16, <2>1, <2>3
  <2>5. (m > 0) = TRUE
    BY <2>4
  <2>6. /\ (k \in DOMAIN tiles)' /\ (Accepted <= Len(tiles[k]))'
        /\ (Accepted = Len(tiles[k]) => out_valid_q)'
        /\ (frame = SubSeq(tiles[k], Accepted + 1, Len(tiles[k])))'
        /\ (offered => Accepted < Len(tiles[k]))'
        /\ (out_data_q = GoldenRelu(tiles[k][Accepted].data, slope))'
        /\ (out_last_q = (Accepted = Len(tiles[k])))'
        /\ (busy_q = (Accepted > 0))' /\ (beats_q = Unsigned(Accepted, COUNT_W))'
        /\ (Accepted > 0 => done_q = FALSE)'
    BY <1>1, <1>4, <1>13, <1>14, <2>4, <2>5, Zenon
  <2> QED BY <2>2, <2>6 DEF Afloat
<1> QED BY <1>4, <1>5, <1>7, <1>9, <1>15, <1>17

\* No beat enters and the last one does not leave: the tile is where it was.
LEMMA TileWaits ==
    ASSUME StreamInv, BenchTypes, NEW k, NEW slope \in Slope, Afloat(k, slope), frames = <<>>,
           driven => ~en_reg, StreamEdge, ~Taken,
           tile_done(m_axis_tready) = FALSE
    PROVE  /\ Arrived = <<>> /\ Afloat(k, slope)' /\ Accepted' = Accepted
           /\ out_valid_q' = (out_valid_q /\ ~m_axis_tready)
<1> DEFINE L == Len(tiles[k])
           n == Accepted
           r == Len(receiving)
<1>1. /\ k \in DOMAIN tiles /\ L \in Nat \ {0} /\ n \in Nat /\ r \in Nat /\ n <= L
      /\ out_valid_q => n = r + 1
      /\ ~out_valid_q => n = r
      /\ offered => frame # <<>> /\ Head(frame).valid = TRUE
      /\ frame # <<>> <=> n < L
  BY AfloatFacts
<1>2. /\ frame = SubSeq(tiles[k], n + 1, L)
      /\ receiving = Image(k, r, slope)
      /\ out_valid_q => out_data_q = GoldenRelu(tiles[k][n].data, slope) /\ out_last_q = (n = L)
      /\ n = L => out_valid_q
      /\ busy_q = (n > 0)
      /\ beats_q = Unsigned(n, COUNT_W)
      /\ n > 0 => done_q = FALSE
  BY DEF Afloat
<1>3. frame' = frame /\ offered' = (frame' # <<>>)
  BY <1>1, SourceFacts
<1>4. /\ out_valid_q' = (out_valid_q /\ ~m_axis_tready)
      /\ out_last_q' = (out_last_q /\ ~(out_valid_q /\ m_axis_tready))
      /\ out_data_q' = out_data_q
      /\ tile_done(m_axis_tready) = (out_valid_q /\ m_axis_tready /\ out_last_q)
      /\ busy_q' = busy_q /\ done_q' = done_q
      /\ {out_valid_q, out_last_q, busy_q, done_q, m_axis_tready} \subseteq BOOLEAN
  BY StreamEdgeFacts
<1>5. Arrived = <<>>
  BY DEF Arrived
<1>6. beats_q' = beats_q /\ tiles' = tiles
  BY DEF StreamEdge, Accounting, counted, Taken
<1>7. receiving' = IF out_valid_q /\ m_axis_tready THEN Append(receiving, out_data_q) ELSE receiving
  BY DEF StreamEdge, SinkEdge, out_fire
<1>8. Accepted' = Len(receiving') + (IF out_valid_q' THEN 1 ELSE 0)
  BY DEF Accepted
<1>9. CASE out_valid_q /\ m_axis_tready
  <2>1. out_last_q = FALSE /\ n = r + 1 /\ n # L
    BY <1>1, <1>2, <1>4, <1>9
  <2>2. receiving' = Image(k, n, slope) /\ Len(receiving') = n
    <3>1. receiving' = Append(receiving, out_data_q)
      BY <1>7, <1>9
    <3>2. out_data_q = GoldenRelu(tiles[k][r + 1].data, slope)
      BY <1>2, <1>9, <2>1
    <3>3. /\ Append(Image(k, r, slope), GoldenRelu(tiles[k][r + 1].data, slope))
               = Image(k, r + 1, slope)
          /\ Len(Image(k, r + 1, slope)) = r + 1
      <4>1. r \in Nat /\ r + 1 \in Nat
        BY <1>1
      <4> QED BY <4>1, ImageNext, Zenon
    <3> QED BY <1>2, <2>1, <3>1, <3>2, <3>3
  <2>3. out_valid_q' = FALSE
    BY <1>4, <1>9
  <2>4. Accepted' = n
    BY <1>1, <1>8, <2>2, <2>3
  <2>5. (receiving = Image(k, Len(receiving), slope))'
    BY <1>6, <2>2 DEF Image
  <2>6. /\ (k \in DOMAIN tiles)' /\ (Accepted <= Len(tiles[k]))'
        /\ (Accepted = Len(tiles[k]) => out_valid_q)'
        /\ (frame = SubSeq(tiles[k], Accepted + 1, Len(tiles[k])))'
        /\ (offered => Accepted < Len(tiles[k]))'
        /\ (busy_q = (Accepted > 0))' /\ (beats_q = Unsigned(Accepted, COUNT_W))'
        /\ (Accepted > 0 => done_q = FALSE)'
    BY <1>1, <1>2, <1>3, <1>4, <1>6, <2>1, <2>3, <2>4, Zenon
  <2>7. Afloat(k, slope)'
    BY <2>3, <2>5, <2>6 DEF Afloat
  <2> QED BY <1>4, <1>5, <2>4, <2>7
<1>10. CASE ~(out_valid_q /\ m_axis_tready)
  <2>1. receiving' = receiving /\ out_valid_q' = out_valid_q /\ out_last_q' = out_last_q
    BY <1>4, <1>7, <1>10
  <2>2. Accepted' = n
    BY <1>8, <2>1 DEF Accepted
  <2>3. (receiving = Image(k, Len(receiving), slope))'
    BY <1>2, <1>6, <2>1 DEF Image
  <2>4. /\ (k \in DOMAIN tiles)' /\ (Accepted <= Len(tiles[k]))'
        /\ (Accepted = Len(tiles[k]) => out_valid_q)'
        /\ (frame = SubSeq(tiles[k], Accepted + 1, Len(tiles[k])))'
        /\ (offered => Accepted < Len(tiles[k]))'
        /\ (out_valid_q => out_data_q = GoldenRelu(tiles[k][Accepted].data, slope))'
        /\ (busy_q = (Accepted > 0))' /\ (beats_q = Unsigned(Accepted, COUNT_W))'
        /\ (Accepted > 0 => done_q = FALSE)'
    BY <1>1, <1>2, <1>3, <1>4, <1>6, <2>1, <2>2, Zenon
  <2>5. (out_valid_q => out_last_q = (Accepted = Len(tiles[k])))'
    BY <1>2, <1>6, <2>1, <2>2
  <2>6. Afloat(k, slope)'
    BY <2>3, <2>4, <2>5 DEF Afloat
  <2> QED BY <1>4, <1>5, <2>2, <2>6
<1> QED BY <1>9, <1>10

\* The last beat leaves: the whole image has arrived, and no beat is under way.
LEMMA TileLands ==
    ASSUME StreamInv, BenchTypes, NEW k, NEW slope \in Slope, Afloat(k, slope), frames = <<>>,
           driven => ~en_reg, StreamEdge, tile_done(m_axis_tready) = TRUE
    PROVE  /\ Arrived = << Image(k, Len(tiles[k]), slope) >> /\ Ashore(k)'
           /\ ~Taken /\ Accepted = Len(tiles[k]) /\ out_valid_q' = FALSE
<1> DEFINE L == Len(tiles[k])
           n == Accepted
           r == Len(receiving)
<1>1. /\ k \in DOMAIN tiles /\ L \in Nat \ {0} /\ n \in Nat /\ r \in Nat /\ n <= L
      /\ out_valid_q => n = r + 1
      /\ offered => frame # <<>> /\ Head(frame).valid = TRUE
      /\ frame # <<>> <=> n < L
  BY AfloatFacts
<1>2. /\ receiving = Image(k, r, slope)
      /\ out_valid_q => out_data_q = GoldenRelu(tiles[k][n].data, slope) /\ out_last_q = (n = L)
      /\ beats_q = Unsigned(n, COUNT_W)
      /\ offered => n < L
  BY DEF Afloat
<1>3. /\ tile_done(m_axis_tready) = (out_valid_q /\ m_axis_tready /\ out_last_q)
      /\ {out_valid_q, out_last_q, m_axis_tready, offered, done_q, busy_q} \subseteq BOOLEAN
  BY StreamEdgeFacts
<1>4. out_valid_q = TRUE /\ m_axis_tready = TRUE /\ n = L /\ n = r + 1 /\ out_last_q = TRUE
  BY <1>1, <1>2, <1>3
<1>5. offered = FALSE /\ frame = <<>>
  BY <1>1, <1>2, <1>3, <1>4
<1>6. ~Taken
  BY <1>1, <1>5, SourceFacts
<1>7. frame' = <<>> /\ offered' = FALSE
  BY <1>1, <1>5, <1>6, SourceFacts
<1>8. out_valid_q' = FALSE /\ busy_q' = FALSE /\ done_q' = TRUE
  BY <1>3, <1>4, <1>6, StreamEdgeFacts
<1>9. receiving' = <<>> /\ beats_q' = 0 /\ count_q' = beats_q /\ tiles' = tiles
  BY <1>6 DEF StreamEdge, SinkEdge, Accounting, counted, Taken
<1>10. Arrived = << Image(k, L, slope) >>
  <2>1. Arrived = Append(frames, Append(receiving, out_data_q))
    BY DEF Arrived
  <2>2. out_data_q = GoldenRelu(tiles[k][r + 1].data, slope)
    BY <1>2, <1>4
  <2>3. Append(Image(k, r, slope), GoldenRelu(tiles[k][r + 1].data, slope)) = Image(k, r + 1, slope)
    <3>1. r \in Nat
      BY <1>1
    <3> QED BY <3>1, ImageNext, Zenon
  <2>4. Append(receiving, out_data_q) = Image(k, L, slope)
    BY <1>2, <1>4, <2>2, <2>3
  <2>5. \A x : Append(<<>>, x) = << x >>
    OBVIOUS
  <2> QED BY <2>1, <2>4, <2>5
<1>11. Ashore(k)'
  <2>1. (count_q = Unsigned(Len(tiles[k]), COUNT_W))' /\ (k \in DOMAIN tiles)'
    BY <1>1, <1>2, <1>4, <1>9
  <2> QED BY <1>7, <1>8, <1>9, <2>1 DEF Ashore
<1> QED BY <1>4, <1>6, <1>8, <1>10, <1>11

\* With nothing under way an edge changes nothing of the stream.
LEMMA AshoreStays ==
    ASSUME StreamInv, BenchTypes, NEW k, Ashore(k), driven => ~en_reg, StreamEdge
    PROVE  /\ Arrived = frames /\ Ashore(k)' /\ ~Taken /\ out_valid_q' = FALSE
<1>1. /\ frame = <<>> /\ offered = FALSE /\ receiving = <<>>
      /\ out_valid_q = FALSE /\ busy_q = FALSE /\ beats_q = 0
      /\ \/ k = 0 /\ done_q = FALSE /\ count_q = 0
         \/ /\ k \in DOMAIN tiles /\ done_q = TRUE
            /\ count_q = Unsigned(Len(tiles[k]), COUNT_W)
  BY DEF Ashore
<1>2. ~Taken
  BY <1>1, SourceFacts
<1>3. frame' = <<>> /\ offered' = FALSE
  BY <1>1, <1>2, SourceFacts
<1>4. tile_done(m_axis_tready) = FALSE
  BY <1>1, StreamEdgeFacts
<1>5. out_valid_q' = FALSE /\ busy_q' = FALSE /\ done_q' = done_q
  BY <1>1, <1>2, <1>4, StreamEdgeFacts
<1>6. beats_q' = 0 /\ count_q' = count_q /\ tiles' = tiles
  BY <1>1, <1>2, <1>4 DEF StreamEdge, Accounting, counted, Taken
<1>7. receiving' = <<>>
  BY <1>1, <1>4 DEF StreamEdge, SinkEdge, out_fire
<1>8. Arrived = frames
  BY <1>4 DEF Arrived
<1>9. Ashore(k)'
  BY <1>1, <1>3, <1>5, <1>6, <1>7 DEF Ashore
<1> QED BY <1>2, <1>5, <1>8, <1>9

\* What the monitor records on an edge.
LEMMA MonitorFacts ==
    ASSUME StreamInv, BenchTypes, NEW c \in Contexts, SinkAt(c), FlagsAt(c), StreamEdge
    PROVE  /\ ~c.monitoring => flags' = <<>>
           /\ c.monitoring => /\ m_axis_tready = TRUE
                              /\ out_valid_q' = TRUE => flags' = Append(flags, out_last_q')
                              /\ out_valid_q' = FALSE => flags' = flags
           /\ c.flow => m_axis_tready' = TRUE
<1>1. /\ c.monitoring \in BOOLEAN /\ c.flow \in BOOLEAN /\ c.up \in BOOLEAN
  BY DEF Contexts
<1>2. /\ monitoring = c.monitoring
      /\ ~c.monitoring => flags = <<>>
      /\ c.monitoring => c.flow /\ c.up
      /\ c.flow => paused = FALSE
      /\ c.flow /\ c.up => m_axis_tready = TRUE
  BY DEF SinkAt, FlagsAt
<1>3. m_axis_tready' = ~paused
  BY StreamEdgeFacts
<1>4. flags' = IF monitoring /\ out_valid_q' /\ m_axis_tready'
               THEN Append(flags, out_last_q') ELSE flags
  BY DEF StreamEdge, MonitorEdge
<1> QED BY <1>1, <1>2, <1>3, <1>4

\* An edge with a tile under way, and with its frame waiting: the tile flies on
\* or its frame has arrived, and the monitor has seen what the accelerator took.
LEMMA SentMoves ==
    ASSUME StreamInv, BenchTypes, NEW c \in Contexts, c.sent = TRUE,
           StreamAt(c), SinkAt(c), FlagsAt(c),
           StreamEdge, slope_reg = c.slope, driven => ~en_reg
    PROVE  \/ /\ Arrived = <<>> /\ Afloat(c.tile, c.slope)' /\ frames = <<>>
              /\ c.monitoring => flags' = Marks(c.tile, Accepted)'
              /\ Accepted' = Accepted + (IF Taken THEN 1 ELSE 0)
           \/ /\ Arrived = << Image(c.tile, Len(tiles[c.tile]), c.slope) >> /\ Ashore(c.tile)'
              /\ c.tile \in DOMAIN tiles /\ c.tile # 0
              /\ c.monitoring => flags' = Marks(c.tile, Len(tiles[c.tile]))
              /\ frames # <<>> \/ Accepted = Len(tiles[c.tile])
<1> DEFINE k == c.tile
           L == Len(tiles[k])
<1>1. /\ c.monitoring \in BOOLEAN /\ c.slope \in Slope
  BY DEF Contexts
<1>2. /\ c.monitoring => flags = IF k = 0 THEN <<>>
                                 ELSE IF frames = <<>> THEN Marks(k, Accepted)
                                 ELSE Marks(k, L)
  BY DEF FlagsAt
<1>3. /\ c.monitoring => /\ m_axis_tready = TRUE
                         /\ out_valid_q' = TRUE => flags' = Append(flags, out_last_q')
                         /\ out_valid_q' = FALSE => flags' = flags
  BY MonitorFacts
<1>4. tiles' = tiles
  BY DEF StreamEdge
<1>5. CASE frames = <<>> /\ Afloat(k, c.slope)
  <2>1. k \in DOMAIN tiles /\ k # 0 /\ L \in Nat /\ Accepted \in Nat
    BY <1>5, AfloatFacts, TileFacts
  <2>2. c.monitoring => flags = Marks(k, Accepted)
    BY <1>2, <1>5, <2>1
  <2>3. tile_done(m_axis_tready) \in BOOLEAN /\ Taken \in BOOLEAN /\ out_valid_q \in BOOLEAN
    BY StreamEdgeFacts
  <2>4. CASE Taken
    <3>1. /\ Arrived = <<>> /\ Afloat(k, c.slope)' /\ Accepted' = Accepted + 1
          /\ out_valid_q' = TRUE /\ out_last_q' = (Accepted + 1 = L)
      BY <1>1, <1>5, <2>4, BeatEnters
    <3>2. PICK n \in Nat : n = Accepted
      BY <2>1
    <3>3. Append(Marks(k, n), IF n + 1 = L THEN TRUE ELSE FALSE) = Marks(k, n + 1)
      BY MarksNext
    <3>4. out_last_q' = IF n + 1 = L THEN TRUE ELSE FALSE
      BY <3>1, <3>2
    <3>5. c.monitoring => flags' = Marks(k, n + 1)
      BY <1>3, <2>2, <3>1, <3>2, <3>3, <3>4
    <3>6. Marks(k, Accepted)' = Marks(k, n + 1)
      BY <1>4, <3>1, <3>2 DEF Marks
    <3> QED BY <1>5, <2>4, <3>1, <3>5, <3>6
  <2>5. CASE ~Taken /\ tile_done(m_axis_tready) = FALSE
    <3>1. /\ Arrived = <<>> /\ Afloat(k, c.slope)' /\ Accepted' = Accepted
          /\ out_valid_q' = (out_valid_q /\ ~m_axis_tready)
      BY <1>1, <1>5, <2>5, TileWaits
    <3>2. c.monitoring => flags' = flags
      BY <1>3, <2>3, <3>1
    <3>3. Marks(k, Accepted)' = Marks(k, Accepted)
      BY <1>4, <3>1 DEF Marks
    <3>4. Accepted + 0 = Accepted
      BY <2>1
    <3> QED BY <1>5, <2>2, <2>5, <3>1, <3>2, <3>3, <3>4
  <2>6. CASE tile_done(m_axis_tready) = TRUE
    <3>1. /\ Arrived = << Image(k, L, c.slope) >> /\ Ashore(k)'
          /\ Accepted = L /\ out_valid_q' = FALSE
      BY <1>1, <1>5, <2>6, TileLands
    <3> QED BY <1>3, <2>1, <2>2, <3>1
  <2> QED BY <2>3, <2>4, <2>5, <2>6
<1>6. CASE /\ frames = << Image(k, L, c.slope) >> /\ k # 0 /\ Ashore(k)
  <2>1. frames # <<>>
    BY <1>6
  <2>2. Arrived = frames /\ Ashore(k)' /\ out_valid_q' = FALSE
    BY <1>6, AshoreStays
  <2>3. c.monitoring => flags' = Marks(k, L)
    BY <1>2, <1>3, <1>6, <2>1, <2>2
  <2>4. k \in DOMAIN tiles
    BY <1>6 DEF Ashore
  <2> QED BY <1>6, <2>1, <2>2, <2>3, <2>4
<1>7. \/ frames = <<>> /\ Afloat(k, c.slope)
      \/ frames = << Image(k, L, c.slope) >> /\ k # 0 /\ Ashore(k)
  BY DEF StreamAt, Flying, Landed
<1> QED BY <1>5, <1>6, <1>7

\* The sink and its pause attribute, on an edge.
LEMMA SinkStays ==
    ASSUME StreamInv, BenchTypes, NEW c \in Contexts, SinkAt(c), FlagsAt(c), StreamEdge,
           UNCHANGED <<driven, paused, monitoring>>
    PROVE  SinkAt(c)' /\ monitoring' = c.monitoring
           /\ (c.monitoring => c.flow /\ c.up)
<1>1. c.flow => m_axis_tready' = TRUE
  BY MonitorFacts
<1> QED BY <1>1 DEF SinkAt, FlagsAt

\* An edge without a recv keeps stream, monitor and sink as the context says.
LEMMA SurroundingsStay ==
    ASSUME StreamInv, BenchTypes, NEW c \in Contexts, Surroundings(c), StreamEdge,
           UNCHANGED <<driven, paused, monitoring>>, frames' = Arrived,
           c.sent => slope_reg = c.slope, driven => ~en_reg
    PROVE  Surroundings(c)'
<1>1. StreamAt(c) /\ SinkAt(c) /\ FlagsAt(c)
  BY DEF Surroundings
<1>2. SinkAt(c)' /\ monitoring' = c.monitoring /\ (c.monitoring => c.flow /\ c.up)
  BY <1>1, SinkStays
<1>3. ~c.monitoring => flags' = <<>>
  BY <1>1, MonitorFacts
<1>4. tiles' = tiles
  BY DEF StreamEdge
<1>5. CASE c.sent = TRUE
  <2>1. slope_reg = c.slope
    BY <1>5
  <2>2. CASE /\ Arrived = <<>> /\ Afloat(c.tile, c.slope)'
             /\ c.monitoring => flags' = Marks(c.tile, Accepted)'
    <3>1. StreamAt(c)'
      BY <1>5, <2>2 DEF StreamAt, Flying
    <3>2. c.tile # 0
      <4>1. c.tile \in DOMAIN tiles
        BY <1>4, <2>2 DEF Afloat
      <4> QED BY <4>1, TileFacts
    <3>3. FlagsAt(c)'
      BY <1>2, <1>3, <1>5, <2>2, <3>2 DEF FlagsAt
    <3> QED BY <1>2, <3>1, <3>3 DEF Surroundings
  <2>3. CASE /\ Arrived = << Image(c.tile, Len(tiles[c.tile]), c.slope) >> /\ Ashore(c.tile)'
             /\ c.tile \in DOMAIN tiles /\ c.tile # 0
             /\ c.monitoring => flags' = Marks(c.tile, Len(tiles[c.tile]))
    <3>1. Image(c.tile, Len(tiles[c.tile]), c.slope)' = Image(c.tile, Len(tiles[c.tile]), c.slope)
          /\ Marks(c.tile, Len(tiles[c.tile]))' = Marks(c.tile, Len(tiles[c.tile]))
      BY <1>4 DEF Image, Marks
    <3>2. StreamAt(c)'
      BY <1>5, <2>3, <3>1 DEF StreamAt, Landed
    <3>3. frames' # <<>>
      BY <2>3
    <3>4. FlagsAt(c)'
      BY <1>2, <1>3, <1>5, <2>3, <3>1, <3>3 DEF FlagsAt
    <3> QED BY <1>2, <3>2, <3>4 DEF Surroundings
  <2> QED BY <1>1, <1>5, <2>1, <2>2, <2>3, SentMoves
<1>6. CASE c.sent = FALSE
  <2>1. frames = <<>> /\ Ashore(c.tile)
    BY <1>1, <1>6 DEF StreamAt
  <2>2. Arrived = <<>> /\ Ashore(c.tile)' /\ out_valid_q' = FALSE
    BY <2>1, AshoreStays
  <2>3. StreamAt(c)'
    BY <1>6, <2>2 DEF StreamAt
  <2>4. c.monitoring => flags' = flags
    BY <1>1, <2>2, MonitorFacts
  <2>5. Marks(c.tile, Len(tiles[c.tile]))' = Marks(c.tile, Len(tiles[c.tile]))
    BY <1>4 DEF Marks
  <2>6. FlagsAt(c)'
    BY <1>1, <1>2, <1>3, <1>6, <2>4, <2>5 DEF FlagsAt
  <2> QED BY <1>2, <2>3, <2>6 DEF Surroundings
<1>7. c.sent \in BOOLEAN
  BY DEF Contexts
<1> QED BY <1>5, <1>6, <1>7

\* recv is content with the image of the tile, and takes it out of the queue.
LEMMA ImageMatches ==
    ASSUME BenchTypes, NEW c, NEW op, NEW d, RecvRule(c, op, d),
           c.tile \in DOMAIN tiles
    PROVE  Matches(op, Image(c.tile, Len(tiles[c.tile]), c.slope))
<1>1. op.tile = c.tile /\ (op.golden => op.slope = c.slope)
  BY DEF RecvRule
<1>2. tiles[c.tile] \in Seq(Beat) /\ Len(tiles[c.tile]) \in Nat
  BY TileFacts
<1>3. DOMAIN tiles[c.tile] = 1 .. Len(tiles[c.tile])
  BY <1>2, LenProperties
<1>4. Len(Image(c.tile, Len(tiles[c.tile]), c.slope)) = Len(tiles[c.tile])
  BY <1>2, ImageNext, Zenon
<1>5. CASE op.golden
  BY <1>1, <1>3, <1>5 DEF Matches, Image
<1>6. CASE ~op.golden
  BY <1>1, <1>4, <1>6 DEF Matches
<1> QED BY <1>5, <1>6

\* An edge on which a recv finds the frame it awaits.
LEMMA RecvEdge ==
    ASSUME StreamInv, BenchTypes, NEW c \in Contexts, NEW op, NEW d \in Contexts,
           RecvRule(c, op, d),
           Surroundings(c), StreamEdge, UNCHANGED <<driven, paused, monitoring>>,
           slope_reg = c.slope, driven => ~en_reg,
           Arrived # <<>>, frames' = Tail(Arrived)
    PROVE  Surroundings(d)' /\ Matches(op, Head(Arrived))
<1> DEFINE k == c.tile
           L == Len(tiles[k])
<1>1. StreamAt(c) /\ SinkAt(c) /\ FlagsAt(c) /\ c.sent = TRUE /\ d = Home(c, k)
  BY DEF Surroundings, RecvRule, Contexts
<1>2. SinkAt(c)' /\ monitoring' = c.monitoring /\ (c.monitoring => c.flow /\ c.up)
  BY <1>1, SinkStays
<1>3. ~c.monitoring => flags' = <<>>
  BY <1>1, MonitorFacts
<1>4. /\ Arrived = << Image(k, L, c.slope) >> /\ Ashore(k)'
      /\ k \in DOMAIN tiles /\ k # 0
      /\ c.monitoring => flags' = Marks(k, L)
  <2>1. \/ Arrived = <<>>
        \/ /\ Arrived = << Image(k, L, c.slope) >> /\ Ashore(k)'
           /\ k \in DOMAIN tiles /\ k # 0
           /\ c.monitoring => flags' = Marks(k, L)
    BY <1>1, SentMoves
  <2> QED BY <2>1
<1>5. Head(Arrived) = Image(k, L, c.slope) /\ Tail(Arrived) = <<>>
  BY <1>4, Singleton
<1>6. Matches(op, Head(Arrived))
  BY <1>4, <1>5, ImageMatches
<1>7. tiles' = tiles
  BY DEF StreamEdge
<1>8. /\ d.sent = FALSE /\ d.tile = k /\ d.up = c.up /\ d.flow = c.flow /\ d.en = c.en
      /\ d.driven = c.driven /\ d.monitoring = c.monitoring
  <2>1. /\ Home(c, k).sent = FALSE /\ Home(c, k).tile = k /\ Home(c, k).up = c.up
        /\ Home(c, k).flow = c.flow /\ Home(c, k).en = c.en
        /\ Home(c, k).driven = c.driven /\ Home(c, k).monitoring = c.monitoring
    BY DEF Home, Contexts
  <2> QED BY <1>1, <2>1
<1>9. StreamAt(d)'
  BY <1>4, <1>5, <1>8 DEF StreamAt
<1>10. SinkAt(d)'
  BY <1>2, <1>8 DEF SinkAt
<1>11. FlagsAt(d)'
  <2>1. Marks(k, L)' = Marks(k, L)
    BY <1>7 DEF Marks
  <2> QED BY <1>2, <1>3, <1>4, <1>8, <2>1 DEF FlagsAt
<1> QED BY <1>6, <1>9, <1>10, <1>11 DEF Surroundings

\* A tile that must be seen BUSY: a beat enters on every edge one is offered.
LEMMA StreamingMoves ==
    ASSUME StreamInv, BenchTypes, NEW c \in Contexts, NEW n \in Nat, n <= MAX_LAG,
           Streaming(c, n), SinkAt(c), FlagsAt(c), StreamEdge,
           en_reg = TRUE, slope_reg = c.slope, frames' = Arrived
    PROVE  /\ offered => /\ Streaming(c, n + 1)'
                         /\ offered' = IF n + 1 < Len(tiles[c.tile]) THEN TRUE ELSE FALSE
           /\ ~offered => Streaming(c, n)' /\ offered' = TRUE
<1> DEFINE k == c.tile
           L == Len(tiles[k])
<1>1. /\ c.up /\ c.flow /\ c.en /\ c.sent /\ L > MAX_LAG
      /\ frames = <<>> /\ Afloat(k, c.slope) /\ Accepted = n
  BY DEF Streaming, Flying
<1>2. /\ k \in DOMAIN tiles /\ L \in Nat
      /\ offered => frame # <<>> /\ Head(frame).valid = TRUE
  BY <1>1, AfloatFacts
<1>3. m_axis_tready = TRUE /\ ~driven /\ c.slope \in Slope
  BY <1>1 DEF SinkAt, Contexts
<1>4. Taken = offered /\ offered' = (frame' # <<>>)
  BY <1>2, <1>3, SourceFacts
<1>5. MAX_LAG \in Nat /\ n < L
  BY <1>1, <1>2, BenchAssumption
<1>6. tile_done(m_axis_tready) = FALSE
  <2>1. out_valid_q => out_last_q = (n = L)
    BY <1>1 DEF Afloat
  <2>2. tile_done(m_axis_tready) = (out_valid_q /\ m_axis_tready /\ out_last_q)
    BY StreamEdgeFacts
  <2>3. tile_done(m_axis_tready) \in BOOLEAN /\ out_valid_q \in BOOLEAN /\ out_last_q \in BOOLEAN
    BY StreamEdgeFacts
  <2> QED BY <1>2, <1>5, <2>1, <2>2, <2>3
<1>7. tiles' = tiles
  BY DEF StreamEdge
<1>8. Arrived = <<>> /\ Afloat(k, c.slope)' /\ Accepted' = IF offered THEN n + 1 ELSE n
  <2>1. CASE offered
    BY <1>1, <1>3, <1>4, <2>1, BeatEnters
  <2>2. CASE ~offered
    BY <1>1, <1>3, <1>4, <1>6, <2>2, TileWaits
  <2> QED BY <2>1, <2>2
<1>9. (L > MAX_LAG)'
  BY <1>1, <1>7
<1>10. /\ offered => Streaming(c, n + 1)'
       /\ ~offered => Streaming(c, n)'
  BY <1>1, <1>8, <1>9 DEF Streaming, Flying
<1>11. frame' = SubSeq(tiles[k], Accepted' + 1, L)
  BY <1>7, <1>8 DEF Afloat
<1>12. CASE ~offered
  <2>1. SubSeq(tiles[k], n + 1, L) # <<>>
    BY <1>2, <1>5, RestOfTile
  <2>2. frame' # <<>>
    BY <1>8, <1>11, <1>12, <2>1
  <2> QED BY <1>4, <1>10, <1>12, <2>2
<1>13. CASE offered
  <2>1. frame' = SubSeq(tiles[k], (n + 1) + 1, L)
    BY <1>8, <1>11, <1>13
  <2>2. CASE n + 1 < L
    <3>1. n + 1 \in Nat
      OBVIOUS
    <3>2. SubSeq(tiles[k], (n + 1) + 1, L) # <<>>
      BY <1>2, <2>2, <3>1, RestOfTile
    <3>3. offered' = TRUE
      BY <1>4, <2>1, <3>2
    <3> QED BY <1>10, <1>13, <2>2, <3>3
  <2>3. CASE n + 1 = L
    <3>1. frame' = <<>>
      BY <1>2, <2>1, <2>3, NoRest
    <3>2. offered' = FALSE
      BY <1>4, <3>1
    <3>3. ~(n + 1 < L)
      BY <1>2, <2>3
    <3> QED BY <1>10, <1>13, <3>2, <3>3
  <2>4. n + 1 < L \/ n + 1 = L
    BY <1>2, <1>5
  <2> QED BY <2>2, <2>3, <2>4
<1>14. offered \in BOOLEAN
  BY StreamEdgeFacts
<1> QED BY <1>12, <1>13, <1>14

-----------------------------------------------------------------------------
(* An edge of the register channels                                        *)

\* An edge out of reset, whatever the test makes of it.
Clocked ==
    /\ aresetn = TRUE
    /\ Cycle(AwPin, WPin, BPin, ArPin, RPin, SPin, m_axis_tready)
    /\ SinkEdge /\ MonitorEdge
    /\ ChannelEdge /\ SourceEdge(s_axis_tready(m_axis_tready))
    /\ UNCHANGED <<test, tiles, wr, ra, driven, paused, monitoring>>

\* What the edge does to the channels, with the operators unfolded.
LEMMA ChannelFacts ==
    ASSUME StreamInv, BenchTypes, Clocked
    PROVE  /\ StreamEdge /\ UNCHANGED <<driven, paused, monitoring, wr, ra>>
           /\ lag \in [Channels -> Int] /\ lag' = [ch \in Channels |-> AfterEdge(ch)]
           /\ {aw_pend, w_pend, bvalid_q, rvalid_q, en_reg} \subseteq BOOLEAN
           /\ aw_fire(AwPin) <=> lag["aw"] = 0 /\ ~aw_pend /\ ~bvalid_q
           /\ w_fire(WPin) <=> lag["w"] = 0 /\ ~w_pend /\ ~bvalid_q
           /\ ar_fire(ArPin) <=> lag["ar"] = 0 /\ ~rvalid_q
           /\ BPin <=> lag["b"] = 0
           /\ RPin <=> lag["r"] = 0
           /\ WriteChannel(AwPin, WPin, BPin) /\ ReadChannel(ArPin, RPin, rd_mux(ra))
           /\ Registers(AwPin, WPin)
<1>1. StreamEdge /\ UNCHANGED <<driven, paused, monitoring, wr, ra>>
  BY DEF Clocked, Cycle, StreamEdge
<1>2. lag \in [Channels -> Int] /\ lag' = [ch \in Channels |-> AfterEdge(ch)]
  BY DEF Clocked, ChannelEdge, BenchTypes
<1>3. {aw_pend, w_pend, bvalid_q, rvalid_q, en_reg} \subseteq BOOLEAN
  BY DEF StreamInv, TypeOK, SlaveTypeOK
<1>4. /\ aw_fire(AwPin) <=> lag["aw"] = 0 /\ ~aw_pend /\ ~bvalid_q
      /\ w_fire(WPin) <=> lag["w"] = 0 /\ ~w_pend /\ ~bvalid_q
      /\ ar_fire(ArPin) <=> lag["ar"] = 0 /\ ~rvalid_q
  BY DEF aw_fire, w_fire, ar_fire, AwPin, WPin, ArPin, s_axi_awready, s_axi_wready, s_axi_arready
<1>5. /\ BPin <=> lag["b"] = 0
      /\ RPin <=> lag["r"] = 0
  BY DEF BPin, RPin
<1>6. /\ WriteChannel(AwPin, WPin, BPin) /\ ReadChannel(ArPin, RPin, rd_mux(ra))
      /\ Registers(AwPin, WPin)
  <2>1. ArPin.addr = ra
    BY DEF ArPin
  <2> QED BY <2>1 DEF Clocked, Cycle, SlaveEdge
<1> QED BY <1>1, <1>2, <1>3, <1>4, <1>5, <1>6

\* What becomes of a channel's request.
LEMMA LagFacts ==
    ASSUME StreamInv, BenchTypes, Clocked
    PROVE  /\ lag' = [ch \in Channels |-> AfterEdge(ch)]
           /\ \A ch \in Channels :
                 /\ lag[ch] = Idle => AfterEdge(ch) = Idle
                 /\ lag[ch] \in Nat /\ lag[ch] # 0 => AfterEdge(ch) = lag[ch] - 1
           /\ lag["aw"] = 0 => AfterEdge("aw") = IF ~aw_pend /\ ~bvalid_q THEN Idle ELSE 0
           /\ lag["w"] = 0 => AfterEdge("w") = IF ~w_pend /\ ~bvalid_q THEN Idle ELSE 0
           /\ lag["b"] = 0 => AfterEdge("b") = IF bvalid_q THEN Idle ELSE 0
           /\ lag["ar"] = 0 => AfterEdge("ar") = IF ~rvalid_q THEN Idle ELSE 0
           /\ lag["r"] = 0 => AfterEdge("r") = IF rvalid_q THEN Idle ELSE 0
<1>1. /\ lag' = [ch \in Channels |-> AfterEdge(ch)]
      /\ lag \in [Channels -> Int]
  BY ChannelFacts
<1>2. \A ch \in Channels :
         /\ lag[ch] = Idle => AfterEdge(ch) = Idle
         /\ lag[ch] \in Nat /\ lag[ch] # 0 => AfterEdge(ch) = lag[ch] - 1
  BY <1>1 DEF AfterEdge, Idle
<1>3. /\ Answers("aw") <=> ~aw_pend /\ ~bvalid_q
      /\ Answers("w") <=> ~w_pend /\ ~bvalid_q
      /\ Answers("b") <=> bvalid_q
      /\ Answers("ar") <=> ~rvalid_q
      /\ Answers("r") <=> rvalid_q
  BY DEF Answers, s_axi_awready, s_axi_wready, s_axi_arready
<1>4. lag["aw"] = 0 => AfterEdge("aw") = IF ~aw_pend /\ ~bvalid_q THEN Idle ELSE 0
  BY <1>3 DEF AfterEdge
<1>5. lag["w"] = 0 => AfterEdge("w") = IF ~w_pend /\ ~bvalid_q THEN Idle ELSE 0
  BY <1>3 DEF AfterEdge
<1>6. lag["b"] = 0 => AfterEdge("b") = IF bvalid_q THEN Idle ELSE 0
  BY <1>3 DEF AfterEdge
<1>7. lag["ar"] = 0 => AfterEdge("ar") = IF ~rvalid_q THEN Idle ELSE 0
  BY <1>3 DEF AfterEdge
<1>8. lag["r"] = 0 => AfterEdge("r") = IF rvalid_q THEN Idle ELSE 0
  BY <1>3 DEF AfterEdge
<1> QED BY <1>1, <1>2, <1>4, <1>5, <1>6, <1>7, <1>8

\* With no access under way the registers and the channels stay as they are.
LEMMA RestingStays ==
    ASSUME StreamInv, BenchTypes, Clocked, NEW c, Resting(c)
    PROVE  Resting(c)'
<1>1. /\ lag = [ch \in Channels |-> Idle]
      /\ aw_pend = FALSE /\ w_pend = FALSE /\ bvalid_q = FALSE /\ rvalid_q = FALSE
      /\ en_reg = c.en /\ slope_reg = c.slope
  BY DEF Resting, WriteIdle, RegistersAt
<1>2. \A ch \in Channels : lag[ch] = Idle
  BY <1>1
<1>3. \A ch \in Channels : AfterEdge(ch) = Idle
  BY <1>2, LagFacts
<1>4. lag' = [ch \in Channels |-> Idle]
  BY <1>3, LagFacts
<1>5. /\ lag["aw"] # 0 /\ lag["w"] # 0 /\ lag["ar"] # 0
  BY <1>2 DEF Idle, Channels
<1>6. ~aw_fire(AwPin) /\ ~w_fire(WPin) /\ ~ar_fire(ArPin)
  BY <1>5, ChannelFacts
<1>7. ~wr_commit(AwPin, WPin)
  BY <1>1, <1>6 DEF wr_commit
<1>8. aw_pend' = FALSE /\ w_pend' = FALSE /\ bvalid_q' = FALSE
  BY <1>1, <1>6, <1>7, ChannelFacts DEF WriteChannel
<1>9. rvalid_q' = FALSE
  BY <1>1, <1>6, ChannelFacts DEF ReadChannel
<1>10. en_reg' = en_reg /\ slope_reg' = slope_reg
  BY <1>7, ChannelFacts DEF Registers, reg_wr
<1> QED BY <1>1, <1>4, <1>8, <1>9, <1>10 DEF Resting, WriteIdle, RegistersAt

\* The words that the fields of a register make.
LEMMA WordFacts ==
    ASSUME StreamInv
    PROVE  /\ Bit(TRUE, 0) = 1 /\ Bit(TRUE, 1) = 2 /\ Bit(FALSE, 0) = 0 /\ Bit(FALSE, 1) = 0
           /\ 1 \in EnSet
           /\ \A x \in 0 .. 2^SLOPE_W - 1 : Unsigned(x, AXIL_DATA_W) = x
           /\ \A x \in 0 .. 2^COUNT_W - 1 : Unsigned(x, AXIL_DATA_W) = x
           /\ \A x \in 0 .. 2^COUNT_W - 1 : Unsigned(x, COUNT_W) = x
<1>1. 2^0 = 1 /\ 2^1 = 2
  OBVIOUS
<1>2. Bit(TRUE, 0) = 1 /\ Bit(TRUE, 1) = 2 /\ Bit(FALSE, 0) = 0 /\ Bit(FALSE, 1) = 0
  BY <1>1 DEF Bit
<1>3. /\ AXIL_DATA_W \in Nat /\ 2 <= AXIL_DATA_W /\ SLOPE_W <= AXIL_DATA_W
      /\ COUNT_W <= AXIL_DATA_W /\ SLOPE_W \in Nat /\ COUNT_W \in Nat
  BY BusWidth, CountWidth, Bounds
<1> DEFINE A == 2^AXIL_DATA_W
           S == 2^SLOPE_W
           N == 2^COUNT_W
<1>4. A \in Nat /\ S \in Nat /\ N \in Nat /\ S <= A /\ N <= A /\ 4 <= A
  <2>1. 2^2 = 4
    OBVIOUS
  <2> QED BY <1>3, <2>1, PowPositive, PowMonotone
<1>5. /\ \A x : Unsigned(x, AXIL_DATA_W) = x % A
      /\ \A x : Unsigned(x, COUNT_W) = x % N
      /\ Words = 0 .. A - 1
  BY DEF Unsigned, Words
<1> HIDE DEF A, S, N
<1>6. 1 \in EnSet
  <2>1. 1 % 2 = 1 /\ 1 \in 0 .. A - 1
    BY <1>4
  <2> QED BY <1>5, <2>1 DEF EnSet
<1>7. ASSUME NEW M \in Nat, NEW x \in 0 .. M - 1, NEW K \in Nat, M <= K
      PROVE  x % K = x
  BY <1>7
<1>8. \A x \in 0 .. S - 1 : Unsigned(x, AXIL_DATA_W) = x
  BY <1>4, <1>5, <1>7
<1>9. \A x \in 0 .. N - 1 : Unsigned(x, AXIL_DATA_W) = x /\ Unsigned(x, COUNT_W) = x
  BY <1>4, <1>5, <1>7
<1> QED BY <1>2, <1>6, <1>8, <1>9 DEF S, N

\* The word that shows BUSY and DONE.
LEMMA StatusWord ==
    ASSUME StreamInv
    PROVE  status_word = (IF busy_q THEN 1 ELSE 0) + (IF done_q THEN 2 ELSE 0)
<1>1. 2^0 = 1 /\ 2^1 = 2
  OBVIOUS
<1> QED BY <1>1 DEF status_word, Bit

\* A read finds a word its test accepts in the register it addresses.
LEMMA GoodWord ==
    ASSUME StreamInv, BenchTypes, NEW c \in Contexts, NEW op, Readable(c, op),
           RegistersAt(c), StreamAt(c),
           c.early = "after" => \E n \in Nat \ {0} : Streaming(c, n),
           op.of = 0 \/ Lengths[test][op.of] < 2^COUNT_W
    PROVE  IF op.of = 0 THEN rd_mux(op.addr) \in op.want
           ELSE rd_mux(op.addr) = Len(tiles[op.of])
<1>1. en_reg = c.en /\ slope_reg = c.slope /\ c.slope \in 0 .. 2^SLOPE_W - 1
      /\ c.en \in BOOLEAN /\ c.sent \in BOOLEAN /\ c.tile \in Nat
  BY DEF RegistersAt, Contexts, Slope
<1>2. ~c.sent => Ashore(c.tile)
  BY DEF StreamAt
<1>3. rd_mux("ID") = ID_VALUE /\ rd_mux("CTRL") = Bit(en_reg, 0) /\ rd_mux("STATUS") = status_word
      /\ rd_mux("SLOPE") = Unsigned(slope_reg, AXIL_DATA_W)
      /\ rd_mux("COUNT") = Unsigned(count_q, AXIL_DATA_W) /\ rd_mux("UNMAPPED") = 0
  BY DEF rd_mux
<1>4. CASE op.addr = "ID" /\ op.of = 0 /\ op.want = {ID_VALUE}
  BY <1>3, <1>4
<1>5. CASE op.addr = "CTRL" /\ op.of = 0 /\ op.want = EnSet /\ c.en
  <2>1. en_reg = TRUE
    BY <1>1, <1>5
  <2> QED BY <1>3, <1>5, <2>1, WordFacts
<1>6. CASE op.addr = "SLOPE" /\ op.of = 0 /\ op.want = {c.slope}
  BY <1>1, <1>3, <1>6, WordFacts
<1>7. CASE op.addr = "COUNT" /\ op.of = 0 /\ op.want = {0} /\ ~c.sent /\ c.tile = 0
  <2>1. count_q = 0
    <3>1. Ashore(0)
      BY <1>2, <1>7
    <3>2. 0 \notin DOMAIN tiles
      BY TileFacts
    <3> QED BY <3>1, <3>2 DEF Ashore
  <2> QED BY <1>3, <1>7, <2>1, WordFacts, Bounds
<1>8. CASE op.addr = "COUNT" /\ op.of = c.tile /\ ~c.sent /\ c.tile # 0
  <2>1. c.tile \in DOMAIN tiles /\ count_q = Unsigned(Len(tiles[c.tile]), COUNT_W)
    BY <1>2, <1>8 DEF Ashore
  <2>2. Len(tiles[c.tile]) \in Nat /\ Len(tiles[c.tile]) = Lengths[test][c.tile]
    BY <2>1, TileFacts
  <2>3. Len(tiles[c.tile]) \in 0 .. 2^COUNT_W - 1
    BY <1>8, <2>2, Bounds
  <2>4. count_q = Len(tiles[c.tile])
    BY <2>1, <2>3, WordFacts
  <2> QED BY <1>3, <1>8, <2>3, <2>4, WordFacts
<1>9. CASE op.addr = "STATUS" /\ op.of = 0 /\ op.want = {0} /\ ~c.sent /\ c.tile = 0
  <2>1. busy_q = FALSE /\ done_q = FALSE
    <3>1. Ashore(0)
      BY <1>2, <1>9
    <3>2. 0 \notin DOMAIN tiles
      BY TileFacts
    <3> QED BY <3>1, <3>2 DEF Ashore
  <2>2. status_word = 0
    BY <2>1, StatusWord
  <2> QED BY <1>3, <1>9, <2>2
<1>10. CASE op.addr = "STATUS" /\ op.of = 0 /\ op.want = DoneAndIdle /\ ~c.sent /\ c.tile # 0
  <2>1. busy_q = FALSE /\ done_q = TRUE
    BY <1>2, <1>10 DEF Ashore
  <2>2. status_word = 2
    BY <2>1, StatusWord
  <2> QED BY <1>3, <1>10, <2>2 DEF DoneAndIdle
<1>11. CASE op.addr = "STATUS" /\ op.of = 0 /\ op.want = Busy /\ c.early = "after"
  <2>1. PICK n \in Nat \ {0} : Streaming(c, n)
    BY <1>11
  <2>2. busy_q = TRUE /\ done_q = FALSE
    <3>1. /\ busy_q = (Accepted > 0) /\ Accepted = n
          /\ Accepted > 0 => done_q = FALSE
      BY <2>1 DEF Streaming, Flying, Afloat
    <3>2. Accepted > 0
      BY <3>1
    <3> QED BY <3>1, <3>2
  <2>3. status_word = 1
    BY <2>2, StatusWord
  <2> QED BY <1>3, <1>11, <2>3 DEF Busy
<1>12. CASE op.addr = "UNMAPPED" /\ op.of = 0 /\ op.want = {0}
  BY <1>3, <1>12
<1> QED BY <1>4, <1>5, <1>6, <1>7, <1>8, <1>9, <1>10, <1>11, <1>12 DEF Readable

\* A poll finds DONE set and BUSY clear.
LEMMA PollWord ==
    ASSUME StreamInv, NEW c, StreamAt(c), c.sent = FALSE, c.tile # 0
    PROVE  rd_mux("STATUS") = 2
<1>1. busy_q = FALSE /\ done_q = TRUE
  BY DEF StreamAt, Ashore
<1> QED BY <1>1, StatusWord DEF rd_mux

\* An edge of a read: the request comes nearer, or the slave takes it and the
\* word is one the test accepts, or the word is taken and the read is over.
LEMMA ReadingMoves ==
    ASSUME StreamInv, BenchTypes, NEW c \in Contexts, NEW op, NEW d \in Contexts,
           ReadRule(c, op, d) \/ PollRule(c, op, d),
           op.kind = "read" => op.of = 0 \/ Lengths[test][op.of] < 2^COUNT_W,
           Surroundings(c), Reading(c, op), Clocked, frames' = Arrived
    PROVE  \/ ~Settled({"ar", "r"}) /\ Reading(c, op)'
           \/ Settled({"ar", "r"}) /\ Good(op) /\ Resting(c)'
<1>1. /\ aw_pend = FALSE /\ w_pend = FALSE /\ bvalid_q = FALSE
      /\ en_reg = c.en /\ slope_reg = c.slope /\ ra = op.addr
      /\ lag["aw"] = Idle /\ lag["w"] = Idle /\ lag["b"] = Idle /\ lag["r"] = 0
      /\ rvalid_q \in BOOLEAN /\ MAX_LAG \in Nat
  BY BenchAssumption DEF Reading, WriteIdle, RegistersAt, StreamInv, TypeOK, SlaveTypeOK
<1>2. /\ StreamAt(c) /\ SinkAt(c) /\ FlagsAt(c)
  BY DEF Surroundings
<1>3. /\ AfterEdge("aw") = Idle /\ AfterEdge("w") = Idle /\ AfterEdge("b") = Idle
      /\ AfterEdge("r") = IF rvalid_q THEN Idle ELSE 0
      /\ lag["ar"] = Idle => AfterEdge("ar") = Idle
      /\ lag["ar"] \in Nat /\ lag["ar"] # 0 => AfterEdge("ar") = lag["ar"] - 1
      /\ lag["ar"] = 0 => AfterEdge("ar") = IF ~rvalid_q THEN Idle ELSE 0
  BY <1>1, LagFacts DEF Channels
<1>4. /\ lag'["aw"] = AfterEdge("aw") /\ lag'["w"] = AfterEdge("w") /\ lag'["b"] = AfterEdge("b")
      /\ lag'["ar"] = AfterEdge("ar") /\ lag'["r"] = AfterEdge("r")
  BY LagFacts DEF Channels
<1>5. ~aw_fire(AwPin) /\ ~w_fire(WPin) /\ (ar_fire(ArPin) <=> lag["ar"] = 0 /\ ~rvalid_q)
      /\ RPin
  BY <1>1, ChannelFacts DEF Idle
<1>6. ~wr_commit(AwPin, WPin)
  BY <1>1, <1>5 DEF wr_commit
<1>7. /\ aw_pend' = FALSE /\ w_pend' = FALSE /\ bvalid_q' = FALSE
      /\ en_reg' = c.en /\ slope_reg' = c.slope /\ ra' = op.addr
  BY <1>1, <1>5, <1>6, ChannelFacts DEF WriteChannel, Registers, reg_wr
<1>8. /\ rdata_q' = IF ar_fire(ArPin) THEN rd_mux(op.addr) ELSE rdata_q
      /\ rvalid_q' = (ar_fire(ArPin) \/ (rvalid_q /\ ~RPin))
  BY <1>1, ChannelFacts DEF ReadChannel
<1>9. Settled({"ar", "r"}) <=> AfterEdge("ar") = Idle /\ AfterEdge("r") = Idle
  BY DEF Settled
<1>10. /\ WriteIdle' /\ RegistersAt(c)'
       /\ (\A ch \in {"aw", "w", "b"} : lag[ch] = Idle)'
  BY <1>3, <1>4, <1>7 DEF WriteIdle, RegistersAt
<1>11. tiles' = tiles
  BY DEF Clocked
<1>12. CASE /\ lag["ar"] \in 0 .. 1 + MAX_LAG /\ rvalid_q = FALSE
            /\ c.early = "after" =>
                 /\ Streaming(c, Accepted) /\ Accepted + lag["ar"] \in 1 .. 1 + MAX_LAG
                 /\ offered = (Accepted < Len(tiles[c.tile]))
  <2>1. ~Settled({"ar", "r"}) /\ lag'["r"] = 0
    BY <1>3, <1>4, <1>9, <1>12 DEF Idle
  <2>2. CASE lag["ar"] # 0
    <3>1. /\ lag["ar"] \in Nat /\ lag["ar"] - 1 \in 0 .. 1 + MAX_LAG
      BY <1>1, <1>12, <2>2
    <3>2. lag'["ar"] = lag["ar"] - 1 /\ rvalid_q' = FALSE
      BY <1>3, <1>4, <1>5, <1>8, <1>12, <2>2, <3>1
    <3>3. ASSUME c.early = "after"
          PROVE  (/\ Streaming(c, Accepted) /\ Accepted + lag["ar"] \in 1 .. 1 + MAX_LAG
                  /\ offered = (Accepted < Len(tiles[c.tile])))'
      <4>1. /\ Streaming(c, Accepted) /\ Accepted + lag["ar"] \in 1 .. 1 + MAX_LAG
            /\ offered = (Accepted < Len(tiles[c.tile]))
        BY <1>12, <3>3
      <4>2. /\ Afloat(c.tile, c.slope) /\ c.en /\ Len(tiles[c.tile]) > MAX_LAG
        BY <4>1 DEF Streaming, Flying
      <4>3. Accepted \in Nat /\ Len(tiles[c.tile]) \in Nat
        BY <4>2, AfloatFacts
      <4>4. PICK n \in Nat : n = Accepted
        BY <4>3
      <4>5. n <= MAX_LAG /\ n < Len(tiles[c.tile])
        BY <1>1, <3>1, <4>1, <4>2, <4>3, <4>4
      <4>6. offered = TRUE
        BY <4>1, <4>4, <4>5
      <4>7. Streaming(c, n)
        BY <4>1, <4>4
      <4>8. en_reg = TRUE /\ StreamEdge
        BY <1>1, <4>2, ChannelFacts DEF Contexts
      <4>9. /\ Streaming(c, n + 1)'
            /\ offered' = IF n + 1 < Len(tiles[c.tile]) THEN TRUE ELSE FALSE
        BY <1>1, <1>2, <4>5, <4>6, <4>7, <4>8, StreamingMoves
      <4>10. Accepted' = n + 1
        BY <4>9 DEF Streaming
      <4>11. n + 1 + (lag["ar"] - 1) \in 1 .. 1 + MAX_LAG
        BY <3>1, <4>1, <4>4
      <4>12. (Accepted + lag["ar"] \in 1 .. 1 + MAX_LAG)'
        BY <3>2, <4>10, <4>11
      <4>13. Streaming(c, Accepted)'
        BY <4>9, <4>10 DEF Streaming
      <4>14. (offered = (Accepted < Len(tiles[c.tile])))'
        <5>1. (Accepted < Len(tiles[c.tile]))' <=> n + 1 < Len(tiles[c.tile])
          BY <1>11, <4>10, Zenon
        <5>2. CASE n + 1 < Len(tiles[c.tile])
          BY <4>9, <5>1, <5>2
        <5>3. CASE ~(n + 1 < Len(tiles[c.tile]))
          <6>1. offered' = FALSE
            BY <4>9, <5>3
          <6>2. (Accepted < Len(tiles[c.tile]))' = FALSE
            BY <5>1, <5>3
          <6> QED BY <6>1, <6>2
        <5> QED BY <5>2, <5>3
      <4> QED BY <4>12, <4>13, <4>14
    <3>4. (/\ lag["ar"] \in 0 .. 1 + MAX_LAG /\ rvalid_q = FALSE
           /\ c.early = "after" =>
                 /\ Streaming(c, Accepted) /\ Accepted + lag["ar"] \in 1 .. 1 + MAX_LAG
                 /\ offered = (Accepted < Len(tiles[c.tile])))'
      BY <3>1, <3>2, <3>3
    <3> QED BY <1>7, <1>10, <2>1, <3>4 DEF Reading
  <2>3. CASE lag["ar"] = 0
    <3>1. lag'["ar"] = Idle /\ rvalid_q' = TRUE /\ rdata_q' = rd_mux(op.addr)
      BY <1>3, <1>4, <1>5, <1>8, <1>12, <2>3
    <3>2. c.early = "after" => \E n \in Nat \ {0} : Streaming(c, n)
      <4>1. ASSUME c.early = "after" PROVE \E n \in Nat \ {0} : Streaming(c, n)
        <5>1. Streaming(c, Accepted) /\ Accepted + 0 \in 1 .. 1 + MAX_LAG
          BY <1>12, <2>3, <4>1
        <5>2. Accepted \in Nat
          BY <5>1, AfloatFacts DEF Streaming, Flying
        <5>3. Accepted \in Nat \ {0}
          BY <5>1, <5>2
        <5> QED BY <5>1, <5>3
      <4> QED BY <4>1
    <3>3. Good(op)'
      <4>1. CASE ReadRule(c, op, d)
        <5>1. op.kind = "read" /\ Readable(c, op)
          BY <4>1 DEF ReadRule
        <5>2. RegistersAt(c)
          BY <1>1 DEF RegistersAt
        <5>3. IF op.of = 0 THEN rd_mux(op.addr) \in op.want
              ELSE rd_mux(op.addr) = Len(tiles[op.of])
          BY <1>2, <3>2, <5>1, <5>2, GoodWord
        <5> QED BY <1>11, <3>1, <5>1, <5>3 DEF Good, Accepts
      <4>2. CASE PollRule(c, op, d)
        <5>1. op.kind = "poll" /\ op.addr = "STATUS" /\ c.sent = FALSE /\ c.tile # 0
          BY <4>2 DEF PollRule, Contexts
        <5>2. rd_mux("STATUS") = 2
          BY <1>2, <5>1, PollWord
        <5> QED BY <3>1, <5>1, <5>2 DEF Good
      <4> QED BY <4>1, <4>2
    <3> QED BY <1>7, <1>10, <2>1, <3>1, <3>3 DEF Reading
  <2> QED BY <2>2, <2>3
<1>13. CASE lag["ar"] = Idle /\ rvalid_q = TRUE /\ Good(op)
  <2>1. AfterEdge("ar") = Idle /\ AfterEdge("r") = Idle
    BY <1>3, <1>13
  <2>2. Settled({"ar", "r"})
    BY <1>9, <2>1
  <2>3. rvalid_q' = FALSE
    BY <1>5, <1>8, <1>13 DEF Idle
  <2>4. \A ch \in Channels : AfterEdge(ch) = Idle
    BY <1>3, <2>1 DEF Channels
  <2>5. lag' = [ch \in Channels |-> Idle]
    BY <2>4, LagFacts
  <2>6. Resting(c)'
    BY <1>10, <2>3, <2>5 DEF Resting
  <2> QED BY <1>13, <2>2, <2>6
<1> QED BY <1>12, <1>13 DEF Reading

\* An edge of a write: address and word come nearer, in either order; the write
\* is done on the edge on which the second of them is taken; and then the response.
LEMMA WritingMoves ==
    ASSUME StreamInv, BenchTypes, NEW c \in Contexts, NEW op, NEW d \in Contexts,
           WriteRule(c, op, d), Writing(c, op, d), Clocked
    PROVE  \/ ~Settled({"aw", "w", "b"}) /\ Writing(c, op, d)'
           \/ Settled({"aw", "w", "b"}) /\ Resting(d)'
<1>1. /\ wr = [addr |-> op.addr, data |-> op.data]
      /\ rvalid_q = FALSE /\ lag["ar"] = Idle /\ lag["r"] = Idle /\ lag["b"] = 0
  BY DEF Writing
<1>2. wr' = wr /\ wr.addr = op.addr /\ wr.data = op.data
  BY <1>1, ChannelFacts
<1>3. {aw_pend, w_pend, bvalid_q, rvalid_q} \subseteq BOOLEAN
  BY ChannelFacts
<1>4. /\ AfterEdge("ar") = Idle /\ AfterEdge("r") = Idle
      /\ AfterEdge("b") = IF bvalid_q THEN Idle ELSE 0
  BY <1>1, LagFacts DEF Channels
<1>5. /\ lag'["aw"] = AfterEdge("aw") /\ lag'["w"] = AfterEdge("w") /\ lag'["b"] = AfterEdge("b")
      /\ lag'["ar"] = AfterEdge("ar") /\ lag'["r"] = AfterEdge("r")
  BY LagFacts DEF Channels
<1>6. /\ ~ar_fire(ArPin) /\ BPin
      /\ aw_fire(AwPin) <=> lag["aw"] = 0 /\ ~aw_pend /\ ~bvalid_q
      /\ w_fire(WPin) <=> lag["w"] = 0 /\ ~w_pend /\ ~bvalid_q
  BY <1>1, ChannelFacts DEF Idle
<1>7. rvalid_q' = FALSE
  BY <1>1, <1>6, ChannelFacts DEF ReadChannel
<1>8. /\ aw_addr_q' = IF aw_fire(AwPin) THEN op.addr ELSE aw_addr_q
      /\ w_data_q' = IF w_fire(WPin) THEN op.data ELSE w_data_q
      /\ aw_pend' = (~wr_commit(AwPin, WPin) /\ (aw_pend \/ aw_fire(AwPin)))
      /\ w_pend' = (~wr_commit(AwPin, WPin) /\ (w_pend \/ w_fire(WPin)))
      /\ bvalid_q' = IF bvalid_q THEN FALSE ELSE bvalid_q \/ wr_commit(AwPin, WPin)
  BY <1>2, <1>6, ChannelFacts DEF WriteChannel, AwPin, WPin
<1>9. wr_commit(AwPin, WPin) <=> (aw_pend \/ aw_fire(AwPin)) /\ (w_pend \/ w_fire(WPin))
  BY DEF wr_commit
<1>10. Settled({"aw", "w", "b"})
          <=> AfterEdge("aw") = Idle /\ AfterEdge("w") = Idle /\ AfterEdge("b") = Idle
  BY DEF Settled
<1>11. CASE /\ bvalid_q = FALSE /\ RegistersAt(c)
            /\ \A ch \in {"aw", "w"} : lag[ch] \in Nat \/ lag[ch] = Idle
            /\ aw_pend = (lag["aw"] = Idle) /\ (aw_pend => aw_addr_q = op.addr)
            /\ w_pend = (lag["w"] = Idle) /\ (w_pend => w_data_q = op.data)
            /\ ~(aw_pend /\ w_pend)
  <2>1. /\ aw_pend <=> lag["aw"] = Idle
        /\ aw_pend => aw_addr_q = op.addr
        /\ w_pend <=> lag["w"] = Idle
        /\ w_pend => w_data_q = op.data
        /\ lag["aw"] \in Nat \/ lag["aw"] = Idle
        /\ lag["w"] \in Nat \/ lag["w"] = Idle
    BY <1>3, <1>11
  <2>2. ~Settled({"aw", "w", "b"}) /\ lag'["b"] = 0
    BY <1>4, <1>5, <1>10, <1>11 DEF Idle
  <2>3. \/ lag["aw"] = Idle /\ AfterEdge("aw") = Idle /\ aw_pend /\ ~aw_fire(AwPin)
        \/ lag["aw"] = 0 /\ AfterEdge("aw") = Idle /\ ~aw_pend /\ aw_fire(AwPin)
        \/ AfterEdge("aw") \in Nat /\ ~aw_pend /\ ~aw_fire(AwPin)
    <3>1. CASE lag["aw"] = Idle
      BY <1>6, <2>1, <3>1, LagFacts DEF Channels, Idle
    <3>2. CASE lag["aw"] = 0
      BY <1>6, <1>11, <2>1, <3>2, LagFacts DEF Idle
    <3>3. CASE lag["aw"] \in Nat /\ lag["aw"] # 0
      <4>1. AfterEdge("aw") = lag["aw"] - 1
        BY <3>3, LagFacts DEF Channels
      <4>2. lag["aw"] # Idle
        BY <3>3 DEF Idle
      <4> QED BY <1>6, <2>1, <3>3, <4>1, <4>2
    <3> QED BY <2>1, <3>1, <3>2, <3>3
  <2>4. \/ lag["w"] = Idle /\ AfterEdge("w") = Idle /\ w_pend /\ ~w_fire(WPin)
        \/ lag["w"] = 0 /\ AfterEdge("w") = Idle /\ ~w_pend /\ w_fire(WPin)
        \/ AfterEdge("w") \in Nat /\ ~w_pend /\ ~w_fire(WPin)
    <3>1. CASE lag["w"] = Idle
      BY <1>6, <2>1, <3>1, LagFacts DEF Channels, Idle
    <3>2. CASE lag["w"] = 0
      BY <1>6, <1>11, <2>1, <3>2, LagFacts DEF Idle
    <3>3. CASE lag["w"] \in Nat /\ lag["w"] # 0
      <4>1. AfterEdge("w") = lag["w"] - 1
        BY <3>3, LagFacts DEF Channels
      <4>2. lag["w"] # Idle
        BY <3>3 DEF Idle
      <4> QED BY <1>6, <2>1, <3>3, <4>1, <4>2
    <3> QED BY <2>1, <3>1, <3>2, <3>3
  <2>5. en_reg = c.en /\ slope_reg = c.slope
    BY <1>11 DEF RegistersAt
  <2>6. CASE wr_commit(AwPin, WPin)
    <3>1. AfterEdge("aw") = Idle /\ AfterEdge("w") = Idle
      BY <1>9, <2>3, <2>4, <2>6
    <3>2. aw_pend' = FALSE /\ w_pend' = FALSE /\ bvalid_q' = TRUE
      BY <1>8, <1>11, <2>6
    <3>3. wr_addr(AwPin) = op.addr /\ wr_data(WPin) = op.data
      BY <1>2, <2>1 DEF wr_addr, wr_data, AwPin, WPin
    <3>4. op.data.strb = TRUE
      BY DEF WriteRule
    <3>5. /\ en_reg' = IF op.addr = "CTRL" THEN CtrlEn(op.data) ELSE en_reg
          /\ slope_reg' = IF op.addr = "SLOPE" THEN Unsigned(op.data.word, SLOPE_W) ELSE slope_reg
      BY <2>6, <3>3, <3>4, ChannelFacts DEF Registers, reg_wr
    <3>6. en_reg' = d.en /\ slope_reg' = d.slope
      <4>1. CASE op.addr = "CTRL" /\ d = [c EXCEPT !.en = CtrlEn(op.data)]
        <5>1. d.en = CtrlEn(op.data) /\ d.slope = c.slope
          BY <4>1 DEF Contexts
        <5> QED BY <2>5, <3>5, <4>1, <5>1
      <4>2. CASE op.addr = "SLOPE" /\ d = [c EXCEPT !.slope = Unsigned(op.data.word, SLOPE_W)]
        <5>1. d.en = c.en /\ d.slope = Unsigned(op.data.word, SLOPE_W)
          BY <4>2 DEF Contexts
        <5> QED BY <2>5, <3>5, <4>2, <5>1
      <4> QED BY <4>1, <4>2 DEF WriteRule
    <3> QED BY <1>1, <1>2, <1>4, <1>5, <1>7, <2>2, <3>1, <3>2, <3>6 DEF Writing, RegistersAt
  <2>7. CASE ~wr_commit(AwPin, WPin)
    <3>1. bvalid_q' = FALSE
      BY <1>8, <1>11, <2>7
    <3>2. en_reg' = en_reg /\ slope_reg' = slope_reg
      BY <2>7, ChannelFacts DEF Registers, reg_wr
    <3>3. /\ AfterEdge("aw") \in Nat \/ AfterEdge("aw") = Idle
          /\ aw_pend' = (AfterEdge("aw") = Idle) /\ (aw_pend' => aw_addr_q' = op.addr)
      <4>1. aw_pend' = (aw_pend \/ aw_fire(AwPin))
        BY <1>8, <2>7
      <4>2. CASE AfterEdge("aw") = Idle /\ (aw_pend \/ aw_fire(AwPin))
        BY <1>8, <2>1, <4>1, <4>2
      <4>3. CASE AfterEdge("aw") \in Nat /\ ~aw_pend /\ ~aw_fire(AwPin)
        <5>1. AfterEdge("aw") # Idle
          BY <4>3 DEF Idle
        <5>2. aw_pend' = FALSE
          BY <4>1, <4>3
        <5> QED BY <4>3, <5>1, <5>2
      <4> QED BY <2>3, <4>2, <4>3
    <3>4. /\ AfterEdge("w") \in Nat \/ AfterEdge("w") = Idle
          /\ w_pend' = (AfterEdge("w") = Idle) /\ (w_pend' => w_data_q' = op.data)
      <4>1. w_pend' = (w_pend \/ w_fire(WPin))
        BY <1>8, <2>7
      <4>2. CASE AfterEdge("w") = Idle /\ (w_pend \/ w_fire(WPin))
        BY <1>8, <2>1, <4>1, <4>2
      <4>3. CASE AfterEdge("w") \in Nat /\ ~w_pend /\ ~w_fire(WPin)
        <5>1. AfterEdge("w") # Idle
          BY <4>3 DEF Idle
        <5>2. w_pend' = FALSE
          BY <4>1, <4>3
        <5> QED BY <4>3, <5>1, <5>2
      <4> QED BY <2>4, <4>2, <4>3
    <3>5. ~(aw_pend' /\ w_pend')
      BY <1>8, <1>9, <2>7
    <3>6. RegistersAt(c)'
      BY <2>5, <3>2 DEF RegistersAt
    <3>7. (\A ch \in {"aw", "w"} : lag[ch] \in Nat \/ lag[ch] = Idle)'
      BY <1>5, <3>3, <3>4
    <3>8. /\ aw_pend' = (lag'["aw"] = Idle) /\ w_pend' = (lag'["w"] = Idle)
      BY <1>5, <3>3, <3>4
    <3>9. /\ wr' = [addr |-> op.addr, data |-> op.data]
          /\ rvalid_q' = FALSE /\ lag'["ar"] = Idle /\ lag'["r"] = Idle /\ lag'["b"] = 0
      BY <1>1, <1>2, <1>4, <1>5, <1>7, <2>2
    <3>10. Writing(c, op, d)'
      BY <3>1, <3>3, <3>4, <3>5, <3>6, <3>7, <3>8, <3>9 DEF Writing
    <3> QED BY <2>2, <3>10
  <2> QED BY <2>6, <2>7
<1>12. CASE /\ bvalid_q = TRUE /\ aw_pend = FALSE /\ w_pend = FALSE /\ RegistersAt(d)
            /\ lag["aw"] = Idle /\ lag["w"] = Idle
  <2>1. /\ AfterEdge("aw") = Idle /\ AfterEdge("w") = Idle /\ AfterEdge("b") = Idle
    BY <1>4, <1>12, LagFacts DEF Channels
  <2>2. \A ch \in Channels : AfterEdge(ch) = Idle
    BY <1>4, <2>1 DEF Channels
  <2>3. lag' = [ch \in Channels |-> Idle]
    BY <2>2, LagFacts
  <2>4. ~aw_fire(AwPin) /\ ~w_fire(WPin) /\ ~wr_commit(AwPin, WPin)
    BY <1>6, <1>9, <1>12
  <2>5. aw_pend' = FALSE /\ w_pend' = FALSE /\ bvalid_q' = FALSE
    BY <1>8, <1>12, <2>4
  <2>6. en_reg' = en_reg /\ slope_reg' = slope_reg
    BY <2>4, ChannelFacts DEF Registers, reg_wr
  <2>7. RegistersAt(d)'
    BY <1>12, <2>6 DEF RegistersAt
  <2> QED BY <1>7, <1>10, <2>1, <2>3, <2>5, <2>7 DEF Resting, WriteIdle
<1> QED BY <1>11, <1>12 DEF Writing

-----------------------------------------------------------------------------
(* Types on an edge                                                        *)

\* The source offers beats of a tile only.
LEMMA OfferedBeat ==
    ASSUME StreamInv, BenchTypes, NEW c, StreamAt(c), offered = TRUE
    PROVE  Head(frame) \in Beat
<1>1. PICK k : \E slope : Afloat(k, slope)
  <2>1. Flying(c.tile, c.slope)
    BY DEF StreamAt, Landed, Ashore
  <2> QED BY <2>1 DEF Flying
<1>2. PICK slope : Afloat(k, slope)
  BY <1>1
<1>3. /\ k \in DOMAIN tiles /\ Head(frame) = tiles[k][Accepted + 1]
      /\ Accepted + 1 \in 1 .. Len(tiles[k])
  BY <1>2, AfloatFacts
<1>4. tiles[k] \in Seq(Beat)
  BY <1>3, TileFacts
<1>5. tiles[k][Accepted + 1] \in Beat
  BY <1>3, <1>4, ElementOfSeq, Zenon
<1> QED BY <1>3, <1>5

\* What the testbench puts on the ports is what the ports may carry.
LEMMA PinTypes ==
    ASSUME StreamInv, BenchTypes, NEW c, StreamAt(c)
    PROVE  PortsOK(AwPin, WPin, BPin, ArPin, RPin, SPin, m_axis_tready)
<1>1. SlavePortsOK(AwPin, WPin, BPin, ArPin, RPin)
  <2>1. wr \in [addr : WrAddrs, data : WrData] /\ ra \in RdAddrs
    BY DEF BenchTypes
  <2>2. AwPin \in [valid : BOOLEAN, addr : WrAddrs]
    BY <2>1 DEF AwPin
  <2>3. WPin \in [valid : BOOLEAN, data : WrData]
    BY <2>1 DEF WPin
  <2>4. /\ ArPin \in [valid : BOOLEAN, addr : RdAddrs \cup {"NONE"}]
        /\ ArPin.addr \in RdAddrs
    BY <2>1 DEF ArPin
  <2>5. BPin \in BOOLEAN /\ RPin \in BOOLEAN
    BY DEF BPin, RPin
  <2> QED BY <2>2, <2>3, <2>4, <2>5 DEF SlavePortsOK
<1>2. SPin \in [valid : BOOLEAN, data : Activation, last : BOOLEAN]
  <2>1. CASE driven
    <3>1. 2^(DATA_W - 1) - 1 \in Activation
      BY Bounds DEF Activation, SignedRange
    <3> QED BY <2>1, <3>1 DEF SPin
  <2>2. CASE ~driven /\ offered
    <3>1. offered = TRUE
      BY <2>2 DEF BenchTypes
    <3>2. Head(frame) \in Beat
      BY <3>1, OfferedBeat
    <3> QED BY <2>2, <3>2 DEF SPin, Beat
  <2>3. CASE ~driven /\ ~offered
    BY <2>3, Bounds DEF SPin, NoBeat
  <2> QED BY <2>1, <2>2, <2>3
<1>3. m_axis_tready \in BOOLEAN
  BY DEF BenchTypes
<1> QED BY <1>1, <1>2, <1>3 DEF PortsOK

\* The accelerator's own invariant holds in the testbench.
LEMMA BenchStream ==
    ASSUME StreamInv, BenchTypes, NEW c, StreamAt(c), Dut
    PROVE  StreamInv'
<1>1. CASE ~aresetn
  BY <1>1, ResetStream DEF Dut, StreamInv
<1>2. CASE aresetn
  <2>1. Cycle(AwPin, WPin, BPin, ArPin, RPin, SPin, m_axis_tready)
    BY <1>2 DEF Dut
  <2>2. PortsOK(AwPin, WPin, BPin, ArPin, RPin, SPin, m_axis_tready)
    BY PinTypes
  <2>3. WriteChannelInv'
    <3>1. ArPin.addr \in RdAddrs => rd_mux(ArPin.addr) \in Words
      BY ReadWords, Environment DEF StreamInv
    <3>2. SlaveEdge(AwPin, WPin, BPin, ArPin, RPin, rd_mux(ArPin.addr))
      BY <2>1 DEF Cycle
    <3> QED BY <2>2, <3>1, <3>2, SlaveEdgeInv DEF StreamInv, PortsOK
  <2>4. TypeOK' /\ slope_issued' = slope_reg' /\ StreamIsGolden'
    BY <2>1, <2>2, CycleData
  <2>5. PipeInv' /\ BusySpansTile' /\ CountInv' /\ SerialCountIsExact'
    BY <2>1, <2>2, CycleTiles
  <2> QED BY <2>3, <2>4, <2>5 DEF StreamInv
<1> QED BY <1>1, <1>2

\* An edge keeps every pin and every operand what it may be.
LEMMA EdgeTypes ==
    ASSUME StreamInv, BenchTypes, SinkEdge, ChannelEdge, SourceEdge(s_axis_tready(m_axis_tready)),
           UNCHANGED <<test, tiles, wr, ra, driven, paused, monitoring>>,
           aresetn' \in BOOLEAN, begun' \in BOOLEAN
    PROVE  BenchTypes'
<1>1. /\ test \in Tests /\ tiles \in [DOMAIN Lengths[test] -> Seq(Beat)]
      /\ \A k \in DOMAIN tiles :
          /\ Len(tiles[k]) = Lengths[test][k]
          /\ \A i \in 1 .. Len(tiles[k]) : tiles[k][i].last = (i = Len(tiles[k]))
      /\ lag \in [Channels -> Int]
      /\ wr \in [addr : WrAddrs, data : WrData] /\ ra \in RdAddrs
      /\ pause = 0 /\ receiving \in Seq(Activation)
      /\ {aresetn, begun, offered, driven, m_axis_tready, paused, monitoring} \subseteq BOOLEAN
  BY DEF BenchTypes
<1>2. (/\ test \in Tests /\ tiles \in [DOMAIN Lengths[test] -> Seq(Beat)]
       /\ \A k \in DOMAIN tiles :
          /\ Len(tiles[k]) = Lengths[test][k]
          /\ \A i \in 1 .. Len(tiles[k]) : tiles[k][i].last = (i = Len(tiles[k])))'
  BY <1>1, Zenon
<1>3. (wr \in [addr : WrAddrs, data : WrData] /\ ra \in RdAddrs)'
  BY <1>1
<1>4. lag' \in [Channels -> Int]
  <2>1. \A ch \in Channels : AfterEdge(ch) \in Int
    BY <1>1 DEF AfterEdge, Idle
  <2> QED BY <2>1 DEF ChannelEdge
<1>5. pause' = 0 /\ offered' \in BOOLEAN
  BY <1>1 DEF SourceEdge
<1>6. receiving' \in Seq(Activation)
  <2>1. out_data_q \in Activation
    BY DEF StreamInv, TypeOK
  <2>2. Append(receiving, out_data_q) \in Seq(Activation) /\ <<>> \in Seq(Activation)
    BY <1>1, <2>1, AppendProperties, EmptySeq
  <2> QED BY <1>1, <2>2 DEF SinkEdge
<1>7. m_axis_tready' \in BOOLEAN
  BY DEF SinkEdge
<1>8. (pause = 0 /\ receiving \in Seq(Activation)
       /\ {aresetn, begun, offered, driven, m_axis_tready, paused, monitoring} \subseteq BOOLEAN)'
  BY <1>1, <1>5, <1>6, <1>7
<1> QED BY <1>2, <1>3, <1>4, <1>8 DEF BenchTypes

\* An edge of the reset leaves everything as reset leaves it.
LEMMA ResetEdge ==
    ASSUME StreamInv, BenchTypes, aresetn = FALSE, Surroundings(Start), Resting(Start),
           Reset, SinkEdge, MonitorEdge, ChannelEdge, SourceEdge(s_axis_tready(m_axis_tready)),
           frames' = Arrived, UNCHANGED <<tiles, driven, paused, monitoring>>
    PROVE  Surroundings(Start)' /\ Resting(Start)'
<1>1. /\ Start.up = FALSE /\ Start.flow = TRUE /\ Start.en = TRUE /\ Start.slope = SLOPE_RESET
      /\ Start.driven = FALSE /\ Start.monitoring = FALSE /\ Start.sent = FALSE /\ Start.tile = 0
  BY DEF Start
<1>2. /\ frames = <<>> /\ Ashore(0)
      /\ monitoring = FALSE /\ flags = <<>> /\ driven = FALSE /\ paused = FALSE
  BY <1>1 DEF Surroundings, StreamAt, FlagsAt, SinkAt
<1>3. /\ frame = <<>> /\ offered = FALSE /\ receiving = <<>> /\ out_valid_q = FALSE
  BY <1>2 DEF Ashore
<1>4. /\ frame' = <<>> /\ offered' = FALSE
  BY <1>3 DEF SourceEdge
<1>5. tile_done(m_axis_tready) = FALSE /\ out_fire(m_axis_tready) = FALSE
  BY <1>3 DEF tile_done, out_fire
<1>6. receiving' = <<>> /\ frames' = <<>> /\ flags' = <<>>
  BY <1>2, <1>3, <1>5 DEF SinkEdge, MonitorEdge, Arrived
<1>7. Ashore(0)'
  BY <1>4, <1>6 DEF Ashore, Reset
<1>8. Surroundings(Start)'
  BY <1>1, <1>2, <1>6, <1>7 DEF Surroundings, StreamAt, FlagsAt, SinkAt
<1>9. \A ch \in Channels : AfterEdge(ch) = Idle
  <2>1. \A ch \in Channels : lag[ch] = Idle
    BY DEF Resting
  <2> QED BY <2>1 DEF AfterEdge, Idle
<1>10. lag' = [ch \in Channels |-> Idle]
  BY <1>9 DEF ChannelEdge
<1>11. /\ WriteIdle' /\ rvalid_q' = FALSE /\ RegistersAt(Start)'
  BY <1>1 DEF Reset, SlaveReset, WriteIdle, RegistersAt
<1> QED BY <1>8, <1>10, <1>11 DEF Resting

-----------------------------------------------------------------------------
(* An edge, statement by statement                                         *)

\* The edge of the testbench, for the statement op.
EdgeIn(op) ==
    /\ Dut /\ SinkEdge /\ MonitorEdge
    /\ LET ready == s_axis_tready(m_axis_tready)
       IN  \/ /\ BenchEdge(op, ready, s_axis_tready(m_axis_tready)', Accepts(op))
              /\ frames' = Arrived
           \/ /\ op.kind = "recv"
              /\ \/ Arrived # <<>> /\ Received(op, Arrived)
                 \/ Arrived = <<>> /\ Stay(left) /\ frames' = Arrived
              /\ ChannelEdge /\ SourceEdge(ready)
              /\ UNCHANGED <<test, tiles, polls, aresetn, wr, ra>>
    /\ UNCHANGED <<driven, paused, monitoring>>

\* Where an edge leaves the test: in the statement, or before the next one.
Onward(c, op, d) ==
    \/ at' = at /\ begun' = TRUE /\ failed' = FALSE /\ During(c, op, d)'
    \/ at' = at + 1 /\ begun' = FALSE /\ failed' = FALSE /\ Between(d)'

\* A context whose fields the surroundings do not tell apart will do as well.
LEMMA SameSurroundings ==
    ASSUME NEW c \in Contexts, NEW d \in Contexts, Surroundings(c)',
           d.tile = c.tile, d.sent = c.sent, d.monitoring = c.monitoring, d.driven = c.driven,
           c.sent => d.slope = c.slope, d.driven => ~d.en, d.flow => c.flow,
           d.flow /\ d.up => m_axis_tready' = TRUE,
           d.monitoring => d.flow /\ d.up
    PROVE  Surroundings(d)'
<1>1. StreamAt(c)' /\ FlagsAt(c)' /\ SinkAt(c)'
  BY DEF Surroundings
<1>2. c.sent \in BOOLEAN /\ c.monitoring \in BOOLEAN /\ c.flow \in BOOLEAN /\ d.flow \in BOOLEAN
  BY DEF Contexts
<1>3. StreamAt(d)'
  BY <1>1 DEF StreamAt
<1>4. FlagsAt(d)'
  BY <1>1, <1>2 DEF FlagsAt
<1>5. SinkAt(d)'
  BY <1>1, <1>2 DEF SinkAt
<1> QED BY <1>3, <1>4, <1>5 DEF Surroundings

\* An edge out of reset is an edge of the accelerator and of its surroundings.
LEMMA EdgeClocked ==
    ASSUME StreamInv, BenchTypes, NEW op, EdgeIn(op), aresetn = TRUE
    PROVE  Clocked /\ StreamEdge
<1>1. Clocked
  BY DEF EdgeIn, Clocked, Dut, BenchEdge
<1> QED BY <1>1, ChannelFacts

\* An edge of the reset.
LEMMA ResetStep ==
    ASSUME StreamInv, BenchTypes, NEW op, NEW c, NEW d, ResetRule(c, op, d),
           During(c, op, d), EdgeIn(op), failed = FALSE, begun = TRUE
    PROVE  Onward(c, op, d)
<1>1. op.kind = "reset" /\ op.edges \in Nat \ {0} /\ c = Start /\ d = Start
  BY DEF ResetRule
<1>2. aresetn = FALSE /\ Surroundings(Start) /\ left \in 1 .. op.edges /\ Resting(Start)
  BY <1>1 DEF During
<1>3. /\ LoopEdge(op, s_axis_tready(m_axis_tready)')
      /\ Reset /\ SinkEdge /\ MonitorEdge /\ ChannelEdge /\ SourceEdge(s_axis_tready(m_axis_tready))
      /\ frames' = Arrived /\ UNCHANGED <<tiles, driven, paused, monitoring>>
  BY <1>1, <1>2 DEF EdgeIn, BenchEdge, AccessEdge, PollEdge, Dut
<1>4. Surroundings(Start)' /\ Resting(Start)'
  BY <1>2, <1>3, ResetEdge
<1>5. EarlyAt(Start)'
  BY DEF EarlyAt, Start
<1>6. CASE left > 1
  <2>1. /\ left' = left - 1 /\ at' = at /\ begun' = begun /\ failed' = failed
    BY <1>1, <1>2, <1>3, <1>6 DEF LoopEdge, Stay
  <2>2. left' \in 1 .. op.edges
    BY <1>1, <1>2, <1>6, <2>1
  <2>3. aresetn' = FALSE
    <3>1. left # 1
      BY <1>2, <1>6
    <3>2. aresetn' = (aresetn \/ left = 1)
      BY <1>3 DEF LoopEdge
    <3> QED BY <1>2, <3>1, <3>2
  <2> QED BY <1>1, <1>4, <1>5, <2>1, <2>2, <2>3 DEF Onward, During
<1>7. CASE ~(left > 1)
  <2>1. left = 1
    BY <1>1, <1>2, <1>7
  <2>2. /\ at' = at + 1 /\ begun' = FALSE /\ failed' = FALSE /\ aresetn' = TRUE
    BY <1>1, <1>3, <1>7, <2>1 DEF LoopEdge, Proceed
  <2> QED BY <1>1, <1>4, <1>5, <2>2 DEF Onward, Between
<1> QED BY <1>6, <1>7

\* An edge of a loop over edges.
LEMMA EdgesStep ==
    ASSUME StreamInv, BenchTypes, NEW op, NEW c \in Contexts, NEW d \in Contexts,
           EdgesRule(c, op, d),
           During(c, op, d), EdgeIn(op), failed = FALSE, begun = TRUE
    PROVE  Onward(c, op, d)
<1>1. /\ op.kind = "edges" /\ op.edges \in Nat \ {0}
      /\ op.stalled \in BOOLEAN /\ (op.stalled => c.up /\ ~c.en)
  BY DEF EdgesRule
<1>2. /\ aresetn = TRUE /\ Surroundings(c) /\ left \in 1 .. op.edges /\ Resting(c) /\ EarlyAt(c)
  BY <1>1 DEF During
<1>3. /\ LoopEdge(op, s_axis_tready(m_axis_tready)')
      /\ frames' = Arrived /\ UNCHANGED <<tiles, driven, paused, monitoring>>
  BY <1>1 DEF EdgeIn, BenchEdge, AccessEdge, PollEdge
<1>4. Clocked /\ StreamEdge
  BY <1>2, EdgeClocked
<1>5. Resting(c)'
  BY <1>2, <1>4, RestingStays
<1>6. /\ en_reg = c.en /\ slope_reg = c.slope /\ driven = c.driven /\ (c.driven => ~c.en)
      /\ SinkAt(c) /\ FlagsAt(c)
  BY <1>2 DEF Resting, RegistersAt, Surroundings, SinkAt
<1>7. Surroundings(c)'
  BY <1>2, <1>3, <1>4, <1>6, SurroundingsStay
<1>8. ~(op.stalled /\ s_axis_tready(m_axis_tready)')
  <2>1. CASE op.stalled
    <3>1. en_reg' = c.en
      BY <1>5 DEF Resting, RegistersAt
    <3>2. ~en_reg'
      BY <1>1, <2>1, <3>1
    <3> QED BY <3>2 DEF s_axis_tready
  <2> QED BY <2>1
<1>9. CASE left > 1
  <2>1. /\ left' = left - 1 /\ at' = at /\ begun' = begun /\ failed' = failed /\ aresetn' = TRUE
    BY <1>2, <1>3, <1>8, <1>9 DEF LoopEdge, Stay
  <2>2. left' \in 1 .. op.edges
    BY <1>1, <1>2, <1>9, <2>1
  <2>3. c.early = "no"
    <3>1. op.edges # 1
      BY <1>1, <1>2, <1>9
    <3> QED BY <3>1 DEF EdgesRule, Start
  <2>4. EarlyAt(c)'
    BY <2>3 DEF EarlyAt
  <2> QED BY <1>1, <1>5, <1>7, <2>1, <2>2, <2>4 DEF Onward, During
<1>10. CASE ~(left > 1)
  <2>1. left = 1
    BY <1>1, <1>2, <1>10
  <2>2. /\ at' = at + 1 /\ begun' = FALSE /\ failed' = FALSE /\ aresetn' = TRUE
    BY <1>2, <1>3, <1>8, <1>10, <2>1 DEF LoopEdge, Proceed
  <2>3. CASE c = Start /\ d \in {Up, Pausing}
    <3>1. /\ Start.flow = TRUE /\ Start.en = TRUE /\ Start.slope = SLOPE_RESET
          /\ Start.driven = FALSE /\ Start.monitoring = FALSE
          /\ Start.sent = FALSE /\ Start.tile = 0
      BY DEF Start
    <3>2. /\ d.en = TRUE /\ d.slope = SLOPE_RESET /\ d.up = TRUE
          /\ d.driven = FALSE /\ d.monitoring = FALSE /\ d.sent = FALSE
          /\ d.tile = 0 /\ d.early = "no"
      BY <2>3, UpFields, PausingFields
    <3>3. m_axis_tready' = TRUE
      BY <1>4, <1>6, <2>3, <3>1, MonitorFacts
    <3>4. Surroundings(d)'
      BY <1>7, <2>3, <3>1, <3>2, <3>3, SameSurroundings
    <3>5. Resting(d)'
      BY <1>5, <2>3, <3>1, <3>2 DEF Resting, RegistersAt
    <3>6. EarlyAt(d)'
      BY <3>2 DEF EarlyAt
    <3> QED BY <2>2, <3>4, <3>5, <3>6 DEF Onward, Between
  <2>4. CASE c.early = "no" /\ d = c
    <3>1. EarlyAt(d)'
      BY <2>4 DEF EarlyAt
    <3> QED BY <1>5, <1>7, <2>2, <2>4, <3>1 DEF Onward, Between
  <2>5. CASE c.early = "before" /\ d = Early(c, "after")
    <3>1. /\ d.up = c.up /\ d.flow = c.flow /\ d.en = c.en /\ d.slope = c.slope
          /\ d.driven = c.driven /\ d.monitoring = c.monitoring
          /\ d.sent = c.sent /\ d.tile = c.tile /\ d.early = "after"
      BY <2>5 DEF Early, Contexts
    <3>2. Streaming(c, 0) /\ ~offered /\ MAX_LAG \in Nat
      BY <1>2, <2>5, BenchAssumption DEF EarlyAt
    <3>3. en_reg = TRUE
      BY <1>6, <3>2 DEF Streaming, Contexts
    <3>4. Streaming(c, 0)' /\ offered' = TRUE
      <4>1. 0 \in Nat /\ 0 <= MAX_LAG
        BY <3>2
      <4> QED BY <1>3, <1>4, <1>6, <3>2, <3>3, <4>1, StreamingMoves
    <3>5. Streaming(d, 0)'
      BY <3>1, <3>4 DEF Streaming
    <3>6. EarlyAt(d)'
      BY <3>1, <3>4, <3>5 DEF EarlyAt
    <3>7. m_axis_tready' = TRUE
      BY <1>4, <1>6, <3>2, MonitorFacts DEF Streaming
    <3>8. c.monitoring => c.flow /\ c.up
      BY <1>6 DEF FlagsAt
    <3>9. Surroundings(d)'
      BY <1>6, <1>7, <3>1, <3>7, <3>8, SameSurroundings
    <3>10. Resting(d)'
      BY <1>5, <3>1 DEF Resting, RegistersAt
    <3> QED BY <2>2, <3>6, <3>9, <3>10 DEF Onward, Between
  <2> QED BY <2>3, <2>4, <2>5 DEF EdgesRule
<1> QED BY <1>9, <1>10

\* With the slave's edge come the surroundings.
LEMMA ClockedSurroundings ==
    ASSUME StreamInv, BenchTypes, NEW c \in Contexts, Surroundings(c), RegistersAt(c),
           Clocked, frames' = Arrived
    PROVE  Surroundings(c)'
<1>1. en_reg = c.en /\ slope_reg = c.slope /\ driven = c.driven /\ (c.driven => ~c.en)
  BY DEF RegistersAt, Surroundings, SinkAt
<1>2. StreamEdge /\ UNCHANGED <<driven, paused, monitoring>>
  BY ChannelFacts
<1> QED BY <1>1, <1>2, SurroundingsStay

\* An edge of a read or of a poll.
LEMMA ReadStep ==
    ASSUME StreamInv, BenchTypes, NEW op, NEW c \in Contexts, NEW d \in Contexts,
           ReadRule(c, op, d) \/ PollRule(c, op, d),
           op.kind = "read" => op.of = 0 \/ Lengths[test][op.of] < 2^COUNT_W,
           During(c, op, d), EdgeIn(op), failed = FALSE, begun = TRUE
    PROVE  Onward(c, op, d)
<1>1. op.kind \in {"read", "poll"} /\ op.awaits = {"ar", "r"}
  BY DEF ReadRule, PollRule
<1>2. aresetn = TRUE /\ Surroundings(c) /\ Reading(c, op)
  BY <1>1 DEF During
<1>3. Clocked /\ RegistersAt(c)
  BY <1>2, EdgeClocked DEF Reading
<1>4. frames' = Arrived /\ (AccessEdge(op, Accepts(op)) \/ PollEdge(op))
  BY <1>1 DEF EdgeIn, BenchEdge, LoopEdge
<1>5. Surroundings(c)'
  BY <1>2, <1>3, <1>4, ClockedSurroundings
<1>6. aresetn' = TRUE
  BY <1>2, <1>4 DEF AccessEdge, PollEdge
<1>7. \/ ~Settled(op.awaits) /\ Reading(c, op)'
      \/ Settled(op.awaits) /\ Good(op) /\ Resting(c)'
  BY <1>1, <1>2, <1>3, <1>4, ReadingMoves
<1>8. CASE ~Settled(op.awaits)
  <2>1. at' = at /\ begun' = TRUE /\ failed' = FALSE
    BY <1>1, <1>4, <1>8 DEF AccessEdge, PollEdge, Stay
  <2>2. Reading(c, op)'
    BY <1>7, <1>8
  <2> QED BY <1>1, <1>5, <1>6, <2>1, <2>2 DEF Onward, During
<1>9. CASE Settled(op.awaits)
  <2>1. Good(op) /\ Resting(c)'
    BY <1>7, <1>9
  <2>2. CASE op.kind = "read"
    <3>1. Accepts(op)
      BY <2>1, <2>2 DEF Good
    <3>2. AccessEdge(op, Accepts(op)) /\ ReadRule(c, op, d)
      BY <1>4, <2>2 DEF PollEdge, PollRule
    <3>3. at' = at + 1 /\ begun' = FALSE /\ failed' = FALSE
      BY <1>9, <3>1, <3>2 DEF AccessEdge, Proceed
    <3>4. /\ d.up = c.up /\ d.flow = c.flow /\ d.en = c.en /\ d.slope = c.slope
          /\ d.driven = c.driven /\ d.monitoring = c.monitoring
          /\ d.sent = c.sent /\ d.tile = c.tile /\ d.early = "no"
      BY <3>2 DEF ReadRule, Early, Contexts
    <3>5. SinkAt(c)' /\ FlagsAt(c)'
      BY <1>5 DEF Surroundings
    <3>6. /\ (d.driven => ~d.en) /\ (d.flow /\ d.up => m_axis_tready' = TRUE)
          /\ (d.monitoring => d.flow /\ d.up)
      BY <3>4, <3>5 DEF SinkAt, FlagsAt
    <3>7. Surroundings(d)'
      BY <1>5, <3>4, <3>6, SameSurroundings
    <3>8. Resting(d)' /\ EarlyAt(d)'
      BY <2>1, <3>4 DEF Resting, RegistersAt, EarlyAt
    <3> QED BY <1>6, <3>3, <3>7, <3>8 DEF Onward, Between
  <2>3. CASE op.kind = "poll"
    <3>1. PollRule(c, op, d) /\ PollEdge(op)
      BY <1>4, <2>3 DEF ReadRule, AccessEdge
    <3>2. op.body = 0 /\ op.asserts = {"done"} /\ d = c /\ c.early = "no"
      BY <3>1 DEF PollRule
    <3>3. StatusBit(1)
      <4>1. rdata_q = 2
        BY <2>1, <2>3 DEF Good
      <4>2. 2^1 = 2 /\ (2 \div 2) % 2 = 1
        OBVIOUS
      <4> QED BY <4>1, <4>2 DEF StatusBit
    <3>4. at' = at + 1 /\ begun' = FALSE /\ failed' = FALSE
      <4>1. Proceed(1 + op.body, "idle" \in op.asserts => ~StatusBit(0))
        BY <1>9, <3>1, <3>3 DEF PollEdge
      <4>2. "idle" \notin op.asserts /\ 1 + op.body = 1
        BY <3>2
      <4> QED BY <4>1, <4>2 DEF Proceed
    <3>5. EarlyAt(d)'
      BY <3>2 DEF EarlyAt
    <3> QED BY <1>5, <1>6, <2>1, <3>2, <3>4, <3>5 DEF Onward, Between
  <2> QED BY <1>1, <2>2, <2>3
<1> QED BY <1>8, <1>9

\* An edge of a write.
LEMMA WriteStep ==
    ASSUME StreamInv, BenchTypes, NEW op, NEW c \in Contexts, NEW d \in Contexts,
           WriteRule(c, op, d), During(c, op, d), EdgeIn(op), failed = FALSE, begun = TRUE
    PROVE  Onward(c, op, d)
<1>1. /\ op.kind = "write" /\ op.awaits = {"aw", "w", "b"}
      /\ c.up = TRUE /\ c.early = "no" /\ c.sent = FALSE /\ c.driven = FALSE
  BY DEF WriteRule, Contexts
<1>2. aresetn = TRUE /\ Surroundings(c) /\ Writing(c, op, d)
  BY <1>1 DEF During
<1>3. Clocked /\ StreamEdge
  BY <1>2, EdgeClocked
<1>4. frames' = Arrived /\ AccessEdge(op, Accepts(op)) /\ UNCHANGED <<driven, paused, monitoring>>
  BY <1>1 DEF EdgeIn, BenchEdge, LoopEdge, PollEdge
<1>5. ~driven
  BY <1>1, <1>2 DEF Surroundings, SinkAt
<1>6. Surroundings(c)'
  BY <1>1, <1>2, <1>3, <1>4, <1>5, SurroundingsStay
<1>7. aresetn' = TRUE
  BY <1>2, <1>4 DEF AccessEdge
<1>8. \/ ~Settled(op.awaits) /\ Writing(c, op, d)'
      \/ Settled(op.awaits) /\ Resting(d)'
  BY <1>1, <1>2, <1>3, WritingMoves
<1>9. CASE ~Settled(op.awaits)
  <2>1. at' = at /\ begun' = TRUE /\ failed' = FALSE
    BY <1>1, <1>4, <1>9 DEF AccessEdge, Stay
  <2>2. Writing(c, op, d)'
    BY <1>8, <1>9
  <2> QED BY <1>1, <1>6, <1>7, <2>1, <2>2 DEF Onward, During
<1>10. CASE Settled(op.awaits)
  <2>1. Resting(d)'
    BY <1>8, <1>10
  <2>2. at' = at + 1 /\ begun' = FALSE /\ failed' = FALSE
    BY <1>1, <1>4, <1>10 DEF AccessEdge, Proceed
  <2>3. /\ d.up = c.up /\ d.flow = c.flow /\ d.driven = FALSE /\ d.monitoring = c.monitoring
        /\ d.sent = FALSE /\ d.tile = c.tile /\ d.early = "no"
    BY <1>1 DEF WriteRule, Contexts
  <2>4. SinkAt(c)' /\ FlagsAt(c)'
    BY <1>6 DEF Surroundings
  <2>5. /\ (d.flow /\ d.up => m_axis_tready' = TRUE)
        /\ (d.monitoring => d.flow /\ d.up)
    BY <2>3, <2>4 DEF SinkAt, FlagsAt
  <2>6. Surroundings(d)'
    BY <1>1, <1>6, <2>3, <2>5, SameSurroundings
  <2>7. EarlyAt(d)'
    BY <2>3 DEF EarlyAt
  <2> QED BY <1>7, <2>1, <2>2, <2>6, <2>7 DEF Onward, Between
<1> QED BY <1>9, <1>10

\* An edge on which the test waits for a frame.
LEMMA RecvStep ==
    ASSUME StreamInv, BenchTypes, NEW op, NEW c \in Contexts, NEW d \in Contexts,
           RecvRule(c, op, d), During(c, op, d), EdgeIn(op), failed = FALSE, begun = TRUE
    PROVE  Onward(c, op, d)
<1>1. op.kind = "recv" /\ c.early = "no" /\ d = Home(c, op.tile)
  BY DEF RecvRule
<1>2. aresetn = TRUE /\ Surroundings(c) /\ Resting(c)
  BY <1>1 DEF During
<1>3. Clocked /\ StreamEdge /\ Resting(c)'
  BY <1>2, EdgeClocked, RestingStays
<1>4. /\ \/ Arrived # <<>> /\ Received(op, Arrived)
         \/ Arrived = <<>> /\ Stay(left) /\ frames' = Arrived
      /\ UNCHANGED <<driven, paused, monitoring, aresetn>>
  BY <1>1 DEF EdgeIn, BenchEdge, LoopEdge, PollEdge, AccessEdge
<1>5. slope_reg = c.slope /\ (driven => ~en_reg) /\ RegistersAt(c)
  BY <1>2 DEF Resting, RegistersAt, Surroundings, SinkAt
<1>6. CASE Arrived # <<>> /\ Received(op, Arrived)
  <2>1. Surroundings(d)' /\ Matches(op, Head(Arrived))
    <3>1. frames' = Tail(Arrived)
      BY <1>6 DEF Received
    <3> QED BY <1>2, <1>3, <1>4, <1>5, <1>6, <3>1, RecvEdge
  <2>2. at' = at + 1 /\ begun' = FALSE /\ failed' = FALSE
    BY <1>6, <2>1 DEF Received, Proceed
  <2>3. d.en = c.en /\ d.slope = c.slope /\ d.early = "no"
    BY <1>1 DEF Home, Contexts
  <2>4. Resting(d)' /\ EarlyAt(d)'
    BY <1>3, <2>3 DEF Resting, RegistersAt, EarlyAt
  <2> QED BY <1>2, <1>4, <2>1, <2>2, <2>4 DEF Onward, Between
<1>7. CASE Arrived = <<>> /\ Stay(left) /\ frames' = Arrived
  <2>1. Surroundings(c)'
    BY <1>2, <1>3, <1>5, <1>7, ClockedSurroundings
  <2>2. at' = at /\ begun' = TRUE /\ failed' = FALSE /\ aresetn' = TRUE
    BY <1>2, <1>4, <1>7 DEF Stay
  <2> QED BY <1>1, <1>3, <2>1, <2>2 DEF Onward, During
<1> QED BY <1>4, <1>6, <1>7

-----------------------------------------------------------------------------
(* The statements, which take no time                                      *)

\* The statement of the testbench, for the statement op.
StatementIn(op) ==
    /\ \/ Immediate(op, tiles) /\ UNCHANGED sinkVars
       \/ /\ SinkStatement(op)
          /\ UNCHANGED <<test, tiles, polls, aresetn, pinVars, receiving, flags>>
    /\ UNCHANGED vars

\* What TestAssumption says of a statement.
Fitting(op) ==
    /\ op.kind \in {"send", "recv"} => op.tile \in DOMAIN Lengths[test]
    /\ op.kind = "write" => op.addr \in WrAddrs /\ op.data \in WrData
    /\ op.kind \in {"read", "poll"} => op.addr \in RdAddrs
    /\ op.kind = "read" => op.of = 0 \/ Lengths[test][op.of] < 2^COUNT_W

\* Neither the accelerator nor the operands move.
StillAccelerator == UNCHANGED <<vars, test, tiles, receiving, flags>>

\* Neither does the stream, on either side.
StillStream == StillAccelerator /\ UNCHANGED <<frame, offered, frames>>

\* A tile stays where it is when the stream does.
LEMMA TileStill ==
    ASSUME StillStream, NEW k, NEW slope
    PROVE  /\ Afloat(k, slope) => Afloat(k, slope)'
           /\ Ashore(k) => Ashore(k)'
           /\ Flying(k, slope) => Flying(k, slope)'
           /\ Landed(k, slope) => Landed(k, slope)'
           /\ Accepted' = Accepted
<1>1. /\ out_valid_q' = out_valid_q /\ out_data_q' = out_data_q /\ out_last_q' = out_last_q
      /\ busy_q' = busy_q /\ beats_q' = beats_q /\ done_q' = done_q /\ count_q' = count_q
      /\ tiles' = tiles /\ receiving' = receiving /\ frame' = frame /\ offered' = offered
      /\ frames' = frames
  BY DEF StillStream, StillAccelerator, vars, outVars, tileVars
<1>2. Accepted' = Accepted
  BY <1>1 DEF Accepted
<1>3. Image(k, Len(receiving), slope)' = Image(k, Len(receiving), slope)
      /\ Image(k, Len(tiles[k]), slope)' = Image(k, Len(tiles[k]), slope)
  BY <1>1 DEF Image
<1>4. Afloat(k, slope) => Afloat(k, slope)'
  BY <1>1, <1>2, <1>3 DEF Afloat
<1>5. Ashore(k) => Ashore(k)'
  BY <1>1 DEF Ashore
<1>6. Flying(k, slope) => Flying(k, slope)'
  BY <1>1, <1>4 DEF Flying
<1>7. Landed(k, slope) => Landed(k, slope)'
  BY <1>1, <1>3, <1>5 DEF Landed
<1> QED BY <1>2, <1>4, <1>5, <1>6, <1>7

\* So does what a test relies on of it.
LEMMA StreamStill ==
    ASSUME StillStream, NEW c \in Contexts
    PROVE  /\ StreamAt(c) => StreamAt(c)'
           /\ EarlyAt(c) => EarlyAt(c)'
           /\ FlagsAt(c) /\ monitoring' = monitoring => FlagsAt(c)'
           /\ RegistersAt(c) => RegistersAt(c)'
           /\ WriteIdle => WriteIdle'
           /\ Streaming(c, 0) => Streaming(c, 0)'
<1>1. /\ tiles' = tiles /\ offered' = offered /\ frames' = frames /\ flags' = flags
      /\ en_reg' = en_reg /\ slope_reg' = slope_reg
      /\ aw_pend' = aw_pend /\ w_pend' = w_pend /\ bvalid_q' = bvalid_q
  BY DEF StillStream, StillAccelerator, vars, regVars, slaveVars
<1>2. Accepted' = Accepted
  BY TileStill
<1>3. StreamAt(c) => StreamAt(c)'
  <2>1. CASE c.sent = TRUE
    <3>1. ASSUME StreamAt(c) PROVE StreamAt(c)'
      <4>1. Flying(c.tile, c.slope) \/ Landed(c.tile, c.slope)
        BY <2>1, <3>1 DEF StreamAt
      <4>2. Flying(c.tile, c.slope)' \/ Landed(c.tile, c.slope)'
        BY <4>1, TileStill
      <4> QED BY <2>1, <4>2 DEF StreamAt
    <3> QED BY <3>1
  <2>2. CASE c.sent = FALSE
    <3>1. ASSUME StreamAt(c) PROVE StreamAt(c)'
      <4>1. frames = <<>> /\ Ashore(c.tile)
        BY <2>2, <3>1 DEF StreamAt
      <4>2. frames' = <<>> /\ Ashore(c.tile)'
        BY <1>1, <4>1, TileStill
      <4> QED BY <2>2, <4>2 DEF StreamAt
    <3> QED BY <3>1
  <2> QED BY <2>1, <2>2 DEF Contexts
<1>4. Streaming(c, 0) => Streaming(c, 0)'
  <2>1. ASSUME Streaming(c, 0) PROVE Streaming(c, 0)'
    <3>1. Flying(c.tile, c.slope)'
      BY <2>1, TileStill DEF Streaming
    <3> QED BY <1>1, <1>2, <2>1, <3>1 DEF Streaming
  <2> QED BY <2>1
<1>5. EarlyAt(c) => EarlyAt(c)'
  BY <1>1, <1>4 DEF EarlyAt
<1>6. FlagsAt(c) /\ monitoring' = monitoring => FlagsAt(c)'
  <2>1. ASSUME FlagsAt(c), monitoring' = monitoring PROVE FlagsAt(c)'
    <3>1. /\ Marks(c.tile, Accepted)' = Marks(c.tile, Accepted)
          /\ Marks(c.tile, Len(tiles[c.tile]))' = Marks(c.tile, Len(tiles[c.tile]))
      BY <1>1, <1>2 DEF Marks
    <3> QED BY <1>1, <2>1, <3>1 DEF FlagsAt
  <2> QED BY <2>1
<1>7. RegistersAt(c) => RegistersAt(c)'
  BY <1>1 DEF RegistersAt
<1>8. WriteIdle => WriteIdle'
  BY <1>1 DEF WriteIdle
<1> QED BY <1>3, <1>4, <1>5, <1>6, <1>7, <1>8

\* A statement that leaves the sink alone, as far as the test goes.
LEMMA SurroundingsStill ==
    ASSUME StillStream, UNCHANGED <<driven, m_axis_tready, paused, monitoring>>,
           NEW c \in Contexts, Surroundings(c)
    PROVE  Surroundings(c)'
<1>1. StreamAt(c)' /\ FlagsAt(c)'
  BY StreamStill DEF Surroundings
<1>2. SinkAt(c)'
  BY DEF Surroundings, SinkAt
<1> QED BY <1>1, <1>2 DEF Surroundings

\* A statement on which a register access begins.
LEMMA ReadBegins ==
    ASSUME StreamInv, BenchTypes, NEW op, NEW c \in Contexts, NEW d \in Contexts,
           ReadRule(c, op, d) \/ PollRule(c, op, d), Between(c), StatementIn(op)
    PROVE  /\ begun' = TRUE /\ UNCHANGED <<at, failed>> /\ During(c, op, d)'
           /\ lag' \in [Channels -> Int] /\ wr' = wr /\ ra' = op.addr
           /\ UNCHANGED <<test, tiles, aresetn, frame, offered, pause, sinkVars>>
<1>1. op.kind \in {"read", "poll"} /\ op.lags = ReadLags("master")
  BY DEF ReadRule, PollRule
<1>2. Issue(op) /\ UNCHANGED <<test, tiles, sinkVars, vars>>
  BY <1>1 DEF StatementIn, Immediate, SinkStatement, Await, Stream, Jump
<1>3. /\ begun' = TRUE /\ UNCHANGED <<at, failed>> /\ wr' = wr /\ ra' = op.addr
      /\ UNCHANGED <<test, tiles, aresetn, frame, offered, pause, sinkVars>>
  BY <1>1, <1>2 DEF Issue
<1>4. PICK new \in [ar : Lags(1), r : {0}] :
          lag' = [ch \in Channels |-> IF ch \in DOMAIN new THEN new[ch] ELSE lag[ch]]
  BY <1>1, <1>2 DEF Issue, ReadLags
<1>5. lag = [ch \in Channels |-> Idle] /\ WriteIdle /\ rvalid_q = FALSE /\ RegistersAt(c)
  BY DEF Between, Resting
<1>6. DOMAIN new = {"ar", "r"} /\ new["ar"] \in Lags(1) /\ new["r"] = 0
  BY <1>4
<1>7. /\ lag'["ar"] \in Lags(1) /\ lag'["r"] = 0
      /\ \A ch \in {"aw", "w", "b"} : lag'[ch] = Idle
  BY <1>4, <1>5, <1>6 DEF Channels
<1>8. lag' \in [Channels -> Int]
  <2>1. \A ch \in Channels : lag'[ch] \in Int
    BY <1>7, BenchAssumption DEF Channels, Lags, Idle
  <2> QED BY <1>4, <2>1
<1>9. StillStream /\ UNCHANGED <<driven, m_axis_tready, paused, monitoring>>
  BY <1>2, <1>3 DEF StillStream, StillAccelerator, sinkVars
<1>10. Surroundings(c)' /\ RegistersAt(c)' /\ WriteIdle'
  BY <1>5, <1>9, SurroundingsStill, StreamStill DEF Between
<1>11. rvalid_q' = FALSE
  BY <1>2, <1>5 DEF vars, slaveVars
<1>12. lag'["ar"] \in 1 .. 1 + MAX_LAG
  BY <1>7 DEF Lags
<1>13. c.early # "before"
  BY DEF ReadRule, PollRule
<1>14. (c.early = "after" =>
          /\ Streaming(c, Accepted) /\ Accepted + lag["ar"] \in 1 .. 1 + MAX_LAG
          /\ offered = (Accepted < Len(tiles[c.tile])))'
  <2>1. ASSUME c.early = "after"
        PROVE  (/\ Streaming(c, Accepted) /\ Accepted + lag["ar"] \in 1 .. 1 + MAX_LAG
                /\ offered = (Accepted < Len(tiles[c.tile])))'
    <3>1. Streaming(c, 0) /\ offered = TRUE
      BY <2>1 DEF Between, EarlyAt
    <3>2. Streaming(c, 0)' /\ offered' = TRUE
      BY <1>3, <1>9, <3>1, StreamStill
    <3>3. Accepted' = 0 /\ Streaming(c, Accepted)'
      BY <3>2 DEF Streaming
    <3>4. 0 + lag'["ar"] \in 1 .. 1 + MAX_LAG
      BY <1>12, BenchAssumption
    <3>5. (Accepted + lag["ar"] \in 1 .. 1 + MAX_LAG)'
      BY <3>3, <3>4
    <3>6. 0 < Len(tiles[c.tile])
      <4>1. Len(tiles[c.tile]) > MAX_LAG /\ c.tile \in DOMAIN tiles
        BY <3>1 DEF Streaming, Flying, Afloat
      <4>2. Len(tiles[c.tile]) \in Nat \ {0}
        BY <4>1, TileFacts
      <4> QED BY <4>2
    <3>7. (Accepted < Len(tiles[c.tile]))'
      BY <1>3, <3>3, <3>6
    <3>8. (offered = (Accepted < Len(tiles[c.tile])))'
      BY <3>2, <3>7
    <3> QED BY <3>3, <3>5, <3>8
  <2> QED BY <2>1
<1>15. lag'["ar"] \in 0 .. 1 + MAX_LAG
  BY <1>12
<1>16. Reading(c, op)'
  BY <1>3, <1>7, <1>10, <1>11, <1>14, <1>15 DEF Reading
<1>17. aresetn' = TRUE
  BY <1>3 DEF Between
<1> QED BY <1>1, <1>3, <1>8, <1>10, <1>16, <1>17 DEF During

\* A statement on which a write begins.
LEMMA WriteBegins ==
    ASSUME StreamInv, BenchTypes, NEW op, NEW c \in Contexts, NEW d \in Contexts,
           WriteRule(c, op, d), Between(c), StatementIn(op)
    PROVE  /\ begun' = TRUE /\ UNCHANGED <<at, failed>> /\ During(c, op, d)'
           /\ lag' \in [Channels -> Int]
           /\ wr' = [addr |-> op.addr, data |-> op.data] /\ ra' = ra
           /\ UNCHANGED <<test, tiles, aresetn, frame, offered, pause, sinkVars>>
<1>1. op.kind = "write" /\ op.lags = WriteLags("master")
  BY DEF WriteRule
<1>2. Issue(op) /\ UNCHANGED <<test, tiles, sinkVars, vars>>
  BY <1>1 DEF StatementIn, Immediate, SinkStatement, Await, Stream, Jump
<1>3. /\ begun' = TRUE /\ UNCHANGED <<at, failed>>
      /\ wr' = [addr |-> op.addr, data |-> op.data] /\ ra' = ra
      /\ UNCHANGED <<test, tiles, aresetn, frame, offered, pause, sinkVars>>
  BY <1>1, <1>2 DEF Issue
<1>4. PICK new \in [aw : Lags(1), w : Lags(1), b : {0}] :
          lag' = [ch \in Channels |-> IF ch \in DOMAIN new THEN new[ch] ELSE lag[ch]]
  BY <1>1, <1>2 DEF Issue, WriteLags
<1>5. lag = [ch \in Channels |-> Idle] /\ WriteIdle /\ rvalid_q = FALSE /\ RegistersAt(c)
  BY DEF Between, Resting
<1>6. /\ DOMAIN new = {"aw", "w", "b"}
      /\ new["aw"] \in Lags(1) /\ new["w"] \in Lags(1) /\ new["b"] = 0
  BY <1>4
<1>7. /\ lag'["aw"] \in Lags(1) /\ lag'["w"] \in Lags(1) /\ lag'["b"] = 0
      /\ lag'["ar"] = Idle /\ lag'["r"] = Idle
  BY <1>4, <1>5, <1>6 DEF Channels
<1>8. \A ch \in {"aw", "w"} : lag'[ch] \in Nat /\ lag'[ch] # Idle
  BY <1>7, BenchAssumption DEF Lags, Idle
<1>9. lag' \in [Channels -> Int]
  <2>1. \A ch \in Channels : lag'[ch] \in Int
    BY <1>7, <1>8 DEF Channels, Idle
  <2> QED BY <1>4, <2>1
<1>10. StillStream /\ UNCHANGED <<driven, m_axis_tready, paused, monitoring>>
  BY <1>2, <1>3 DEF StillStream, StillAccelerator, sinkVars
<1>11. Surroundings(c)' /\ RegistersAt(c)' /\ WriteIdle'
  BY <1>5, <1>10, SurroundingsStill, StreamStill DEF Between
<1>12. rvalid_q' = FALSE
  BY <1>2, <1>5 DEF vars, slaveVars
<1>13. aw_pend' = FALSE /\ w_pend' = FALSE /\ bvalid_q' = FALSE
  BY <1>11 DEF WriteIdle
<1>14. (/\ bvalid_q = FALSE /\ RegistersAt(c)
        /\ \A ch \in {"aw", "w"} : lag[ch] \in Nat \/ lag[ch] = Idle
        /\ aw_pend = (lag["aw"] = Idle) /\ (aw_pend => aw_addr_q = op.addr)
        /\ w_pend = (lag["w"] = Idle) /\ (w_pend => w_data_q = op.data)
        /\ ~(aw_pend /\ w_pend))'
  BY <1>8, <1>11, <1>13
<1>15. Writing(c, op, d)'
  BY <1>3, <1>7, <1>12, <1>14 DEF Writing
<1>16. aresetn' = TRUE
  BY <1>3 DEF Between
<1> QED BY <1>1, <1>3, <1>9, <1>11, <1>15, <1>16 DEF During

\* A statement from which a reset or a loop over edges begins.
LEMMA AwaitBegins ==
    ASSUME StreamInv, BenchTypes, NEW op, NEW c \in Contexts, NEW d \in Contexts,
           ResetRule(c, op, d) \/ EdgesRule(c, op, d), Between(c), StatementIn(op)
    PROVE  /\ begun' = TRUE /\ UNCHANGED <<at, failed>> /\ During(c, op, d)' /\ aresetn' \in BOOLEAN
           /\ UNCHANGED <<test, tiles, lag, wr, ra, frame, offered, pause, sinkVars>>
<1>1. op.kind \in {"reset", "edges"} /\ op.edges \in Nat \ {0}
  BY DEF ResetRule, EdgesRule
<1>2. Await(op) /\ UNCHANGED <<test, tiles, sinkVars, vars>>
  BY <1>1 DEF StatementIn, Immediate, SinkStatement, Issue, Stream, Jump
<1>3. /\ begun' = TRUE /\ left' = op.edges /\ UNCHANGED <<at, failed>>
      /\ aresetn' = (op.kind # "reset")
      /\ UNCHANGED <<test, tiles, lag, wr, ra, frame, offered, pause, sinkVars>>
  BY <1>2 DEF Await, pinVars
<1>4. StillStream /\ UNCHANGED <<driven, m_axis_tready, paused, monitoring>>
  BY <1>2, <1>3 DEF StillStream, StillAccelerator, sinkVars
<1>5. Surroundings(c)' /\ EarlyAt(c)' /\ RegistersAt(c)' /\ WriteIdle'
  BY <1>4, SurroundingsStill, StreamStill DEF Between, Resting
<1>6. rvalid_q' = rvalid_q
  BY <1>2 DEF vars, slaveVars
<1>7. Resting(c)'
  BY <1>3, <1>5, <1>6 DEF Between, Resting
<1>8. left' \in 1 .. op.edges
  BY <1>1, <1>3
<1>9. aresetn' \in BOOLEAN
  BY <1>3
<1> QED BY <1>1, <1>3, <1>5, <1>7, <1>8, <1>9 DEF During

\* A tile that is sent is under way, nothing of it taken yet.
LEMMA SendStatement ==
    ASSUME StreamInv, BenchTypes, NEW op, NEW c \in Contexts, NEW d \in Contexts,
           SendRule(test, c, op, d), op.tile \in DOMAIN Lengths[test],
           Between(c), StatementIn(op), failed = FALSE
    PROVE  /\ begun' = FALSE /\ at' = at + 1 /\ failed' = FALSE /\ Between(d)'
           /\ UNCHANGED <<test, tiles, lag, wr, ra, aresetn, offered, pause, sinkVars>>
<1> DEFINE k == op.tile
           L == Len(tiles[k])
<1>1. /\ op.kind = "send" /\ k # 0 /\ c.up = TRUE /\ c.early = "no" /\ c.sent = FALSE
      /\ c.driven = FALSE /\ (c.monitoring => c.tile = 0)
  BY DEF SendRule, Contexts
<1>2. Stream(op, tiles) /\ UNCHANGED <<test, tiles, sinkVars, vars>>
  BY <1>1 DEF StatementIn, Immediate, SinkStatement, Issue, Await, Jump
<1>3. /\ frame' = frame \o tiles[k] /\ at' = at + 1 /\ begun' = FALSE
      /\ UNCHANGED <<test, tiles, lag, wr, ra, aresetn, offered, pause, sinkVars>>
  BY <1>1, <1>2 DEF Stream, Proceed
<1>4. failed' = FALSE
  BY <1>2 DEF Stream, Proceed
<1>5. aresetn = TRUE /\ Surroundings(c) /\ Resting(c)
  BY DEF Between
<1>6. /\ frames = <<>> /\ frame = <<>> /\ offered = FALSE /\ receiving = <<>>
      /\ out_valid_q = FALSE /\ busy_q = FALSE /\ beats_q = 0
  BY <1>1, <1>5 DEF Surroundings, StreamAt, Ashore
<1>7. /\ frames' = <<>> /\ offered' = FALSE /\ receiving' = <<>>
      /\ out_valid_q' = FALSE /\ busy_q' = FALSE /\ beats_q' = 0
      /\ monitoring' = monitoring /\ flags' = flags
      /\ driven' = driven /\ paused' = paused /\ m_axis_tready' = m_axis_tready
  BY <1>2, <1>3, <1>6 DEF sinkVars, vars, outVars, tileVars
<1>8. k \in DOMAIN tiles
  BY DEF BenchTypes
<1>9. tiles[k] \in Seq(Beat) /\ L \in Nat \ {0} /\ L = Lengths[test][k]
  BY <1>8, TileFacts
<1>10. frame' = SubSeq(tiles[k], 0 + 1, L)
  <2>1. <<>> \o tiles[k] = tiles[k] /\ SubSeq(tiles[k], 1, L) = tiles[k] /\ 0 + 1 = 1
    BY <1>9, ConcatEmptySeq, SubSeqFull
  <2> QED BY <1>3, <1>6, <2>1
<1>11. Accepted' = 0
  <2>1. Len(receiving') = 0
    BY <1>7
  <2> QED BY <1>7, <2>1 DEF Accepted
<1>12. Afloat(k, c.slope)'
  <2>1. (/\ k \in DOMAIN tiles
         /\ Accepted <= Len(tiles[k]) /\ (Accepted = Len(tiles[k]) => out_valid_q)
         /\ frame = SubSeq(tiles[k], Accepted + 1, Len(tiles[k])))'
    <3>1. 0 <= L /\ 0 # L
      BY <1>9
    <3> QED BY <1>3, <1>8, <1>10, <1>11, <3>1
  <2>2. (/\ offered => Accepted < Len(tiles[k])
         /\ out_valid_q => /\ out_data_q = GoldenRelu(tiles[k][Accepted].data, c.slope)
                           /\ out_last_q = (Accepted = Len(tiles[k])))'
    BY <1>7
  <2>3. (receiving = Image(k, Len(receiving), c.slope))'
    BY <1>7 DEF Image
  <2>4. (/\ busy_q = (Accepted > 0) /\ beats_q = Unsigned(Accepted, COUNT_W)
         /\ Accepted > 0 => done_q = FALSE)'
    <3>1. (0 > 0) = FALSE
      OBVIOUS
    <3>2. Unsigned(0, COUNT_W) = 0
      <4>1. 2^COUNT_W \in Nat /\ 2^COUNT_W > 0
        BY CountWidth, PowPositive
      <4> QED BY <4>1 DEF Unsigned
    <3> QED BY <1>7, <1>11, <3>1, <3>2
  <2> QED BY <2>1, <2>2, <2>3, <2>4 DEF Afloat
<1>13. Flying(k, c.slope)'
  BY <1>7, <1>12 DEF Flying
<1>14. /\ d.up = TRUE /\ d.flow = c.flow /\ d.en = c.en /\ d.slope = c.slope
       /\ d.driven = FALSE /\ d.monitoring = c.monitoring /\ d.sent = TRUE /\ d.tile = k
  BY <1>1 DEF SendRule, Sent, Early, Contexts
<1>15. StreamAt(d)'
  BY <1>13, <1>14 DEF StreamAt
<1>16. FlagsAt(d)'
  <2>1. /\ monitoring' = d.monitoring
        /\ d.monitoring \in BOOLEAN
        /\ ~d.monitoring => flags' = <<>>
        /\ d.monitoring => flags' = <<>> /\ d.flow /\ d.up
    BY <1>1, <1>5, <1>7, <1>14 DEF Surroundings, FlagsAt, Contexts
  <2>2. Marks(k, Accepted)' = <<>>
    BY <1>11 DEF Marks
  <2> QED BY <1>1, <1>7, <1>14, <2>1, <2>2 DEF FlagsAt
<1>17. SinkAt(d)'
  BY <1>1, <1>5, <1>7, <1>14 DEF Surroundings, SinkAt
<1>18. EarlyAt(d)'
  <2>1. CASE d = Sent(c, k)
    <3>1. d.early = "no"
      BY <1>1, <2>1 DEF Sent, Contexts
    <3> QED BY <3>1 DEF EarlyAt
  <2>2. CASE c.flow /\ c.en /\ Lengths[test][k] > MAX_LAG /\ d = Early(Sent(c, k), "before")
    <3>1. d.early = "before"
      BY <2>2 DEF Sent, Early, Contexts
    <3>2. Streaming(d, 0)'
      BY <1>3, <1>9, <1>11, <1>13, <1>14, <2>2 DEF Streaming
    <3> QED BY <1>7, <3>1, <3>2 DEF EarlyAt
  <2> QED BY <2>1, <2>2 DEF SendRule
<1>19. Resting(d)'
  <2>1. /\ lag' = lag /\ en_reg' = en_reg /\ slope_reg' = slope_reg /\ aw_pend' = aw_pend
        /\ w_pend' = w_pend /\ bvalid_q' = bvalid_q /\ rvalid_q' = rvalid_q
    BY <1>2, <1>3 DEF vars, regVars, slaveVars
  <2> QED BY <1>5, <1>14, <2>1 DEF Resting, RegistersAt, WriteIdle
<1>20. aresetn' = TRUE
  BY <1>3, <1>5
<1> QED BY <1>3, <1>4, <1>15, <1>16, <1>17, <1>18, <1>19, <1>20 DEF Between, Surroundings

\* A frame that waits is received at once.
LEMMA RecvStatement ==
    ASSUME StreamInv, BenchTypes, NEW op, NEW c \in Contexts, NEW d \in Contexts,
           RecvRule(c, op, d), Between(c), StatementIn(op), failed = FALSE
    PROVE  /\ \/ begun' = TRUE /\ at' = at /\ failed' = FALSE /\ During(c, op, d)'
              \/ begun' = FALSE /\ at' = at + 1 /\ failed' = FALSE /\ Between(d)'
           /\ UNCHANGED <<test, tiles, lag, wr, ra, aresetn, offered, pause, receiving,
                          driven, m_axis_tready, paused, monitoring>>
<1>1. /\ op.kind = "recv" /\ c.up = TRUE /\ c.early = "no" /\ c.sent = TRUE
      /\ c.tile = op.tile /\ d = Home(c, op.tile)
  BY DEF RecvRule, Contexts
<1>2. /\ \/ frames # <<>> /\ Received(op, frames)
         \/ frames = <<>> /\ begun' = TRUE /\ UNCHANGED <<at, left, failed, frames>>
      /\ UNCHANGED <<driven, m_axis_tready, paused, monitoring>>
      /\ UNCHANGED <<test, tiles, polls, aresetn, pinVars, receiving, flags>>
      /\ UNCHANGED vars
  BY <1>1 DEF StatementIn, Immediate, SinkStatement, Issue, Await, Stream, Jump
<1>3. UNCHANGED <<test, tiles, lag, wr, ra, aresetn, frame, offered, pause, receiving,
                  driven, m_axis_tready, paused, monitoring>>
  BY <1>2 DEF pinVars
<1>4. aresetn = TRUE /\ Surroundings(c) /\ Resting(c)
  BY DEF Between
<1>5. /\ lag' = lag /\ en_reg' = en_reg /\ slope_reg' = slope_reg /\ aw_pend' = aw_pend
      /\ w_pend' = w_pend /\ bvalid_q' = bvalid_q /\ rvalid_q' = rvalid_q
  BY <1>2, <1>3 DEF vars, regVars, slaveVars
<1>6. CASE frames # <<>> /\ Received(op, frames)
  <2>1. Landed(c.tile, c.slope)
    BY <1>1, <1>4, <1>6 DEF Surroundings, StreamAt, Flying
  <2>2. /\ frames = << Image(c.tile, Len(tiles[c.tile]), c.slope) >>
        /\ c.tile # 0 /\ Ashore(c.tile)
    BY <2>1 DEF Landed
  <2>3. c.tile \in DOMAIN tiles
    BY <2>2 DEF Ashore
  <2>4. Matches(op, Head(frames)) /\ Tail(frames) = <<>>
    BY <2>2, <2>3, ImageMatches
  <2>5. frames' = <<>> /\ at' = at + 1 /\ begun' = FALSE /\ failed' = FALSE
    BY <1>6, <2>4 DEF Received, Proceed
  <2>6. /\ d.up = TRUE /\ d.flow = c.flow /\ d.en = c.en /\ d.slope = c.slope
        /\ d.driven = c.driven /\ d.monitoring = c.monitoring
        /\ d.sent = FALSE /\ d.tile = c.tile /\ d.early = "no"
    BY <1>1 DEF Home, Contexts
  <2>7. Ashore(c.tile)'
    <3>1. /\ out_valid_q' = out_valid_q /\ busy_q' = busy_q /\ beats_q' = beats_q
          /\ done_q' = done_q /\ count_q' = count_q
      BY <1>2 DEF vars, outVars, tileVars
    <3> QED BY <1>3, <2>2, <3>1 DEF Ashore
  <2>8. StreamAt(d)'
    BY <2>5, <2>6, <2>7 DEF StreamAt
  <2>9. FlagsAt(d)'
    <3>1. /\ monitoring' = c.monitoring /\ flags' = flags /\ c.monitoring \in BOOLEAN
          /\ ~c.monitoring => flags = <<>>
          /\ c.monitoring => /\ c.flow /\ c.up
                             /\ flags = Marks(c.tile, Len(tiles[c.tile]))
      BY <1>1, <1>2, <1>4, <1>6, <2>2 DEF Surroundings, FlagsAt, Contexts
    <3>2. Marks(c.tile, Len(tiles[c.tile]))' = Marks(c.tile, Len(tiles[c.tile]))
      BY <1>3 DEF Marks
    <3> QED BY <2>2, <2>6, <3>1, <3>2 DEF FlagsAt
  <2>10. SinkAt(d)'
    <3>1. /\ driven = c.driven /\ (c.driven => ~c.en)
          /\ (c.flow => paused = FALSE) /\ (c.flow /\ c.up => m_axis_tready = TRUE)
      BY <1>4 DEF Surroundings, SinkAt
    <3>2. driven' = d.driven /\ (d.driven => ~d.en)
      BY <1>3, <2>6, <3>1
    <3>3. (d.flow => paused' = FALSE) /\ (d.flow /\ d.up => m_axis_tready' = TRUE)
      BY <1>1, <1>3, <2>6, <3>1
    <3> QED BY <3>2, <3>3 DEF SinkAt
  <2>11. Resting(d)' /\ EarlyAt(d)'
    BY <1>4, <1>5, <2>6 DEF Resting, RegistersAt, WriteIdle, EarlyAt
  <2> QED BY <1>3, <1>4, <2>5, <2>8, <2>9, <2>10, <2>11 DEF Between, Surroundings
<1>7. CASE frames = <<>> /\ begun' = TRUE /\ UNCHANGED <<at, left, failed, frames>>
  <2>1. StillStream
    BY <1>2, <1>3, <1>7 DEF StillStream, StillAccelerator
  <2>2. Surroundings(c)'
    BY <1>3, <1>4, <2>1, SurroundingsStill
  <2>3. Resting(c)'
    BY <1>4, <1>5 DEF Resting, RegistersAt, WriteIdle
  <2> QED BY <1>1, <1>3, <1>4, <1>7, <2>2, <2>3 DEF During
<1> QED BY <1>2, <1>3, <1>6, <1>7

\* A statement about the sink, the monitor or s_axis_tvalid.
LEMMA PinStatement ==
    ASSUME StreamInv, BenchTypes, NEW op, NEW c \in Contexts, NEW d \in Contexts,
           PinRule(c, op, d), Between(c), StatementIn(op), failed = FALSE
    PROVE  /\ begun' = FALSE /\ at' = at + 1 /\ failed' = FALSE /\ Between(d)'
           /\ {driven', m_axis_tready', paused', monitoring'} \subseteq BOOLEAN
           /\ UNCHANGED <<test, tiles, lag, wr, ra, aresetn, offered, pause, receiving>>
<1>1. op.kind \in {"pause", "drive", "monitor", "assert_flags"} /\ c.up = TRUE /\ c.early = "no"
  BY DEF PinRule, Contexts
<1>2. SinkStatement(op) /\ UNCHANGED <<test, tiles, aresetn, pinVars, receiving, flags, vars>>
  BY <1>1 DEF StatementIn, Immediate, Issue, Await, Stream, Jump
<1>3. UNCHANGED <<test, tiles, lag, wr, ra, aresetn, frame, offered, pause, receiving>>
  BY <1>2 DEF pinVars
<1>4. aresetn = TRUE /\ Surroundings(c) /\ Resting(c)
  BY DEF Between
<1>5. frames' = frames /\ at' = at + 1 /\ begun' = FALSE
  BY <1>1, <1>2 DEF SinkStatement, Proceed
<1>6. StillStream
  BY <1>2, <1>3, <1>5 DEF StillStream, StillAccelerator
<1>7. RegistersAt(c)' /\ WriteIdle' /\ rvalid_q' = FALSE /\ lag' = [ch \in Channels |-> Idle]
  <2>1. rvalid_q' = rvalid_q
    BY <1>2 DEF vars, slaveVars
  <2> QED BY <1>3, <1>4, <1>6, <2>1, StreamStill DEF Resting
<1>8. StreamAt(c)'
  BY <1>4, <1>6, StreamStill DEF Surroundings
<1>9. /\ driven = c.driven /\ monitoring = c.monitoring
      /\ {driven, m_axis_tready, paused, monitoring} \subseteq BOOLEAN
  BY <1>4 DEF Surroundings, SinkAt, FlagsAt, BenchTypes
<1>10. CASE op.kind = "pause"
  <2>1. op.on \in BOOLEAN /\ ~c.flow /\ d = c
    BY <1>10 DEF PinRule
  <2>2. /\ paused' = op.on /\ m_axis_tready' \in {m_axis_tready, ~op.on}
        /\ UNCHANGED <<driven, monitoring>> /\ failed' = FALSE
    BY <1>2, <1>10 DEF SinkStatement, Proceed
  <2>3. SinkAt(c)' /\ FlagsAt(c)'
    BY <1>4, <1>6, <2>1, <2>2, StreamStill DEF Surroundings, SinkAt
  <2>4. {driven', m_axis_tready', paused', monitoring'} \subseteq BOOLEAN
    BY <1>9, <2>1, <2>2
  <2>5. EarlyAt(c)' /\ Resting(c)'
    BY <1>1, <1>7 DEF EarlyAt, Resting
  <2> QED BY <1>3, <1>4, <1>5, <1>8, <2>1, <2>2, <2>3, <2>4, <2>5 DEF Between, Surroundings
<1>11. CASE op.kind = "drive"
  <2>1. op.on \in BOOLEAN /\ ~c.en /\ ~c.sent /\ d = [c EXCEPT !.driven = op.on]
    BY <1>11 DEF PinRule
  <2>2. /\ driven' = op.on /\ UNCHANGED <<m_axis_tready, paused, monitoring>> /\ failed' = FALSE
    BY <1>2, <1>11 DEF SinkStatement, Proceed
  <2>3. /\ d.up = c.up /\ d.flow = c.flow /\ d.en = c.en /\ d.slope = c.slope
        /\ d.driven = op.on /\ d.monitoring = c.monitoring
        /\ d.sent = c.sent /\ d.tile = c.tile /\ d.early = "no"
    BY <1>1, <2>1 DEF Contexts
  <2>4. SinkAt(d)'
    <3>1. driven' = d.driven /\ (d.driven => ~d.en)
      BY <2>1, <2>2, <2>3
    <3>2. (c.flow => paused = FALSE) /\ (c.flow /\ c.up => m_axis_tready = TRUE)
      BY <1>4 DEF Surroundings, SinkAt
    <3>3. (d.flow => paused' = FALSE) /\ (d.flow /\ d.up => m_axis_tready' = TRUE)
      BY <2>2, <2>3, <3>2
    <3> QED BY <3>1, <3>3 DEF SinkAt
  <2>5. FlagsAt(c)'
    BY <1>4, <1>6, <2>2, StreamStill DEF Surroundings
  <2>6. FlagsAt(d)' /\ StreamAt(d)'
    <3>1. StreamAt(d)'
      BY <1>8, <2>3 DEF StreamAt
    <3>2. FlagsAt(d)'
      BY <2>3, <2>5 DEF FlagsAt
    <3> QED BY <3>1, <3>2
  <2>7. {driven', m_axis_tready', paused', monitoring'} \subseteq BOOLEAN
    BY <1>9, <2>1, <2>2
  <2>8. EarlyAt(d)' /\ Resting(d)'
    BY <1>7, <2>3 DEF EarlyAt, Resting, RegistersAt
  <2> QED BY <1>3, <1>4, <1>5, <2>2, <2>4, <2>6, <2>7, <2>8 DEF Between, Surroundings
<1>12. CASE op.kind = "monitor"
  <2>1. /\ c.flow /\ ~c.sent /\ c.monitoring = FALSE /\ c.tile = 0
        /\ d = [c EXCEPT !.monitoring = TRUE]
    BY <1>12 DEF PinRule, Contexts
  <2>2. /\ monitoring' = TRUE /\ UNCHANGED <<driven, m_axis_tready, paused>> /\ failed' = FALSE
    BY <1>2, <1>12 DEF SinkStatement, Proceed
  <2>3. /\ d.up = c.up /\ d.flow = c.flow /\ d.en = c.en /\ d.slope = c.slope
        /\ d.driven = c.driven /\ d.monitoring = TRUE
        /\ d.sent = c.sent /\ d.tile = c.tile /\ d.early = "no"
    BY <1>1, <2>1 DEF Contexts
  <2>4. SinkAt(d)'
    BY <1>4, <2>2, <2>3 DEF Surroundings, SinkAt
  <2>5. flags' = <<>>
    BY <1>2, <1>4, <2>1 DEF Surroundings, FlagsAt
  <2>6. FlagsAt(d)' /\ StreamAt(d)'
    <3>1. StreamAt(d)'
      BY <1>8, <2>3 DEF StreamAt
    <3>2. FlagsAt(d)'
      BY <1>1, <2>1, <2>2, <2>3, <2>5 DEF FlagsAt
    <3> QED BY <3>1, <3>2
  <2>7. {driven', m_axis_tready', paused', monitoring'} \subseteq BOOLEAN
    BY <1>9, <2>2
  <2>8. EarlyAt(d)' /\ Resting(d)'
    BY <1>7, <2>3 DEF EarlyAt, Resting, RegistersAt
  <2> QED BY <1>3, <1>4, <1>5, <2>2, <2>4, <2>6, <2>7, <2>8 DEF Between, Surroundings
<1>13. CASE op.kind = "assert_flags"
  <2>1. c.monitoring /\ ~c.sent /\ c.tile = 1 /\ d = c
    BY <1>13 DEF PinRule
  <2>2. flags = Marks(1, Len(tiles[1])) /\ 1 \in DOMAIN tiles
    BY <1>4, <2>1 DEF Surroundings, FlagsAt, StreamAt, Ashore
  <2>3. DOMAIN tiles[1] = 1 .. Len(tiles[1])
    <3>1. tiles[1] \in Seq(Beat)
      BY <2>2, TileFacts
    <3> QED BY <3>1, LenProperties
  <2>4. flags = [i \in DOMAIN tiles[1] |-> i = Len(tiles[1])]
    BY <2>2, <2>3 DEF Marks
  <2>5. failed' = FALSE /\ UNCHANGED <<driven, m_axis_tready, paused, monitoring>>
    BY <1>2, <1>13, <2>4 DEF SinkStatement, Proceed
  <2>6. Surroundings(c)'
    BY <1>4, <1>6, <2>5, SurroundingsStill
  <2>7. {driven', m_axis_tready', paused', monitoring'} \subseteq BOOLEAN
    BY <1>9, <2>5
  <2>8. EarlyAt(c)' /\ Resting(c)'
    BY <1>1, <1>7 DEF EarlyAt, Resting
  <2> QED BY <1>3, <1>4, <1>5, <2>1, <2>5, <2>6, <2>7, <2>8 DEF Between
<1> QED BY <1>1, <1>10, <1>11, <1>12, <1>13

\* Whatever a statement does, the test is then where the outline says.
LEMMA StatementStep ==
    ASSUME StreamInv, BenchTypes, NEW op, NEW c, NEW d,
           Rule(test, c, op, d), Fitting(op), Between(c), StatementIn(op),
           failed = FALSE, begun = FALSE
    PROVE  Onward(c, op, d) /\ BenchTypes' /\ test' = test
<1>1. c \in Contexts /\ d \in Contexts
  BY DEF Rule
<1>2. /\ \/ begun' = TRUE /\ at' = at /\ failed' = FALSE /\ During(c, op, d)'
         \/ begun' = FALSE /\ at' = at + 1 /\ failed' = FALSE /\ Between(d)'
      /\ lag' \in [Channels -> Int]
      /\ wr' \in [addr : WrAddrs, data : WrData] /\ ra' \in RdAddrs
      /\ {driven', m_axis_tready', paused', monitoring', aresetn'} \subseteq BOOLEAN
      /\ UNCHANGED <<test, tiles, offered, pause, receiving>>
  <2>1. /\ wr \in [addr : WrAddrs, data : WrData] /\ ra \in RdAddrs /\ lag \in [Channels -> Int]
        /\ {driven, m_axis_tready, paused, monitoring, aresetn} \subseteq BOOLEAN
    BY DEF BenchTypes
  <2>2. CASE ReadRule(c, op, d) \/ PollRule(c, op, d)
    <3>1. op.addr \in RdAddrs
      BY <2>2 DEF ReadRule, PollRule, Fitting
    <3>2. /\ begun' = TRUE /\ UNCHANGED <<at, failed>> /\ During(c, op, d)'
          /\ lag' \in [Channels -> Int] /\ wr' = wr /\ ra' = op.addr
          /\ UNCHANGED <<test, tiles, aresetn, frame, offered, pause, sinkVars>>
      BY <1>1, <2>2, ReadBegins
    <3> QED BY <2>1, <3>1, <3>2 DEF sinkVars
  <2>3. CASE WriteRule(c, op, d)
    <3>1. [addr |-> op.addr, data |-> op.data] \in [addr : WrAddrs, data : WrData]
      BY <2>3 DEF WriteRule, Fitting
    <3>2. /\ begun' = TRUE /\ UNCHANGED <<at, failed>> /\ During(c, op, d)'
          /\ lag' \in [Channels -> Int]
          /\ wr' = [addr |-> op.addr, data |-> op.data] /\ ra' = ra
          /\ UNCHANGED <<test, tiles, aresetn, frame, offered, pause, sinkVars>>
      BY <1>1, <2>3, WriteBegins
    <3> QED BY <2>1, <3>1, <3>2 DEF sinkVars
  <2>4. CASE ResetRule(c, op, d) \/ EdgesRule(c, op, d)
    <3>1. /\ begun' = TRUE /\ UNCHANGED <<at, failed>> /\ During(c, op, d)' /\ aresetn' \in BOOLEAN
          /\ UNCHANGED <<test, tiles, lag, wr, ra, frame, offered, pause, sinkVars>>
      BY <1>1, <2>4, AwaitBegins
    <3> QED BY <2>1, <3>1 DEF sinkVars
  <2>5. CASE SendRule(test, c, op, d)
    <3>1. op.tile \in DOMAIN Lengths[test]
      BY <2>5 DEF SendRule, Fitting
    <3>2. /\ begun' = FALSE /\ at' = at + 1 /\ failed' = FALSE /\ Between(d)'
          /\ UNCHANGED <<test, tiles, lag, wr, ra, aresetn, offered, pause, sinkVars>>
      BY <1>1, <2>5, <3>1, SendStatement
    <3> QED BY <2>1, <3>2 DEF sinkVars
  <2>6. CASE RecvRule(c, op, d)
    <3>1. /\ \/ begun' = TRUE /\ at' = at /\ failed' = FALSE /\ During(c, op, d)'
             \/ begun' = FALSE /\ at' = at + 1 /\ failed' = FALSE /\ Between(d)'
          /\ UNCHANGED <<test, tiles, lag, wr, ra, aresetn, offered, pause, receiving,
                         driven, m_axis_tready, paused, monitoring>>
      BY <1>1, <2>6, RecvStatement
    <3> QED BY <2>1, <3>1
  <2>7. CASE PinRule(c, op, d)
    <3>1. /\ begun' = FALSE /\ at' = at + 1 /\ failed' = FALSE /\ Between(d)'
          /\ {driven', m_axis_tready', paused', monitoring'} \subseteq BOOLEAN
          /\ UNCHANGED <<test, tiles, lag, wr, ra, aresetn, offered, pause, receiving>>
      BY <1>1, <2>7, PinStatement
    <3> QED BY <2>1, <3>1
  <2> QED BY <2>2, <2>3, <2>4, <2>5, <2>6, <2>7 DEF Rule
<1>3. Onward(c, op, d)
  BY <1>2 DEF Onward
<1>4. BenchTypes'
  <2>1. /\ test \in Tests /\ tiles \in [DOMAIN Lengths[test] -> Seq(Beat)]
        /\ \A k \in DOMAIN tiles :
              /\ Len(tiles[k]) = Lengths[test][k]
              /\ \A i \in 1 .. Len(tiles[k]) : tiles[k][i].last = (i = Len(tiles[k]))
    BY DEF BenchTypes
  <2>2. (/\ test \in Tests /\ tiles \in [DOMAIN Lengths[test] -> Seq(Beat)]
         /\ \A k \in DOMAIN tiles :
              /\ Len(tiles[k]) = Lengths[test][k]
              /\ \A i \in 1 .. Len(tiles[k]) : tiles[k][i].last = (i = Len(tiles[k])))'
    BY <1>2, <2>1, Zenon
  <2>3. pause = 0 /\ receiving \in Seq(Activation) /\ offered \in BOOLEAN
    BY DEF BenchTypes
  <2>4. begun' \in BOOLEAN
    BY <1>2
  <2>5. (/\ lag \in [Channels -> Int]
         /\ wr \in [addr : WrAddrs, data : WrData] /\ ra \in RdAddrs
         /\ pause = 0 /\ receiving \in Seq(Activation)
         /\ {aresetn, begun, offered, driven, m_axis_tready, paused, monitoring} \subseteq BOOLEAN)'
    BY <1>2, <2>3, <2>4
  <2> QED BY <2>2, <2>5 DEF BenchTypes
<1> QED BY <1>2, <1>3, <1>4

\* Whatever an edge does, the test is then where the outline says.
LEMMA EdgeStep ==
    ASSUME StreamInv, BenchTypes, NEW op, NEW c, NEW d,
           Rule(test, c, op, d), Fitting(op), During(c, op, d), EdgeIn(op),
           failed = FALSE, begun = TRUE
    PROVE  Onward(c, op, d) /\ StreamInv' /\ BenchTypes' /\ test' = test
<1>1. c \in Contexts /\ d \in Contexts
  BY DEF Rule
<1>2. Onward(c, op, d)
  <2>1. CASE ResetRule(c, op, d)
    BY <2>1, ResetStep
  <2>2. CASE EdgesRule(c, op, d)
    BY <1>1, <2>2, EdgesStep
  <2>3. CASE ReadRule(c, op, d) \/ PollRule(c, op, d)
    BY <1>1, <2>3, ReadStep DEF Fitting
  <2>4. CASE WriteRule(c, op, d)
    BY <1>1, <2>4, WriteStep
  <2>5. CASE RecvRule(c, op, d)
    BY <1>1, <2>5, RecvStep
  <2>6. CASE SendRule(test, c, op, d) \/ PinRule(c, op, d)
    BY <2>6 DEF SendRule, PinRule, During
  <2> QED BY <2>1, <2>2, <2>3, <2>4, <2>5, <2>6 DEF Rule
<1>3. StreamInv'
  <2>1. StreamAt(c)
    BY DEF During, Surroundings
  <2>2. Dut
    BY DEF EdgeIn
  <2> QED BY <2>1, <2>2, BenchStream
<1>4. /\ SinkEdge /\ ChannelEdge /\ SourceEdge(s_axis_tready(m_axis_tready))
      /\ UNCHANGED <<test, tiles, wr, ra, driven, paused, monitoring>>
  BY DEF EdgeIn, BenchEdge
<1>5. aresetn' \in BOOLEAN
  BY <1>2 DEF Onward, During, Between
<1>6. begun' \in BOOLEAN
  BY <1>2 DEF Onward
<1>7. BenchTypes'
  BY <1>4, <1>5, <1>6, EdgeTypes
<1> QED BY <1>2, <1>3, <1>4, <1>7

-----------------------------------------------------------------------------
(* The invariant of the testbench                                          *)

\* Every tile a test may generate carries activations, and tlast on its last beat.
LEMMA GeneratedTiles ==
    ASSUME NEW t \in Tests, NEW ts \in Tiles(t), NEW bs, bs = [k \in DOMAIN ts |-> Beats(ts[k])]
    PROVE  /\ bs \in [DOMAIN Lengths[t] -> Seq(Beat)]
           /\ \A k \in DOMAIN bs :
                 /\ Len(bs[k]) = Lengths[t][k]
                 /\ \A i \in 1 .. Len(bs[k]) : bs[k][i].last = (i = Len(bs[k]))
<1>1. /\ ts \in [DOMAIN Lengths[t] -> UNION {gen_activations(Lengths[t][k]) :
                                             k \in DOMAIN Lengths[t]}]
      /\ \A k \in DOMAIN ts : Len(ts[k]) = Lengths[t][k]
  BY DEF Tiles
<1>2. \A j \in 1 .. 4 : EdgeCases[j] \in Activation
  BY Bounds DEF EdgeCases, Activation, SignedRange
<1>3. \A k \in DOMAIN Lengths[t] : Lengths[t][k] \in Nat
  <2>1. Lengths[t] \in Seq(Nat \ {0})
    BY BenchAssumption
  <2> QED BY <2>1
<1>4. ASSUME NEW k \in DOMAIN ts
      PROVE  ts[k] \in Seq(Activation)
  <2>1. PICK j \in DOMAIN Lengths[t] : ts[k] \in gen_activations(Lengths[t][j])
    BY <1>1
  <2> DEFINE n == Lengths[t][j]
  <2>2. n \in Nat
    BY <1>3
  <2> HIDE DEF n
  <2>3. PICK drawn \in [Len(EdgeCases) + 1 .. n -> Picks] :
           ts[k] = [i \in 1 .. n |-> IF i <= Len(EdgeCases) THEN EdgeCases[i] ELSE drawn[i]]
    BY <2>1 DEF gen_activations, n
  <2>4. Len(EdgeCases) = 4
    BY DEF EdgeCases
  <2>5. ASSUME NEW i \in 1 .. n
        PROVE  (IF i <= Len(EdgeCases) THEN EdgeCases[i] ELSE drawn[i]) \in Activation
    <3>1. CASE i <= 4
      <4>1. i \in 1 .. 4
        BY <2>2, <3>1
      <4> QED BY <1>2, <2>4, <3>1, <4>1
    <3>2. CASE ~(i <= 4)
      <4>1. i \in Len(EdgeCases) + 1 .. n
        BY <2>2, <2>4, <3>2
      <4>2. drawn[i] \in Picks
        BY <4>1
      <4> QED BY <2>4, <3>2, <4>2, PickAssumption
    <3> QED BY <3>1, <3>2
  <2>6. ts[k] \in [1 .. n -> Activation]
    BY <2>3, <2>5
  <2> QED BY <2>2, <2>6
<1>5. ASSUME NEW k \in DOMAIN ts
      PROVE  /\ Beats(ts[k]) \in Seq(Beat) /\ Len(Beats(ts[k])) = Lengths[t][k]
             /\ \A i \in 1 .. Len(Beats(ts[k])) :
                   Beats(ts[k])[i].last = (i = Len(Beats(ts[k])))
  <2> DEFINE s == ts[k]
             L == Len(s)
  <2>1. s \in Seq(Activation) /\ L \in Nat /\ DOMAIN s = 1 .. L /\ L = Lengths[t][k]
    BY <1>1, <1>4
  <2>2. Beats(s) = [i \in 1 .. L |-> [valid |-> TRUE, data |-> s[i], last |-> i = L]]
    BY <2>1 DEF Beats
  <2>3. ASSUME NEW i \in 1 .. L
        PROVE  [valid |-> TRUE, data |-> s[i], last |-> i = L] \in Beat
    <3>1. s[i] \in Activation
      BY <2>1, ElementOfSeq, Zenon
    <3>2. (i = L) \in BOOLEAN
      OBVIOUS
    <3> QED BY <3>1, <3>2 DEF Beat
  <2>4. Beats(s) \in [1 .. L -> Beat]
    BY <2>2, <2>3
  <2>5. Beats(s) \in Seq(Beat) /\ Len(Beats(s)) = L
    BY <2>1, <2>4, LenProperties
  <2>6. ASSUME NEW i \in 1 .. L
        PROVE  Beats(s)[i].last = (i = L)
    BY <2>2
  <2> QED BY <2>1, <2>5, <2>6
<1>6. DOMAIN ts = DOMAIN Lengths[t] /\ DOMAIN bs = DOMAIN ts
  BY <1>1
<1>7. bs \in [DOMAIN Lengths[t] -> Seq(Beat)]
  BY <1>5, <1>6
<1>8. ASSUME NEW k \in DOMAIN bs
      PROVE  /\ Len(bs[k]) = Lengths[t][k]
             /\ \A i \in 1 .. Len(bs[k]) : bs[k][i].last = (i = Len(bs[k]))
  <2>1. k \in DOMAIN ts /\ bs[k] = Beats(ts[k])
    BY <1>6
  <2> QED BY <1>5, <2>1, Zenon
<1> QED BY <1>7, <1>8

\* What the outline says of the statement a test has reached.
LEMMA OnStatement ==
    ASSUME test \in Tests, at \in 1 .. Len(Script)
    PROVE  /\ Rule(test, Here, Op, There) /\ Fitting(Op)
           /\ at + 1 \in 1 .. Len(Script) + 1
<1>1. /\ Len(Scripts[test]) \in Nat \ {0} /\ DOMAIN Scripts[test] = 1 .. Len(Scripts[test])
      /\ \A i \in 1 .. Len(Scripts[test]) :
            Rule(test, Context(test, i), Scripts[test][i], Context(test, i + 1))
  BY OnContext
<1>2. at \in 1 .. Len(Scripts[test]) /\ at \in DOMAIN Scripts[test]
  BY <1>1 DEF Script
<1>3. Rule(test, Here, Op, There)
  BY <1>1, <1>2, Zenon DEF Here, There, Op, Script
<1>4. Fitting(Op)
  <2>1. LET op == Scripts[test][at] IN
          /\ op.kind \in {"send", "recv"} => op.tile \in DOMAIN Lengths[test]
          /\ op.kind = "write" => op.addr \in WrAddrs /\ op.data \in WrData
          /\ op.kind \in {"read", "poll"} => op.addr \in RdAddrs
          /\ op.kind = "read" => op.of = 0 \/ Lengths[test][op.of] < 2^COUNT_W
    BY <1>2, TestAssumption, Zenon
  <2> QED BY <2>1 DEF Fitting, Op, Script
<1> QED BY <1>1, <1>2, <1>3, <1>4 DEF Script

\* From the statement it has reached, a test stays on the outline.
LEMMA OnwardOnOutline ==
    ASSUME test \in Tests, at \in 1 .. Len(Script), test' = test, Onward(Here, Op, There)
    PROVE  OnOutline'
<1>1. PICK t : t = test
  OBVIOUS
<1>2. PICK n : n = at
  OBVIOUS
<1>3. /\ n \in 1 .. Len(Scripts[t]) /\ Len(Scripts[t]) \in Nat \ {0}
      /\ n + 1 \in 1 .. Len(Scripts[t]) + 1
  BY <1>1, <1>2, OnContext DEF Script
<1>4. Here = Context(t, n) /\ There = Context(t, n + 1) /\ Op = Scripts[t][n]
  BY <1>1, <1>2 DEF Here, There, Op, Script
<1>5. Len(Script)' = Len(Scripts[t])
  BY <1>1 DEF Script
<1>6. Onward(Context(t, n), Scripts[t][n], Context(t, n + 1))
  BY <1>4
<1>7. CASE at' = n /\ begun' = TRUE /\ failed' = FALSE
           /\ During(Context(t, n), Scripts[t][n], Context(t, n + 1))'
  <2>1. Here' = Context(t, n) /\ There' = Context(t, n + 1) /\ Op' = Scripts[t][n]
    BY <1>1, <1>7 DEF Here, There, Op, Script
  <2>2. During(Here, Op, There)'
    BY <1>7, <2>1
  <2>3. at' \in 1 .. Len(Script)' + 1 /\ at' <= Len(Script)'
    BY <1>3, <1>5, <1>7
  <2> QED BY <1>7, <2>2, <2>3 DEF OnOutline
<1>8. CASE at' = n + 1 /\ begun' = FALSE /\ failed' = FALSE /\ Between(Context(t, n + 1))'
  <2>1. Here' = Context(t, n + 1)
    BY <1>1, <1>8 DEF Here
  <2>2. Between(Here)'
    BY <1>8, <2>1
  <2>3. at' \in 1 .. Len(Script)' + 1
    BY <1>3, <1>5, <1>8
  <2> QED BY <1>8, <2>2, <2>3 DEF OnOutline
<1> QED BY <1>2, <1>6, <1>7, <1>8 DEF Onward

\* The invariant holds when a test starts.
LEMMA InitBench == BInit => StreamInv /\ BenchInv
<1> SUFFICES ASSUME BInit PROVE StreamInv /\ BenchInv
  OBVIOUS
<1>1. StreamInv
  BY InitStream DEF BInit
<1>2. /\ test \in Tests /\ at = 1 /\ begun = FALSE /\ failed = FALSE /\ aresetn = TRUE
      /\ lag = [ch \in Channels |-> Idle]
      /\ frame = <<>> /\ offered = FALSE /\ pause = 0
      /\ wr = [addr |-> "CTRL", data |-> [word |-> 0, strb |-> TRUE]] /\ ra = "ID"
      /\ driven = FALSE /\ m_axis_tready = FALSE /\ paused = FALSE
      /\ receiving = <<>> /\ frames = <<>> /\ monitoring = FALSE /\ flags = <<>>
  BY DEF BInit, BenchInit
<1>3. PICK ts \in Tiles(test) : tiles = [k \in DOMAIN ts |-> Beats(ts[k])]
  BY DEF BInit
<1>4. /\ tiles \in [DOMAIN Lengths[test] -> Seq(Beat)]
      /\ \A k \in DOMAIN tiles :
            /\ Len(tiles[k]) = Lengths[test][k]
            /\ \A i \in 1 .. Len(tiles[k]) : tiles[k][i].last = (i = Len(tiles[k]))
  <2> DEFINE Carries(t, bs) ==
                /\ bs \in [DOMAIN Lengths[t] -> Seq(Beat)]
                /\ \A k \in DOMAIN bs :
                      /\ Len(bs[k]) = Lengths[t][k]
                      /\ \A i \in 1 .. Len(bs[k]) : bs[k][i].last = (i = Len(bs[k]))
  <2>1. test \in Tests
    BY <1>2
  <2>2. \A t \in Tests : \A s \in Tiles(t) : \A bs :
           bs = [k \in DOMAIN s |-> Beats(s[k])] => Carries(t, bs)
    BY GeneratedTiles, Zenon
  <2> HIDE DEF Carries
  <2>3. Carries(test, tiles)
    BY <1>3, <2>1, <2>2
  <2> QED BY <2>3 DEF Carries
<1>5. BenchTypes
  <2>1. lag \in [Channels -> Int]
    BY <1>2 DEF Idle
  <2>2. wr \in [addr : WrAddrs, data : WrData] /\ ra \in RdAddrs
    BY <1>2, TestAssumption
  <2>3. receiving \in Seq(Activation)
    BY <1>2
  <2>4. {aresetn, begun, offered, driven, m_axis_tready, paused, monitoring} \subseteq BOOLEAN
    BY <1>2
  <2> QED BY <1>2, <1>4, <2>1, <2>2, <2>3, <2>4 DEF BenchTypes
<1>6. /\ Start.up = FALSE /\ Start.flow = TRUE /\ Start.en = TRUE /\ Start.slope = SLOPE_RESET
      /\ Start.driven = FALSE /\ Start.monitoring = FALSE /\ Start.sent = FALSE
      /\ Start.tile = 0 /\ Start.early = "no"
  BY DEF Start
<1>7. /\ aw_pend = FALSE /\ w_pend = FALSE /\ bvalid_q = FALSE /\ rvalid_q = FALSE
      /\ en_reg = TRUE /\ slope_reg = SLOPE_RESET
      /\ out_valid_q = FALSE /\ busy_q = FALSE /\ beats_q = 0 /\ done_q = FALSE /\ count_q = 0
  BY DEF BInit, Init, SlaveInit
<1>8. Ashore(0)
  BY <1>2, <1>7 DEF Ashore
<1>9. StreamAt(Start) /\ FlagsAt(Start) /\ SinkAt(Start) /\ EarlyAt(Start)
  BY <1>2, <1>6, <1>8 DEF StreamAt, FlagsAt, SinkAt, EarlyAt
<1>10. Resting(Start)
  BY <1>2, <1>6, <1>7 DEF Resting, WriteIdle, RegistersAt
<1>11. Between(Start)
  BY <1>2, <1>9, <1>10 DEF Between, Surroundings
<1>12. OnOutline
  <2>1. Context(test, 1) = Start /\ Len(Scripts[test]) \in Nat \ {0}
    BY <1>2, OnContext
  <2>2. Here = Start
    BY <1>2, <2>1 DEF Here
  <2>3. at \in 1 .. Len(Script) + 1
    BY <1>2, <2>1 DEF Script
  <2> QED BY <1>2, <1>11, <2>2, <2>3 DEF OnOutline
<1> QED BY <1>1, <1>5, <1>12 DEF BenchInv

\* What a test may rely on is a context, up to the one in which it ends.
LEMMA HereContext ==
    ASSUME test \in Tests, at \in 1 .. Len(Script) + 1
    PROVE  Here \in Contexts
<1>1. /\ Len(Scripts[test]) \in Nat \ {0}
      /\ \A i \in 1 .. Len(Scripts[test]) :
            Rule(test, Context(test, i), Scripts[test][i], Context(test, i + 1))
  BY OnContext
<1>2. PICK n : n = Len(Scripts[test])
  OBVIOUS
<1>3. CASE at \in 1 .. n
  BY <1>1, <1>2, <1>3 DEF Rule, Here
<1>4. CASE at = n + 1
  <2>1. n \in 1 .. Len(Scripts[test])
    BY <1>1, <1>2
  <2>2. Rule(test, Context(test, n), Scripts[test][n], Context(test, n + 1))
    BY <1>1, <2>1
  <2> QED BY <1>4, <2>2 DEF Rule, Here
<1>5. at \in 1 .. n \/ at = n + 1
  <2>1. Len(Scripts[test]) \in Nat \ {0}
    BY <1>1
  <2> QED BY <1>2, <2>1 DEF Script
<1> QED BY <1>3, <1>4, <1>5

\* Nothing moves.
Still ==
    /\ StillStream
    /\ UNCHANGED <<left, aresetn, lag, wr, ra, driven, m_axis_tready, paused, monitoring>>
    /\ UNCHANGED <<aw_pend, w_pend, aw_addr_q, w_data_q, bvalid_q, rvalid_q, rdata_q,
                   en_reg, slope_reg>>

\* Nothing moves while no access is under way.
LEMMA RestingStill ==
    ASSUME Still, NEW c \in Contexts, Resting(c)
    PROVE  Resting(c)'
BY StreamStill DEF Still, Resting

\* Nothing moves between two statements.
LEMMA BetweenStill ==
    ASSUME Still, NEW c \in Contexts, Between(c)
    PROVE  Between(c)'
<1>1. Surroundings(c)' /\ EarlyAt(c)' /\ Resting(c)'
  BY SurroundingsStill, StreamStill, RestingStill DEF Still, Between
<1> QED BY <1>1 DEF Between, Still

\* Nothing moves during a statement.
LEMMA DuringStill ==
    ASSUME Still, NEW c \in Contexts, NEW op, NEW d, During(c, op, d)
    PROVE  During(c, op, d)'
<1>1. Surroundings(c)'
  BY SurroundingsStill DEF Still, During
<1>2. aresetn' = aresetn /\ left' = left
  BY DEF Still
<1>3. CASE op.kind \in {"reset", "edges"} /\ left \in 1 .. op.edges /\ Resting(c) /\ EarlyAt(c)
  <2>1. Resting(c)' /\ EarlyAt(c)'
    BY <1>3, RestingStill, StreamStill DEF Still
  <2> QED BY <1>1, <1>2, <1>3, <2>1 DEF During
<1>4. CASE op.kind \in {"read", "poll"} /\ Reading(c, op)
  <2>1. WriteIdle' /\ RegistersAt(c)' /\ Accepted' = Accepted
    BY <1>4, StreamStill, TileStill DEF Still, Reading
  <2>2. tiles' = tiles /\ offered' = offered /\ rdata_q' = rdata_q /\ lag' = lag /\ ra' = ra
        /\ rvalid_q' = rvalid_q
    BY DEF Still, StillStream, StillAccelerator
  <2>3. Good(op)' <=> Good(op)
    BY <2>2 DEF Good, Accepts
  <2>4. Streaming(c, Accepted) => Streaming(c, Accepted)'
    <3>1. ASSUME Streaming(c, Accepted) PROVE Streaming(c, Accepted)'
      <4>1. Flying(c.tile, c.slope)'
        BY <3>1, TileStill DEF Streaming, Still
      <4> QED BY <2>1, <2>2, <3>1, <4>1 DEF Streaming
    <3> QED BY <3>1
  <2>5. Reading(c, op)'
    BY <1>4, <2>1, <2>2, <2>3, <2>4 DEF Reading
  <2> QED BY <1>1, <1>2, <1>4, <2>5 DEF During
<1>5. CASE op.kind = "write" /\ Writing(c, op, d)
  <2>1. Writing(c, op, d)'
    BY <1>5 DEF Writing, Still, RegistersAt
  <2> QED BY <1>1, <1>2, <1>5, <2>1 DEF During
<1>6. CASE op.kind = "recv" /\ Resting(c)
  <2>1. Resting(c)'
    BY <1>6, RestingStill
  <2> QED BY <1>1, <1>2, <1>6, <2>1 DEF During
<1> QED BY <1>3, <1>4, <1>5, <1>6 DEF During

\* Every step of the testbench keeps it.
LEMMA NextBench == StreamInv /\ BenchInv /\ [BNext]_allVars => (StreamInv /\ BenchInv)'
<1> SUFFICES ASSUME StreamInv, BenchInv, [BNext]_allVars
             PROVE  (StreamInv /\ BenchInv)'
  OBVIOUS
<1>1. /\ BenchTypes /\ OnOutline /\ test \in Tests /\ failed = FALSE
      /\ at \in 1 .. Len(Script) + 1 /\ begun \in BOOLEAN
      /\ IF begun THEN at <= Len(Script) /\ During(Here, Op, There) ELSE Between(Here)
  BY DEF BenchInv, BenchTypes, OnOutline
<1>2. ASSUME Running PROVE at \in 1 .. Len(Script)
  <2>1. Len(Script) \in Nat
    BY <1>1, OnContext DEF Script
  <2> QED BY <1>1, <1>2, <2>1 DEF Running
<1>3. CASE Statement
  <2>1. at \in 1 .. Len(Script) /\ begun = FALSE
    BY <1>1, <1>2, <1>3 DEF Statement
  <2>2. Rule(test, Here, Op, There) /\ Fitting(Op) /\ Between(Here)
    BY <1>1, <2>1, OnStatement
  <2>3. StatementIn(Op) /\ UNCHANGED vars
    BY <1>3 DEF Statement, StatementIn, Op
  <2>4. StreamInv'
    BY <2>3, NextStream
  <2>5. Onward(Here, Op, There) /\ BenchTypes' /\ test' = test
    BY <1>1, <2>1, <2>2, <2>3, StatementStep
  <2>6. OnOutline'
    BY <1>1, <2>1, <2>5, OnwardOnOutline
  <2> QED BY <2>4, <2>5, <2>6 DEF BenchInv
<1>4. CASE Edge
  <2>1. at \in 1 .. Len(Script) /\ begun = TRUE
    BY <1>1, <1>2, <1>4 DEF Edge
  <2>2. Rule(test, Here, Op, There) /\ Fitting(Op) /\ During(Here, Op, There)
    BY <1>1, <2>1, OnStatement
  <2>3. EdgeIn(Op)
    BY <1>4 DEF Edge, EdgeIn, Op
  <2>4. Onward(Here, Op, There) /\ StreamInv' /\ BenchTypes' /\ test' = test
    BY <1>1, <2>1, <2>2, <2>3, EdgeStep
  <2>5. OnOutline'
    BY <1>1, <2>1, <2>4, OnwardOnOutline
  <2> QED BY <2>4, <2>5 DEF BenchInv
<1>5. CASE UNCHANGED allVars
  <2>1. UNCHANGED <<vars, benchVars, sinkVars>>
    BY <1>5 DEF allVars
  <2>2. StreamInv'
    BY <2>1, NextStream
  <2>3. UNCHANGED <<test, tiles, at, begun, left, failed, aresetn, lag, wr, ra, frame,
                    offered, pause, driven, m_axis_tready, paused, receiving, frames,
                    monitoring, flags>>
    BY <2>1 DEF benchVars, scriptVars, pinVars, sinkVars
  <2>4. UNCHANGED <<aw_pend, w_pend, aw_addr_q, w_data_q, bvalid_q, rvalid_q, rdata_q,
                    en_reg, slope_reg, out_valid_q, out_data_q, out_last_q,
                    busy_q, done_q, beats_q, count_q>>
    BY <2>1 DEF vars, slaveVars, regVars, outVars, tileVars
  <2>5. BenchTypes'
    BY <1>1, <2>3 DEF BenchTypes
  <2>6. OnOutline'
    <3>1. Still
      BY <2>1, <2>3, <2>4 DEF Still, StillStream, StillAccelerator
    <3>2. at' = at /\ begun' = begun /\ failed' = FALSE /\ Len(Script)' = Len(Script)
      BY <1>1, <2>3 DEF Script
    <3>3. Here' = Here /\ There' = There /\ Op' = Op
      BY <2>3 DEF Here, There, Op, Script
    <3>4. CASE begun
      <4>1. at <= Len(Script) /\ During(Here, Op, There)
        BY <1>1, <3>4
      <4>2. During(Here, Op, There)'
        <5>1. PICK c \in Contexts : c = Here
          BY <1>1, HereContext
        <5>2. PICK op : op = Op
          OBVIOUS
        <5>3. PICK d : d = There
          OBVIOUS
        <5>4. During(c, op, d)'
          BY <3>1, <4>1, <5>1, <5>2, <5>3, DuringStill
        <5> QED BY <3>3, <5>1, <5>2, <5>3, <5>4
      <4> QED BY <1>1, <3>2, <3>4, <4>1, <4>2 DEF OnOutline
    <3>5. CASE ~begun
      <4>1. Between(Here)
        BY <1>1, <3>5
      <4>2. Between(Here)'
        <5>1. PICK c \in Contexts : c = Here
          BY <1>1, HereContext
        <5>2. Between(c)'
          BY <3>1, <4>1, <5>1, BetweenStill
        <5> QED BY <3>3, <5>1, <5>2
      <4> QED BY <1>1, <3>2, <3>5, <4>2 DEF OnOutline
    <3> QED BY <3>4, <3>5
  <2> QED BY <2>2, <2>5, <2>6 DEF BenchInv
<1> QED BY <1>3, <1>4, <1>5 DEF BNext, Over

\* No assertion of any test fails.
THEOREM TestbenchSound == BSpec => []AssertionsHold
<1>1. StreamInv /\ BenchInv => AssertionsHold
  BY DEF BenchInv, OnOutline, AssertionsHold
<1> QED BY <1>1, InitBench, NextBench, PTL DEF BSpec

\* What holds of the accelerator in its own environment holds of it in the
\* testbench, whose tiles are longer and whose sink need not be asked.
THEOREM AcceleratorInBench ==
    BSpec => [](OneResponsePerWrite /\ StreamIsGolden /\ BusySpansTile /\ SerialCountIsExact)
<1>1. StreamInv => OneResponsePerWrite /\ StreamIsGolden /\ BusySpansTile /\ SerialCountIsExact
  BY DEF StreamInv, WriteChannelInv
<1> QED BY <1>1, InitBench, NextBench, PTL DEF BSpec
=============================================================================
