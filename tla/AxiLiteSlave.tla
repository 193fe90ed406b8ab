---------------------------- MODULE AxiLiteSlave ----------------------------
(***************************************************************************)
(* The AXI4-Lite slave that rtl/sparse_cnn_axi.sv and rtl/relu_axi.sv each *)
(* spell out in the same words: a write channel that captures address and  *)
(* data independently and applies them together, and a read channel with   *)
(* one registered response.  Registers and their effects belong to the     *)
(* module that extends this one.                                           *)
(*                                                                         *)
(* The master is the environment: on each edge it may present any address, *)
(* data or ready.  A valid that meets no ready changes nothing, so a port  *)
(* is offered a transfer only while the slave is ready for it.             *)
(***************************************************************************)
EXTENDS Integers, Sequences

CONSTANTS AXIL_DATA_W,  \* accel_contract_pkg: width of the data bus
          WrAddrs,      \* registers the master writes
          WrData,       \* words, with their strobes, the master writes
          RdAddrs       \* registers the master reads

ASSUME BusWidth == AXIL_DATA_W \in Nat \ {0}

Words == 0 .. 2^AXIL_DATA_W - 1

VARIABLES
    aw_pend, w_pend,      \* an address / a word is held, waiting for the other
    aw_addr_q, w_data_q,  \* the last address and word captured
    bvalid_q,             \* a write response is outstanding
    rvalid_q, rdata_q,    \* a read response is outstanding, and its word
    \* history: what the ports have seen; no register of the design
    awq,         \* addresses accepted and not yet paired with their data
    wq,          \* words accepted and not yet paired with their address
    applied,     \* writes completed on the last edge, as the master issued them
    unanswered,  \* writes completed whose response the master has not taken
    rd_reg       \* register the last accepted read addressed

slaveVars == <<aw_pend, w_pend, aw_addr_q, w_data_q, bvalid_q, rvalid_q, rdata_q,
               awq, wq, applied, unanswered, rd_reg>>

-----------------------------------------------------------------------------
(* Write channel                                                           *)

s_axi_awready == ~aw_pend /\ ~bvalid_q
s_axi_wready  == ~w_pend /\ ~bvalid_q

aw_fire(aw) == aw.valid /\ s_axi_awready
w_fire(w)   == w.valid /\ s_axi_wready

wr_commit(aw, w) == (aw_pend \/ aw_fire(aw)) /\ (w_pend \/ w_fire(w))
wr_addr(aw)      == IF aw_pend THEN aw_addr_q ELSE aw.addr
wr_data(w)       == IF w_pend THEN w_data_q ELSE w.data

\* A write to register reg commits on this edge.
reg_wr(aw, w, reg) == wr_commit(aw, w) /\ wr_addr(aw) = reg

\* Mutant: what came first is not held until its other half comes.
WriteChannelForgets(aw, w, bready) ==
    /\ aw_addr_q' = IF aw_fire(aw) THEN aw.addr ELSE aw_addr_q
    /\ w_data_q'  = IF w_fire(w) THEN w.data ELSE w_data_q
    /\ aw_pend'   = (~wr_commit(aw, w) /\ aw_fire(aw))
    /\ w_pend'    = (~wr_commit(aw, w) /\ w_fire(w))
    /\ bvalid_q'  = IF bvalid_q /\ bready THEN FALSE
                    ELSE bvalid_q \/ wr_commit(aw, w)

\* The last assignment of the block wins: a response taken on this edge clears
\* bvalid_q even if a write commits on it.
WriteChannel(aw, w, bready) ==
    /\ aw_addr_q' = IF aw_fire(aw) THEN aw.addr ELSE aw_addr_q
    /\ w_data_q'  = IF w_fire(w) THEN w.data ELSE w_data_q
    /\ aw_pend'   = (~wr_commit(aw, w) /\ (aw_pend \/ aw_fire(aw)))
    /\ w_pend'    = (~wr_commit(aw, w) /\ (w_pend \/ w_fire(w)))
    /\ bvalid_q'  = IF bvalid_q /\ bready THEN FALSE
                    ELSE bvalid_q \/ wr_commit(aw, w)

-----------------------------------------------------------------------------
(* Read channel: word is what the register multiplexer shows on this edge. *)

s_axi_arready == ~rvalid_q

ar_fire(ar) == ar.valid /\ s_axi_arready

ReadChannel(ar, rready, word) ==
    /\ rdata_q'  = IF ar_fire(ar) THEN word ELSE rdata_q
    /\ rvalid_q' = (ar_fire(ar) \/ (rvalid_q /\ ~rready))

Bit(b, n) == IF b THEN 2^n ELSE 0

-----------------------------------------------------------------------------
(* History                                                                 *)

Queued(q, fires, item) == IF fires THEN Append(q, item) ELSE q

\* A write happens when both its address and its data have been accepted, the
\* k-th address with the k-th data, whichever came first.
SlaveHistory(aw, w, bready, ar) ==
    LET awAll  == Queued(awq, aw_fire(aw), aw.addr)
        wAll   == Queued(wq, w_fire(w), w.data)
        paired == awAll # <<>> /\ wAll # <<>>
    IN  /\ awq' = IF paired THEN Tail(awAll) ELSE awAll
        /\ wq'  = IF paired THEN Tail(wAll) ELSE wAll
        /\ applied' = IF paired THEN {[addr |-> Head(awAll), data |-> Head(wAll)]}
                      ELSE {}
        /\ unanswered' = unanswered + (IF paired THEN 1 ELSE 0)
                                    - (IF bvalid_q /\ bready THEN 1 ELSE 0)
        /\ rd_reg' = IF ar_fire(ar) THEN ar.addr ELSE rd_reg

-----------------------------------------------------------------------------
(* Edges of the two channels, for the module that extends this one.        *)

\* The address and data registers have no reset value.
SlaveInit ==
    /\ aw_pend = FALSE /\ w_pend = FALSE /\ bvalid_q = FALSE
    /\ aw_addr_q \in WrAddrs /\ w_data_q \in WrData
    /\ rvalid_q = FALSE /\ rdata_q = 0
    /\ awq = <<>> /\ wq = <<>> /\ applied = {} /\ unanswered = 0
    /\ rd_reg = "NONE"

SlaveReset ==
    /\ aw_pend' = FALSE /\ w_pend' = FALSE /\ bvalid_q' = FALSE
    /\ UNCHANGED <<aw_addr_q, w_data_q>>
    /\ rvalid_q' = FALSE /\ rdata_q' = 0
    /\ awq' = <<>> /\ wq' = <<>> /\ applied' = {} /\ unanswered' = 0
    /\ rd_reg' = "NONE"

SlaveEdge(aw, w, bready, ar, rready, word) ==
    /\ WriteChannel(aw, w, bready)
    /\ ReadChannel(ar, rready, word)
    /\ SlaveHistory(aw, w, bready, ar)

\* What each port may carry: nothing, or a transfer while the slave is ready.
Offer(ready, idle, transfers) == {idle} \cup (IF ready THEN transfers ELSE {})

AwPort == Offer(s_axi_awready, [valid |-> FALSE, addr |-> aw_addr_q],
                [valid : {TRUE}, addr : WrAddrs])
WPort  == Offer(s_axi_wready, [valid |-> FALSE, data |-> w_data_q],
                [valid : {TRUE}, data : WrData])
BPort  == Offer(bvalid_q, FALSE, {TRUE})
ArPort == Offer(s_axi_arready, [valid |-> FALSE, addr |-> rd_reg],
                [valid : {TRUE}, addr : RdAddrs])
RPort  == Offer(rvalid_q, FALSE, {TRUE})

-----------------------------------------------------------------------------
(* Properties                                                              *)

SlaveTypeOK ==
    /\ aw_pend \in BOOLEAN /\ w_pend \in BOOLEAN /\ bvalid_q \in BOOLEAN
    /\ aw_addr_q \in WrAddrs /\ w_data_q \in WrData
    /\ rvalid_q \in BOOLEAN /\ rdata_q \in Words
    /\ awq \in Seq(WrAddrs) /\ wq \in Seq(WrData)
    /\ applied \in SUBSET [addr : WrAddrs, data : WrData]
    /\ unanswered \in Int /\ rd_reg \in RdAddrs \cup {"NONE"}

\* The write channel answers every write exactly once: a response is
\* outstanding exactly while one completed write is unanswered, whatever order
\* address and data arrive in and however long the master withholds bready.
OneResponsePerWrite == unanswered = IF bvalid_q THEN 1 ELSE 0
=============================================================================
