------------------------------ MODULE AxiBench ------------------------------
(***************************************************************************)
(* What the testbenches of tb/ share: a cocotb test, a coroutine that      *)
(* drives an accelerator's ports, against the clock that moves the         *)
(* accelerator.  A test is a sequence of statements.  Python runs in zero  *)
(* time up to the next await; the clock ticks only while every coroutine   *)
(* awaits it.  A value read right after an edge is the one from before it. *)
(*                                                                         *)
(* The AXI4-Lite master is cocotbext's AxiLiteMaster, external: it keeps   *)
(* its channels apart and may present each request up to MAX_LAG cycles    *)
(* late; or the testbench's own RawAxiLite, which presents it at once.     *)
(* The stream source is cocotbext's AxiStreamSource.                       *)
(***************************************************************************)
EXTENDS AxiLiteSlave

CONSTANTS Tests,         \* the tests to run
          Lengths,       \* per test, the lengths of its tiles
          MAX_LAG,       \* bound: cycles AxiLiteMaster may be late on a channel
          POLL_LIMIT,    \* the testbenches' own bound on a poll loop
          RESET_EDGES,   \* edges with aresetn low
          PausePattern   \* cycle_pauses: the stall pattern of the stream source

ASSUME BenchAssumption == /\ {MAX_LAG, POLL_LIMIT, RESET_EDGES} \subseteq Nat
                          /\ POLL_LIMIT > 0 /\ RESET_EDGES > 0
                          /\ PausePattern \in Seq(BOOLEAN) \ {<<>>}
                          /\ Lengths \in [Tests -> Seq(Nat \ {0})]

VARIABLES
    test, tiles,   \* the test that runs, and the operands it generated
    at, begun,     \* its current statement; does it await the clock in it?
    left, polls,   \* edges left of a loop over edges; polls made by a poll loop
    failed,        \* an assertion has failed, which ends the test
    aresetn,
    lag,           \* per channel: cycles until the master is on it, or Idle
    wr, ra,        \* the write and the read address on the master's pins
    frame,         \* beats the stream source still has to hand over
    offered,       \* s_axis_tvalid
    pause          \* position in the stall pattern, 0 without a pause generator

scriptVars == <<test, tiles, at, begun, left, polls, failed, aresetn>>
pinVars    == <<lag, wr, ra, frame, offered, pause>>
benchVars  == <<scriptVars, pinVars>>

-----------------------------------------------------------------------------
(* The AXI4-Lite master                                                    *)

Idle == -1
Channels == {"aw", "w", "b", "ar", "r"}

Lags(from) == from .. from + MAX_LAG

\* Cycles until each channel is presented, for a write, a read, or both at once.
\* Both masters keep the readies of the responses up; RawAxiLite presents a read
\* where it is called.
WriteLags(lite) == IF lite = "raw" THEN {[aw |-> 1, w |-> 1, b |-> 0]}
                   ELSE [aw : Lags(1), w : Lags(1), b : {0}]
ReadLags(lite)  == IF lite = "raw" THEN {[ar |-> 0, r |-> 0]}
                   ELSE [ar : Lags(1), r : {0}]
RaceLags        == {[aw |-> 1, w |-> 1, b |-> 0, ar |-> 1, r |-> 0]}

AwPin == [valid |-> lag["aw"] = 0, addr |-> wr.addr]
WPin  == [valid |-> lag["w"] = 0, data |-> wr.data]
BPin  == lag["b"] = 0
ArPin == [valid |-> lag["ar"] = 0, addr |-> ra]
RPin  == lag["r"] = 0

\* The channel's other side, as ReadOnly samples it before the edge.
Answers(c) == CASE c = "aw" -> s_axi_awready [] c = "w" -> s_axi_wready
                [] c = "b" -> bvalid_q [] c = "ar" -> s_axi_arready [] c = "r" -> rvalid_q

\* A channel after the edge: a transfer that is answered leaves it idle.
AfterEdge(c) == IF lag[c] > 0 THEN lag[c] - 1
                ELSE IF lag[c] = 0 /\ Answers(c) THEN Idle ELSE lag[c]

Settled(channels) == \A c \in channels : AfterEdge(c) = Idle

-----------------------------------------------------------------------------
(* Statements.  A read accepts the words in want, or the result of tile of *)
(* if that is not 0.  A poll loop reads STATUS until DONE and asserts that *)
(* DONE comes within POLL_LIMIT polls, that BUSY is clear by then, both or *)
(* neither; its body is the next statements, run after each poll that      *)
(* shows no DONE, the last of them a Loop.                                 *)

Write(lite, reg, data) ==
    [kind |-> "write", lags |-> WriteLags(lite), addr |-> reg, data |-> data,
     awaits |-> IF lite = "raw" THEN {"aw", "w"} ELSE {"aw", "w", "b"}]
Read(lite, reg, want) ==
    [kind |-> "read", lags |-> ReadLags(lite), awaits |-> {"ar", "r"}, addr |-> reg,
     want |-> want, of |-> 0]
ReadResult(lite, reg, k) == [Read(lite, reg, {}) EXCEPT !.of = k]
Race(wreg, data, reg, want) ==
    [kind |-> "race", lags |-> RaceLags, awaits |-> {"aw", "w", "ar", "r"},
     waddr |-> wreg, data |-> data, addr |-> reg, want |-> want, of |-> 0]
Poll(lite, asserts, body) ==
    [kind |-> "poll", lags |-> ReadLags(lite), awaits |-> {"ar", "r"}, addr |-> "STATUS",
     asserts |-> asserts, body |-> body]
Loop(back)       == [kind |-> "loop", back |-> back]
Send(k)          == [kind |-> "send", tile |-> k]
Pauses           == [kind |-> "pauses"]
StreamClear      == [kind |-> "stream_clear"]
Edges(n)         == [kind |-> "edges", edges |-> n, stalled |-> FALSE]
\* The same, asserting on every edge that s_axis_tready is low.
StalledEdges(n)  == [kind |-> "edges", edges |-> n, stalled |-> TRUE]
ResetEdges       == [kind |-> "reset", edges |-> RESET_EDGES]

-----------------------------------------------------------------------------
(* How a test moves                                                        *)

Proceed(n, ok) == /\ at' = at + n /\ begun' = FALSE /\ left' = 0
                  /\ failed' = (failed \/ ~ok)
Stay(l) == left' = l /\ UNCHANGED <<at, begun, failed>>

\* Zero time: a statement that awaits nothing, or goes as far as its await.
Issue(op) ==
    /\ op.kind \in {"write", "read", "race", "poll"}
    /\ begun' = TRUE
    /\ \E new \in op.lags :
          lag' = [c \in Channels |-> IF c \in DOMAIN new THEN new[c] ELSE lag[c]]
    /\ wr' = CASE op.kind = "write" -> [addr |-> op.addr, data |-> op.data]
               [] op.kind = "race"  -> [addr |-> op.waddr, data |-> op.data]
               [] OTHER             -> wr
    /\ ra' = IF op.kind = "write" THEN ra ELSE op.addr
    /\ UNCHANGED <<at, left, polls, failed, aresetn, frame, offered, pause>>

Await(op) ==
    /\ op.kind \in {"edges", "reset"}
    /\ begun' = TRUE /\ left' = op.edges
    /\ aresetn' = (op.kind # "reset")
    /\ UNCHANGED <<at, polls, failed, pinVars>>

\* frames[k] is tile k as a frame: its last beat carries tlast.
Stream(op, frames) ==
    /\ \/ op.kind = "send" /\ frame' = frame \o frames[op.tile] /\ UNCHANGED pause
       \/ op.kind = "stream_clear" /\ frame' = <<>> /\ UNCHANGED pause
       \/ op.kind = "pauses" /\ pause' = 1 /\ UNCHANGED frame
    /\ Proceed(1, TRUE)
    /\ UNCHANGED <<polls, aresetn, lag, wr, ra, offered>>

Jump(op) == /\ op.kind = "loop" /\ Proceed(-op.back, TRUE)
            /\ UNCHANGED <<polls, aresetn, pinVars>>

Immediate(op, frames) == /\ UNCHANGED <<test, tiles>>
                         /\ Issue(op) \/ Await(op) \/ Stream(op, frames) \/ Jump(op)

\* An edge: a register access that has settled, and what its test makes of it.
\* accepts: does the test accept the word that was read?
AccessEdge(op, accepts) ==
    /\ op.kind \in {"write", "read", "race"}
    /\ IF ~Settled(op.awaits) THEN Stay(left)
       ELSE Proceed(1, op.kind = "write" \/ accepts)
    /\ UNCHANGED <<polls, aresetn>>

StatusBit(n) == (rdata_q \div 2^n) % 2 = 1

PollEdge(op) ==
    LET done == StatusBit(1)
        spent == polls + 1 = POLL_LIMIT
    IN  /\ op.kind = "poll" /\ UNCHANGED aresetn
        /\ IF ~Settled(op.awaits) THEN Stay(left) /\ UNCHANGED polls
           ELSE IF done THEN Proceed(1 + op.body, "idle" \in op.asserts => ~StatusBit(0))
                        /\ polls' = 0
           ELSE IF spent THEN Proceed(1 + op.body, "done" \notin op.asserts) /\ polls' = 0
           ELSE Proceed(IF op.body = 0 THEN 0 ELSE 1, TRUE) /\ polls' = polls + 1

\* ready is s_axis_tready as the loop samples it.
LoopEdge(op, ready) ==
    LET ok == op.kind = "edges" => ~(op.stalled /\ ready) IN
    /\ op.kind \in {"edges", "reset"}
    /\ IF left > 1 /\ ok THEN Stay(left - 1) ELSE Proceed(1, ok)
    /\ aresetn' = (aresetn \/ left = 1)
    /\ UNCHANGED polls

\* Every edge moves the master's channels and the source.  The source holds a
\* beat it offers until it is taken; reset withdraws it, and the frame with it
\* unless nothing of it was offered yet.
SourceEdge(ready) ==
    LET taken == offered /\ ready
        rest  == IF taken THEN Tail(frame) ELSE frame
        held  == offered /\ ~taken
        stall == pause # 0 /\ PausePattern[pause]
    IN  /\ pause' = IF pause = 0 THEN 0 ELSE (pause % Len(PausePattern)) + 1
        /\ IF aresetn THEN /\ frame' = rest
                           /\ offered' = (rest # <<>> /\ (held \/ ~stall))
           ELSE /\ frame' = IF offered THEN <<>> ELSE frame
                /\ offered' = FALSE

ChannelEdge == lag' = [c \in Channels |-> AfterEdge(c)]

\* The pins and the test on an edge: ready is s_axis_tready before it, sampled
\* what a loop over edges reads of it.
BenchEdge(op, ready, sampled, accepts) ==
    /\ ChannelEdge
    /\ SourceEdge(ready)
    /\ AccessEdge(op, accepts) \/ PollEdge(op) \/ LoopEdge(op, sampled)
    /\ UNCHANGED <<test, tiles, wr, ra>>

BenchInit ==
    /\ at = 1 /\ begun = FALSE /\ left = 0 /\ polls = 0 /\ failed = FALSE
    /\ aresetn = TRUE
    /\ lag = [c \in Channels |-> Idle]
    /\ frame = <<>> /\ offered = FALSE /\ pause = 0
=============================================================================
