# A model of zynq-rtl-flow in TLA+

TLA+ specifications of the parts of zynq-rtl-flow whose correctness is a matter of
order: the two accelerators clock edge by clock edge, the testbenches that run against them, the
kernel driver that moves tiles through them, the script that talks to the driver, and the build
flow that packages a design and its device tree. TLC checks small instances; TLAPS proves the
results of section 6 for every value of the constants. Paths below are relative to the
repository (`src/`).

## 1. The system

A module written in SystemVerilog that honours `docs/accelerator-contract.md` (a clock,
an AXI4-Lite slave with an ID register, an AXI4-Stream slave, optionally a stream
master) is simulated, synthesised, packaged as an overlay and driven from Linux. Two
accelerators exist: a sparse MAC (*simplex*: a tile goes in, two registers hold the
result) and a Leaky ReLU (*duplex*: a tile goes in, a tile comes out).

```
  process ── write()/read()/sysfs ──> driver/accel_transport.c ── dmaengine ──> AXI DMA
                                        │  sparse_cnn.c / relu.c                  │ streams
                                        └── readl/writel over AXI4-Lite ──> rtl/*_axi.sv
```

| part | state | operations | what is hard | what makes it correct |
|---|---|---|---|---|
| AXI4-Lite slave (in both `rtl/*_axi.sv`) | pending address, pending data, response bits, read word | one clock edge | address and data in either order; a response outstanding while the next write starts | each write applied once, with its own data, answered once |
| `rtl/sparse_mac_pe.sv` | accumulator, skip counter, valid bit | one edge: freeze, clear, accumulate, skip | wrapping, clear against valid | the golden model, modulo the widths |
| `rtl/sparse_cnn_axi.sv` | CTRL pulses and EN, FSM, DONE, ACC, SKIP, the PE | START, CLEAR, EN, beats, STATUS reads, reset | all of them on the same edge | no beat lost or doubled; ACC and SKIP one whole tile's; STATUS never stale; no wedge |
| `rtl/relu_unit.sv` | none | one product, one shift | rounding and the extreme product | the golden model; monotone |
| `rtl/relu_axi.sv` | EN, SLOPE, a one-beat output register, BUSY, DONE, beat counter, COUNT | beats in, beats out, register writes, reset | a beat in and a beat out on one edge; the sink stalls; EN and SLOPE change mid-tile | every beat out once, in order; BUSY spans the pipeline; COUNT is a tile's length |
| `driver/accel_transport.c` | mutex, receive and transmit buffers, two DMA channels, on-stack completions | `write`, `read`, the tile path | every step can fail; a callback can be late; signals; several processes | no callback into a dead frame; the lock always released; a tile is a transaction |
| `driver/sparse_cnn.c`, `driver/relu.c` | last result; slope | accept, start, finish, result, `slope_store` | a tile that timed out half way; a store in the middle of a tile; the sticky DONE | the same transaction seen from user space |
| driver probe (`accel_probe` and both layers' probes) | managed resources, driver data, device node, attribute group | bind, each acquisition, unbind | failure between two acquisitions; processes already inside | what was taken is released, in reverse order; what is published is usable |
| overlay generator (`flows/embedded/overlay.py`) | none: a device tree in, a device tree out | splice, align interrupts, link the DMA client, check references | an interrupt nothing drives; a channel with no port; a node for another design | every node is one the driver can use |
| build flow (`flows/embedded/*.sh`, `*.tcl`) | artefacts of the build directory | impl, bitstream, xsa, boot, overlay, clean-synth | an artefact of an earlier selection or a failed run reused | what is packaged is one build, of the accelerator it is named after |
| testbenches (`tb/*/tb_*.py`) | the coroutines of a test: statement, AXI channels in flight, queued frames, pause generators, monitors | register access, `send`, `recv`, poll, reset | when a read samples against when a register changes; coroutines that wake on the same edge; waits without a limit | no assertion fails of a correct design; every test ends |
| tile runner (`driver/run-tile.py`) | the open device, the round, the interrupt count | store the slope, write, read, compare | three system calls that nothing makes one; any of them raises | a bad verdict is the accelerator's; the device is closed; the script ends |
| board network (`scripts/provision-board-net.sh`) | an interface's link and addresses | up, down, status | `down` flushes every address | not modelled, see section 8 |
| test runners, lint/wave/regression scripts, containers, HLS wrappers, SEC | none of their own | — | — | not modelled, see section 8 |

## 2. Modules

| module | models | how |
|---|---|---|
| `TwosComplement` | register widths | `SignedRange`, `Signed`, `Unsigned`: assignment into a register of a given width |
| `AxiLiteSlave` | the write and read channels, which the two wrappers spell out in the same words | one operator per `always_ff` block; both wrappers extend it |
| `SparseMacPe` | the PE and `tb/model/sparse_mac_model.py` | `PeEdge` is one edge; `Golden`, `Expected` are the reference |
| `SparseCnnAxi` | `sparse_cnn_axi.sv` | `Cycle(ports)` conjoins the blocks, which all read pre-edge values; `Reset` is an edge with `aresetn` low, in any state |
| `ReluUnit` | `relu_unit.sv` and `tb/model/relu_model.py` | operators |
| `ReluAxi` | `relu_axi.sv` | as `SparseCnnAxi` |
| `TileDevice` | nothing in the code: the abstract specification of a tile device | `Begin`, `Commit`, `Abort`, `Read`, `Store` |
| `AccelTransport` | `accel_transport.c` and the dmaengine as it uses it | a program counter per process; each call out of the driver is one action |
| `SparseCnnDriver`, `ReluDriver` | the two register layers, with the accelerator at the level of registers and beats | extend `AccelTransport`; `Device == INSTANCE TileDevice WITH ...` |
| `AxiBench` | what the testbenches share: the statements of a test, the AXI4-Lite master, the stream source, the poll loop | extends `AxiLiteSlave`, whose ports it drives |
| `SparseCnnBench` | `tb_sparse_cnn_axi.py`, its 15 tests, and `tb_sparse_mac_pe.py`, its 5 | extends `SparseCnnAxi` and `AxiBench`: an edge of the bench is `Cycle` with the bench's pins |
| `ReluBench` | `tb_relu_axi.py`, its 11 tests, sink and monitor | extends `ReluAxi` and `AxiBench` |
| `SparseCnnOutline`, `ReluOutline` | nothing in the code: the proof outlines of those 20 and 11 tests | extend `SparseCnnBench` and `ReluBench`; what a test may rely on at each statement, and the invariant |
| `RunTile` | `run-tile.py` against the Leaky ReLU driver | extends `ReluDriver`: the script is one of the processes |
| `AccelProbe` | `accel_probe`, `accel_claim_stream`, both layers' probes, `relu_group`, with devres and the two ways in as they use them | one action per acquisition and per registered release; any may fail |
| `Overlay` | `overlay.py`, and the ports `bd/system.tcl` connects | operators on device-tree nodes; the generator is an external definition with the spellings it may use (`Styles`) |
| `BuildFlow` | `impl`, `bitstream`, `xsa`, `boot`, `overlay` and the scripts they run | one artefact per variable, holding the build it is of; a command is a sequence of steps, each of which may fail |
| `MC*` | small instances for TLC | constants only |
| `AxiLiteSlaveProofs`, `SparseCnnAxiProofs`, `ReluAxiProofs`, `AccelTransportProofs`, `SparseCnnDriverProofs`, `ReluDriverProofs`, `AccelProbeProofs`, `BuildFlowProofs` | — | theorems; `AxiLiteSlaveProofs` also holds the arithmetic of register widths, `BuildFlowProofs` the lemmas about `Overlay` |

**RTL.** A state is the registers before an edge, and a step is an edge with some
values on the input ports. Combinational signals are operators of the state and the
ports, under the names the source gives them. Within one `always_ff` block the last
assignment wins, and the order of assignments in the source is the order of the
conditions here (the clear over the latch in `latched`, `tile_done` over the first beat in
`Accounting`). The AXI master, the stream source and the sink are the environment: on
each edge they may present anything or nothing. A `valid` that meets no `ready`
changes no register, so the environment is only offered transfers the design is ready
for, which loses no behaviour. History variables (marked as such) record what the ports
have seen: writes as the master issued them, beats accepted, the tile that completed.
Nothing but a property reads them, except that the length of the tile bounds what the
source sends.

**Driver.** A process is at a label named for the code it is about to run; the
labels in `Frame` are those at which `accel_run_tile`'s stack frame, with the two
completions, exists. A DMA descriptor goes through *prepared, submitted, issued,
moved*, and its callback runs in a later step unless the channel is terminated first. A
timeout is a choice that is open whenever the wait has not been answered. Every
allocation, submission and user copy may fail. `copy_from_user` may fault having copied a part.
Register contents are abstract: what a tile reduces to is the sequence of beats
accumulated, what a beat becomes is a record of the beat and the slope in force.
The refinement mapping is at the end of each layer. A call is *pending* while its request is held, its *outcome* is the return
code with every error made one, the *owner* is the process inside `accel_run_tile` (`InTile`), the *result* is what the next `read()` would
copy out. So a tile begins when `copy_from_user` has filled the buffer, and commits, with all its results, in the step of
`finish` that reports success.

**Testbenches.** The design under test is the same module the RTL runs check; here the environment is not
free but the test. A test is a sequence of statements (`Scripts`), a coroutine's position in it is `at`,
and `begun` says that it awaits the clock. *Statements* take no simulated time; the clock ticks
(`Edge`) only when the test awaits it. What cocotb makes of time is in three rules:

- A value read right after `RisingEdge` is the one from before the edge; one read after `ReadOnly` or
  `Timer` is settled. `LoopEdge`, `Notes` and `MonitorEdge` each take the one their code takes.
- Coroutines that wake on the same edge run in any order: the test may see the beat counter's total of
  before or after that edge (`Seen`), and the sink may look at its `pause` before or after the test sets it.
- `AxiLiteMaster` runs each channel in its own coroutine and may present a request up to
  `MAX_LAG` cycles late, on each channel by itself (the readies of the responses stay up); `RawAxiLite`, which the testbench drives by hand
  because it needs an exact cycle, adds none.

**Tile runner.** `SystemCall` enters the driver as any process does, and `RunnerStep` is a step of the driver in the
runner's process; when it is the one that returns, `Returned` says what Python makes of the value: the next
call, an exception, or, for an interrupted call, the same call again (PEP 475). Another process, which makes the calls of
`OtherCalls`, and signals are free. The comparison of `numpy` may raise over arrays of different lengths and is then an exception, not a mismatch.

**Probe.** `taken` is what is really held and `devres` what the driver core will release, newest
first. The two differ only between an acquisition and the registration of its release, which may itself
fail and then releases on the spot. A probe that fails anywhere unwinds as a removal does. A process can open
the node as soon as it exists, before the probe has returned; deregistering it waits for nobody and leaves
that process *stranded*. Removing the attribute group waits for whoever is inside it.

**Build flow.** An artefact is the *build* it was made from: the creation of a project from a top-level
module. `todo` is what the running command has left to do; `Fail` ends it between any two steps, as `set -e`
does. Commands start with whatever the checks of their scripts accept. A command whose check refuses
changes nothing and is not an action. Two
history variables say which builds were routed and which artefacts were made, in order, from the latest.
What the device tree says is computed from the build when a property asks (`PackagedNodes`).

**Mutants.** Operators commented "Mutant" are variants of the definition that
follows them, each with one plausible bug. Replacing the definition by its mutant makes TLC find
the property `PROJECT.json` pairs it with violated. No specification uses them.

## 3. Runs

| run | instance | what it shows |
|---|---|---|
| `sparse` | 2-bit operands and accumulator, 1-bit skip counter, tiles of up to 2 pairs that add and skip, six CTRL words | control and data path together: pulses are exactly the issued writes; STATUS never shows the previous tile after a START; BUSY and DONE turn over on one edge; the PE holds exactly the accepted beats; ACC and SKIP are one whole tile's; a started tile completes, however START, CLEAR and EN are ordered |
| `start_while_busy` | as `sparse`, one pair, all registers read | **violated**: a START committed in the latch cycle, BUSY still 1, starts a tile |
| `relu` | 3-bit data, three activations, 2-bit slope, 1-bit counter, tiles of up to 3 beats, a slope wider than its field, CTRL and SLOPE written | writes are answered once; the stream is the golden model's, in order, once; BUSY spans the pipeline and COUNT is exact for every tile that met no neighbour; no stall or disable wedges the pipeline |
| `relu_back_to_back` | 2-bit counter, tiles of up to 2 | **violated**: COUNT of a tile whose tlast met the next tile's first beat is one too many |
| `sparse_bench` | all 15 tests of the wrapper and 5 of the PE, tiles of 2 to 6 beats, two operand mixes | no assertion fails but in the one race described below, and every test ends |
| `relu_bench` | all 11 tests, tiles of 3 to 6 beats | no assertion fails; every test ends |
| `relu_driver` | two processes, tiles of 1 and 2 beats, slopes 0, 1 and out of range, an accelerator that may swallow beats | no dead callback, only timeouts and lost beats wedge, and the driver implements `TileDevice` |
| `run_tile` | the script, two rounds with two slopes, and another process that writes and stores | a wrong verdict needs another process between the script's calls; every tile took its interrupts; every call returns; the script ends with the device closed |
| `sparse_driver` | two processes, two tiles, beats of two bytes, buffers too small and large enough | only timeouts wedge, and the simplex layer implements `TileDevice` |
| `probe` | both layers, each on either design or a third, two processes | every path through probe, failure, removal and binding again: nothing leaks, release is in reverse, the node and the attribute only ever reach a claimed accelerator, every bind and unbind ends |
| `build_flow` | both accelerators, two builds, every spelling of the generated tree | however commands are ordered, fail and are repeated: a packaged device tree is of its own accelerator, its channels wait for driven lines, its accelerator is offered exactly the channels the driver claims, every reference resolves; nothing comes of an unrouted design; a flow run in order packages one build |
| `overlay_named` | the same | **violated**: a package takes its name from one accelerator and its bitstream from another |

### The disagreements

Three runs check a sentence of the documentation and find it false of the code; the findings in
`PROJECT.json` quote the sentences.

1. `docs/register-map-sparse-cnn.md:56`, START ignored while BUSY. The pulse is looked at one
   cycle after the write commits, so the last BUSY cycle does not ignore it. A narrow window, which
   the driver does not enter.
2. `docs/register-map-relu.md:27`, COUNT is the beats of the last tile. Not for two tiles that
   touch. What does hold is `SerialCountIsExact`, and the driver's tiles never touch because it
   waits for one before it starts the next.
3. `README.md:179`, each overlay is named after the accelerator it was built from. The device tree in it is
   (`TreeIsTheAccelerators`: `overlay.py` looks for the accelerator by name), the bitstream beside it need not be: nothing
   compares the two. On the board the driver's ID check refuses such a pair (`PublishedIsUsable`). What does hold is
   `FreshFlowIsCoherent`.

Three more are told here and have no run of their own.

4. `docs/register-map-sparse-cnn.md`, START and CLEAR "always read back as 0, so CTRL can be
   read-modify-written without re-triggering them" (48-49). The read multiplexer
   returns the registers (`rtl/sparse_cnn_axi.sv:251`), so a CTRL read accepted in the pulse cycle returns the pulse. Software that read CTRL to
   modify it could write the pulse back; the driver never reads CTRL and the tests read it after the response.
5. `tb_sparse_cnn_axi.py:387-393`. `test_result_read_before_completion` polls STATUS, sees BUSY, and reads ACC and
   SKIP to show that they are still the previous tile's. The tile may complete between the poll and the reads; the
   test would then report a leaked partial result of a correct design. `AssertionsHold` of `SparseCnnBench`
   excepts exactly that (`Overtaken`).
6. `tb_relu_axi.py:228` reads STATUS one edge after it queued a tile and expects BUSY. It holds, with one
   cycle to spare: the source needs the edge to present the first beat, and the read is sampled two edges later at the earliest.

## 4. Bounds, and why they are enough

- **Widths.** 2-bit accumulators and 1-bit counters wrap within a tile of 2 or 3 beats;
  wide registers would only delay the wrap. Widths are parameters, and the theorems hold for all of
  them: that the Leaky ReLU unit computes its golden model is `UnitExact`, whatever the widths.
- **`MAX_TILE`** (2 or 3). A tile has a first beat, a last beat and, at 3, one in between;
  one more repeats the middle. Nothing in the design remembers more than one tile back except DONE,
  ACC, SKIP and COUNT, and the runs go through any number of tiles.
- **Written words.** `CtrlWrData` has each combination of the three bits that the FSM tells apart and one
  word whose byte lane is not strobed. `sparse` writes CTRL only; a write elsewhere changes nothing behind the
  write channel, whose exactness is proved for any addresses (`WritesAreExact`). `relu` writes CTRL and SLOPE.
- **Read addresses.** The read channel is the same for all; STATUS and ACC in `sparse` (the fence,
  and a negative accumulator on the bus), all of them in the violation runs and the testbenches.
- **The testbenches.** Tiles of 2 to 6 beats where the tests send 12 to 512: long enough for a first beat, a beat
  under each stall, a split and a rest. `MAX_LAG` = 2 lets each channel be ahead of and behind each other one.
  `POLL_LIMIT` = 100 and 12 (10 000 in the code) is more polls than the longest tile takes (`PaceAssumption`). `RESET_EDGES` = 2. The widths are
  such that the results do not wrap, as in the tests.
- **Two processes.** The mutex admits one, and another can be anywhere outside; a third
  would wait where the second does.
- **`MAX_BEATS` = 2**: a tile has a first and a last beat and can time out between them; a write
  may ask for `MAX_BEATS + 1` beats. Writes of every byte count up to that are tried.
- **Lost beats**: the Leaky ReLU accelerator of the driver runs may swallow any beat, the fault COUNT exists to expose.
- **`run_tile`**: one tile's contents, two rounds with two slopes and lengths (five rounds in the script);
  the other process writes one beat or stores a slope (`MCOtherCalls`).
- **`MAX_BUILDS`** = 2: an artefact is of the latest build or of an older one; a third would be another older one.
- **Contents of a tile**: two in `sparse_driver`; one in `relu_driver`, where the slope and the length tell one write from
  another and the transport that could mix contents is the same.
- **Symmetry** in processes and tiles, in `relu_driver` and `sparse_driver` only: both are used only
  for equality.

## 5. Fairness

- `SparseCnnAxi.FairSpec`: the clock runs when a pulse is up or the FSM moves by itself (weak fairness of `FsmEdge`) and the source,
  which by the AXI rules keeps `valid` up until `ready`, gets its last beat through if ready is
  raised again and again (strong fairness of `LastBeat`; ready can be withdrawn by EN or CLEAR
  in between, so weak fairness would assume nothing). Software that leaves EN low for ever
  stops a tile, so the property is conditional on `<>[]en_reg`.
- `ReluAxi.FairSpec`: the same for the last beat, and a sink that takes a beat that stays
  offered (weak fairness of `Delivery`).
- `SparseCnnBench.BSpec`, `ReluBench.BSpec`: the simulation goes on (weak fairness of its steps). The lag of
  `AxiLiteMaster` is bounded, so nothing else is owed.
- `RunTile.RSpec`: the scheduler runs every thread that can step and every timeout
  expires (weak fairness of `Step`, in which an unanswered wait can always time out, and of the script's own steps); the kernel's
  mutex hands itself to a waiter, so each acquisition is strongly fair. Calls of the other process and signals are
  owed by nobody, and nothing is assumed of the DMA or the accelerator: they may
  never move a beat. A signal that interrupts the script's call for ever keeps it repeating the call, so `RunEnds`
  supposes that signals stop.
- `AccelProbe.FairSpec`: a probe goes on, the driver core goes on releasing, and a call into the
  attribute returns (removal waits for it). Files may stay open for ever.

## 6. What is proved

TLAPS, for the RTL: every width, address set, operand set and tile bound that satisfies the named assumptions
(`BusWidth`, `Widths`, `ReluWidths`, `CountWidth`, `Environment`: widths positive and no wider than the bus, environment sets within
their types). For the driver: any processes, tiles, buffer size, beat size, slopes and read sizes (`TransportAssumption`,
`SlopeAssumption`, and `DuplexAssumption`: the Leaky ReLU layer has a return channel). For the script, besides: one or more tiles,
none empty, whose sizes are among the reads (`RunnerAssumption`), beside any processes that write, read or store. For the probe: any register layers of the form of
`LayerRecords`, designs and processes. For the build flow: any set of top-level modules, any of them with a return channel, every spelling in `Styles`, and any
number of builds (`TopModules`: a top-level module is not called `axi_dma` and has a name, since `overlay.py` finds the DMA and its client by name alone; `Bound`).
For the testbench of the Leaky ReLU accelerator: any widths, tile lengths, activations to draw from, `MAX_LAG`, poll limit, pause pattern and length of
reset (`BenchAssumption`, `PickAssumption`) for which the tests make sense (`TestAssumption`: each tile that is sent has a length, what a test writes are words of the bus, COUNT can hold
the length it is compared with, and the tile whose BUSY is read is longer than the master may be late, since otherwise it may be over when the read arrives).
For that of the sparse accelerator: any widths, tile lengths, patterns of operands, `MAX_LAG`, pause pattern, length of reset and `AWAITED` for which the totals of
each generated tile, and of each rest of it, fit ACC and SKIP (`OperandAssumption`; the tests compare with a golden model that does not wrap), the ports carry what the tests write and read (`TestAssumption`), the pattern does not
stall on every beat, the polls outlast the slowest tile (`PaceAssumption`: 13 edges for each beat with the 12 places of `cycle_pauses`, where the code has 10 000 polls for at most 512 beats), and the tile that must be seen BUSY outlasts the slowest read.
TLC evaluates the assumptions on every instance.

| module | theorem | says |
|---|---|---|
| `SparseCnnAxiProofs` | `TypeCorrect` | `Spec => []TypeOK` |
| | `WritesAreExact` | every write is answered once, and the pulses are exactly the issued START and CLEAR writes |
| | `FenceHolds` | the action property `StatusFence` |
| | `TurnoverHolds` | the action property `BusyDoneTurnover` |
| | `BeatsAccumulate` | `AcceptedBeatsAccumulate`: the PE holds the golden model's totals of the beats accepted |
| | `ResultsAreWhole` | `ResultIsLastTile`: ACC and SKIP are those of one whole tile |
| | `TestbenchSound` | `SparseCnnBench.AssertionsHold`: no assertion of the 20 tests fails, but where a tile overtakes the reads that race it |
| | `AcceleratorInBench` | the accelerator keeps its own properties in the testbench |
| `ReluAxiProofs` | `UnitMonotone` | the unit keeps the order of activations |
| | `TypeCorrect` | `Spec => []TypeOK` |
| | `WritesAnswered` | every write is answered once |
| | `StreamHolds` | `StreamIsGolden`: each accepted beat leaves once, in order, with the golden model's value |
| | `BusyHolds` | `BusySpansTile` |
| | `AccountingHolds` | `SerialCountIsExact` |
| | `TestbenchSound` | `ReluBench.AssertionsHold`: no assertion of the 11 tests fails |
| | `AcceleratorInBench` | the accelerator keeps its own properties in the testbench |
| `SparseCnnDriverProofs`, `ReluDriverProofs` | `SparseCnnDriverTyped`, `ReluDriverTyped` | `Spec => []TypeOK` |
| | `NoCallbackIntoDeadFrame` | `NoDeadCallback`: no callback outlives the stack frame of its completion |
| | `OnlyATimeoutWedges` | `OnlyTimeoutsWedge`: with the lock free the accelerator is idle, unless a tile timed out or lost a beat |
| | `ImplementsTileDevice` | `TilesAreTransactions`: the driver with its accelerator implements `TileDevice` |
| `ReluDriverProofs` | `FairVerdict` | `RunTile.VerdictIsFair`: a run undisturbed by another process exits with 0 or an exception |
| | `InterruptsTaken` | `RunTile.TilesTakeInterrupts`: two interrupts for each tile |
| `AccelProbeProofs` | `ProbeTyped` | `Spec => []TypeOK`, in which no resource is taken twice |
| | `PublishedNodeIsUsable` | `PublishedIsUsable`: while the node exists, all a tile touches is held |
| | `AttributeFindsDevice` | `AttributeReachesDevice` |
| | `NoLeak` | `NothingLeaks` |
| | `LastTakenFirstReleased` | the action property `ReleasedInReverse` |
| `BuildFlowProofs` | `FlowTyped` | `Spec => []TypeOK`, in which what a step reads is there |
| | `RoutedOnly` | `OnlyRoutedDesigns` |
| | `FreshPackages` | the action property `FreshFlowIsCoherent` |
| | `PackagedTree` | `TreeIsTheAccelerators` |
| | `PackagedChannels` | `ChannelsAreDriven` |
| | `PackagedClient` | `ClientHasItsChannels` |
| | `PackagedReferences` | `ReferencesResolve` |

*Type correctness* is inductive as it stands. The work is in the widths: `AxiLiteSlaveProofs`
shows that `Signed(x, w)` and `Unsigned(x, w)` land in their ranges for every width, which needs `2^w > 0`
and monotonicity of powers of two. The provers know only the definition of `^` by literal
exponents and induction theorems are not available to them, so these facts are derived
from the library's theorem on the cardinality of `SUBSET`: `2^Cardinality(S)` is the number of subsets of `S`.

*The control properties* are not inductive: `PulsesAreIssuedWrites` speaks of writes as issued, and the
registers of the write channel could pair them wrongly. The invariant is

    ControlInv == TypeOK /\ WriteChannelInv /\ PulsesAreIssuedWrites /\ StatusInv

where `WriteChannelInv` (`AxiLiteSlaveProofs`) ties the history to the registers: at most one of the
queues `awq`, `wq` is non-empty, it is the one whose `*_pend` bit is set, it holds the captured
address or word, and `unanswered` is 1 exactly while `bvalid_q`; it is stated for any registers behind
the slave, so that `relu_axi` can use it too. `StatusInv` says that DONE is set only in an idle FSM
and that an owed tile is running or its START pulse is high. `InitControl`, `ResetControl`,
`CycleControl` and `NextControl` show it inductive; the two action properties follow from it and one step.

*The data path* (`DataInv == TypeOK /\ ClearedTileIsEmpty /\ AcceptedBeatsAccumulate /\ ResultIsLastTile`). The step is `ExpectedAppend`: what
the registers show of one more pair follows from what they showed before, also after both have wrapped, because assigning to a register of `w`
bits keeps the class modulo `2^w` (`SignedCongruent`, `SignedSum`, `UnsignedNext`). It needs what the golden model, a recursive function over the tile, computes
for a tile of any length. The library's induction theorems take an operator as a parameter, which the provers cannot instantiate, so the
induction is made by a least counterexample (`LeastNat`, from the well-foundedness of `<` on the naturals): were there a
shortest prefix without running totals, one more pair would extend those of the prefix before it (`RunningExists`), and likewise for two
that differ (`RunningUnique`); `GoldenAppend` follows. `ClearedTileIsEmpty` is what makes the invariant inductive: the PE is zeroed in
`S_CLEAR`, one edge after the history forgets the tile.

*The Leaky ReLU unit* (`UnitExact`, `UnitMonotone`). With `H = 2^(DATA_W-1)` and `K = 2^SLOPE_W`, a
product of an activation and a slope lies in `-(H*K) .. 0` when the activation is negative, and
`2^(ProdW-1) = 2*H*K` (`PowSum`, from the bijection between the subsets of `1..m+n` and the pairs of
subsets of its two halves), so assigning it to the product register changes nothing; the floor of its quotient by `K`
lies between the activation and 0, so assigning that to `DATA_W` bits changes nothing either.

*The Leaky ReLU accelerator.* The invariant is

    StreamInv == TypeOK /\ WriteChannelInv /\ slope_issued = slope_reg /\ StreamIsGolden
                 /\ PipeInv /\ BusySpansTile /\ CountInv /\ SerialCountIsExact

`StreamIsGolden` needs the SLOPE register to be the slope the master issued, which `WriteChannelInv` gives, and
`UnitExact`. `SerialCountIsExact` speaks of a completed tile, so the counter has to be right while the tile is still in
the pipeline: `CountInv` says what `beats_q` has counted at every moment, and `PipeInv` that a tlast in
the output register is the last beat accepted, which is what tells the two tiles apart.

*The Leaky ReLU testbench* (`TestbenchSound`). The invariant is `StreamInv /\ BenchInv`: what holds of the accelerator in any environment,
which `ClockEdge` shows it keeps in this one, and that the test is where its *outline* says. `ReluOutline` gives every statement of every test a *context* (`OutlineOf`, `EndOf`): whether the
sink runs and may pause, what the test has written to EN and SLOPE, which tile was sent last and whether it is still under way. There is one *rule* for each kind of statement (`Rule`), which says from which context it leads to which,
and `TestChain` that the outlines follow the rules, test by test; the rest speaks of contexts and no longer of tests. `BenchInv` says

    BenchInv == BenchTypes /\ OnOutline
    OnOutline: nothing has failed, and  Between(Here)  or, while a statement awaits the clock,  During(Here, Op, There)

What the concurrent parts are doing is in `Surroundings`: the tile under way is split between the source, the pipeline and the sink, the latter
holding the golden image of its part (`Afloat`), or has arrived (`Ashore`); the monitor has noted every beat taken (`FlagsAt`). `Reading` and `Writing` say
how far the channels of an access are, each late by itself; a read's word is fixed on the edge that takes the address, from the registers in that context (`Readable`), so a late answer cannot be of another
time. One test reads BUSY from a tile under way, racing the stream: `Streaming` counts its beats against the edges the request is still late by, which is
where the length of the tile matters. The proof has a section for the edges of the stream (`StreamEdge`), one for those of a register access, and one for the statements; `NextBench` joins them.

*The sparse testbench* (`TestbenchSound` of `SparseCnnAxiProofs`) is proved the same way, from `AccelInv /\ BenchInv` with `AccelInv == DataInv /\ ControlInv`, but its
tests stop tiles half way, drive the channels by hand and race them, so a context (`SparseCnnOutline`) says more: whether a tile is idle, started or polled for, which tile was sent and which one the results are of, whether a
write's response may still be outstanding, whether the source stalls, what is known of the beat counter and of `saw_busy`. The parts of the invariant that one would not guess:

- `Underway`: what the accelerator has accepted and what the source still holds make up the tile sent, in every state of the FSM; a tile cut by CLEAR is from then on its own rest (`REST`), whatever edge the counter is read on (`CounterAt`).
- `PollsAt`: the edges the tile still takes (`Work`, each beat at most once around the stall pattern) and the polls made stay below `POLL_LIMIT`; each poll takes at least one edge. This is a safety property of a loop that gives up, so it is
  proved, where that every test ends is not.
- `FirstAt`, and the count in `Reading`: the tile that must be seen BUSY has more beats left than the first poll can still be late.
- `Applied`: between the edge that writes CLEAR and the next, the pulse is high and the tile not yet dropped.
- `Overtaken`: the one assertion that can fail (finding 5 of section 3). The invariant says exactly when, and that nothing else follows.

A test of the bare PE follows `PeAt`: the registers are the golden model's totals of the pairs fed (`ExpectedAppend`). One outline is a loop, which `LoopRule` and `RaceScript` close.

*The driver.* `AccelTransportProofs` holds what does not depend on the register layer. Its invariant

    TransportInv == FrameInv /\ CallInv /\ ReplyInv

ties the lock, the program counters and the channels together. `FrameInv`: a process inside `accel_run_tile` holds the lock, so there is one; a channel that
is not idle belongs to it, and it is at a label from which the code still waits for that channel or terminates it. `NoDeadCallback` follows.
`CallInv`: the request a process works on passed the checks of `accel_write`, so no position leaves the buffer. `ReplyInv`: a call has a
return code exactly from the label that decides it. One lemma per operation of the transport says that it keeps each part, and what `TileDevice` sees
of it: nothing (`Quiet`), `Enters`, `Begins`, `Aborts`, `Commits`, `Answers`, `Returns`. The accelerator enters as the part of a layer:

- `SparseCnnDriverProofs`: `DeviceInv` says that the FSM is out of idle only under a process that has started it and not yet seen DONE, unless a
  wait timed out; `TileInv` that what the FSM has summed is the part of the process's tile that has gone in, so that when DONE
  is seen the registers are those of the whole tile, `acc` and `skip` alike, until the next START.
- `ReluDriverProofs`: `StreamInv` says that, unless something was lost, all that went in has come out but for the one beat held. `TileInv`
  must also hold when a beat *was* lost, because the driver then relies on COUNT. It says (`Receiving`) that the beats
  counted are those that came out or are held, and are the tile's own if as many were counted as went in; when the return
  transfer is over, that COUNT vouches for the buffer (`Vouched`): if it is the length of the tile, each result in the buffer is the tile's. The comparison in
  `relu_finish` is what the proof of `Commit` rests on; so is that `slope_store` takes the tile lock.

*The tile runner.* `RSpec` is about the script and the whole driver, so its invariant

    RunInv == DriverInv /\ ScriptInv /\ IrqInv /\ FairInv

begins with the driver's: every step of the script's board is a step of the driver or none (`RunSteps`). `ScriptInv` says which call the script is in.
`IrqInv` counts interrupts: two for each round that is over, and for the round under way one per completion its write has seen
(`OfWrite`), which can be said because no callback reaches another frame. `FairInv` says what the round has done unless it was
disturbed: after the store the register holds the round's slope, after the write the device holds the golden model's bytes, and after the read so does the
script. Another process can then only read, and `Decided` says what each step of a call may change: a write that returns 0 publishes the
tile under the slope in force (`PublishesTile`, from `Vouched`), one that fails changes no slope, a read changes nothing.

*The probe.* A layer, its duplex, its allocation and its attribute group fix a list of resources and the place of each (`Rank`). The
invariant `ProbeInv` says that what is held is a beginning of that list, in its order (`ListInv`), that the driver core manages all of it
but the one in hand (`ManagedInv`), how long the beginning is at each step of the probe (`PlaceInv`), and from which length on the driver data is
set and the ID was right (`DataInv`). Every step keeps the list, appends the next of it or drops the last, so holding the
node implies holding all that comes before it, and a failure anywhere leaves a beginning that unwinds from its end.

*The build flow.* The invariant is

    FlowInv == Registers /\ StepOrder /\ Ready /\ RunsAreRouted /\ OnlyRoutedDesigns
               /\ MadeIsOfProject /\ PackagesWereAccepted

Any command may fail at any step, so what a step may rely on is what the steps before it in the *same* command left: `StepOrder` says that the
steps a command has left follow one another (`Succession`), `Ready` what each step finds when its turn comes, and
`MadeIsOfProject` that what counts as made since the latest `impl` is of the project there is. Each replacement of an artefact disturbs
one part, for the steps it is followed by. `PackagesWereAccepted` says that `overlay.py` accepted the tree in a package for the accelerator whose package it is;
the other facts about a package are then facts about the operators of `Overlay`:

- `AcceptedTop`: a tree with a DMA is refused unless exactly one node carries the name of the accelerator, so the tree is of its design.
- `DmaAligned`: however the generator orders the interrupts of the DMA, cutting the flat list of cells by the number of names (`OneInterrupt`,
  `TwoInterrupts`) and matching by name gives each channel the line of its port; `OverlaidChannels` carries it through the linking.
- `OverlaidClient`: the client is given the names of the DMA's channels, and of no other; `OverlaidReferences`: nothing is written while a label is unresolved.

**Only model-checked.** Liveness, for fairness and ENABLED are beyond the prover: `StartedTileCompletes`, `TilesComplete`, `BindingSettles`,
`CallsReturn`, `RunEnds` and, of both testbenches, `TestsEnd`.

## 7. Assumptions about what lies outside

- The PE computes `ACC_W'(weight * act)`. The model takes it as the full signed product, as the
  comment above the line says and as the simulator of the repository, whose tests compare it with the golden
  model, computes it; a tool that sizes the operand of the cast by itself would compute `DATA_W` bits, and
  that is not a question of this model.
- The dmaengine, mutexes, completions and user copies are the kernel's, modelled from the way `accel_transport.c`
  uses them: descriptors run only when issued, `dmaengine_terminate_sync` returns after any callback has run or been
  dropped, `wait_for_completion_timeout` does not report a timeout for a completion already signalled. AXI DMA ends a return transfer on tlast or a full buffer.
- cocotb, its AXI extensions and Python are external, and modelled from how the testbenches and the script use
  them: which values a trigger leaves visible, that `AxiLiteMaster` returns from a write with its response and its channels
  are independent, that `AxiStreamSource` withdraws its beat in reset and drops the frame it belongs to, that the sink raises ready one edge after
  it exists or resumes, that Python repeats an interrupted call.
- In the driver modules the accelerator is the interface that the RTL modules check: BUSY from the
  first beat until the tlast leaves, DONE sticky, a START that finds the FSM idle begins a tile.

## 8. What is not modelled, and why

- The board network: a sequential shell script over the host's `ip`, with one guard per refusal and no state of its own.
- `run_sparse_cnn` in `run-tile.py`, the same round without the slope, over the simplex layer; the script's search for the one device present, whose outcome is a choice here (`Refused`).
- The text of a device tree: how `overlay.py` finds nodes and properties in it. FSBL, PMU firmware and the reports of
  the flow: no later command reads them.
- The board as a selection: every board has a build directory of its own.
- A file left open across an unbind. `misc_deregister` does not wait for it; the model has the state
  (`stranded`) and no property about what its calls then do.
- `accel_probe`'s check that the register layer names a device, a beat size and a result: both layers do.
- How a testbench draws its operands and starts its simulator; the shell tests of `tests/`, which run a script on fixed inputs.
- Lint, format, wave and regression scripts, the containers, Vivado provisioning, the HLS wrappers and the
  equivalence check are sequential wrappers of external tools with no state between two calls.
- AXI protection bits, response codes (always OKAY), byte strobes of the upper bytes (no
  register has bits there) and TKEEP carry no state.

## 9. Plan

In this order, the most important behaviour first; the ones in italics are done.

1. *`AxiLiteSlave`, `SparseMacPe`, `SparseCnnAxi`: control, data path, liveness; type correctness and control properties proved.*
2. *`ReluUnit`, `ReluAxi`.*
3. *`TileDevice`, `AccelTransport`, `ReluDriver`, `SparseCnnDriver`: refinement and liveness.*
4. *`ReluAxiProofs`: the unit is exact for every width; types, writes, stream and tile accounting proved.*
5. *`AccelTransportProofs`, `SparseCnnDriverProofs`, `ReluDriverProofs`: `NoDeadCallback`, `OnlyTimeoutsWedge` and the step simulation of `TileDevice`.*
6. *`AccelProbe`, `AccelProbeProofs`: its invariants for any layers, designs and processes.*
7. *`Overlay`, `BuildFlow`, `BuildFlowProofs`: their safety for any set of top-level modules and any number of builds.*
8. *`AxiBench`, `SparseCnnBench`, `ReluBench`: every test of the testbenches.*
9. *`RunTile`: the script as a process of the driver; its verdict and its interrupts proved from the driver's invariant.*
10. *`ReluOutline`, and the testbench of the Leaky ReLU accelerator in `ReluAxiProofs`: no assertion of its tests fails.*
11. *`SparseCnnOutline`, and the testbenches of the sparse accelerator and its PE in `SparseCnnAxiProofs`: no assertion of their tests fails but the one of finding 5.*

Abstract specifications worth stating beside `TileDevice`: a register file with atomic reads and writes that
`AxiLiteSlave` implements.
