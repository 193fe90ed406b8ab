------------------------------ MODULE RunTile ------------------------------
(***************************************************************************)
(* driver/run-tile.py on a board with the Leaky ReLU accelerator: the      *)
(* script as one more process of ReluDriver, among processes that make any *)
(* call.  A round stores the slope, writes a tile and reads it back, three *)
(* system calls that nothing makes one; run_sparse_cnn is the same round   *)
(* without the store.                                                      *)
(***************************************************************************)
EXTENDS ReluDriver, Sequences

CONSTANTS runner,      \* the process that runs the script
          RELU_TILES,  \* its rounds: a tile, its bytes and the slope
          OtherCalls   \* the calls the other processes make

ASSUME RunnerAssumption ==
    /\ runner \in Threads
    /\ RELU_TILES \in Seq([tile : Tiles, slope : Slopes,
                           bytes : (1 .. MAX_BEATS * BEAT_BYTES) \cap ReadCounts])
    /\ RELU_TILES # <<>>
    /\ OtherCalls \subseteq Writes \cup Reads \cup Stores

VARIABLES
    phase,      \* where main is
    round, doing,  \* run_relu: the round, and the system call it is at
    matched,    \* rounds whose tile came back right
    raised,     \* an exception is on its way out
    fd,         \* the device is open
    taken,      \* irq_count() - before: interrupts since main first counted them
    disturbed   \* history: another process wrote, or stored a slope, meanwhile

runVars == <<phase, round, doing, matched, raised, fd, taken, disturbed>>
allVars == <<vars, runVars>>

total == Len(RELU_TILES)
Others == Threads \ {runner}
Tile == RELU_TILES[round]

\* Interrupts are counted up to what a clean run takes: one per channel and tile.
CountedIrq(n) == IF phase \in {"main", "exited"} \/ n >= 2 * total THEN n ELSE n + 1

-----------------------------------------------------------------------------
(* main                                                                    *)

\* No accelerator to name, no interrupt line to count, or no device to open.
Refused == /\ phase = "main" /\ phase' = "exited" /\ raised' = TRUE
           /\ UNCHANGED <<round, doing, matched, fd, taken, disturbed>>

\* Interrupts are counted before the device is opened.
Opened == /\ phase = "main" /\ phase' = "tiles"
          /\ fd' = TRUE /\ taken' = 0
          /\ disturbed' = (\E t \in Others : req[t].op \in {"write", "store"})
          /\ UNCHANGED <<round, doing, matched, raised>>

\* Mutant: the device is closed only after a run that raised nothing.
ClosedUnlessRaised == /\ phase = "closing"
                      /\ fd' = raised
                      /\ phase' = IF raised THEN "exited" ELSE "counting"
                      /\ UNCHANGED <<round, doing, matched, raised, taken, disturbed>>

\* finally: the exception, if there is one, goes on.
Closed == /\ phase = "closing"
          /\ fd' = FALSE
          /\ phase' = IF raised THEN "exited" ELSE "counting"
          /\ UNCHANGED <<round, doing, matched, raised, taken, disturbed>>

Counted == /\ phase = "counting" /\ phase' = "exited"
           /\ UNCHANGED <<round, doing, matched, raised, fd, taken, disturbed>>

Main == (Refused \/ Opened \/ Closed \/ Counted) /\ UNCHANGED vars

rc == IF ~raised /\ matched = total /\ taken # 0 THEN 0 ELSE 1

-----------------------------------------------------------------------------
(* run_relu                                                                *)

Running == phase = "tiles" /\ round <= total

CallOf(what) == CASE what = "store" -> [op |-> "store", slope |-> Tile.slope]
                  [] what = "write" -> [op |-> "write", tile |-> Tile.tile,
                                        bytes |-> Tile.bytes]
                  [] what = "read"  -> [op |-> "read", count |-> Tile.bytes]
Entry(r) == IF r.op = "read" THEN "read_lock" ELSE r.op

SystemCall == /\ Running
              /\ Call(runner, CallOf(doing), Entry(CallOf(doing)))
              /\ UNCHANGED <<devVars, aborted, runVars>>

Raise == /\ raised' = TRUE /\ phase' = "closing"
         /\ UNCHANGED <<round, doing, matched, fd, taken, disturbed>>

Then(next) == doing' = next /\ UNCHANGED <<phase, round, matched, raised, fd, taken, disturbed>>

\* A round is over: the bytes are the golden model's, or they are counted wrong.
RoundOver(ok) ==
    /\ matched' = IF ok THEN matched + 1 ELSE matched
    /\ IF round = total THEN phase' = "closing" /\ UNCHANGED <<round, doing>>
       ELSE round' = round + 1 /\ doing' = "store" /\ UNCHANGED phase
    /\ UNCHANGED <<raised, fd, taken, disturbed>>

want == Transformed([tile |-> Tile.tile, bytes |-> Tile.bytes], Tile.slope)

\* The call returns.  Python makes an interrupted one again, unless the signal's
\* handler raises; numpy may raise over arrays of different lengths.
Returned(code, bytes) ==
    \/ code # "ok" /\ Raise
    \/ code = "ERESTARTSYS" /\ UNCHANGED runVars
    \/ /\ code = "ok"
       /\ \/ doing = "store" /\ Then("write")
          \/ doing = "write" /\ Then("read")
          \/ doing = "read" /\ RoundOver(bytes = want)
          \/ doing = "read" /\ bytes = <<>> /\ Raise
          \/ doing = "read" /\ Len(bytes) # Len(want) /\ Raise

Back == pc[runner] # "user" /\ pc'[runner] = "user"

RunnerStep == /\ Step(runner)
              /\ IF Back THEN Returned(ret[runner], got[runner]) ELSE UNCHANGED runVars

-----------------------------------------------------------------------------
(* Everybody else                                                          *)

OtherCall(t) ==
    /\ \E r \in OtherCalls : Call(t, r, Entry(r)) /\
          disturbed' = (disturbed \/ (phase # "main" /\ r.op \in {"write", "store"}))
    /\ UNCHANGED <<devVars, aborted, phase, round, doing, matched, raised, fd, taken>>

\* A signal may reach anyone who waits for the lock.
AnySignal(t) == Signal(t) /\ UNCHANGED <<devVars, aborted, runVars>>

\* The callbacks run from the channels' interrupts; beats move by themselves.
Irq == /\ TxDone \/ RxDone
       /\ taken' = CountedIrq(taken)
       /\ UNCHANGED <<devVars, aborted, phase, round, doing, matched, raised, fd, disturbed>>
Stream == (BeatIn \/ BeatOut \/ BeatLost) /\ UNCHANGED runVars

RInit == /\ Init
         /\ phase = "main" /\ round = 1 /\ doing = "store"
         /\ matched = 0 /\ raised = FALSE /\ fd = FALSE /\ taken = 0
         /\ disturbed = FALSE

RNext == \/ Main \/ SystemCall \/ RunnerStep \/ AnySignal(runner)
         \/ \E t \in Others : \/ OtherCall(t) \/ AnySignal(t)
                              \/ Step(t) /\ UNCHANGED runVars
         \/ Irq \/ Stream

\* Every process is scheduled, timeouts expire, and the mutex hands itself to a
\* waiter that keeps waiting.  Nothing is asked of the DMA or the accelerator.
RSpec ==
    /\ RInit /\ [][RNext]_allVars
    /\ WF_allVars(Main) /\ WF_allVars(SystemCall) /\ WF_allVars(RunnerStep)
    /\ \A t \in Others : WF_allVars(Step(t) /\ UNCHANGED runVars)
    /\ \A t \in Threads :
          SF_allVars(/\ \E l \in Locks : Acquire(t, l[1], l[2])
                     /\ UNCHANGED <<devVars, aborted, runVars>>)

-----------------------------------------------------------------------------
(* Properties                                                              *)

\* A failed verdict is the accelerator's (98-124, 149-161): a run that ends
\* without an exception exits with 0 unless another process wrote a tile or stored
\* a slope between its three calls.  Failed, timed-out, interrupted and repeated
\* calls, lost beats and late completions never show as wrong results.
VerdictIsFair == phase = "exited" /\ ~raised => rc = 0 \/ disturbed

\* A run that ends without an exception has taken an interrupt of each channel
\* for each of its tiles (14-17, 58-71): no tile came back by polling alone.
TilesTakeInterrupts == phase = "exited" /\ ~raised => taken = 2 * total

\* The script ends, having closed the device (finally, 150-153), whatever its
\* calls return, unless signals interrupt its calls for ever.
RunEnds == <>[][~Interrupt(runner, pc[runner])]_allVars
               => phase # "main" ~> phase = "exited" /\ ~fd
=============================================================================
