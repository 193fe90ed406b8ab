----------------------------- MODULE ReluDriver -----------------------------
(***************************************************************************)
(* driver/relu.c: the register layer of the Leaky ReLU accelerator over    *)
(* AccelTransport, its slope attribute, and the accelerator as the driver  *)
(* sees it (ReluAxi at the level of registers and beats).                  *)
(***************************************************************************)
EXTENDS AccelTransport

CONSTANTS SLOPE_MAX,    \* the largest slope the register holds
          SLOPE_RESET   \* SLOPE out of reset

ASSUME SlopeAssumption == SLOPE_MAX \in Nat /\ SLOPE_RESET \in 0 .. SLOPE_MAX

\* relu_ops.duplex.
ASSUME DuplexAssumption == DUPLEX

VARIABLES
    busy, done, count, slope, en,  \* STATUS, COUNT, SLOPE and CTRL
    seen,    \* beats_q: beats accepted of the tile in flight
    held,    \* the output register: nothing, or a result beat and its tlast
    rxbuf,   \* the coherent receive buffer
    aborted  \* history: some tile's transfer timed out, or a beat was lost

devVars == <<busy, done, count, slope, en, seen, held, rxbuf>>
vars == <<transportVars, devVars, aborted>>

Slopes == 0 .. SLOPE_MAX
\* A store of some number; kstrtou32 takes no negative one.
Stores == [op : {"store"}, slope : -1 .. SLOPE_MAX + 1]

\* A beat of a tile, and the result the accelerator computes from it.
Beat(tile, i) == [tile |-> tile, at |-> i]
Relu(beat, s) == [of |-> beat, slope |-> s]
Blank == [of |-> NoResult, slope |-> 0]
Empty == [data |-> Blank, last |-> FALSE, valid |-> FALSE]

-----------------------------------------------------------------------------
(* The accelerator and the channels                                        *)

\* A beat enters the output register.  The first one of a tile sets BUSY.
BeatIn ==
    /\ HasBeat /\ en /\ ~held.valid
    /\ BeatSent
    /\ held' = [data |-> Relu(Beat(txbuf, tx.pos + 1), slope), last |-> TxLast,
                valid |-> TRUE]
    /\ seen' = seen + 1
    /\ busy' = TRUE /\ done' = (done /\ busy)
    /\ UNCHANGED <<threadVars, lock, received, txbuf, rx, sent, returned,
                   count, slope, en, rxbuf, aborted>>

\* The fault COUNT is there to expose: a beat goes in and nothing comes of it.
BeatLost ==
    /\ HasBeat /\ en /\ ~held.valid
    /\ BeatSent
    /\ aborted' = TRUE
    /\ UNCHANGED <<threadVars, lock, received, txbuf, rx, sent, returned,
                   busy, done, count, slope, en, seen, held, rxbuf>>

\* A beat leaves into the receive buffer; a tlast ends the tile.
BeatOut ==
    /\ HasRoom /\ held.valid
    /\ BeatReturned(held.last)
    /\ rxbuf' = [rxbuf EXCEPT ![rx.pos + 1] = held.data]
    /\ held' = Empty
    /\ busy' = (busy /\ ~held.last) /\ done' = (done \/ held.last)
    /\ count' = IF held.last THEN seen ELSE count
    /\ seen' = IF held.last THEN 0 ELSE seen
    /\ UNCHANGED <<threadVars, lock, received, txbuf, tx, sent, returned,
                   slope, en, aborted>>

-----------------------------------------------------------------------------
(* The register layer                                                      *)

relu_accept(t) == Accept(t, busy) /\ UNCHANGED <<devVars, aborted>>

relu_start(t) == /\ Start(t) /\ en' = TRUE
                 /\ UNCHANGED <<busy, done, count, slope, seen, held, rxbuf, aborted>>

\* Mutant: COUNT is not compared with the beats that were sent.
relu_finishUncounted(t) ==
    /\ \/ Poll(t, done, "finish")
       \/ At(t, "finish") /\ Publish(t)
    /\ UNCHANGED <<devVars, aborted>>

relu_finish(t) ==
    /\ \/ Poll(t, done, "finish")
       \/ At(t, "finish") /\ count = beats(req[t]) /\ Publish(t)
       \/ At(t, "finish") /\ count # beats(req[t]) /\ Reject(t, "EIO")
    /\ UNCHANGED <<devVars, aborted>>

Received == [i \in 1 .. received \div BEAT_BYTES |-> rxbuf[i]]

relu_result(t) == Result(t, received, Received) /\ UNCHANGED <<devVars, aborted>>

\* Mutant: the register is written without the tile lock.
slope_storeUnlocked(t) ==
    \/ /\ At(t, "store")
       /\ IF req[t].slope \in Slopes THEN Goto(t, "store_reg") ELSE Refuse(t, "ERANGE")
       /\ UNCHANGED <<lock, received, txbuf, chanVars, devVars, aborted>>
    \/ /\ At(t, "store_reg") /\ slope' = req[t].slope /\ Refuse(t, "ok")
       /\ UNCHANGED <<lock, received, txbuf, chanVars,
                      busy, done, count, en, seen, held, rxbuf, aborted>>

slope_store(t) ==
    \/ /\ At(t, "store")
       /\ \/ req[t].slope < 0 /\ Refuse(t, "EINVAL")
          \/ req[t].slope > SLOPE_MAX /\ Refuse(t, "ERANGE")
          \/ req[t].slope \in Slopes /\ Goto(t, "store_lock")
       /\ UNCHANGED <<lock, received, txbuf, chanVars, devVars, aborted>>
    \/ Acquire(t, "store_lock", "store_reg") /\ UNCHANGED <<devVars, aborted>>
    \/ /\ At(t, "store_reg") /\ slope' = req[t].slope /\ Leave(t, "ok")
       /\ UNCHANGED <<lock, received, txbuf, chanVars,
                      busy, done, count, en, seen, held, rxbuf, aborted>>

-----------------------------------------------------------------------------
Init == /\ TransportInit
        /\ busy = FALSE /\ done = FALSE /\ count = 0
        /\ slope = SLOPE_RESET /\ en = TRUE
        /\ seen = 0 /\ held = Empty
        /\ rxbuf = [i \in 1 .. MAX_BEATS |-> Blank]
        /\ aborted = FALSE

Transport(t) == /\ TileStep(t)
                /\ aborted' = (aborted \/ ret'[t] = "ETIMEDOUT")
                /\ UNCHANGED devVars

\* A thread's next step inside a call it has made.
Step(t) == \/ CallStep(t) /\ UNCHANGED <<devVars, aborted>>
           \/ Transport(t)
           \/ relu_accept(t) \/ relu_start(t) \/ relu_finish(t) \/ relu_result(t)
           \/ slope_store(t)

\* What nobody owes a thread: a call it makes, a signal it gets.
Calls(t) == /\ FileCall(t) \/ Signal(t) \/ \E r \in Stores : Call(t, r, "store")
            /\ UNCHANGED <<devVars, aborted>>

Dma == \/ TxDone /\ UNCHANGED <<devVars, aborted>>
       \/ RxDone /\ UNCHANGED <<devVars, aborted>>
       \/ BeatIn \/ BeatOut \/ BeatLost

Next == (\E t \in Threads : Calls(t) \/ Step(t)) \/ Dma

Spec == Init /\ [][Next]_vars

\* Where the mutex is taken, and where its new holder goes on.
Locks == {<<"write_lock", "copy_in">>, <<"read_lock", "result">>,
          <<"store_lock", "store_reg">>}

-----------------------------------------------------------------------------
(* Properties                                                              *)

TypeOK ==
    /\ TransportTypeOK
    /\ req \in [Threads -> Writes \cup Reads \cup Stores \cup {NoCall}]
    /\ busy \in BOOLEAN /\ done \in BOOLEAN /\ en \in BOOLEAN
    /\ slope \in Slopes /\ count \in 0 .. MAX_BEATS /\ seen \in 0 .. MAX_BEATS
    /\ aborted \in BOOLEAN

\* With the lock free the accelerator is idle, or a transfer timed out or a beat
\* was lost (164-179): a tile that fails before anything moved never leaves it
\* waiting for beats that will not come.
OnlyTimeoutsWedge == lock = NoThread /\ busy => aborted

\* The result of a write: every beat of its tile, all under one slope.
Transformed(r, s) == [i \in 1 .. beats(r) |-> Relu(Beat(r.tile, i), s)]

\* No bytes are no result.
Results == IF received = 0 THEN NoResult ELSE Received
Got == [t \in Threads |-> IF got[t] = <<>> THEN NoResult ELSE got[t]]

Device == INSTANCE TileDevice WITH
    pending <- req,
    outcome <- Outcome,
    owner   <- Owner,
    param   <- slope,
    result  <- Results,
    got     <- Got,
    Params  <- Slopes,
    Compute <- Transformed,
    FORGETS <- TRUE

\* The driver implements the transactional device: read() returns the last
\* successful tile, whole and under one slope, or nothing, whatever transfers
\* time out, fail or complete late, and however short the accelerator's answer
\* (118-223, relu.c 77-121, 142-168).
TilesAreTransactions == Device!Spec

\* Every call returns: no failure leaves the lock held, and no transfer that
\* never completes holds a writer for good.
CallsReturn == \A t \in Threads : pc[t] # "user" ~> pc[t] = "user"
=============================================================================
