-------------------------- MODULE SparseCnnDriver --------------------------
(***************************************************************************)
(* driver/sparse_cnn.c: the register layer of the sparse CNN accelerator   *)
(* over AccelTransport, and the accelerator as the driver sees it          *)
(* (SparseCnnAxi at the level of registers and beats).  What a tile        *)
(* reduces to is represented by the beats that were accumulated.           *)
(***************************************************************************)
EXTENDS AccelTransport, Sequences

VARIABLES
    state, done, en,     \* the tile FSM, DONE and CTRL.EN
    sum,                 \* beats accumulated since the last START
    regs,                \* the tile that ACC and SKIP report
    sc,                  \* struct sparse_cnn: ACC and SKIP of the last tile
    aborted              \* history: some tile's transfer or poll timed out

devVars == <<state, done, en, sum, regs>>
vars == <<transportVars, devVars, sc, aborted>>

RESULT_BYTES == 8
Beat(tile, i) == [tile |-> tile, at |-> i]
Cleared == [acc |-> <<>>, skip |-> <<>>]

-----------------------------------------------------------------------------
(* The accelerator and the outgoing channel                                *)

BeatIn ==
    /\ HasBeat /\ state = "run" /\ en
    /\ BeatSent
    /\ sum' = Append(sum, Beat(txbuf, tx.pos + 1))
    /\ state' = IF TxLast THEN "latch" ELSE "run"
    /\ UNCHANGED <<threadVars, lock, received, txbuf, rx, sent, returned,
                   done, en, regs, sc, aborted>>

\* A cycle later the result registers change, DONE rises and BUSY falls.
Latch == /\ state = "latch"
         /\ state' = "idle" /\ done' = TRUE /\ regs' = sum
         /\ UNCHANGED <<transportVars, en, sum, sc, aborted>>

-----------------------------------------------------------------------------
(* The register layer                                                      *)

\* Mutants: a busy accelerator is not refused; the tile is started before the
\* steps that can fail.
sparse_cnn_acceptAny(t) == Accept(t, FALSE) /\ UNCHANGED <<devVars, sc, aborted>>

sparse_cnn_acceptStarts(t) ==
    /\ Accept(t, state # "idle") /\ en' = TRUE
    /\ IF At(t, "accept") /\ state = "idle"
       THEN state' = "run" /\ done' = FALSE /\ sum' = <<>>
       ELSE UNCHANGED <<state, done, sum>>
    /\ UNCHANGED <<regs, sc, aborted>>

sparse_cnn_accept(t) == Accept(t, state # "idle") /\ UNCHANGED <<devVars, sc, aborted>>

\* CTRL_EN | CTRL_START: a START that finds the FSM idle begins a tile.
sparse_cnn_start(t) ==
    /\ Start(t) /\ en' = TRUE
    /\ IF state = "idle" THEN state' = "run" /\ done' = FALSE /\ sum' = <<>>
       ELSE UNCHANGED <<state, done, sum>>
    /\ UNCHANGED <<regs, sc, aborted>>

sparse_cnn_finish(t) ==
    /\ \/ /\ Poll(t, done, "finish") /\ UNCHANGED sc
          /\ aborted' = (aborted \/ ~done)
       \/ /\ At(t, "finish") /\ sc' = [sc EXCEPT !.acc = regs] /\ Goto(t, "skip")
          /\ UNCHANGED <<lock, received, txbuf, chanVars, aborted>>
       \/ /\ At(t, "skip") /\ sc' = [sc EXCEPT !.skip = regs] /\ Publish(t)
          /\ UNCHANGED aborted
    /\ UNCHANGED devVars

sparse_cnn_result(t) ==
    Result(t, RESULT_BYTES, sc) /\ UNCHANGED <<devVars, sc, aborted>>

-----------------------------------------------------------------------------
Init == /\ TransportInit
        /\ state = "idle" /\ done = FALSE /\ en = TRUE
        /\ sum = <<>> /\ regs = <<>>
        /\ sc = Cleared /\ aborted = FALSE

Transport(t) == /\ TileStep(t)
                /\ aborted' = (aborted \/ ret'[t] = "ETIMEDOUT")
                /\ UNCHANGED <<devVars, sc>>

\* A thread's next step inside a call it has made.
Step(t) == \/ CallStep(t) /\ UNCHANGED <<devVars, sc, aborted>>
           \/ Transport(t)
           \/ sparse_cnn_accept(t) \/ sparse_cnn_start(t)
           \/ sparse_cnn_finish(t) \/ sparse_cnn_result(t)

\* What nobody owes a thread: a call it makes, a signal it gets.
Calls(t) == (FileCall(t) \/ Signal(t)) /\ UNCHANGED <<devVars, sc, aborted>>

Dma == BeatIn \/ (TxDone /\ UNCHANGED <<devVars, sc, aborted>>)

Next == (\E t \in Threads : Calls(t) \/ Step(t)) \/ Dma \/ Latch

Spec == Init /\ [][Next]_vars

-----------------------------------------------------------------------------
(* Properties                                                              *)

TypeOK ==
    /\ TransportTypeOK
    /\ req \in [Threads -> Writes \cup Reads \cup {NoCall}]
    /\ state \in {"idle", "run", "latch"}
    /\ done \in BOOLEAN /\ en \in BOOLEAN /\ aborted \in BOOLEAN

\* With the lock free the accelerator is idle or some wait timed out (164-179):
\* a tile that fails before it was started never leaves the FSM running, where
\* every later tile would be refused as busy.
OnlyTimeoutsWedge == lock = NoThread /\ state # "idle" => aborted

\* The result of a write: the accumulator and the skip count of its whole tile.
Reduced(r, p) ==
    LET whole == [i \in 1 .. beats(r) |-> Beat(r.tile, i)]
    IN  [acc |-> whole, skip |-> whole]

\* A tile is over when its second register has been read; what probe left
\* there is no result.
Settled == [acc |-> sc.skip, skip |-> sc.skip]
Results == IF Settled = Cleared THEN NoResult ELSE Settled
Got == [t \in Threads |-> IF got[t] = Cleared THEN NoResult ELSE got[t]]

Device == INSTANCE TileDevice WITH
    pending <- req,
    outcome <- Outcome,
    owner   <- Owner,
    param   <- 0,
    result  <- Results,
    got     <- Got,
    Params  <- {0},
    Stores  <- {},
    Compute <- Reduced,
    FORGETS <- FALSE

\* The driver implements the transactional device: read() returns accumulator
\* and skip count of the last tile whose write succeeded, both of that tile and
\* of all its beats, although transfers time out half way and are retried while
\* the accelerator still works on the tile before (sparse_cnn.c 53-105).
TilesAreTransactions == Device!Spec
=============================================================================
